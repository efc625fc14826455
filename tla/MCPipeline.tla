---------------------------- MODULE MCPipeline ----------------------------
(***************************************************************************)
(* Pipeline for TLC: the producer is a model value.                       *)
(***************************************************************************)
EXTENDS Pipeline
CONSTANT p1

OneProducer == {p1}
=============================================================================
