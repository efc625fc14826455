----------------------------- MODULE MCTSQueue -----------------------------
(***************************************************************************)
(* TSQueue for TLC: the callers' names are model values.                   *)
(***************************************************************************)
EXTENDS TSQueue
CONSTANTS e1, e2, d1, d2, controller, x, y

TwoEnqueuers == {e1, e2}
TwoDequeuers == {d1, d2}
Controller   == {controller}
TwoItems     == {x, y}
=============================================================================
