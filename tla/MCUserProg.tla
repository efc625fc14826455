----------------------------- MODULE MCUserProg -----------------------------
(***************************************************************************)
(* UserProg for TLC: three executables, one with a .rdata section, of      *)
(* which not all fit into memory in every order.                           *)
(***************************************************************************)
EXTENDS UserProg, TLC

CONSTANTS p, q, r

Sizes == [x \in Programs |-> IF x = q THEN 2 ELSE 1]
RodataInQ == [x \in Programs |-> IF x = q THEN 0 ELSE -1]
Alike == Permutations({p, r})
=============================================================================
