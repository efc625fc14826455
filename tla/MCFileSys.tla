----------------------------- MODULE MCFileSys -----------------------------
(***************************************************************************)
(* FileSys for TLC: what is written to and copied into files, and the      *)
(* sizes of new files.                                                     *)
(***************************************************************************)
EXTENDS FileSys

\* Three bytes take a sector and a half, and two headers.
OneBuffer == {<<"x", "y", "x">>}
OddSizes == {-1, 3}

SymmetricNames == Permutations(Names)
=============================================================================
