---------------------------- MODULE MCScheduler ----------------------------
(***************************************************************************)
(* Scheduler for TLC: the priorities of main and of the executables.       *)
(***************************************************************************)
EXTENDS Scheduler

\* main has INIT_PRIORITY 0; one executable starts in L1, one in L2.
MixedPriorities == 0 :> 0 @@ 1 :> 100 @@ 2 :> 90
=============================================================================
