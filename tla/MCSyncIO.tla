------------------------------ MODULE MCSyncIO ------------------------------
(***************************************************************************)
(* SyncIO for TLC: the objects of a kernel with a few threads and one      *)
(* mailbox.                                                                *)
(***************************************************************************)
EXTENDS SyncIO

CONSTANTS t1, t2

UserOrder == <<t1, t2>>
AllThreads == {t1, t2, Worker}
AllLocks == Outputs \cup {"keyboard"} \cup Boxes
AllSemaphores ==
    ({"lock"} \X AllLocks) \cup ({"done"} \X (Outputs \cup {"keyboard", "mail"}))
        \cup ({"waiter"} \X AllThreads)

\* t1 calls again while t2's call may still be under way.
OneRepeats == [t \in AllThreads |-> CASE t = t1 -> 2 [] t = t2 -> 1 [] OTHER -> 0]
=============================================================================
