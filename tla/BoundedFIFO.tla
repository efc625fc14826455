---------------------------- MODULE BoundedFIFO ----------------------------
(***************************************************************************)
(* What a TSQueue promises its callers: a bounded first-in first-out       *)
(* queue.  An enqueue appends the caller's item, a dequeue hands the       *)
(* caller the oldest item, and both happen at one instant.  TSQueue.tla    *)
(* implements this with a ring buffer, a mutex and two condition           *)
(* variables; Pipeline.tla is built on this abstraction.                   *)
(***************************************************************************)
EXTENDS Naturals, Sequences

CONSTANTS Threads,   \* the threads that share the queue
          Items,     \* what can be queued
          Capacity   \* the constructor's buffer_size

VARIABLES queue,     \* the queued items, oldest first
          item       \* item[t]: the argument or the result of t's last call

vars == <<queue, item>>

\* A caller picks what it will enqueue next; the queue is not involved.
Offer(t, v) ==
    /\ item' = [item EXCEPT ![t] = v]
    /\ UNCHANGED queue

Enqueue(t) ==
    /\ Len(queue) < Capacity
    /\ queue' = Append(queue, item[t])
    /\ UNCHANGED item

Dequeue(t) ==
    /\ queue # << >>
    /\ item' = [item EXCEPT ![t] = Head(queue)]
    /\ queue' = Tail(queue)

Init == /\ queue = << >>
        /\ item \in [Threads -> Items]

Next == \E t \in Threads :
          \/ \E v \in Items : Offer(t, v)
          \/ Enqueue(t)
          \/ Dequeue(t)

Spec == Init /\ [][Next]_vars
=============================================================================
