------------------------------ MODULE TSQueue ------------------------------
(***************************************************************************)
(* TSQueue<T> of NTHU-OS-Pthreads/ts_queue.hpp: a ring buffer guarded by   *)
(* one mutex, with cond_enqueue for callers blocked on a full buffer and   *)
(* cond_dequeue for callers blocked on an empty one.                       *)
(*                                                                         *)
(* The mutex is taken and given up in steps of their own, so every         *)
(* interleaving of the callers' critical sections is a behaviour, and the  *)
(* size is read without the mutex by get_size, as in the code.  A thread   *)
(* waiting on a condition variable is woken by a signal (which picks any   *)
(* waiter) or spuriously, which POSIX allows.                              *)
(***************************************************************************)
EXTENDS Integers, Sequences, FiniteSets

CONSTANTS Enqueuers,    \* threads that call enqueue, again and again
          Dequeuers,    \* threads that call dequeue, again and again
          Observers,    \* threads that call get_size (the controller)
          Items,        \* values of T
          Garbage,      \* what an uninitialised slot of `new T[...]' holds
          NoThread,     \* no holder of the mutex
          buffer_size   \* the constructor's argument

Threads == Enqueuers \cup Dequeuers

ASSUME QueueAssumption ==
    /\ buffer_size \in Nat \ {0}
    /\ NoThread \notin Threads
    /\ Garbage \notin Items
    /\ Enqueuers \cap Dequeuers = {}
    /\ IsFiniteSet(Enqueuers) /\ IsFiniteSet(Dequeuers)

VARIABLES buffer,       \* the ring, indexed from 0
          size,         \* number of queued items
          head,         \* index of the slot before the oldest item
          tail,         \* index of the slot the next item goes to
          mutex,        \* the thread that holds the mutex
          cond_enqueue, \* threads waiting for room
          cond_dequeue, \* threads waiting for an item
          pc,           \* where each caller is in enqueue or dequeue
          item,         \* argument of the running enqueue, result of the last dequeue
          seen          \* last result of get_size, per observer

vars == <<buffer, size, head, tail, mutex, cond_enqueue, cond_dequeue, pc, item, seen>>

Slots == 0 .. buffer_size - 1

\* "out":  not in a call           "lock": wants the mutex
\* "test": at the while condition  "wait": blocked in pthread_cond_wait
\* "copy": past the while loop     "signal": slot and indices updated
\* "unlock": signalled, about to release the mutex
Locations == {"out", "lock", "test", "wait", "copy", "signal", "unlock"}

\* The locations at which a caller holds the mutex.
Critical == {"test", "copy", "signal", "unlock"}

Goto(t, l) == pc' = [pc EXCEPT ![t] = l]

\* The tests of the two while loops, and the index arithmetic of the ring.
FullOffByOne == size > buffer_size
Full  == size = buffer_size
Empty == size = 0
Succ(i) == (i + 1) % buffer_size

\* TSQueue(int): head starts one before the first slot used.
FirstHeadZero == 0
FirstHead == buffer_size - 1

Init ==
    /\ buffer = [i \in Slots |-> Garbage]
    /\ size = 0
    /\ head = FirstHead
    /\ tail = 0
    /\ mutex = NoThread
    /\ cond_enqueue = {}
    /\ cond_dequeue = {}
    /\ pc = [t \in Threads |-> "out"]
    /\ item \in [Threads -> Items]
    /\ seen = [o \in Observers |-> 0]

---------------------------------------------------------------------------
(* Entering a call, and the mutex.                                         *)

CallEnqueue(t, v) ==
    /\ t \in Enqueuers
    /\ pc[t] = "out"
    /\ item' = [item EXCEPT ![t] = v]
    /\ Goto(t, "lock")
    /\ UNCHANGED <<buffer, size, head, tail, mutex, cond_enqueue, cond_dequeue, seen>>

CallDequeue(t) ==
    /\ t \in Dequeuers
    /\ pc[t] = "out"
    /\ Goto(t, "lock")
    /\ UNCHANGED <<buffer, size, head, tail, mutex, cond_enqueue, cond_dequeue, item, seen>>

\* pthread_mutex_lock, on entry and again inside pthread_cond_wait.
Lock(t) ==
    /\ pc[t] = "lock"
    /\ mutex = NoThread
    /\ mutex' = t
    /\ Goto(t, "test")
    /\ UNCHANGED <<buffer, size, head, tail, cond_enqueue, cond_dequeue, item, seen>>

Unlock(t) ==
    /\ pc[t] = "unlock"
    /\ mutex' = NoThread
    /\ Goto(t, "out")
    /\ UNCHANGED <<buffer, size, head, tail, cond_enqueue, cond_dequeue, item, seen>>

---------------------------------------------------------------------------
(* enqueue                                                                 *)

\* while (size == buffer_size) pthread_cond_wait(&cond_enqueue, &mutex)
EnqueueTest(t) ==
    /\ t \in Enqueuers
    /\ pc[t] = "test"
    /\ \/ /\ Full
          /\ cond_enqueue' = cond_enqueue \cup {t}
          /\ mutex' = NoThread
          /\ Goto(t, "wait")
       \/ /\ ~Full
          /\ Goto(t, "copy")
          /\ UNCHANGED <<mutex, cond_enqueue>>
    /\ UNCHANGED <<buffer, size, head, tail, cond_dequeue, item, seen>>

\* buffer[tail] = item; tail = (tail + 1) % buffer_size; size++
StoreAtHead == head
StoreSlot == tail

\* The mutex is released after the loop, before the slot is written.
EnqueueCopyUnlocked(t) ==
    /\ t \in Enqueuers
    /\ pc[t] = "copy"
    /\ buffer' = [buffer EXCEPT ![StoreSlot] = item[t]]
    /\ tail' = Succ(tail)
    /\ size' = size + 1
    /\ mutex' = NoThread
    /\ Goto(t, "signal")
    /\ UNCHANGED <<head, cond_enqueue, cond_dequeue, item, seen>>

EnqueueCopy(t) ==
    /\ t \in Enqueuers
    /\ pc[t] = "copy"
    /\ buffer' = [buffer EXCEPT ![StoreSlot] = item[t]]
    /\ tail' = Succ(tail)
    /\ size' = size + 1
    /\ Goto(t, "signal")
    /\ UNCHANGED <<head, mutex, cond_enqueue, cond_dequeue, item, seen>>

\* No signal is sent.
NotSignalled(waiters, t) == Goto(t, "unlock")

\* pthread_cond_signal releases one waiter, whichever it likes, if there is one.
Signalled(waiters, t) ==
    \/ waiters = {} /\ Goto(t, "unlock")
    \/ \E w \in waiters : pc' = [pc EXCEPT ![t] = "unlock", ![w] = "lock"]

\* pthread_cond_signal(&cond_dequeue)
EnqueueSignal(t) ==
    /\ t \in Enqueuers
    /\ pc[t] = "signal"
    /\ Signalled(cond_dequeue, t)
    /\ cond_dequeue' = {w \in cond_dequeue : pc'[w] = "wait"}
    /\ UNCHANGED <<buffer, size, head, tail, mutex, cond_enqueue, item, seen>>

---------------------------------------------------------------------------
(* dequeue                                                                 *)

\* while (size == 0) pthread_cond_wait(&cond_dequeue, &mutex)
DequeueTest(t) ==
    /\ t \in Dequeuers
    /\ pc[t] = "test"
    /\ \/ /\ Empty
          /\ cond_dequeue' = cond_dequeue \cup {t}
          /\ mutex' = NoThread
          /\ Goto(t, "wait")
       \/ /\ ~Empty
          /\ Goto(t, "copy")
          /\ UNCHANGED <<mutex, cond_dequeue>>
    /\ UNCHANGED <<buffer, size, head, tail, cond_enqueue, item, seen>>

\* head = (head + 1) % buffer_size; item = buffer[head]; size--
SizeNotLowered == size
SizeAfterDequeue == size - 1

DequeueCopy(t) ==
    /\ t \in Dequeuers
    /\ pc[t] = "copy"
    /\ head' = Succ(head)
    /\ item' = [item EXCEPT ![t] = buffer[Succ(head)]]
    /\ size' = SizeAfterDequeue
    /\ Goto(t, "signal")
    /\ UNCHANGED <<buffer, tail, mutex, cond_enqueue, cond_dequeue, seen>>

\* pthread_cond_signal(&cond_enqueue)
DequeueSignal(t) ==
    /\ t \in Dequeuers
    /\ pc[t] = "signal"
    /\ Signalled(cond_enqueue, t)
    /\ cond_enqueue' = {w \in cond_enqueue : pc'[w] = "wait"}
    /\ UNCHANGED <<buffer, size, head, tail, mutex, cond_dequeue, item, seen>>

---------------------------------------------------------------------------
(* The rest of the interface, and the wake-ups nobody asked for.           *)

\* get_size reads size without taking the mutex.
GetSize(o) ==
    /\ seen' = [seen EXCEPT ![o] = size]
    /\ UNCHANGED <<buffer, size, head, tail, mutex, cond_enqueue, cond_dequeue, pc, item>>

\* pthread_cond_wait may return although nobody signalled.
SpuriousWakeup(t) ==
    /\ pc[t] = "wait"
    /\ Goto(t, "lock")
    /\ cond_enqueue' = cond_enqueue \ {t}
    /\ cond_dequeue' = cond_dequeue \ {t}
    /\ UNCHANGED <<buffer, size, head, tail, mutex, item, seen>>

\* The steps a caller takes once it is inside a call.
Step(t) ==
    \/ Lock(t)
    \/ EnqueueTest(t) \/ EnqueueCopy(t) \/ EnqueueSignal(t)
    \/ DequeueTest(t) \/ DequeueCopy(t) \/ DequeueSignal(t)
    \/ Unlock(t)

Call(t) == (\E v \in Items : CallEnqueue(t, v)) \/ CallDequeue(t)

Next ==
    \/ \E t \in Threads : Call(t) \/ Step(t) \/ SpuriousWakeup(t)
    \/ \E o \in Observers : GetSize(o)

Spec == Init /\ [][Next]_vars

\* Every caller that can run eventually runs, and every caller comes back for
\* more: the operating system schedules each pthread, and the pipeline's
\* threads call the queues in endless loops.  A mutex is not assumed to be fair
\* among the threads that want it.
Fairness == \A t \in Threads : WF_vars(Call(t)) /\ WF_vars(Step(t))

FairSpec == Spec /\ Fairness

---------------------------------------------------------------------------
(* What is checked.                                                        *)

\* Types of the state; a dequeued value may be Garbage as far as types go.
TypeOK ==
    /\ buffer \in [Slots -> Items \cup {Garbage}]
    /\ size \in 0 .. buffer_size
    /\ head \in Slots
    /\ tail \in Slots
    /\ mutex \in Threads \cup {NoThread}
    /\ cond_enqueue \subseteq Enqueuers
    /\ cond_dequeue \subseteq Dequeuers
    /\ pc \in [Threads -> Locations]
    /\ item \in [Threads -> Items \cup {Garbage}]
    /\ seen \in [Observers -> 0 .. buffer_size]

\* Whoever is between the lock and the unlock of enqueue or dequeue holds the
\* mutex, on every path through the loop, the waits, the copy and the signal:
\* two callers are never inside together, and nobody leaves with the mutex.
MutualExclusion == \A t \in Threads : pc[t] \in Critical <=> mutex = t

\* A thread blocked in pthread_cond_wait is on the list that the other side
\* signals: no thread sleeps where nobody will look for it.
WaitersListed ==
    \A t \in Threads : pc[t] = "wait" <=> t \in cond_enqueue \cup cond_dequeue

\* head, tail and size, each updated by its own statement of enqueue and
\* dequeue, agree: `size' slots separate them around the ring, at every size
\* from 0 to buffer_size (where head and tail alone cannot tell full from empty).
RingConsistent == tail = (head + (size + 1)) % buffer_size

\* Between head and tail there are only values some enqueue stored: dequeue
\* never returns a slot that `new T[buffer_size]' left uninitialised.
NoGarbage ==
    /\ \A i \in 1 .. size : buffer[(head + i) % buffer_size] \in Items
    /\ \A t \in Threads : item[t] \in Items

At(S, locations) == {t \in S : pc[t] \in locations}

\* While a dequeue sleeps, each queued item has a caller of its own that will
\* take it or announce it: a dequeuer already awake, or an enqueuer that has
\* stored but not yet signalled.  So one signal per item is enough.
NoLostItemWakeup ==
    cond_dequeue # {} =>
      size <= Cardinality(At(Dequeuers, {"lock", "test", "copy"}))
              + Cardinality(At(Enqueuers, {"signal"}))

\* The same for room in the buffer and the enqueues that sleep for it.
NoLostRoomWakeup ==
    cond_enqueue # {} =>
      buffer_size - size <= Cardinality(At(Enqueuers, {"lock", "test", "copy"}))
                            + Cardinality(At(Dequeuers, {"signal"}))

\* The queued items, oldest first, as the ring holds them.
Contents == [i \in 1 .. size |-> buffer[(head + i) % buffer_size]]

FIFO == INSTANCE BoundedFIFO WITH Capacity <- buffer_size, queue <- Contents

\* The ring buffer behaves as a bounded first-in first-out queue whose
\* operations happen at one instant, however the callers interleave.
ImplementsFIFO == FIFO!Spec

WokenForever == []<><<\E t \in Threads : SpuriousWakeup(t)>>_vars

\* As long as both sides keep calling, enqueues and dequeues go on completing:
\* the threads never all sleep, and no thread needs the mutex to be fair.  The
\* exception is a run with spurious wake-ups without end.
QueueProgress ==
    \/ WokenForever
    \/ /\ []<>(\E t \in Enqueuers : pc[t] = "unlock")
       /\ []<>(\E t \in Dequeuers : pc[t] = "unlock")
=============================================================================
