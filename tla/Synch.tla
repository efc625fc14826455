------------------------------- MODULE Synch -------------------------------
(***************************************************************************)
(* Semaphores, locks and condition variables (threads/synch.cc) on the     *)
(* uniprocessor that runs them: the ready list, Thread::Sleep and ::Yield, *)
(* the timer and the idle loop.  SyncIO.tla builds the synchronous device  *)
(* calls and the mailboxes from these operations.                          *)
(*                                                                         *)
(* A thread runs with interrupts off inside P, V and Sleep, and time       *)
(* passes only when SetLevel turns them on again, so one step of a thread  *)
(* goes from one such tick to the next, or to Sleep.                       *)
(***************************************************************************)
EXTENDS Naturals, Sequences, FiniteSets

CONSTANTS Threads,     \* the threads of the machine
          Semaphores,  \* every Semaphore object
          Locks,       \* <<"lock", l>> is the semaphore of Lock l
          Nobody       \* the NULL thread

ASSUME SynchAssumption ==
    /\ {"lock"} \X Locks \subseteq Semaphores
    /\ Nobody \notin Threads

VARIABLES version,     \* "MP1" or "MP4": whose Sleep and whose devices
          sem,         \* sem[s]: the value and the queue of semaphore s
          lockHolder,  \* lockHolder[l]
          waitQueue,   \* waitQueue[l]: the threads in Wait on the condition with lock l
          ready,       \* readyList, first in first out
          running,     \* currentThread, Nobody while the machine idles
          slept,       \* threads inside P that went to Sleep: interrupts are off when they run
          timer,       \* a timer interrupt is pending
          ended,       \* PrepareToEnd was called
          pc,          \* pc[t]: where t is between two ticks
          machine      \* "on", "halted" or "aborted" (an ASSERT failed)

synchVars == <<version, sem, lockHolder, waitQueue, ready, running, slept, timer, ended, pc, machine>>

---------------------------------------------------------------------------
(* Threads and the processor                                               *)

\* The timer and the keyboard are disabled as soon as no thread is ready, not
\* only when all are done.  MP1 has no such call.
PrepareToEnd == ended' = (ended \/ version = "MP4")

\* The caller was put on a queue or is done: the first ready thread runs, and
\* without one the machine idles.
Sleep ==
    IF ready # << >>
    THEN /\ running' = Head(ready)
         /\ ready' = Tail(ready)
         /\ UNCHANGED ended
    ELSE /\ running' = Nobody
         /\ PrepareToEnd
         /\ UNCHANGED ready

\* Interrupts can fire: at a tick of the running thread or while idling.
IntOn == machine = "on" /\ running \notin slept

\* Sleep's loop finds the thread that an interrupt made ready.
IdleReturns ==
    /\ machine = "on" /\ running = Nobody /\ ready # << >>
    /\ running' = Head(ready)
    /\ ready' = Tail(ready)
    /\ UNCHANGED <<version, sem, lockHolder, waitQueue, slept, timer, ended, pc, machine>>

\* The timer is rearmed unless disabled, and the interrupted thread yields.
TimerInterrupt ==
    /\ IntOn /\ timer
    /\ timer' = ~ended
    /\ IF running # Nobody /\ ready # << >>
       THEN /\ running' = Head(ready)
            /\ ready' = Append(Tail(ready), running)
       ELSE UNCHANGED <<running, ready>>
    /\ UNCHANGED <<version, sem, lockHolder, waitQueue, slept, ended, pc, machine>>

---------------------------------------------------------------------------
(* Semaphores                                                              *)

NewSemaphore(n) == [value |-> n, queue |-> << >>]

\* The value is tested once: a thread that slept takes what it finds.
EnoughIf(t, s) == sem[s].value > 0 \/ t \in slept
\* The loop's condition, tested again after every Sleep.
Enough(t, s) == sem[s].value > 0

\* P by the running thread t: past it, t is at `taken'; asleep, at `asleep'.
P(t, s, asleep, taken) ==
    IF Enough(t, s)
    THEN /\ sem' = [sem EXCEPT ![s].value = @ - 1]
         /\ slept' = slept \ {t}
         /\ pc' = [pc EXCEPT ![t] = taken]
         /\ UNCHANGED <<ready, running, ended>>
    ELSE /\ sem' = [sem EXCEPT ![s].queue = Append(@, t)]
         /\ slept' = slept \cup {t}
         /\ pc' = [pc EXCEPT ![t] = asleep]
         /\ Sleep

\* The front waiter becomes ready before the value is counted up.
VNoWakeup(s) ==
    /\ sem' = [sem EXCEPT ![s].value = @ + 1]
    /\ UNCHANGED ready
V(s) ==
    LET q == sem[s].queue
    IN  /\ sem' = [sem EXCEPT ![s] = [value |-> @.value + 1,
                                      queue |-> IF q = << >> THEN q ELSE Tail(q)]]
        /\ ready' = IF q = << >> THEN ready ELSE Append(ready, Head(q))

---------------------------------------------------------------------------
(* Locks and conditions.  Acquire is P(<<"lock", l>>, ...) followed, in    *)
(* the step after its tick, by HoldLock.                                   *)

HoldLockForgotten(t, l) == lockHolder
HoldLock(t, l) == [lockHolder EXCEPT ![l] = t]

Release(l) ==
    /\ lockHolder' = [lockHolder EXCEPT ![l] = Nobody]
    /\ V(<<"lock", l>>)

\* Wait up to the new semaphore's P: the waiter is queued, then the lock is
\* released.  The P and the second Acquire are steps of their own.
Wait(t, l) ==
    /\ waitQueue' = [waitQueue EXCEPT ![l] = Append(@, t)]
    /\ Release(l)

\* The waiter stays queued.
SignalKeeps(l) == UNCHANGED waitQueue /\ V(<<"waiter", Head(waitQueue[l])>>)
\* Signal wakes the first waiter.
Signal(l) ==
    /\ waitQueue' = [waitQueue EXCEPT ![l] = Tail(@)]
    /\ V(<<"waiter", Head(waitQueue[l])>>)
=============================================================================
