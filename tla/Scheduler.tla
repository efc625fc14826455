----------------------------- MODULE Scheduler -----------------------------
(***************************************************************************)
(* The MP3 kernel's scheduler (threads/scheduler.cc), the threads'         *)
(* lifecycle and ThreadStateController (threads/thread.cc), the timer      *)
(* interrupt (machine/timer.cc, threads/alarm.cc) and the lists of         *)
(* lib/list.cc as the ready queues use them.                               *)
(*                                                                         *)
(* Thread 0 is main, which forks the executables 1 .. NumExec and          *)
(* finishes.  The machine is a uniprocessor and a thread can lose it only  *)
(* where the code lets it: at a tick, in Sleep or in Finish.  Simulated    *)
(* time is kept relative: since[t] is totalTicks - tick_cache.             *)
(***************************************************************************)
EXTENDS Integers, Sequences, FiniteSets, SequencesExt

CONSTANTS NumExec,       \* execfileNum: the -ep options
          InitPriority,  \* InitPriority[t], set by -ep; INIT_PRIORITY for main
          execExit,      \* -ee was given
          TimerTicks,    \* ticks between timer interrupts
          AGING_TICK,    \* ticks of waiting that earn one priority boost
          MaxBurst,      \* bound: burst counters stop here
          MaxWaits,      \* bound: how often a thread may block
          Nobody         \* the NULL thread

Threads == 0 .. NumExec
main == 0

ASSUME SchedulerAssumption ==
    /\ NumExec \in Nat
    /\ InitPriority \in [Threads -> 0 .. 149]
    /\ execExit \in BOOLEAN
    /\ TimerTicks \in Nat \ {0} /\ AGING_TICK \in Nat \ {0}
    /\ MaxBurst \in Nat \ {0} /\ MaxWaits \in Nat
    /\ Nobody \notin Threads

\* remainBurstTime is kept in units of 1/Scale tick, so that the halvings of
\* runToWait are exact as long as a thread blocks at most MaxWaits times.
Scale == 2 ^ MaxWaits

\* Arithmetic, which the provers do not know of exponentiation.
ASSUME ScaleAssumption == Scale \in Nat \ {0}

VARIABLES th,         \* th[t]: status and the ThreadStateController of t
          ready,      \* ready[l]: the list L1, L2 or L3
          current,    \* kernel->currentThread
          at,         \* where PromoteThreads' iterator is
          promoting,  \* 3, 2: the list PromoteThreads walks; 1: the timer's handler
                      \* is done, others that are due may follow; 0: otherwise
          toTimer,    \* ticks to the next timer interrupt; at 0 it is due
          yieldOnReturn, \* Interrupt::YieldOnReturn was called
          idle,       \* Sleep found no thread and the machine idles
          place,      \* how far t got in Begin
          execRunningNum,
          machine     \* "on", "halted" (Interrupt::Halt) or "aborted" (ASSERT)

vars == <<th, ready, current, at, promoting, toTimer, yieldOnReturn, idle, place,
          execRunningNum, machine>>

---------------------------------------------------------------------------
(* Thread::ThreadStateController                                           *)

Least(a, b) == IF a <= b THEN a ELSE b

\* leaveRun
LeaveRun(r) == [r EXCEPT !.burst = Least(@ + r.since, MaxBurst), !.since = 0]

\* The status is set too late.
ToReadyStillRunning(r, t) == [r EXCEPT !.since = 0, !.priority = InitPriority[t]]

\* toReady, reached from every state a thread can become ready from.
ToReady(r, t) == [r EXCEPT !.status = "READY", !.since = 0, !.priority = InitPriority[t]]

RunToWait(r) ==
    LET b == LeaveRun(r)
    IN  [b EXCEPT !.status = "WAITING", !.waits = @ + 1,
                  !.remain = (Scale * b.burst + @) \div 2, !.burst = 0]

RunToTerminated(r) == [LeaveRun(r) EXCEPT !.status = "TERMINATED"]

ReadyToRunning(r) == [r EXCEPT !.status = "RUNNING", !.since = 0]

\* getRemainTime, in units of 1/Scale tick.
RemainTime(r) ==
    r.remain - Scale * (r.burst + (IF r.status = "RUNNING" THEN r.since ELSE 0))

\* compareTime(a, b) < 0 and > 0: the difference is cut to whole ticks.
TimeBefore(a, b) == RemainTime(b) - RemainTime(a) >= Scale
TimeAfter(a, b)  == TimeBefore(b, a)

\* comparePriority(a, b) < 0
PriorityBefore(a, b) == a.priority > b.priority

\* aging(), called for READY threads on every timer interrupt.
AgingUncapped(r) ==
    LET age == r.since \div AGING_TICK
    IN  [r EXCEPT !.since = @ - age * AGING_TICK, !.priority = @ + 10 * age]

AgingWraps(r) ==
    LET age == r.since \div AGING_TICK
    IN  [r EXCEPT !.since = @ - age * AGING_TICK, !.priority = (@ + 10 * age) % 150]

AgingForgetful(r) ==
    LET age == r.since \div AGING_TICK
    IN  [r EXCEPT !.since = 0, !.priority = Least(@ + 10 * age, 149)]

Aging(r) ==
    LET age == r.since \div AGING_TICK
    IN  [r EXCEPT !.since = @ - age * AGING_TICK, !.priority = Least(@ + 10 * age, 149)]

---------------------------------------------------------------------------
(* Scheduler::MultilevelThreadQueue                                        *)

\* getQueueLevel
LevelOf(r) == IF r.priority >= 100 THEN 1 ELSE IF r.priority >= 50 THEN 2 ELSE 3

\* SortedList::Insert: in front of the first element of `after', the threads
\* that compare orders after t.
SortedInsert(q, t, after) ==
    LET i == SelectInSeq(q, LAMBDA x : x \in after)
    IN  IF i = 0 THEN Append(q, t) ELSE InsertAt(q, i, t)

\* Append without the order of L1.
Appended(ths, q, t) ==
    LET l == LevelOf(ths[t])
    IN  [q EXCEPT ![l] =
          CASE l = 2 -> SortedInsert(@, t, {x \in ToSet(@) : PriorityBefore(ths[t], ths[x])})
            [] OTHER -> Append(@, t)]

\* L1 with the longest remaining time in front.
InsertedLongest(ths, q, t) ==
    LET l == LevelOf(ths[t])
    IN  [q EXCEPT ![l] =
          CASE l = 1 -> SortedInsert(@, t, {x \in ToSet(@) : TimeAfter(ths[t], ths[x])})
            [] l = 2 -> SortedInsert(@, t, {x \in ToSet(@) : PriorityBefore(ths[t], ths[x])})
            [] l = 3 -> Append(@, t)]

\* Append: L1 by remaining time, L2 by priority, L3 first in first out.
Inserted(ths, q, t) ==
    LET l == LevelOf(ths[t])
    IN  [q EXCEPT ![l] =
          CASE l = 1 -> SortedInsert(@, t, {x \in ToSet(@) : TimeBefore(ths[t], ths[x])})
            [] l = 2 -> SortedInsert(@, t, {x \in ToSet(@) : PriorityBefore(ths[t], ths[x])})
            [] l = 3 -> Append(@, t)]

IsEmpty(q) == \A l \in 1 .. 3 : q[l] = << >>

\* RemoveFront looks at L1, L2, L3 in this order.
FrontLevel(q) == IF q[1] # << >> THEN 1 ELSE IF q[2] # << >> THEN 2 ELSE 3
Front1(q) == Head(q[FrontLevel(q)])
FrontKept(q) == q
WithoutFront(q) == [q EXCEPT ![FrontLevel(q)] = Tail(@)]

\* The element after x in s, and the first element, NULL at the end.
First(s) == IF s = << >> THEN Nobody ELSE s[1]
NextIn(s, x) ==
    LET i == SelectInSeq(s, LAMBDA y : y = x)
    IN  IF i = Len(s) THEN Nobody ELSE s[i + 1]

\* ShouldPreempt, for the running thread r.
ShouldPreempt(r) ==
    \/ LevelOf(r) = 3
    \/ /\ ready[1] # << >>
       /\ LevelOf(r) = 2 \/ TimeAfter(r, th[Head(ready[1])])

---------------------------------------------------------------------------
(* The kernel starts with main running and nothing forked.                 *)

NewThread(t) == [status |-> "NEW", priority |-> InitPriority[t], since |-> 0,
                 burst |-> 0, remain |-> 0, waits |-> 0]

Init ==
    /\ th = [t \in Threads |-> IF t = main THEN [NewThread(t) EXCEPT !.status = "RUNNING"]
                               ELSE NewThread(t)]
    /\ ready = [l \in 1 .. 3 |-> << >>]
    /\ current = main
    /\ at = Nobody
    /\ promoting = 0
    /\ toTimer = TimerTicks
    /\ yieldOnReturn = FALSE
    /\ idle = FALSE
    /\ place = [t \in Threads |-> IF t = main THEN "body" ELSE "forked"]
    /\ execRunningNum = 0
    /\ machine = "on"

\* Interrupts are not being handled and the current thread has the processor.
Running == machine = "on" /\ toTimer # 0 /\ promoting = 0 /\ ~idle

---------------------------------------------------------------------------
(* Interrupt::OneTick: time passes, CheckIfDue calls the handlers that are  *)
(* due one after the other, and then the interrupted thread may yield.      *)

\* One tick passes; the counters of threads that are neither ready nor running
\* are reset before they are read.
Ticked(r) ==
    IF r.status = "READY" THEN [r EXCEPT !.since = @ + 1]
    ELSE IF r.status = "RUNNING" THEN [r EXCEPT !.since = Least(@ + 1, MaxBurst)]
    ELSE r

\* The tick, with the threads and lists ths and q.
OneTick(ths, q) ==
    /\ ready' = q
    /\ th' = [t \in Threads |-> Ticked(ths[t])]
    /\ toTimer' = toTimer - 1
    /\ UNCHANGED <<current, at, promoting, yieldOnReturn, idle, machine>>

\* Timer::CallBack and Alarm::CallBack: Scheduler::aging first ages every ready
\* thread and then lets PromoteThreads walk L3 and L2, one step of the model per
\* element.
TimerCallBack ==
    /\ machine = "on" /\ ~idle /\ promoting = 0 /\ toTimer = 0
    /\ toTimer' = TimerTicks
    /\ th' = [t \in Threads |-> IF th[t].status = "READY" THEN Aging(th[t]) ELSE th[t]]
    /\ promoting' = 3
    /\ at' = First(ready[3])
    /\ UNCHANGED <<ready, current, yieldOnReturn, idle, place, execRunningNum, machine>>

\* PromoteThreads at an element whose thread has risen.  Remove frees the
\* element the iterator stands on, and Append allocates one of the same size.
\* If that is the same memory, it.Next() follows the link of the list the
\* thread was moved to; otherwise it reads the old link from freed memory.
Promote ==
    /\ machine = "on" /\ promoting \in {2, 3} /\ at # Nobody
    /\ LevelOf(th[at]) < promoting
    /\ at \in ToSet(ready[promoting])
    /\ LET q == Inserted(th, [ready EXCEPT ![promoting] = RemoveFirst(@, at)], at)
       IN  /\ ready' = q
           /\ at' \in {NextIn(q[LevelOf(th[at])], at), NextIn(ready[promoting], at)}
    /\ UNCHANGED <<th, current, promoting, toTimer, yieldOnReturn, idle, place, execRunningNum,
                   machine>>

\* The iterator has left the list: Remove's ASSERT(IsInList(item)) fails.
PromoteAborts ==
    /\ machine = "on" /\ promoting \in {2, 3} /\ at # Nobody
    /\ LevelOf(th[at]) < promoting
    /\ at \notin ToSet(ready[promoting])
    /\ machine' = "aborted"
    /\ UNCHANGED <<th, ready, current, at, promoting, toTimer, yieldOnReturn, idle, place,
                   execRunningNum>>

\* The thread stays in its list.
PromoteSkips ==
    /\ machine = "on" /\ promoting \in {2, 3} /\ at # Nobody
    /\ LevelOf(th[at]) >= promoting
    /\ at' = NextIn(ready[promoting], at)
    /\ UNCHANGED <<th, ready, current, promoting, toTimer, yieldOnReturn, idle, place,
                   execRunningNum, machine>>

\* After L3 comes L2.
PromoteL2 ==
    /\ machine = "on" /\ promoting = 3 /\ at = Nobody
    /\ promoting' = 2
    /\ at' = First(ready[2])
    /\ UNCHANGED <<th, ready, current, toTimer, yieldOnReturn, idle, place, execRunningNum,
                   machine>>

\* Scheduler::Run: the processor goes to the front thread of q.
Run(ths, q) ==
    /\ current' = Front1(q)
    /\ th' = [ths EXCEPT ![Front1(q)] = ReadyToRunning(@)]
    /\ ready' = WithoutFront(q)

\* The end of Alarm::CallBack: it decides whether the thread must yield.
AlarmDecides ==
    /\ machine = "on" /\ promoting = 2 /\ at = Nobody
    /\ promoting' = 1
    /\ yieldOnReturn' = ShouldPreempt(th[current])
    /\ UNCHANGED <<th, ready, current, at, toTimer, idle, place, execRunningNum, machine>>

\* CheckIfDue's loop is over, and the interrupted thread yields if it was told
\* to, whatever the handlers called since have made ready.  Yield takes the next
\* thread off the lists before it puts this one on them.
InterruptReturns ==
    /\ machine = "on" /\ promoting = 1
    /\ promoting' = 0
    /\ yieldOnReturn' = FALSE
    /\ \/ /\ yieldOnReturn /\ ~IsEmpty(ready)
          /\ LET n   == Front1(ready)
                 ths == [th EXCEPT ![current] = ToReady(LeaveRun(@), current)]
             IN  /\ current' = n
                 /\ ready' = Inserted(ths, WithoutFront(ready), current)
                 /\ th' = [ths EXCEPT ![n] = ReadyToRunning(@)]
       \/ /\ ~yieldOnReturn \/ IsEmpty(ready)
          /\ UNCHANGED <<th, ready, current>>
    /\ UNCHANGED <<at, toTimer, idle, place, execRunningNum, machine>>

---------------------------------------------------------------------------
(* What the running thread does.                                           *)

\* Kernel::Exec in the loop of ExecAll: the executables are forked in order.
\* Fork re-enables interrupts, which takes a tick.
Fork(t) ==
    /\ Running /\ current = main
    /\ th[t].status = "NEW" /\ \A u \in 1 .. t - 1 : th[u].status # "NEW"
    /\ LET ths == [th EXCEPT ![t] = ToReady(@, t)]
       IN  OneTick(ths, Inserted(ths, ready, t))
    /\ UNCHANGED <<place, execRunningNum>>

\* Thread::Begin enables interrupts, which takes a tick, and counts the thread
\* only then: it may lose the processor in between.
BeginEnable ==
    /\ Running /\ place[current] = "forked"
    /\ place' = [place EXCEPT ![current] = "begun"]
    /\ OneTick(th, ready)
    /\ UNCHANGED execRunningNum

BeginCount ==
    /\ Running /\ place[current] = "begun"
    /\ place' = [place EXCEPT ![current] = "body"]
    /\ execRunningNum' = IF execExit THEN execRunningNum + 1 ELSE execRunningNum
    /\ UNCHANGED <<th, ready, current, at, promoting, toTimer, yieldOnReturn, idle, machine>>

\* A user instruction, or interrupts are enabled again in the kernel, also when
\* Yield returns to a thread that was preempted.
Tick ==
    /\ Running /\ place[current] # "forked"
    /\ OneTick(th, ready)
    /\ UNCHANGED <<place, execRunningNum>>

\* Thread::Sleep once the status is set: run the next thread, or idle.
SwitchAway(ths) ==
    \/ /\ ~IsEmpty(ready)
       /\ Run(ths, ready)
       /\ UNCHANGED idle
    \/ /\ IsEmpty(ready)
       /\ idle' = TRUE
       /\ th' = ths
       /\ UNCHANGED <<ready, current>>

\* Semaphore::P blocks the running thread (console and disk requests).
Sleep ==
    /\ Running /\ place[current] = "body" /\ current # main
    /\ th[current].waits < MaxWaits
    /\ SwitchAway([th EXCEPT ![current] = RunToWait(@)])
    /\ UNCHANGED <<at, promoting, toTimer, yieldOnReturn, place, execRunningNum, machine>>

\* Begin counts and Finish uncounts; Finish halts the machine at zero.
LastCounted == execRunningNum = 1

\* Thread::Finish of an executable (SC_Exit, or its procedure returns).
Finish ==
    /\ Running /\ place[current] = "body" /\ current # main
    /\ execRunningNum' = IF execExit THEN execRunningNum - 1 ELSE execRunningNum
    /\ \/ /\ execExit /\ LastCounted
          /\ machine' = "halted"
          /\ UNCHANGED <<th, ready, current, idle>>
       \/ /\ ~(execExit /\ LastCounted)
          /\ SwitchAway([th EXCEPT ![current] = RunToTerminated(@)])
          /\ UNCHANGED machine
    /\ UNCHANGED <<at, promoting, toTimer, yieldOnReturn, place>>

\* main finishes when ExecAll has forked everything.
MainFinish ==
    /\ Running /\ current = main
    /\ \A t \in Threads : th[t].status # "NEW"
    /\ SwitchAway([th EXCEPT ![main] = RunToTerminated(@)])
    /\ UNCHANGED <<at, promoting, toTimer, yieldOnReturn, place, execRunningNum, machine>>

\* Scheduler::ReadyToRun
ReadyToRun(t) ==
    /\ th' = [th EXCEPT ![t] = ToReady(@, t)]
    /\ ready' = Inserted(th', ready, t)

\* Semaphore::V for a waiting thread, by the running thread or by a device's
\* handler, which CheckIfDue may call before or after the timer's.
Wakeup(t) ==
    /\ machine = "on" /\ ~idle /\ promoting \in {0, 1}
    /\ th[t].status = "WAITING"
    /\ ReadyToRun(t)
    /\ UNCHANGED <<current, at, promoting, toTimer, yieldOnReturn, idle, place, execRunningNum,
                   machine>>

\* The same out of Interrupt::Idle, which moves the clock to the next interrupts
\* and handles all that are due.  Timer interrupts while the machine idles find
\* nothing to age.
IdleWakeup(t) ==
    /\ machine = "on" /\ idle
    /\ th[t].status = "WAITING"
    /\ ReadyToRun(t)
    /\ toTimer' \in IF IsEmpty(ready) THEN 1 .. TimerTicks ELSE {toTimer}
    /\ UNCHANGED <<current, at, promoting, yieldOnReturn, idle, place, execRunningNum, machine>>

\* Idle returns, and the loop in Sleep finds a thread.
IdleReturns ==
    /\ machine = "on" /\ idle /\ ~IsEmpty(ready)
    /\ Run(th, ready)
    /\ idle' = FALSE
    /\ UNCHANGED <<at, promoting, toTimer, yieldOnReturn, place, execRunningNum, machine>>

\* Halted, aborted, or idling with no thread that could ever wake.
Stopped ==
    /\ \/ machine # "on"
       \/ idle /\ \A t \in Threads : th[t].status \notin {"WAITING", "READY"}
    /\ UNCHANGED vars

Interrupts ==
    \/ TimerCallBack
    \/ Promote \/ PromoteAborts \/ PromoteSkips \/ PromoteL2
    \/ AlarmDecides \/ InterruptReturns

Next ==
    \/ Interrupts
    \/ \E t \in Threads \ {main} : Fork(t) \/ Wakeup(t) \/ IdleWakeup(t)
    \/ IdleReturns
    \/ BeginEnable \/ BeginCount \/ Tick
    \/ Sleep \/ Finish \/ MainFinish
    \/ Stopped

Spec == Init /\ [][Next]_vars

\* The processor executes: interrupt handlers return, a thread that has begun
\* gets through Begin, and instructions are executed.  Nothing obliges a
\* program to block, to finish or to be woken.
Fairness ==
    /\ WF_vars(Interrupts)
    /\ WF_vars(BeginEnable) /\ WF_vars(BeginCount)
    /\ WF_vars(Tick) /\ WF_vars(IdleReturns)

FairSpec == Spec /\ Fairness

---------------------------------------------------------------------------
(* What is checked.                                                        *)

Statuses == {"NEW", "READY", "RUNNING", "WAITING", "TERMINATED"}

\* Types of the state; in particular no priority leaves 0 .. 149 and no count
\* of running executables is negative.
TypeOK ==
    /\ th \in [Threads -> [status : Statuses, priority : 0 .. 149,
                           since : 0 .. MaxBurst + AGING_TICK + TimerTicks,
                           burst : 0 .. MaxBurst, remain : 0 .. Scale * MaxBurst,
                           waits : 0 .. MaxWaits]]
    /\ ready \in [1 .. 3 -> Seq(Threads)]
    /\ current \in Threads
    /\ at \in Threads \cup {Nobody}
    /\ promoting \in 0 .. 3
    /\ toTimer \in 0 .. TimerTicks
    /\ yieldOnReturn \in BOOLEAN
    /\ idle \in BOOLEAN
    /\ place \in [Threads -> {"forked", "begun", "body"}]
    /\ execRunningNum \in 0 .. NumExec
    /\ machine \in {"on", "halted", "aborted"}

\* A thread is on the ready lists exactly when it is READY, and then once on
\* one list only: no promotion, yield or wake-up loses or doubles a thread.
ReadyListed ==
    \A t \in Threads :
      Cardinality({p \in (1 .. 3) \X (1 .. NumExec + 1) :
                     p[2] <= Len(ready[p[1]]) /\ ready[p[1]][p[2]] = t})
        = IF th[t].status = "READY" THEN 1 ELSE 0

\* Exactly the current thread is RUNNING, except while the machine idles in a
\* thread that has blocked or finished.
OneRunning ==
    \A t \in Threads : th[t].status = "RUNNING" <=> t = current /\ ~idle

\* No thread is on a better list than its priority has earned: a priority only
\* rises while its thread is ready, and starts over (toReady) before the thread
\* is put on a list.
ListsRespectLevels == \A l \in 1 .. 3 : \A t \in ToSet(ready[l]) : LevelOf(th[t]) <= l

\* Anyone behind a thread in L1 needs at most one tick less than it: although
\* compareTime drops fractions of a tick and so is not transitive, the front of
\* L1 is within a tick of the shortest remaining time.
L1NearlySorted ==
    \A i, j \in 1 .. Len(ready[1]) :
      i < j => RemainTime(th[ready[1][j]]) > RemainTime(th[ready[1][i]]) - Scale

\* A running thread loses the processor only to a better one: from L1 only to
\* a thread in L1 with at least a tick less to run, from L2 only to L1 and never
\* to another of L2 (scheduler.h calls L2 "non-preemptive").  The decision is
\* taken in the timer's handler and carried out after handlers that may have put
\* other threads in front of the one it was taken for.
PreemptionStep ==
    th[current].status = "RUNNING" /\ th'[current].status = "READY" =>
      LET from == th[current]
          to   == th[current']
      IN  /\ LevelOf(from) = 2 => LevelOf(to) = 1
          /\ LevelOf(from) = 1 => LevelOf(to) = 1 /\ TimeBefore(to, from)

PreemptionOrder == [][PreemptionStep]_vars

\* Aging takes every thread that stays ready to L1, even when PromoteThreads'
\* walk is cut short, unless the kernel stops.
AgingReachesL1 ==
    \A t \in Threads :
      th[t].status = "READY" ~>
        (t \in ToSet(ready[1]) \/ th[t].status = "RUNNING" \/ machine # "on")

\* No list operation of the kernel fails its assertion (list.cc, Remove: "Must
\* be in the list!").
NoAssertionFails == machine # "aborted"

\* With -ee the kernel halts only when every executable has finished or is the
\* one finishing (kernel.cc: "To end the program after all the threads are
\* done").
HaltsWhenAllDone ==
    machine = "halted" =>
      \A t \in Threads \ {main} : th[t].status = "TERMINATED" \/ t = current

\* No ready thread waits for ever (thread.cc, aging: "to prevent starvation").
NoStarvation ==
    \A t \in Threads :
      th[t].status = "READY" ~> (th[t].status = "RUNNING" \/ machine # "on")
=============================================================================
