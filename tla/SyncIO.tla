------------------------------- MODULE SyncIO -------------------------------
(***************************************************************************)
(* The kernel's synchronous input and output on top of Synch.tla:          *)
(* SynchDisk, SynchConsoleInput and SynchConsoleOutput, the post office    *)
(* with its mailboxes (SynchList) and postal worker, and the devices'      *)
(* interrupts.  User thread t makes at most MaxCalls[t] calls, in every    *)
(* order.  The MP1 kernel has the network and PutInt, the MP4 kernel the   *)
(* disk and a Sleep that calls PrepareToEnd.                               *)
(*                                                                         *)
(* pc[t]: "user" outside a call; "acquire" in Lock::Acquire; "inside" just *)
(* past it; "wait" for the device or, off the lock, for mail; "release"    *)
(* before Lock::Release; "worker" in the postal worker's wait for mail.    *)
(***************************************************************************)
EXTENDS Synch, Functions

CONSTANTS Users,     \* the threads that make calls, in the order they are forked
          Worker,    \* the postal worker
          Boxes,     \* the mailboxes
          MaxCalls,  \* bound: MaxCalls[t] calls of thread t
          MaxKeys,   \* bound: characters typed
          MaxMail,   \* bound: packets that arrive
          NoMail     \* an empty packet buffer

Outputs == {"disk", "display", "network"}

ASSUME SyncIOAssumption ==
    /\ Users \in Seq(Threads) /\ Users # << >>
    /\ \A i, j \in DOMAIN Users : Users[i] = Users[j] => i = j
    /\ Threads = Range(Users) \cup {Worker} /\ Worker \notin Range(Users)
    /\ Boxes \cap (Outputs \cup {"keyboard", "mail", "none"}) = {}
    /\ Locks = Outputs \cup {"keyboard"} \cup Boxes
    /\ Semaphores = ({"lock"} \X Locks) \cup ({"done"} \X (Outputs \cup {"keyboard", "mail"}))
                       \cup ({"waiter"} \X Threads)
    /\ MaxCalls \in [Threads -> Nat] /\ MaxKeys \in Nat /\ MaxMail \in Nat
    /\ NoMail \notin [to : Boxes, id : 1 .. MaxMail]

VARIABLES call,      \* call[t]: the lock of the device or box t uses
          calls,     \* calls[t]: how many calls t has begun
          left,      \* left[t]: characters t's call has still to put
          active,    \* the devices at work, their interrupts pending
          polling,   \* a poll of the keyboard is pending
          incoming,  \* the character that came in, 0 for EOF
          typed,     \* characters typed so far
          inHdr,     \* the network's packet buffer
          buffer,    \* the postal worker's copy of the packet
          box,       \* box[b]: the list of box b
          nextId     \* number of the next packet

ioVars == <<call, calls, left, active, polling, incoming, typed, inHdr, buffer, box, nextId>>
inputVars == <<polling, incoming, typed, inHdr, buffer, box, nextId>>
vars == <<synchVars, ioVars>>

\* What is in use in each kernel.
Callable == IF version = "MP1" THEN {"display", "keyboard", "network"} \cup Boxes
                               ELSE {"disk", "display", "keyboard"}

\* PutInt puts a digit and the end of line.
Characters(l) == IF l = "display" /\ version = "MP1" THEN {1, 2} ELSE {1}

InitialOne(s) == IF s[1] \in {"lock", "done"} THEN 1 ELSE 0
\* Locks are free; nothing is done, no character or mail available.
InitialValue(s) == IF s[1] = "lock" THEN 1 ELSE 0

Init ==
    /\ version \in {"MP1", "MP4"}
    /\ sem = [s \in Semaphores |-> NewSemaphore(InitialValue(s))]
    /\ lockHolder = [l \in Locks |-> Nobody]
    /\ waitQueue = [l \in Locks |-> << >>]
    /\ running = Head(Users)
    /\ ready = IF version = "MP1" THEN <<Worker>> \o Tail(Users) ELSE Tail(Users)
    /\ slept = {} /\ timer = TRUE /\ ended = FALSE /\ machine = "on"
    /\ pc = [t \in Threads |-> IF t # Worker THEN "user"
                             ELSE IF version = "MP1" THEN "worker" ELSE "finished"]
    /\ call = [t \in Threads |-> "none"]
    /\ calls = [t \in Threads |-> 0]
    /\ left = [t \in Threads |-> 0]
    /\ active = {} /\ polling = TRUE /\ incoming = 0 /\ typed = 0
    /\ inHdr = NoMail /\ buffer = NoMail
    /\ box = [b \in Boxes |-> << >>] /\ nextId = 1

---------------------------------------------------------------------------
(* Calls                                                                   *)

Runs(t, label) == machine = "on" /\ running = t /\ pc[t] = label

Goes(t, label) == pc' = [pc EXCEPT ![t] = label]

\* ReadSector, WriteSector, PutChar, PutInt, GetChar, Send and Receive begin
\* with Lock::Acquire.
Call(t) ==
    /\ Runs(t, "user") /\ t # Worker
    /\ calls[t] < MaxCalls[t]
    /\ \E l \in Callable : \E n \in Characters(l) :
          /\ call' = [call EXCEPT ![t] = l]
          /\ left' = [left EXCEPT ![t] = n]
          /\ P(t, <<"lock", l>>, "acquire", "inside")
    /\ calls' = [calls EXCEPT ![t] = @ + 1]
    /\ UNCHANGED <<version, lockHolder, waitQueue, timer, machine, active, inputVars>>

Acquire(t) ==
    /\ Runs(t, "acquire")
    /\ P(t, <<"lock", call[t]>>, "acquire", "inside")
    /\ UNCHANGED <<version, lockHolder, waitQueue, timer, machine, ioVars>>

Finish(t) ==
    /\ Runs(t, "user") /\ t # Worker
    /\ Goes(t, "finished")
    /\ Sleep
    /\ UNCHANGED <<version, sem, lockHolder, waitQueue, slept, timer, machine, ioVars>>

\* ASSERT(FALSE): the machine stops.
Aborts == machine' = "aborted" /\ UNCHANGED <<version, sem, lockHolder, waitQueue, ready,
                                              running, slept, timer, ended, pc, ioVars>>

\* One turn too many.
AfterDonePast(n) == IF n < 0 THEN "release" ELSE "inside"
\* Past the last character the lock can be released.
AfterDone(n) == IF n = 0 THEN "release" ELSE "inside"

\* ReadRequest, WriteRequest and the devices' PutChar and Send, then P for
\* the answer.  The network checks a flag that is never set.
BusyDevice(l) == l # "network" /\ l \in active

Request(t) ==
    /\ Runs(t, "inside") /\ call[t] \in Outputs
    /\ IF BusyDevice(call[t]) THEN Aborts ELSE
          /\ lockHolder' = HoldLock(t, call[t])
          /\ active' = active \cup {call[t]}
          /\ left' = [left EXCEPT ![t] = @ - 1]
          /\ P(t, <<"done", call[t]>>, "wait", AfterDone(left[t] - 1))
          /\ UNCHANGED <<version, waitQueue, timer, machine, call, calls, inputVars>>

AwaitKey(t) ==
    /\ Runs(t, "inside") /\ call[t] = "keyboard"
    /\ lockHolder' = HoldLock(t, call[t])
    /\ P(t, <<"done", "keyboard">>, "wait", "release")
    /\ UNCHANGED <<version, waitQueue, timer, machine, ioVars>>

\* The device's interrupt has readied t.
Answered(t) ==
    /\ Runs(t, "wait") /\ call[t] \in Outputs \cup {"keyboard"}
    /\ P(t, <<"done", call[t]>>, "wait",
         IF call[t] = "keyboard" THEN "release" ELSE AfterDone(left[t]))
    /\ UNCHANGED <<version, lockHolder, waitQueue, timer, machine, ioVars>>

\* The end of a call: Lock::Release by its holder.  Before it GetChar takes
\* the character and polls for the next one, unless there was EOF.
ReleaseLock(t) ==
    /\ Runs(t, "release")
    /\ IF lockHolder[call[t]] # t THEN Aborts ELSE
          /\ IF call[t] = "keyboard"
             THEN polling' = (polling \/ incoming # 0) /\ incoming' = 0
             ELSE UNCHANGED <<polling, incoming>>
          /\ Release(call[t])
          /\ Goes(t, IF t = Worker THEN "worker" ELSE "user")
          /\ UNCHANGED <<version, waitQueue, running, slept, timer, ended, machine, call, calls,
                         left, active, typed, inHdr, buffer, box, nextId>>

---------------------------------------------------------------------------
(* Mail                                                                    *)

\* PostalDelivery waits for a packet, takes it and puts it into its box.
AwaitMail(t) ==
    /\ Runs(t, "worker")
    /\ P(t, <<"done", "mail">>, "worker", "sort")
    /\ UNCHANGED <<version, lockHolder, waitQueue, timer, machine, ioVars>>

Sort(t) ==
    /\ Runs(t, "sort")
    /\ buffer' = IF inHdr = NoMail THEN buffer ELSE inHdr
    /\ inHdr' = NoMail
    /\ call' = [call EXCEPT ![t] = buffer'.to]
    /\ P(t, <<"lock", buffer'.to>>, "acquire", "inside")
    /\ UNCHANGED <<version, lockHolder, waitQueue, timer, machine, calls, left, active,
                   polling, incoming, typed, box, nextId>>

\* Signal only for the first item of the list.
SignalsFirst(b) == box[b] = << >> /\ waitQueue[b] # << >>
Signals(b) == waitQueue[b] # << >>

\* SynchList::Append: with no one to signal, on to Release.
Put(t) ==
    /\ Runs(t, "inside") /\ t = Worker
    /\ LET b == call[t]
       IN  /\ box' = [box EXCEPT ![b] = Append(@, buffer.id)]
           /\ IF Signals(b)
              THEN /\ lockHolder' = HoldLock(t, b)
                   /\ Signal(b)
                   /\ Goes(t, "release")
              ELSE /\ Release(b)
                   /\ Goes(t, "worker")
                   /\ UNCHANGED waitQueue
    /\ UNCHANGED <<version, running, slept, timer, ended, machine, call, calls, left, active,
                   polling, incoming, typed, inHdr, buffer, nextId>>

\* SynchList::RemoveFront with the lock: an empty list makes t wait.
Get(t) ==
    /\ Runs(t, "inside") /\ t # Worker /\ call[t] \in Boxes
    /\ LET b == call[t]
       IN  IF box[b] = << >>
           THEN /\ Wait(t, b)
                /\ Goes(t, "wait")
                /\ UNCHANGED box
           ELSE /\ box' = [box EXCEPT ![b] = Tail(@)]
                /\ Release(b)
                /\ Goes(t, "user")
                /\ UNCHANGED waitQueue
    /\ UNCHANGED <<version, running, slept, timer, ended, machine, call, calls, left, active,
                   polling, incoming, typed, inHdr, buffer, nextId>>

\* Wait's P on its own semaphore, then Acquire once more.
AwaitSignal(t) ==
    /\ Runs(t, "wait") /\ call[t] \in Boxes
    /\ P(t, <<"waiter", t>>, "wait", "acquire")
    /\ UNCHANGED <<version, lockHolder, waitQueue, timer, machine, ioVars>>

---------------------------------------------------------------------------
(* Interrupts                                                              *)

Interrupted == UNCHANGED <<version, lockHolder, waitQueue, running, slept, timer, ended, pc,
                           call, calls, left, buffer, box>>

\* The devices' CallBack: no longer active, and V.
OutputInterrupt(d) ==
    /\ IntOn /\ d \in active
    /\ active' = active \ {d}
    /\ V(<<"done", d>>)
    /\ Interrupted /\ UNCHANGED <<machine, polling, incoming, typed, inHdr, nextId>>

\* ConsoleInput::CallBack polls no more until GetChar takes the character.  A
\* disabled console stops polling, a poll that finds nothing changes nothing,
\* and at the end of the input (or for the byte 0xFF, which equals EOF) no
\* character comes but V is called.
KeyboardInterrupt ==
    /\ IntOn /\ polling
    /\ IF incoming # 0
       THEN /\ machine' = "aborted"
            /\ UNCHANGED <<sem, ready, polling, incoming, typed>>
       ELSE /\ UNCHANGED machine
            /\ polling' = FALSE
            /\ IF ended
               THEN UNCHANGED <<sem, ready, incoming, typed>>
               ELSE /\ V(<<"done", "keyboard">>)
                    /\ \/ /\ typed < MaxKeys
                          /\ typed' = typed + 1
                          /\ incoming' = typed + 1
                       \/ UNCHANGED <<incoming, typed>>
    /\ Interrupted /\ UNCHANGED <<active, inHdr, nextId>>

OverwritesInbox == TRUE
\* A packet stays in the socket while another is buffered.
InboxFree == inHdr = NoMail

\* NetworkInput::CallBack, which always polls again.
NetworkInterrupt ==
    /\ IntOn /\ version = "MP1"
    /\ InboxFree /\ nextId <= MaxMail
    /\ \E b \in Boxes : inHdr' = [to |-> b, id |-> nextId]
    /\ nextId' = nextId + 1
    /\ V(<<"done", "mail">>)
    /\ Interrupted /\ UNCHANGED <<machine, active, polling, incoming, typed>>

\* Interrupt::Idle with nothing pending.
Halt ==
    /\ machine = "on" /\ running = Nobody /\ ready = << >>
    /\ active = {} /\ ~polling /\ ~timer /\ version = "MP4"
    /\ machine' = "halted"
    /\ UNCHANGED <<version, sem, lockHolder, waitQueue, ready, running, slept, timer, ended, pc,
                   ioVars>>

ThreadStep == \E t \in Threads :
    \/ Call(t) \/ Acquire(t) \/ Finish(t) \/ Request(t) \/ AwaitKey(t) \/ Answered(t)
    \/ ReleaseLock(t) \/ AwaitMail(t) \/ Sort(t) \/ Put(t) \/ Get(t) \/ AwaitSignal(t)

Next ==
    \/ ThreadStep
    \/ IdleReturns /\ UNCHANGED ioVars
    \/ TimerInterrupt /\ UNCHANGED ioVars
    \/ \E d \in Outputs : OutputInterrupt(d)
    \/ KeyboardInterrupt
    \/ NetworkInterrupt
    \/ Halt

\* Time passes with every tick and while idling, so what a device has been
\* asked for is done some day; a poll need not find anything.
Spec == /\ Init /\ [][Next]_vars
        /\ WF_vars(ThreadStep) /\ WF_vars(IdleReturns /\ UNCHANGED ioVars)
        /\ \A d \in Outputs : WF_vars(OutputInterrupt(d))

---------------------------------------------------------------------------
(* Properties                                                              *)

Labels == {"user", "acquire", "inside", "wait", "release", "worker", "sort", "finished"}
Mail == [to : Boxes, id : 1 .. MaxMail]

\* Every variable has its type.
TypeOK ==
    /\ version \in {"MP1", "MP4"} /\ machine \in {"on", "halted", "aborted"}
    /\ sem \in [Semaphores -> [value : Nat, queue : Seq(Threads)]]
    /\ lockHolder \in [Locks -> Threads \cup {Nobody}]
    /\ waitQueue \in [Locks -> Seq(Threads)]
    /\ ready \in Seq(Threads) /\ running \in Threads \cup {Nobody} /\ slept \subseteq Threads
    /\ timer \in BOOLEAN /\ ended \in BOOLEAN
    /\ pc \in [Threads -> Labels]
    /\ call \in [Threads -> Locks \cup {"none"}] 
    /\ calls \in [Threads -> Nat] /\ \A t \in Threads : calls[t] <= MaxCalls[t]
    /\ left \in [Threads -> 0 .. 2]
    /\ active \subseteq Outputs /\ polling \in BOOLEAN
    /\ typed \in 0 .. MaxKeys /\ incoming \in 0 .. MaxKeys
    /\ inHdr \in Mail \cup {NoMail} /\ buffer \in Mail \cup {NoMail}
    /\ box \in [Boxes -> Seq(1 .. MaxMail)] /\ nextId \in 1 .. MaxMail + 1

\* The threads between Acquire and Release of l; a thread in Condition::Wait
\* is outside.
Inside(l) == {t \in Threads : /\ call[t] = l
                              /\ \/ pc[t] \in {"inside", "release"}
                                 \/ pc[t] = "wait" /\ l \notin Boxes}

\* Lock::Acquire and Release (synch.cc): at most one thread is past Acquire,
\* none while the semaphore is up, and lockHolder names no other thread.
OneInside == \A l \in Locks :
    /\ Cardinality(Inside(l)) <= 1
    /\ sem[<<"lock", l>>].value = IF Inside(l) = {} THEN 1 ELSE 0
    /\ lockHolder[l] \in Inside(l) \cup {Nobody}

\* SynchDisk and SynchConsoleOutput return, and release the device, only
\* after the interrupt for their own request; no answer is left over for the
\* next caller (synchdisk.cc, synchconsole.cc: wait for interrupt).
OwnAnswer == \A t \in Threads :
    pc[t] = "release" /\ call[t] \in Outputs =>
        call[t] \notin active /\ sem[<<"done", call[t]>>].value = 0

\* No assertion of the lock, the disk or the console fails: a device has one
\* request at a time, a character is taken before the next comes in.
NoAssertionFails == machine # "aborted"

\* When the machine idles and no device is at work, every thread is done or
\* waits for something that has not come: a key, or mail for an empty box (and
\* the key may never come: PrepareToEnd turns the keyboard off under its
\* readers as soon as no thread is ready, thread.cc:251).
Waits(t) ==
    \/ pc[t] = "finished"
    \/ pc[t] = "worker" /\ inHdr = NoMail
    \/ call[t] = "keyboard" /\ incoming = 0 /\ pc[t] \in {"acquire", "wait"}
    \/ call[t] \in Boxes /\ pc[t] = "wait" /\ box[call[t]] = << >>

NobodyForgotten ==
    running = Nobody /\ ready = << >> /\ active = {} => \A t \in Threads : Waits(t)

\* The mail for b that no thread has received, oldest first: in the list, in
\* the worker's hands, in the network's buffer.
InBuffer == pc[Worker] \in {"acquire", "inside"}
MailFor(b) == box[b] \o (IF InBuffer /\ buffer.to = b THEN <<buffer.id>> ELSE << >>)
                     \o (IF inHdr # NoMail /\ inHdr.to = b THEN <<inHdr.id>> ELSE << >>)

Abstract == INSTANCE Mailboxes WITH mail <- [b \in Boxes |-> MailFor(b)]

\* Mail is handed out once and in the order of arrival (post.cc, synchlist.cc).
ImplementsMailboxes == Abstract!Spec

\* When every thread makes finitely many calls, as MaxCalls has it, a disk or
\* display request or a Send that has begun comes to its end: requests are
\* answered and no wake-up is lost.  Callers that never stop could overtake it
\* for ever: P tries again in a loop (synch.cc:82) and queues once more at the
\* end, and who releases may take the value before the thread V woke.
OutputEnds == \A t \in Threads :
    call[t] \in Outputs /\ pc[t] # "user" ~> pc[t] \in {"user", "finished"}

\* A receiver and mail in its box do not wait for each other for ever.
MailIsReceived == \A t \in Range(Users) : \A b \in Boxes :
    pc[t] = "wait" /\ call[t] = b /\ MailFor(b) # << >>
        ~> MailFor(b) = << >> \/ ~(pc[t] = "wait" /\ call[t] = b)
=============================================================================
