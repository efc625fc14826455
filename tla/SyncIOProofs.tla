---------------------------- MODULE SyncIOProofs ----------------------------
(***************************************************************************)
(* SyncIO, for any number of threads, calls and mailboxes: the locks        *)
(* exclude, each request gets its own answer, no assertion fails, and the   *)
(* post office implements Mailboxes.                                        *)
(***************************************************************************)
EXTENDS SyncIO, DataLemmas

\* What a "done" semaphore is for: output that is finished, a character or a
\* packet that has come in.
Devices == Outputs \cup {"keyboard", "mail"}

\* The values of the semaphores: of all, of a lock, of a device, of a waiter.
Value(s) == sem[s].value
LockUp(l) == Value(<<"lock", l>>)
Done(l) == Value(<<"done", l>>)
Note(t) == Value(<<"waiter", t>>)

\* Which thread is where: the labels the worker and the users pass through, and
\* what their calls are about.
Roles ==
    /\ pc[Worker] \in {"worker", "sort", "acquire", "inside", "release", "finished"}
    /\ pc[Worker] \in {"acquire", "inside", "release"} =>
          buffer \in Mail /\ call[Worker] = buffer.to
    /\ \A t \in Threads \ {Worker} :
          /\ pc[t] \in {"user", "acquire", "inside", "wait", "release", "finished"}
          /\ pc[t] \in {"acquire", "inside", "wait", "release"} => call[t] \in Locks
          /\ pc[t] = "release" => call[t] \notin Boxes
          /\ pc[t] \in {"acquire", "inside"} /\ call[t] \in Outputs => left[t] >= 1

\* t is past Acquire of lock l and before its Release.
In(t, l) ==
    /\ call[t] = l
    /\ pc[t] \in {"inside", "release"} \/ (pc[t] = "wait" /\ l \notin Boxes)

\* A lock's semaphore is down just while one thread is past Acquire.
Exclusive ==
    /\ \A l \in Locks :
          /\ LockUp(l) \in {0, 1}
          /\ LockUp(l) = 1 <=> \A t \in Threads : ~In(t, l)
          /\ \A t \in Threads : lockHolder[l] = t => In(t, l)
    /\ \A t, u \in Threads : \A l \in Locks : In(t, l) /\ In(u, l) => t = u

\* A thread that waits for a device with the lock, or is about to release it,
\* is the recorded holder.
Holding == \A t \in Threads :
    pc[t] = "release" \/ (pc[t] = "wait" /\ call[t] \notin Boxes) => lockHolder[call[t]] = t

\* An output device is at work, or has one answer to give, just while the
\* thread inside waits for it.
Answering == \A l \in Outputs :
    /\ Done(l) \in {0, 1}
    /\ l \in active => Done(l) = 0
    /\ l \in active \/ Done(l) = 1 <=> \E t \in Threads : pc[t] = "wait" /\ call[t] = l

\* The keyboard polls, has announced a character, or its character is being
\* taken, never two of these; a character that came in is on its way.
Typing ==
    /\ Done("keyboard") \in {0, 1}
    /\ polling => incoming = 0 /\ Done("keyboard") = 0
    /\ \A t \in Threads :
          pc[t] = "release" /\ call[t] = "keyboard" => ~polling /\ Done("keyboard") = 0
    /\ incoming # 0 => \/ Done("keyboard") = 1
                       \/ \E t \in Threads : pc[t] = "release" /\ call[t] = "keyboard"

\* The network's buffer is full while its arrival is announced or the worker
\* is about to copy it.
Delivering ==
    /\ Done("mail") \in {0, 1}
    /\ Done("mail") = 1 => inHdr # NoMail /\ pc[Worker] # "sort"
    /\ pc[Worker] = "sort" => inHdr # NoMail
    /\ inHdr # NoMail => Done("mail") = 1 \/ pc[Worker] = "sort"

\* The inductive invariant about locks, devices and mail.
Inv ==
    /\ TypeOK
    /\ Roles
    /\ Exclusive
    /\ Holding
    /\ Answering
    /\ Typing
    /\ Delivering
    /\ NoAssertionFails

---------------------------------------------------------------------------
(* What P and V do to the semaphores and the processor.                    *)

\* The semaphores of the locks, the devices and the waiters are there.
LEMMA SemaphoreNames ==
    /\ \A l \in Locks : <<"lock", l>> \in Semaphores
    /\ \A l \in Devices : <<"done", l>> \in Semaphores
    /\ \A t \in Threads : <<"waiter", t>> \in Semaphores
    /\ Outputs \cup {"keyboard"} \cup Boxes = Locks
    /\ Outputs \cap Boxes = {} /\ "keyboard" \notin Outputs \cup Boxes
    /\ "none" \notin Locks /\ "mail" \notin Locks
    /\ Worker \in Threads /\ Nobody \notin Threads
  BY SyncIOAssumption, SynchAssumption DEF Outputs, Devices

\* The types of what P and V change besides the labels.
Processor ==
    /\ sem \in [Semaphores -> [value : Nat, queue : Seq(Threads)]]
    /\ ready \in Seq(Threads) /\ running \in Threads \cup {Nobody}
    /\ slept \subseteq Threads /\ ended \in BOOLEAN

\* The semaphores of one kind that a step leaves as they are.
LocksSame(ls) == \A l \in ls : LockUp(l)' = LockUp(l)
DonesSame(ds) == \A d \in ds : Done(d)' = Done(d)
NotesSame(ts) == \A t \in ts : Note(t)' = Note(t)

\* P takes from the semaphore if it is up, and moves only its caller's label.
LEMMA PTakes ==
    ASSUME TypeOK, NEW t \in Threads, NEW s \in Semaphores,
           NEW asleep, NEW taken, P(t, s, asleep, taken)
    PROVE  /\ Processor'
           /\ \A r \in Semaphores :
                 Value(r)' = IF r = s /\ Value(s) > 0 THEN Value(s) - 1 ELSE Value(r)
           /\ pc' = [pc EXCEPT ![t] = IF Value(s) > 0 THEN taken ELSE asleep]
  <1>1. /\ sem \in [Semaphores -> [value : Nat, queue : Seq(Threads)]]
        /\ sem[s].value \in Nat /\ sem[s].queue \in Seq(Threads)
        /\ ready \in Seq(Threads) /\ running \in Threads \cup {Nobody}
        /\ slept \subseteq Threads /\ ended \in BOOLEAN
    BY DEF TypeOK
  <1>2. CASE sem[s].value > 0
    <2>1. /\ sem' = [sem EXCEPT ![s].value = @ - 1]
          /\ slept' = slept \ {t}
          /\ pc' = [pc EXCEPT ![t] = taken]
          /\ UNCHANGED <<ready, running, ended>>
      BY <1>2 DEF P, Enough
    <2>2. \A r \in Semaphores \ {s} : sem'[r] = sem[r]
      BY <1>1, <2>1
    <2>3. sem'[s] = [sem[s] EXCEPT !.value = @ - 1]
      BY <1>1, <2>1
    <2>4. sem[s] \in [value : Nat, queue : Seq(Threads)] /\ sem[s].value - 1 \in Nat
      BY <1>1, <1>2
    <2>5. sem'[s].value = sem[s].value - 1 /\ sem'[s] \in [value : Nat, queue : Seq(Threads)]
      BY <2>3, <2>4
    <2>6. sem' \in [Semaphores -> [value : Nat, queue : Seq(Threads)]]
      BY <1>1, <2>1, <2>2, <2>5
    <2> QED BY <1>1, <1>2, <2>1, <2>2, <2>5, <2>6 DEF Value, Processor
  <1>3. CASE ~(sem[s].value > 0)
    <2>1. /\ sem' = [sem EXCEPT ![s].queue = Append(@, t)]
          /\ slept' = slept \cup {t}
          /\ pc' = [pc EXCEPT ![t] = asleep]
          /\ Sleep
      BY <1>3 DEF P, Enough
    <2>2. Append(sem[s].queue, t) \in Seq(Threads)
      BY <1>1, AppendQueue
    <2>3. ready # << >> => Head(ready) \in Threads /\ Tail(ready) \in Seq(Threads)
      BY <1>1, TakeFront
    <2>4. ready' \in Seq(Threads) /\ running' \in Threads \cup {Nobody} /\ ended' \in BOOLEAN
      BY <1>1, <2>1, <2>3 DEF Sleep, PrepareToEnd
    <2>5. sem' \in [Semaphores -> [value : Nat, queue : Seq(Threads)]]
      BY <1>1, <2>1, <2>2
    <2>6. \A r \in Semaphores : sem'[r].value = sem[r].value
      <3>1. \A r \in Semaphores \ {s} : sem'[r] = sem[r]
        BY <1>1, <2>1
      <3>2. sem'[s] = [sem[s] EXCEPT !.queue = Append(@, t)]
        BY <1>1, <2>1
      <3>3. sem[s] \in [value : Nat, queue : Seq(Threads)]
        BY <1>1
      <3> QED BY <3>1, <3>2, <3>3
    <2>7. slept' \subseteq Threads
      BY <1>1, <2>1
    <2> QED BY <1>3, <2>1, <2>4, <2>5, <2>6, <2>7 DEF Value, Processor
  <1> QED BY <1>2, <1>3

\* V counts up.
LEMMA VCounts ==
    ASSUME TypeOK, NEW s \in Semaphores, V(s)
    PROVE  /\ sem' \in [Semaphores -> [value : Nat, queue : Seq(Threads)]]
           /\ \A r \in Semaphores : Value(r)' = IF r = s THEN Value(s) + 1 ELSE Value(r)
           /\ ready' \in Seq(Threads)
  <1> DEFINE q == sem[s].queue
  <1>1. /\ sem \in [Semaphores -> [value : Nat, queue : Seq(Threads)]]
        /\ sem[s].value \in Nat /\ q \in Seq(Threads)
        /\ ready \in Seq(Threads)
    BY DEF TypeOK
  <1>2. /\ sem' = [sem EXCEPT ![s] = [value |-> sem[s].value + 1,
                                      queue |-> IF q = << >> THEN q ELSE Tail(q)]]
        /\ ready' = IF q = << >> THEN ready ELSE Append(ready, Head(q))
    BY DEF V
  <1>3. q # << >> => Head(q) \in Threads /\ Tail(q) \in Seq(Threads)
    BY <1>1, TakeFront
  <1>4. q # << >> => Append(ready, Head(q)) \in Seq(Threads)
    BY <1>1, <1>3, AppendQueue
  <1> HIDE DEF q
  <1> QED BY <1>1, <1>2, <1>3, <1>4 DEF Value

\* P and V on the semaphore of a lock, a device or a waiter leave the other
\* semaphores as they are.
LEMMA NamesApart ==
    ASSUME NEW c, NEW s \in Semaphores,
           \A r \in Semaphores : Value(r)' = IF r = s THEN c ELSE Value(r)
    PROVE  /\ \A l \in Locks :
                 LockUp(l)' = IF s = <<"lock", l>> THEN c ELSE LockUp(l)
           /\ \A l \in Devices :
                 Done(l)' = IF s = <<"done", l>> THEN c ELSE Done(l)
           /\ \A t \in Threads :
                 Note(t)' = IF s = <<"waiter", t>> THEN c ELSE Note(t)
  BY SemaphoreNames DEF LockUp, Done, Note

\* P on a lock.
LEMMA PLock ==
    ASSUME TypeOK, NEW t \in Threads, NEW l \in Locks,
           NEW asleep, NEW taken, P(t, <<"lock", l>>, asleep, taken)
    PROVE  /\ Processor'
           /\ LockUp(l) \in Nat
           /\ LockUp(l)' = IF LockUp(l) > 0 THEN LockUp(l) - 1 ELSE LockUp(l)
           /\ LocksSame(Locks \ {l})
           /\ DonesSame(Devices)
           /\ NotesSame(Threads)
           /\ pc' = [pc EXCEPT ![t] = IF LockUp(l) > 0 THEN taken ELSE asleep]
  <1> DEFINE s == <<"lock", l>>
             c == IF Value(s) > 0 THEN Value(s) - 1 ELSE Value(s)
  <1>1. s \in Semaphores
    BY SemaphoreNames
  <1>2. Value(s) \in Nat
    BY <1>1 DEF TypeOK, Value
  <1> HIDE DEF s
  <1>3. /\ Processor'
        /\ \A r \in Semaphores : Value(r)' = IF r = s THEN c ELSE Value(r)
        /\ pc' = [pc EXCEPT ![t] = IF Value(s) > 0 THEN taken ELSE asleep]
    BY <1>1, PTakes DEF s
  <1> HIDE DEF c
  <1>4. /\ \A k \in Locks :
              LockUp(k)' = IF s = <<"lock", k>> THEN c ELSE LockUp(k)
        /\ \A k \in Devices :
              Done(k)' = IF s = <<"done", k>> THEN c ELSE Done(k)
        /\ \A u \in Threads :
              Note(u)' = IF s = <<"waiter", u>> THEN c ELSE Note(u)
    BY <1>1, <1>3, NamesApart
  <1>5. /\ \A k \in Locks : s = <<"lock", k>> <=> k = l
        /\ \A k : s # <<"done", k>> /\ s # <<"waiter", k>>
    BY DEF s
  <1>6. LockUp(l) = Value(s) /\ LockUp(l)' = c
    BY <1>4, <1>5 DEF LockUp, s
  <1>7. LocksSame(Locks \ {l}) /\ DonesSame(Devices) /\ NotesSame(Threads)
    BY <1>4, <1>5 DEF LocksSame, DonesSame, NotesSame
  <1> QED BY <1>2, <1>3, <1>6, <1>7 DEF c

\* P on a device's semaphore.
LEMMA PDone ==
    ASSUME TypeOK, NEW t \in Threads, NEW l \in Devices,
           NEW asleep, NEW taken, P(t, <<"done", l>>, asleep, taken)
    PROVE  /\ Processor'
           /\ Done(l) \in Nat
           /\ Done(l)' = IF Done(l) > 0 THEN Done(l) - 1 ELSE Done(l)
           /\ LocksSame(Locks)
           /\ DonesSame(Devices \ {l})
           /\ NotesSame(Threads)
           /\ pc' = [pc EXCEPT ![t] = IF Done(l) > 0 THEN taken ELSE asleep]
  <1> DEFINE s == <<"done", l>>
             c == IF Value(s) > 0 THEN Value(s) - 1 ELSE Value(s)
  <1>1. s \in Semaphores
    BY SemaphoreNames
  <1>2. Value(s) \in Nat
    BY <1>1 DEF TypeOK, Value
  <1> HIDE DEF s
  <1>3. /\ Processor'
        /\ \A r \in Semaphores : Value(r)' = IF r = s THEN c ELSE Value(r)
        /\ pc' = [pc EXCEPT ![t] = IF Value(s) > 0 THEN taken ELSE asleep]
    BY <1>1, PTakes DEF s
  <1> HIDE DEF c
  <1>4. /\ \A k \in Locks :
              LockUp(k)' = IF s = <<"lock", k>> THEN c ELSE LockUp(k)
        /\ \A k \in Devices :
              Done(k)' = IF s = <<"done", k>> THEN c ELSE Done(k)
        /\ \A u \in Threads :
              Note(u)' = IF s = <<"waiter", u>> THEN c ELSE Note(u)
    BY <1>1, <1>3, NamesApart
  <1>5. /\ \A k \in Devices : s = <<"done", k>> <=> k = l
        /\ \A k : s # <<"lock", k>> /\ s # <<"waiter", k>>
    BY DEF s
  <1>6. Done(l) = Value(s) /\ Done(l)' = c
    BY <1>4, <1>5 DEF Done, s
  <1>7. LocksSame(Locks) /\ DonesSame(Devices \ {l}) /\ NotesSame(Threads)
    BY <1>4, <1>5 DEF LocksSame, DonesSame, NotesSame
  <1> QED BY <1>2, <1>3, <1>6, <1>7 DEF c

\* P of a waiter on its own semaphore (Condition::Wait).
LEMMA PWaiter ==
    ASSUME TypeOK, NEW t \in Threads,
           NEW asleep, NEW taken, P(t, <<"waiter", t>>, asleep, taken)
    PROVE  /\ Processor'
           /\ Note(t) \in Nat
           /\ Note(t)' = IF Note(t) > 0 THEN Note(t) - 1 ELSE Note(t)
           /\ LocksSame(Locks)
           /\ DonesSame(Devices)
           /\ NotesSame(Threads \ {t})
           /\ pc' = [pc EXCEPT ![t] = IF Note(t) > 0 THEN taken ELSE asleep]
  <1> DEFINE s == <<"waiter", t>>
             c == IF Value(s) > 0 THEN Value(s) - 1 ELSE Value(s)
  <1>1. s \in Semaphores
    BY SemaphoreNames
  <1>2. Value(s) \in Nat
    BY <1>1 DEF TypeOK, Value
  <1> HIDE DEF s
  <1>3. /\ Processor'
        /\ \A r \in Semaphores : Value(r)' = IF r = s THEN c ELSE Value(r)
        /\ pc' = [pc EXCEPT ![t] = IF Value(s) > 0 THEN taken ELSE asleep]
    BY <1>1, PTakes DEF s
  <1> HIDE DEF c
  <1>4. /\ \A k \in Locks :
              LockUp(k)' = IF s = <<"lock", k>> THEN c ELSE LockUp(k)
        /\ \A k \in Devices :
              Done(k)' = IF s = <<"done", k>> THEN c ELSE Done(k)
        /\ \A u \in Threads :
              Note(u)' = IF s = <<"waiter", u>> THEN c ELSE Note(u)
    BY <1>1, <1>3, NamesApart
  <1>5. /\ \A k \in Threads : s = <<"waiter", k>> <=> k = t
        /\ \A k : s # <<"done", k>> /\ s # <<"lock", k>>
    BY DEF s
  <1>6. Note(t) = Value(s) /\ Note(t)' = c
    BY <1>4, <1>5 DEF Note, s
  <1>7. LocksSame(Locks) /\ DonesSame(Devices) /\ NotesSame(Threads \ {t})
    BY <1>4, <1>5 DEF LocksSame, DonesSame, NotesSame
  <1> QED BY <1>2, <1>3, <1>6, <1>7 DEF c

\* V on a lock (Lock::Release).
LEMMA VLock ==
    ASSUME TypeOK, NEW l \in Locks, V(<<"lock", l>>)
    PROVE  /\ sem' \in [Semaphores -> [value : Nat, queue : Seq(Threads)]]
           /\ ready' \in Seq(Threads)
           /\ LockUp(l) \in Nat /\ LockUp(l)' = LockUp(l) + 1
           /\ LocksSame(Locks \ {l}) /\ DonesSame(Devices) /\ NotesSame(Threads)
  <1> DEFINE s == <<"lock", l>>
             c == Value(s) + 1
  <1>1. s \in Semaphores
    BY SemaphoreNames
  <1>2. Value(s) \in Nat
    BY <1>1 DEF TypeOK, Value
  <1> HIDE DEF s
  <1>3. /\ sem' \in [Semaphores -> [value : Nat, queue : Seq(Threads)]]
        /\ ready' \in Seq(Threads)
        /\ \A r \in Semaphores : Value(r)' = IF r = s THEN c ELSE Value(r)
    BY <1>1, VCounts DEF s
  <1> HIDE DEF c
  <1>4. /\ \A k \in Locks :
              LockUp(k)' = IF s = <<"lock", k>> THEN c ELSE LockUp(k)
        /\ \A k \in Devices :
              Done(k)' = IF s = <<"done", k>> THEN c ELSE Done(k)
        /\ \A u \in Threads :
              Note(u)' = IF s = <<"waiter", u>> THEN c ELSE Note(u)
    BY <1>1, <1>3, NamesApart
  <1>5. /\ \A k \in Locks : s = <<"lock", k>> <=> k = l
        /\ \A k : s # <<"done", k>> /\ s # <<"waiter", k>>
    BY DEF s
  <1>6. LockUp(l) = Value(s) /\ LockUp(l)' = c
    BY <1>4, <1>5 DEF LockUp, s
  <1>7. LocksSame(Locks \ {l}) /\ DonesSame(Devices) /\ NotesSame(Threads)
    BY <1>4, <1>5 DEF LocksSame, DonesSame, NotesSame
  <1> QED BY <1>2, <1>3, <1>6, <1>7 DEF c

\* A device's interrupt announces its answer, a character or a packet.
LEMMA VDone ==
    ASSUME TypeOK, NEW l \in Devices, V(<<"done", l>>)
    PROVE  /\ sem' \in [Semaphores -> [value : Nat, queue : Seq(Threads)]]
           /\ ready' \in Seq(Threads)
           /\ Done(l) \in Nat /\ Done(l)' = Done(l) + 1
           /\ LocksSame(Locks) /\ DonesSame(Devices \ {l}) /\ NotesSame(Threads)
  <1> DEFINE s == <<"done", l>>
             c == Value(s) + 1
  <1>1. s \in Semaphores
    BY SemaphoreNames
  <1>2. Value(s) \in Nat
    BY <1>1 DEF TypeOK, Value
  <1> HIDE DEF s
  <1>3. /\ sem' \in [Semaphores -> [value : Nat, queue : Seq(Threads)]]
        /\ ready' \in Seq(Threads)
        /\ \A r \in Semaphores : Value(r)' = IF r = s THEN c ELSE Value(r)
    BY <1>1, VCounts DEF s
  <1> HIDE DEF c
  <1>4. /\ \A k \in Locks :
              LockUp(k)' = IF s = <<"lock", k>> THEN c ELSE LockUp(k)
        /\ \A k \in Devices :
              Done(k)' = IF s = <<"done", k>> THEN c ELSE Done(k)
        /\ \A u \in Threads :
              Note(u)' = IF s = <<"waiter", u>> THEN c ELSE Note(u)
    BY <1>1, <1>3, NamesApart
  <1>5. /\ \A k \in Devices : s = <<"done", k>> <=> k = l
        /\ \A k : s # <<"lock", k>> /\ s # <<"waiter", k>>
    BY DEF s
  <1>6. Done(l) = Value(s) /\ Done(l)' = c
    BY <1>4, <1>5 DEF Done, s
  <1>7. LocksSame(Locks) /\ DonesSame(Devices \ {l}) /\ NotesSame(Threads)
    BY <1>4, <1>5 DEF LocksSame, DonesSame, NotesSame
  <1> QED BY <1>2, <1>3, <1>6, <1>7 DEF c

\* A signal readies the waiter it is for (Condition::Signal).
LEMMA VWaiter ==
    ASSUME TypeOK, NEW t \in Threads, V(<<"waiter", t>>)
    PROVE  /\ sem' \in [Semaphores -> [value : Nat, queue : Seq(Threads)]]
           /\ ready' \in Seq(Threads)
           /\ Note(t) \in Nat /\ Note(t)' = Note(t) + 1
           /\ LocksSame(Locks) /\ DonesSame(Devices) /\ NotesSame(Threads \ {t})
  <1> DEFINE s == <<"waiter", t>>
             c == Value(s) + 1
  <1>1. s \in Semaphores
    BY SemaphoreNames
  <1>2. Value(s) \in Nat
    BY <1>1 DEF TypeOK, Value
  <1> HIDE DEF s
  <1>3. /\ sem' \in [Semaphores -> [value : Nat, queue : Seq(Threads)]]
        /\ ready' \in Seq(Threads)
        /\ \A r \in Semaphores : Value(r)' = IF r = s THEN c ELSE Value(r)
    BY <1>1, VCounts DEF s
  <1> HIDE DEF c
  <1>4. /\ \A k \in Locks :
              LockUp(k)' = IF s = <<"lock", k>> THEN c ELSE LockUp(k)
        /\ \A k \in Devices :
              Done(k)' = IF s = <<"done", k>> THEN c ELSE Done(k)
        /\ \A u \in Threads :
              Note(u)' = IF s = <<"waiter", u>> THEN c ELSE Note(u)
    BY <1>1, <1>3, NamesApart
  <1>5. /\ \A k \in Threads : s = <<"waiter", k>> <=> k = t
        /\ \A k : s # <<"done", k>> /\ s # <<"lock", k>>
    BY DEF s
  <1>6. Note(t) = Value(s) /\ Note(t)' = c
    BY <1>4, <1>5 DEF Note, s
  <1>7. LocksSame(Locks) /\ DonesSame(Devices) /\ NotesSame(Threads \ {t})
    BY <1>4, <1>5 DEF LocksSame, DonesSame, NotesSame
  <1> QED BY <1>2, <1>3, <1>6, <1>7 DEF c

---------------------------------------------------------------------------
(* The locks, whatever they protect.                                       *)

\* Acquire lets a thread in only if the semaphore was up (Lock::Acquire).
LEMMA AcquireExcludes ==
    ASSUME Exclusive, NEW t \in Threads, NEW l \in Locks,
           LockUp(l)' = IF LockUp(l) > 0 THEN LockUp(l) - 1 ELSE LockUp(l),
           \A k \in Locks \ {l} : LockUp(k)' = LockUp(k),
           \A u \in Threads \ {t} : \A k \in Locks : In(u, k)' <=> In(u, k),
           \A k \in Locks : ~In(t, k),
           \A k \in Locks : In(t, k)' <=> k = l /\ LockUp(l) > 0,
           UNCHANGED lockHolder
    PROVE  Exclusive'
  <1>1. ASSUME NEW k \in Locks
        PROVE  /\ LockUp(k)' \in {0, 1}
               /\ LockUp(k)' = 1 <=> \A u \in Threads : ~In(u, k)'
               /\ \A u \in Threads : lockHolder'[k] = u => In(u, k)'
    <2>1. /\ LockUp(k) \in {0, 1}
          /\ LockUp(k) = 1 <=> \A u \in Threads : ~In(u, k)
          /\ \A u \in Threads : lockHolder[k] = u => In(u, k)
      BY DEF Exclusive
    <2>2. CASE k = l /\ LockUp(l) = 1
      <3>1. LockUp(k)' = 0 /\ In(t, k)'
        BY <2>2
      <3> QED BY <2>1, <2>2, <3>1
    <2>3. CASE k # l \/ LockUp(l) = 0
      <3>1. LockUp(k)' = LockUp(k)
        BY <2>1, <2>3
      <3>2. \A u \in Threads : In(u, k)' <=> In(u, k)
        BY <2>3
      <3> QED BY <2>1, <3>1, <3>2
    <2> QED BY <2>1, <2>2, <2>3
  <1>2. \A u, v \in Threads : \A k \in Locks : In(u, k)' /\ In(v, k)' => u = v
    BY DEF Exclusive
  <1> QED BY <1>1, <1>2 DEF Exclusive

\* A step inside a critical section, or outside of all, leaves the locks alone
\* but for the holder recording itself.
LEMMA StayExcludes ==
    ASSUME Exclusive,
           \A k \in Locks : LockUp(k)' = LockUp(k),
           \A u \in Threads : \A k \in Locks : In(u, k)' <=> In(u, k),
           \A u \in Threads : \A k \in Locks : lockHolder'[k] = u => lockHolder[k] = u \/ In(u, k)
    PROVE  Exclusive'
  <1>1. ASSUME NEW k \in Locks
        PROVE  /\ LockUp(k)' \in {0, 1}
               /\ LockUp(k)' = 1 <=> \A u \in Threads : ~In(u, k)'
               /\ \A u \in Threads : lockHolder'[k] = u => In(u, k)'
    <2>1. /\ LockUp(k) \in {0, 1}
          /\ LockUp(k) = 1 <=> \A u \in Threads : ~In(u, k)
          /\ \A u \in Threads : lockHolder[k] = u => In(u, k)
      BY DEF Exclusive
    <2> QED BY <2>1
  <1>2. \A u, v \in Threads : \A k \in Locks : In(u, k)' /\ In(v, k)' => u = v
    BY DEF Exclusive
  <1> QED BY <1>1, <1>2 DEF Exclusive

\* Release by the thread inside opens the lock (Lock::Release).
LEMMA ReleaseExcludes ==
    ASSUME Exclusive, NEW t \in Threads, NEW l \in Locks, In(t, l), Nobody \notin Threads,
           lockHolder \in [Locks -> Threads \cup {Nobody}],
           LockUp(l)' = LockUp(l) + 1,
           \A k \in Locks \ {l} : LockUp(k)' = LockUp(k),
           \A u \in Threads \ {t} : \A k \in Locks : In(u, k)' <=> In(u, k),
           \A k \in Locks : ~In(t, k)',
           lockHolder' = [lockHolder EXCEPT ![l] = Nobody]
    PROVE  Exclusive'
  <1>1. ASSUME NEW k \in Locks
        PROVE  /\ LockUp(k)' \in {0, 1}
               /\ LockUp(k)' = 1 <=> \A u \in Threads : ~In(u, k)'
               /\ \A u \in Threads : lockHolder'[k] = u => In(u, k)'
    <2>1. /\ LockUp(k) \in {0, 1}
          /\ LockUp(k) = 1 <=> \A u \in Threads : ~In(u, k)
          /\ \A u \in Threads : lockHolder[k] = u => In(u, k)
      BY DEF Exclusive
    <2>2. \A u, v \in Threads : In(u, k) /\ In(v, k) => u = v
      BY DEF Exclusive
    <2>3. CASE k = l
      <3>1. LockUp(k) = 0 /\ LockUp(k)' = 1
        BY <2>1, <2>3
      <3>2. \A u \in Threads : ~In(u, k)'
        BY <2>2, <2>3
      <3> QED BY <2>3, <3>1, <3>2
    <2>4. CASE k # l
      <3>1. ~In(t, k)
        BY <2>4 DEF In
      <3> QED BY <2>1, <2>4, <3>1
    <2> QED BY <2>3, <2>4
  <1>2. \A u, v \in Threads : \A k \in Locks : In(u, k)' /\ In(v, k)' => u = v
    BY DEF Exclusive
  <1> QED BY <1>1, <1>2 DEF Exclusive

---------------------------------------------------------------------------
(* Each step keeps the part about locks, devices and mail.                 *)

\* A call begins with Acquire.
LEMMA CallKeeps ==
    ASSUME Inv, NEW t \in Threads, Call(t)
    PROVE  Inv'
  <1> USE DEF synchVars, ioVars, inputVars
  <1>1. \E l \in Locks : \E n \in {1, 2} :
           /\ call' = [call EXCEPT ![t] = l]
           /\ left' = [left EXCEPT ![t] = n]
           /\ P(t, <<"lock", l>>, "acquire", "inside")
    BY SyncIOAssumption DEF Call, Callable, Characters, Outputs
  <1>2. PICK l \in Locks, n \in {1, 2} :
           /\ call' = [call EXCEPT ![t] = l]
           /\ left' = [left EXCEPT ![t] = n]
           /\ P(t, <<"lock", l>>, "acquire", "inside")
    BY <1>1
  <1>3. /\ Runs(t, "user") /\ t # Worker /\ calls[t] < MaxCalls[t]
        /\ calls' = [calls EXCEPT ![t] = @ + 1]
        /\ UNCHANGED <<version, lockHolder, waitQueue, timer, machine, active, inputVars>>
    BY DEF Call
  <1>4. /\ TypeOK /\ Roles /\ Exclusive /\ Holding /\ Answering /\ Typing /\ Delivering /\ NoAssertionFails
    BY DEF Inv
  <1>5. /\ Processor'
        /\ LockUp(l)' = IF LockUp(l) > 0 THEN LockUp(l) - 1 ELSE LockUp(l)
        /\ LocksSame(Locks \ {l})
        /\ DonesSame(Devices)
        /\ NotesSame(Threads)
        /\ pc' = [pc EXCEPT ![t] = IF LockUp(l) > 0 THEN "inside" ELSE "acquire"]
    BY <1>2, <1>4, PLock
  <1>6. TypeOK'
    <2>1. calls' \in [Threads -> Nat] /\ \A u \in Threads : calls'[u] <= MaxCalls[u]
      BY <1>3, <1>4, SyncIOAssumption DEF TypeOK
    <2> QED BY <1>2, <1>3, <1>4, <1>5, <2>1 DEF TypeOK, Labels, Processor
  <1>7. Roles'
    BY <1>2, <1>3, <1>4, <1>5 DEF TypeOK, Roles, Labels, Runs
  <1>8. Exclusive'
    <2>1. /\ \A u \in Threads \ {t} : \A k \in Locks : In(u, k)' <=> In(u, k)
          /\ \A k \in Locks : ~In(t, k)
          /\ \A k \in Locks : In(t, k)' <=> k = l /\ LockUp(l) > 0
      BY <1>2, <1>3, <1>4, <1>5 DEF TypeOK, In, Runs
    <2> QED BY <2>1, <1>3, <1>4, <1>5, AcquireExcludes DEF LocksSame
  <1>12. Holding'
    BY <1>2, <1>3, <1>4, <1>5 DEF TypeOK, Holding
  <1>9. Answering'
    BY <1>2, <1>3, <1>4, <1>5 DEF TypeOK, Answering, Runs, DonesSame, Devices
  <1>10. Typing'
    BY <1>2, <1>3, <1>4, <1>5 DEF TypeOK, Typing, Runs, DonesSame, Devices
  <1>11. Delivering' /\ NoAssertionFails'
    BY <1>2, <1>3, <1>4, <1>5 DEF TypeOK, Delivering, Runs, DonesSame, Devices, NoAssertionFails
  <1> QED BY <1>6, <1>7, <1>8, <1>9, <1>10, <1>11, <1>12 DEF Inv

\* A thread asks for the lock again after it was woken.
LEMMA AcquireKeeps ==
    ASSUME Inv, NEW t \in Threads, Acquire(t)
    PROVE  Inv'
  <1> USE DEF synchVars, ioVars, inputVars
  <1>1. /\ TypeOK /\ Roles /\ Exclusive /\ Holding /\ Answering /\ Typing /\ Delivering /\ NoAssertionFails
    BY DEF Inv
  <1>2. /\ Runs(t, "acquire") /\ P(t, <<"lock", call[t]>>, "acquire", "inside")
        /\ UNCHANGED <<version, lockHolder, waitQueue, timer, machine, ioVars>>
    BY DEF Acquire
  <1>3. PICK l \in Locks : l = call[t] /\ P(t, <<"lock", l>>, "acquire", "inside")
    BY <1>1, <1>2, SemaphoreNames DEF Roles, Runs, Mail
  <1>4. /\ Processor'
        /\ LockUp(l)' = IF LockUp(l) > 0 THEN LockUp(l) - 1 ELSE LockUp(l)
        /\ LocksSame(Locks \ {l}) /\ DonesSame(Devices) /\ NotesSame(Threads)
        /\ pc' = [pc EXCEPT ![t] = IF LockUp(l) > 0 THEN "inside" ELSE "acquire"]
    BY <1>1, <1>2, <1>3, PLock
  <1>5. TypeOK'
    BY <1>1, <1>2, <1>4 DEF TypeOK, Labels, Processor
  <1>6. Roles'
    BY <1>1, <1>2, <1>3, <1>4 DEF TypeOK, Roles, Labels, Runs
  <1>7. Exclusive'
    <2>1. /\ \A u \in Threads \ {t} : \A k \in Locks : In(u, k)' <=> In(u, k)
          /\ \A k \in Locks : ~In(t, k)
          /\ \A k \in Locks : In(t, k)' <=> k = l /\ LockUp(l) > 0
      BY <1>1, <1>2, <1>3, <1>4 DEF TypeOK, In, Runs
    <2> QED BY <2>1, <1>1, <1>2, <1>3, <1>4, AcquireExcludes DEF LocksSame
  <1>8. Holding'
    BY <1>1, <1>2, <1>3, <1>4 DEF TypeOK, Holding, Runs
  <1>9. Answering'
    BY <1>1, <1>2, <1>3, <1>4 DEF TypeOK, Answering, Runs, DonesSame, Devices
  <1>10. Typing'
    BY <1>1, <1>2, <1>3, <1>4 DEF TypeOK, Typing, Runs, DonesSame, Devices
  <1>11. Delivering' /\ NoAssertionFails'
    BY <1>1, <1>2, <1>3, <1>4 DEF TypeOK, Delivering, Runs, DonesSame, Devices, NoAssertionFails
  <1> QED BY <1>5, <1>6, <1>7, <1>8, <1>9, <1>10, <1>11 DEF Inv

\* The worker copies the packet and asks for the lock of its box.
LEMMA SortKeeps ==
    ASSUME Inv, NEW t \in Threads, Sort(t)
    PROVE  Inv'
  <1> USE DEF synchVars, ioVars, inputVars
  <1>1. /\ TypeOK /\ Roles /\ Exclusive /\ Holding /\ Answering /\ Typing /\ Delivering /\ NoAssertionFails
    BY DEF Inv
  <1>2. /\ Runs(t, "sort") /\ t = Worker
        /\ inHdr # NoMail /\ inHdr \in Mail
    BY <1>1 DEF Sort, Roles, Delivering, TypeOK, Runs
  <1>3. PICK l \in Boxes : l = inHdr.to /\ l \in Locks /\ l \notin Outputs /\ l # "keyboard"
    BY <1>2, SemaphoreNames DEF Mail
  <1>4. /\ buffer' = inHdr /\ inHdr' = NoMail
        /\ call' = [call EXCEPT ![t] = l]
        /\ P(t, <<"lock", l>>, "acquire", "inside")
        /\ UNCHANGED <<version, lockHolder, waitQueue, timer, machine, calls, left, active,
                       polling, incoming, typed, box, nextId>>
    BY <1>2, <1>3 DEF Sort
  <1>5. /\ Processor'
        /\ LockUp(l)' = IF LockUp(l) > 0 THEN LockUp(l) - 1 ELSE LockUp(l)
        /\ LocksSame(Locks \ {l}) /\ DonesSame(Devices) /\ NotesSame(Threads)
        /\ pc' = [pc EXCEPT ![t] = IF LockUp(l) > 0 THEN "inside" ELSE "acquire"]
    BY <1>1, <1>3, <1>4, PLock
  <1>6. TypeOK'
    BY <1>1, <1>2, <1>3, <1>4, <1>5 DEF TypeOK, Labels, Processor
  <1>7. Roles'
    BY <1>1, <1>2, <1>3, <1>4, <1>5 DEF TypeOK, Roles, Labels
  <1>8. Exclusive'
    <2>1. /\ \A u \in Threads \ {t} : \A k \in Locks : In(u, k)' <=> In(u, k)
          /\ \A k \in Locks : ~In(t, k)
          /\ \A k \in Locks : In(t, k)' <=> k = l /\ LockUp(l) > 0
      BY <1>1, <1>2, <1>3, <1>4, <1>5 DEF TypeOK, In, Runs
    <2> QED BY <2>1, <1>1, <1>3, <1>4, <1>5, AcquireExcludes DEF LocksSame
  <1>9. Holding'
    BY <1>1, <1>2, <1>3, <1>4, <1>5 DEF TypeOK, Holding, Runs
  <1>10. Answering'
    BY <1>1, <1>2, <1>3, <1>4, <1>5 DEF TypeOK, Answering, Runs, DonesSame, Devices
  <1>11. Typing'
    BY <1>1, <1>2, <1>3, <1>4, <1>5 DEF TypeOK, Typing, Runs, DonesSame, Devices
  <1>12. Delivering' /\ NoAssertionFails'
    BY <1>1, <1>2, <1>3, <1>4, <1>5 DEF TypeOK, Delivering, Runs, DonesSame, Devices, NoAssertionFails
  <1> QED BY <1>6, <1>7, <1>8, <1>9, <1>10, <1>11, <1>12 DEF Inv

\* A request goes to a device that is idle, so its P waits for the interrupt.
LEMMA RequestKeeps ==
    ASSUME Inv, NEW t \in Threads, Request(t)
    PROVE  Inv'
  <1> USE DEF synchVars, ioVars, inputVars
  <1>1. /\ TypeOK /\ Roles /\ Exclusive /\ Holding /\ Answering /\ Typing /\ Delivering /\ NoAssertionFails
    BY DEF Inv
  <1>2. Runs(t, "inside") /\ call[t] \in Outputs
    BY DEF Request
  <1>3. t # Worker
    BY <1>1, <1>2, SemaphoreNames DEF Roles, Runs, Mail
  <1>4. PICK l \in Outputs : l = call[t] /\ l \in Locks /\ l \in Devices /\ l \notin Boxes /\ l # "keyboard"
    BY <1>2, SemaphoreNames DEF Devices
  <1>5. In(t, l) /\ \A u \in Threads : In(u, l) => u = t
    BY <1>1, <1>2, <1>4 DEF In, Runs, Exclusive
  <1>6. l \notin active /\ Done(l) = 0
    <2>1. ~\E u \in Threads : pc[u] = "wait" /\ call[u] = l
      BY <1>2, <1>4, <1>5 DEF In, Runs
    <2> QED BY <1>1, <2>1 DEF Answering
  <1>7. /\ lockHolder' = [lockHolder EXCEPT ![l] = t]
        /\ active' = active \cup {l}
        /\ left' = [left EXCEPT ![t] = @ - 1]
        /\ P(t, <<"done", l>>, "wait", AfterDone(left[t] - 1))
        /\ UNCHANGED <<version, waitQueue, timer, machine, call, calls, inputVars>>
    BY <1>4, <1>6 DEF Request, BusyDevice, HoldLock
  <1>8. /\ Processor'
        /\ Done(l)' = 0
        /\ LocksSame(Locks) /\ DonesSame(Devices \ {l}) /\ NotesSame(Threads)
        /\ pc' = [pc EXCEPT ![t] = "wait"]
    BY <1>1, <1>4, <1>6, <1>7, PDone
  <1>9. left[t] \in 1 .. 2
    BY <1>1, <1>2, <1>3 DEF Roles, Runs, TypeOK
  <1>10. TypeOK'
    BY <1>1, <1>4, <1>7, <1>8, <1>9 DEF TypeOK, Labels, Processor
  <1>11. Roles'
    BY <1>1, <1>2, <1>3, <1>4, <1>7, <1>8 DEF TypeOK, Roles, Runs
  <1>12. Exclusive'
    <2>1. \A u \in Threads : \A k \in Locks : In(u, k)' <=> In(u, k)
      BY <1>1, <1>2, <1>4, <1>7, <1>8 DEF TypeOK, In, Runs
    <2>2. \A u \in Threads : \A k \in Locks : lockHolder'[k] = u => lockHolder[k] = u \/ In(u, k)
      BY <1>1, <1>5, <1>7 DEF TypeOK
    <2> QED BY <2>1, <2>2, <1>1, <1>8, StayExcludes DEF LocksSame
  <1>13. Holding'
    <2>1. ASSUME NEW u \in Threads \ {t},
                 pc'[u] = "release" \/ (pc'[u] = "wait" /\ call'[u] \notin Boxes)
          PROVE  lockHolder'[call'[u]] = u
      <3>1. pc'[u] = pc[u] /\ call'[u] = call[u] /\ lockHolder[call[u]] = u
        BY <1>1, <1>7, <1>8, <2>1 DEF TypeOK, Holding
      <3>2. lockHolder[l] # u
        BY <1>1, <1>4, <1>5 DEF Exclusive
      <3> QED BY <3>1, <3>2, <1>7
    <2>2. lockHolder'[call'[t]] = t
      BY <1>1, <1>4, <1>7 DEF TypeOK
    <2> QED BY <2>1, <2>2 DEF Holding
  <1>14. Answering'
    <2>1. pc'[t] = "wait" /\ call'[t] = l
      BY <1>1, <1>4, <1>7, <1>8 DEF TypeOK
    <2>2. ASSUME NEW k \in Outputs, k # l
          PROVE  /\ Done(k)' = Done(k) /\ (k \in active' <=> k \in active)
                 /\ \A u \in Threads : pc'[u] = "wait" /\ call'[u] = k <=> pc[u] = "wait" /\ call[u] = k
      BY <1>1, <1>4, <1>7, <1>8, <2>2 DEF TypeOK, DonesSame, Devices
    <2> QED BY <1>1, <1>7, <1>8, <2>1, <2>2 DEF Answering
  <1>15. Typing'
    BY <1>1, <1>2, <1>4, <1>7, <1>8 DEF TypeOK, Typing, Runs, DonesSame, Devices
  <1>16. Delivering' /\ NoAssertionFails'
    BY <1>1, <1>2, <1>3, <1>4, <1>7, <1>8, SemaphoreNames
    DEF TypeOK, Delivering, Runs, DonesSame, Devices, NoAssertionFails
  <1> QED BY <1>10, <1>11, <1>12, <1>13, <1>14, <1>15, <1>16 DEF Inv

\* The reader takes a character that has been announced, or waits.
LEMMA AwaitKeyKeeps ==
    ASSUME Inv, NEW t \in Threads, AwaitKey(t)
    PROVE  Inv'
  <1> USE DEF synchVars, ioVars, inputVars
  <1>1. /\ TypeOK /\ Roles /\ Exclusive /\ Holding /\ Answering /\ Typing /\ Delivering /\ NoAssertionFails
    BY DEF Inv
  <1>2. /\ Runs(t, "inside") /\ call[t] = "keyboard"
        /\ lockHolder' = [lockHolder EXCEPT !["keyboard"] = t]
        /\ P(t, <<"done", "keyboard">>, "wait", "release")
        /\ UNCHANGED <<version, waitQueue, timer, machine, ioVars>>
    BY DEF AwaitKey, HoldLock
  <1>3. /\ "keyboard" \in Locks /\ "keyboard" \in Devices
        /\ "keyboard" \notin Boxes /\ "keyboard" \notin Outputs
    BY SemaphoreNames DEF Devices
  <1>4. t # Worker
    BY <1>1, <1>2, <1>3 DEF Roles, Runs, Mail
  <1>5. In(t, "keyboard") /\ \A u \in Threads : In(u, "keyboard") => u = t
    BY <1>1, <1>2, <1>3 DEF In, Runs, Exclusive
  <1>6. /\ Processor'
        /\ Done("keyboard")' = IF Done("keyboard") > 0 THEN Done("keyboard") - 1 ELSE Done("keyboard")
        /\ LocksSame(Locks) /\ DonesSame(Devices \ {"keyboard"}) /\ NotesSame(Threads)
        /\ pc' = [pc EXCEPT ![t] = IF Done("keyboard") > 0 THEN "release" ELSE "wait"]
    BY <1>1, <1>2, <1>3, PDone
  <1>7. TypeOK'
    BY <1>1, <1>2, <1>3, <1>6 DEF TypeOK, Labels, Processor
  <1>8. Roles'
    BY <1>1, <1>2, <1>3, <1>4, <1>6 DEF TypeOK, Roles, Runs
  <1>9. Exclusive'
    <2>1. \A u \in Threads : \A k \in Locks : In(u, k)' <=> In(u, k)
      BY <1>1, <1>2, <1>3, <1>6 DEF TypeOK, In, Runs
    <2>2. \A u \in Threads : \A k \in Locks : lockHolder'[k] = u => lockHolder[k] = u \/ In(u, k)
      BY <1>1, <1>2, <1>5 DEF TypeOK
    <2> QED BY <2>1, <2>2, <1>1, <1>6, StayExcludes DEF LocksSame
  <1>10. Holding'
    <2>1. ASSUME NEW u \in Threads \ {t},
                 pc'[u] = "release" \/ (pc'[u] = "wait" /\ call'[u] \notin Boxes)
          PROVE  lockHolder'[call'[u]] = u
      <3>1. pc'[u] = pc[u] /\ call'[u] = call[u] /\ lockHolder[call[u]] = u
        BY <1>1, <1>2, <1>6, <2>1 DEF TypeOK, Holding
      <3>2. lockHolder["keyboard"] # u
        BY <1>1, <1>3, <1>5 DEF Exclusive
      <3> QED BY <3>1, <3>2, <1>2
    <2>2. lockHolder'[call'[t]] = t
      BY <1>1, <1>2, <1>3 DEF TypeOK
    <2> QED BY <2>1, <2>2 DEF Holding
  <1>11. Answering'
    <2>1. ASSUME NEW k \in Outputs
          PROVE  /\ Done(k)' = Done(k)
                 /\ \A u \in Threads : pc'[u] = "wait" /\ call'[u] = k <=> pc[u] = "wait" /\ call[u] = k
      BY <1>1, <1>2, <1>3, <1>6 DEF TypeOK, DonesSame, Devices, Runs
    <2> QED BY <1>1, <1>2, <2>1 DEF Answering
  <1>12. Typing'
    <2>1. \A u \in Threads \ {t} : ~(pc'[u] = "release" /\ call'[u] = "keyboard")
      BY <1>1, <1>2, <1>5, <1>6 DEF TypeOK, In
    <2>2. pc'[t] = (IF Done("keyboard") > 0 THEN "release" ELSE "wait") /\ call'[t] = "keyboard"
      BY <1>1, <1>2, <1>6 DEF TypeOK
    <2>3. CASE Done("keyboard") = 1
      BY <1>1, <1>2, <1>6, <2>1, <2>2, <2>3 DEF Typing
    <2>4. CASE Done("keyboard") = 0
      <3>1. ~\E u \in Threads : pc[u] = "release" /\ call[u] = "keyboard"
        BY <1>2, <1>5 DEF In, Runs
      <3> QED BY <1>1, <1>2, <1>6, <2>1, <2>2, <2>4, <3>1 DEF Typing
    <2> QED BY <1>1, <2>3, <2>4 DEF Typing
  <1>13. Delivering' /\ NoAssertionFails'
    BY <1>1, <1>2, <1>4, <1>6 DEF TypeOK, Delivering, Runs, DonesSame, Devices, NoAssertionFails
  <1> QED BY <1>7, <1>8, <1>9, <1>10, <1>11, <1>12, <1>13 DEF Inv

\* A thread in the wait for a device takes the answer, or waits on.
LEMMA AnsweredKeeps ==
    ASSUME Inv, NEW t \in Threads, Answered(t)
    PROVE  Inv'
  <1> USE DEF synchVars, ioVars, inputVars
  <1>1. /\ TypeOK /\ Roles /\ Exclusive /\ Holding /\ Answering /\ Typing /\ Delivering /\ NoAssertionFails
    BY DEF Inv
  <1>2. Runs(t, "wait") /\ call[t] \in Outputs \cup {"keyboard"}
    BY DEF Answered
  <1>3. PICK l \in Outputs \cup {"keyboard"} :
           l = call[t] /\ l \in Locks /\ l \in Devices /\ l \notin Boxes /\ "keyboard" \notin Outputs
    BY <1>2, SemaphoreNames DEF Devices
  <1> DEFINE after == IF l = "keyboard" THEN "release" ELSE IF left[t] = 0 THEN "release" ELSE "inside"
  <1>4. /\ P(t, <<"done", l>>, "wait", after)
        /\ UNCHANGED <<version, lockHolder, waitQueue, timer, machine, ioVars>>
    BY <1>3 DEF Answered, AfterDone
  <1>5. t # Worker
    BY <1>1, <1>2 DEF Roles, Runs
  <1>6. In(t, l) /\ \A u \in Threads : In(u, l) => u = t
    BY <1>1, <1>2, <1>3 DEF In, Runs, Exclusive
  <1>7. /\ Processor'
        /\ Done(l)' = IF Done(l) > 0 THEN Done(l) - 1 ELSE Done(l)
        /\ LocksSame(Locks) /\ DonesSame(Devices \ {l}) /\ NotesSame(Threads)
        /\ pc' = [pc EXCEPT ![t] = IF Done(l) > 0 THEN after ELSE "wait"]
    BY <1>1, <1>3, <1>4, PDone
  <1>8. Done(l) \in {0, 1}
    BY <1>1 DEF Answering, Typing
  <1>9. TypeOK'
    BY <1>1, <1>4, <1>7 DEF TypeOK, Labels, Processor
  <1>10. Roles'
    <2>1. /\ pc'[t] \in {"inside", "release", "wait"}
          /\ pc'[t] = "inside" => l \in Outputs /\ left[t] # 0
      BY <1>1, <1>7 DEF TypeOK
    <2>2. left[t] \in 0 .. 2
      BY <1>1 DEF TypeOK
    <2>3. \A u \in Threads \ {t} : pc'[u] = pc[u]
      BY <1>1, <1>7 DEF TypeOK
    <2> QED BY <1>1, <1>3, <1>4, <1>5, <2>1, <2>2, <2>3, SemaphoreNames DEF Roles
  <1>11. Exclusive'
    <2>1. \A u \in Threads : \A k \in Locks : In(u, k)' <=> In(u, k)
      BY <1>1, <1>2, <1>3, <1>4, <1>7 DEF TypeOK, In, Runs
    <2> QED BY <2>1, <1>1, <1>4, <1>7, StayExcludes DEF LocksSame
  <1>12. Holding'
    <2>1. lockHolder[call[t]] = t
      BY <1>1, <1>2, <1>3 DEF Holding, Runs
    <2> QED BY <2>1, <1>1, <1>4, <1>7 DEF Holding, TypeOK
  <1>13. Answering'
    <2>1. ASSUME NEW k \in Outputs, k # l
          PROVE  /\ Done(k)' = Done(k)
                 /\ \A u \in Threads : pc'[u] = "wait" /\ call'[u] = k <=> pc[u] = "wait" /\ call[u] = k
      BY <1>1, <1>3, <1>4, <1>7, <2>1 DEF TypeOK, DonesSame, Devices
    <2>2. ASSUME NEW k \in Outputs, k = l, Done(l) = 1
          PROVE  Done(k)' = 0 /\ k \notin active /\ ~\E u \in Threads : pc'[u] = "wait" /\ call'[u] = k
      <3>1. \A u \in Threads : call'[u] = k /\ pc'[u] = "wait" => u = t
        BY <1>1, <1>3, <1>4, <1>6, <1>7, <2>2 DEF TypeOK, In
      <3>2. pc'[t] # "wait"
        BY <1>1, <1>7, <2>2 DEF TypeOK
      <3> QED BY <1>1, <1>7, <2>2, <3>1, <3>2 DEF Answering
    <2>3. ASSUME NEW k \in Outputs, k = l, Done(l) = 0
          PROVE  Done(k)' = Done(k) /\ pc' = pc
      BY <1>1, <1>2, <1>7, <2>3 DEF TypeOK, Runs
    <2> QED BY <1>1, <1>4, <1>8, <2>1, <2>2, <2>3 DEF Answering
  <1>14. Typing'
    <2>1. CASE l = "keyboard" /\ Done(l) = 1
      <3>1. \A u \in Threads \ {t} : ~(pc'[u] = "release" /\ call'[u] = "keyboard")
        BY <1>1, <1>4, <1>6, <1>7, <2>1 DEF TypeOK, In
      <3>2. pc'[t] = "release" /\ call'[t] = "keyboard"
        BY <1>1, <1>3, <1>4, <1>7, <2>1 DEF TypeOK
      <3> QED BY <1>1, <1>4, <1>7, <2>1, <3>1, <3>2 DEF Typing
    <2>2. CASE l = "keyboard" /\ Done(l) = 0
      <3>1. pc' = pc /\ Done("keyboard")' = Done("keyboard")
        BY <1>1, <1>2, <1>7, <2>2 DEF TypeOK, Runs
      <3> QED BY <1>1, <1>4, <3>1 DEF Typing
    <2>3. CASE l # "keyboard"
      BY <1>1, <1>2, <1>3, <1>4, <1>7, <2>3 DEF TypeOK, Typing, DonesSame, Devices, Runs
    <2> QED BY <1>8, <2>1, <2>2, <2>3
  <1>15. Delivering' /\ NoAssertionFails'
    BY <1>1, <1>2, <1>3, <1>4, <1>5, <1>7, SemaphoreNames
    DEF TypeOK, Delivering, Runs, DonesSame, Devices, NoAssertionFails
  <1> QED BY <1>9, <1>10, <1>11, <1>12, <1>13, <1>14, <1>15 DEF Inv

\* The worker takes a packet that has been announced, or waits.
LEMMA AwaitMailKeeps ==
    ASSUME Inv, NEW t \in Threads, AwaitMail(t)
    PROVE  Inv'
  <1> USE DEF synchVars, ioVars, inputVars
  <1>1. /\ TypeOK /\ Roles /\ Exclusive /\ Holding /\ Answering /\ Typing /\ Delivering /\ NoAssertionFails
    BY DEF Inv
  <1>2. /\ Runs(t, "worker") /\ P(t, <<"done", "mail">>, "worker", "sort")
        /\ UNCHANGED <<version, lockHolder, waitQueue, timer, machine, ioVars>>
    BY DEF AwaitMail
  <1>3. t = Worker /\ "mail" \in Devices /\ "mail" \notin Outputs
    BY <1>1, <1>2 DEF Roles, Runs, Devices, Outputs
  <1>4. /\ Processor'
        /\ Done("mail")' = IF Done("mail") > 0 THEN Done("mail") - 1 ELSE Done("mail")
        /\ LocksSame(Locks) /\ DonesSame(Devices \ {"mail"}) /\ NotesSame(Threads)
        /\ pc' = [pc EXCEPT ![t] = IF Done("mail") > 0 THEN "sort" ELSE "worker"]
    BY <1>1, <1>2, <1>3, PDone
  <1>5. TypeOK'
    BY <1>1, <1>2, <1>4 DEF TypeOK, Labels, Processor
  <1>6. Roles'
    BY <1>1, <1>2, <1>3, <1>4 DEF TypeOK, Roles, Runs
  <1>7. Exclusive'
    <2>1. \A u \in Threads : \A k \in Locks : In(u, k)' <=> In(u, k)
      BY <1>1, <1>2, <1>4 DEF TypeOK, In, Runs
    <2> QED BY <2>1, <1>1, <1>2, <1>4, StayExcludes DEF LocksSame
  <1>8. Holding'
    BY <1>1, <1>2, <1>4 DEF TypeOK, Holding, Runs
  <1>9. Answering'
    BY <1>1, <1>2, <1>3, <1>4 DEF TypeOK, Answering, Runs, DonesSame, Devices
  <1>10. Typing'
    BY <1>1, <1>2, <1>3, <1>4 DEF TypeOK, Typing, Runs, DonesSame, Devices
  <1>11. Delivering'
    <2>1. Done("mail") \in {0, 1} /\ pc[Worker] = "worker"
      BY <1>1, <1>2, <1>3 DEF Delivering, Runs
    <2>2. CASE Done("mail") = 1
      <3>1. pc'[Worker] = "sort" /\ Done("mail")' = 0 /\ inHdr # NoMail
        BY <1>1, <1>3, <1>4, <2>2 DEF TypeOK, Delivering
      <3> QED BY <3>1, <1>2 DEF Delivering
    <2>3. CASE Done("mail") = 0
      <3>1. pc'[Worker] = "worker" /\ Done("mail")' = 0
        BY <1>1, <1>3, <1>4, <2>3 DEF TypeOK
      <3> QED BY <3>1, <2>1, <2>3, <1>1, <1>2 DEF Delivering
    <2> QED BY <2>1, <2>2, <2>3
  <1>12. NoAssertionFails'
    BY <1>1, <1>2 DEF NoAssertionFails
  <1> QED BY <1>5, <1>6, <1>7, <1>8, <1>9, <1>10, <1>11, <1>12 DEF Inv

\* A waiter that was signalled asks for the lock again, or waits on.
LEMMA AwaitSignalKeeps ==
    ASSUME Inv, NEW t \in Threads, AwaitSignal(t)
    PROVE  Inv'
  <1> USE DEF synchVars, ioVars, inputVars
  <1>1. /\ TypeOK /\ Roles /\ Exclusive /\ Holding /\ Answering /\ Typing /\ Delivering /\ NoAssertionFails
    BY DEF Inv
  <1>2. /\ Runs(t, "wait") /\ call[t] \in Boxes
        /\ P(t, <<"waiter", t>>, "wait", "acquire")
        /\ UNCHANGED <<version, lockHolder, waitQueue, timer, machine, ioVars>>
    BY DEF AwaitSignal
  <1>3. t # Worker /\ call[t] \notin Outputs \cup {"keyboard"}
    BY <1>1, <1>2, SemaphoreNames DEF Roles, Runs
  <1>4. /\ Processor'
        /\ LocksSame(Locks) /\ DonesSame(Devices) /\ NotesSame(Threads \ {t})
        /\ pc' = [pc EXCEPT ![t] = IF Note(t) > 0 THEN "acquire" ELSE "wait"]
    BY <1>1, <1>2, PWaiter
  <1>5. TypeOK'
    BY <1>1, <1>2, <1>4 DEF TypeOK, Labels, Processor
  <1>6. Roles'
    BY <1>1, <1>2, <1>3, <1>4 DEF TypeOK, Roles, Runs
  <1>7. Exclusive'
    <2>1. \A u \in Threads : \A k \in Locks : In(u, k)' <=> In(u, k)
      BY <1>1, <1>2, <1>4 DEF TypeOK, In, Runs
    <2> QED BY <2>1, <1>1, <1>2, <1>4, StayExcludes DEF LocksSame
  <1>8. Holding'
    BY <1>1, <1>2, <1>4 DEF TypeOK, Holding, Runs
  <1>9. Answering'
    BY <1>1, <1>2, <1>3, <1>4 DEF TypeOK, Answering, Runs, DonesSame, Devices
  <1>10. Typing'
    BY <1>1, <1>2, <1>3, <1>4 DEF TypeOK, Typing, Runs, DonesSame, Devices
  <1>11. Delivering' /\ NoAssertionFails'
    BY <1>1, <1>2, <1>3, <1>4 DEF TypeOK, Delivering, Runs, DonesSame, Devices, NoAssertionFails
  <1> QED BY <1>5, <1>6, <1>7, <1>8, <1>9, <1>10, <1>11 DEF Inv

\* The steps that move no thread along in its call: the processor changes
\* hands, the timer rings, a user is done, the machine halts.
LEMMA SchedulingKeeps ==
    ASSUME Inv, UNCHANGED <<sem, lockHolder, call, left, active, polling, incoming, inHdr, buffer>>,
           TypeOK', machine' # "aborted",
           \/ UNCHANGED pc
           \/ \E t \in Threads \ {Worker} : pc[t] = "user" /\ pc' = [pc EXCEPT ![t] = "finished"]
    PROVE  Inv'
  <1>1. /\ TypeOK /\ Roles /\ Exclusive /\ Holding /\ Answering /\ Typing /\ Delivering /\ NoAssertionFails
    BY DEF Inv
  <1>2. /\ LocksSame(Locks) /\ DonesSame(Devices)
    BY DEF LocksSame, DonesSame, LockUp, Done, Value
  <1>3. \A u \in Threads : \A x \in Labels \ {"user", "finished"} : pc'[u] = x <=> pc[u] = x
    BY <1>1 DEF TypeOK, Labels
  <1>4. pc'[Worker] = pc[Worker] /\ Worker \in Threads
    BY <1>1, SemaphoreNames DEF TypeOK
  <1>5. Roles'
    <2>1. \A u \in Threads : pc'[u] = pc[u] \/ (u # Worker /\ pc'[u] = "finished")
      BY <1>1 DEF TypeOK
    <2> QED BY <1>1, <1>4, <2>1 DEF Roles
  <1>6. Exclusive'
    <2>1. \A u \in Threads : \A k \in Locks : In(u, k)' <=> In(u, k)
      <3>1. /\ {"inside", "release", "wait"} \subseteq Labels \ {"user", "finished"}
            /\ call' = call
        BY DEF Labels
      <3>2. \A u \in Threads : /\ pc'[u] = "inside" <=> pc[u] = "inside"
                               /\ pc'[u] = "release" <=> pc[u] = "release"
                               /\ pc'[u] = "wait" <=> pc[u] = "wait"
        BY <1>3, <3>1
      <3> QED BY <3>1, <3>2 DEF In
    <2> QED BY <2>1, <1>1, <1>2, StayExcludes DEF LocksSame
  <1>7. Holding'
    BY <1>1, <1>3 DEF Holding, Labels
  <1>8. Answering'
    BY <1>1, <1>2, <1>3 DEF Answering, DonesSame, Devices, Labels
  <1>9. Typing'
    BY <1>1, <1>2, <1>3 DEF Typing, DonesSame, Devices, Labels
  <1>10. Delivering' /\ NoAssertionFails'
    BY <1>1, <1>2, <1>4 DEF Delivering, DonesSame, Devices, NoAssertionFails
  <1> QED BY <1>5, <1>6, <1>7, <1>8, <1>9, <1>10 DEF Inv

\* The thread that releases a lock holds it, and is outside afterwards.
LEMMA LeaveExcludes ==
    ASSUME TypeOK, Exclusive, Holding, NEW t \in Threads, NEW l \in Locks, call[t] = l,
           pc[t] \in {"inside", "release"}, V(<<"lock", l>>),
           lockHolder' = [lockHolder EXCEPT ![l] = Nobody],
           NEW x \in {"user", "worker", "wait"}, x = "wait" => l \in Boxes,
           pc' = [pc EXCEPT ![t] = x], UNCHANGED call
    PROVE  /\ Exclusive' /\ Holding'
           /\ sem' \in [Semaphores -> [value : Nat, queue : Seq(Threads)]]
           /\ ready' \in Seq(Threads)
           /\ DonesSame(Devices) /\ NotesSame(Threads)
  <1>1. /\ sem' \in [Semaphores -> [value : Nat, queue : Seq(Threads)]]
        /\ ready' \in Seq(Threads)
        /\ LockUp(l)' = LockUp(l) + 1
        /\ LocksSame(Locks \ {l}) /\ DonesSame(Devices) /\ NotesSame(Threads)
    BY VLock
  <1>2. pc \in [Threads -> Labels] /\ lockHolder \in [Locks -> Threads \cup {Nobody}]
    BY DEF TypeOK
  <1>3. /\ In(t, l)
        /\ \A k \in Locks : ~In(t, k)'
        /\ \A u \in Threads \ {t} : \A k \in Locks : In(u, k)' <=> In(u, k)
    BY <1>2 DEF In
  <1>4. Exclusive'
    BY <1>1, <1>2, <1>3, SynchAssumption, ReleaseExcludes DEF LocksSame
  <1>5. Holding'
    <2>1. ASSUME NEW u \in Threads,
                 pc'[u] = "release" \/ (pc'[u] = "wait" /\ call'[u] \notin Boxes)
          PROVE  lockHolder'[call'[u]] = u
      <3>1. u # t /\ pc'[u] = pc[u] /\ call'[u] = call[u] /\ lockHolder[call[u]] = u
        BY <1>2, <2>1 DEF Holding
      <3>2. lockHolder[l] # u
        BY <1>3, <3>1 DEF Exclusive
      <3> QED BY <3>1, <3>2, <1>2
    <2> QED BY <2>1 DEF Holding
  <1> QED BY <1>1, <1>4, <1>5

\* The holder releases; a reader has taken its character and polls again.
LEMMA ReleaseLockKeeps ==
    ASSUME Inv, NEW t \in Threads, ReleaseLock(t)
    PROVE  Inv'
  <1> USE DEF synchVars, ioVars, inputVars
  <1>1. /\ TypeOK /\ Roles /\ Exclusive /\ Holding /\ Answering /\ Typing /\ Delivering /\ NoAssertionFails
    BY DEF Inv
  <1>2. Runs(t, "release") /\ lockHolder[call[t]] = t
    BY <1>1 DEF ReleaseLock, Holding, Runs
  <1>3. PICK l \in Locks : l = call[t] /\ (t = Worker => l \in Boxes) /\ (t # Worker => l \notin Boxes)
    BY <1>1, <1>2, SemaphoreNames DEF Roles, Runs, Mail
  <1>4. PICK x \in {"user", "worker"} : /\ x = IF t = Worker THEN "worker" ELSE "user"
                                        /\ pc' = [pc EXCEPT ![t] = x]
    BY <1>2 DEF ReleaseLock, Goes
  <1>5. /\ lockHolder' = [lockHolder EXCEPT ![l] = Nobody] /\ V(<<"lock", l>>)
        /\ IF l = "keyboard"
           THEN polling' = (polling \/ incoming # 0) /\ incoming' = 0
           ELSE UNCHANGED <<polling, incoming>>
        /\ UNCHANGED <<version, waitQueue, running, slept, timer, ended, machine, call, calls,
                       left, active, typed, inHdr, buffer, box, nextId>>
    BY <1>2, <1>3 DEF ReleaseLock, Release
  <1>6. /\ Exclusive' /\ Holding'
        /\ sem' \in [Semaphores -> [value : Nat, queue : Seq(Threads)]]
        /\ ready' \in Seq(Threads)
        /\ DonesSame(Devices) /\ NotesSame(Threads)
    <2>1. pc[t] \in {"inside", "release"} /\ x \in {"user", "worker", "wait"} /\ x # "wait"
      BY <1>2, <1>4 DEF Runs
    <2> QED BY <2>1, <1>1, <1>3, <1>4, <1>5, LeaveExcludes
  <1>7. TypeOK'
    <2>1. polling' \in BOOLEAN /\ incoming' \in 0 .. MaxKeys
      <3>1. polling \in BOOLEAN /\ incoming \in 0 .. MaxKeys /\ 0 \in 0 .. MaxKeys
        BY <1>1, SyncIOAssumption DEF TypeOK
      <3>2. \A a, b : (a \/ b) \in BOOLEAN
        OBVIOUS
      <3>3. polling' = (polling \/ incoming # 0) \/ polling' = polling
        BY <1>5, Zenon
      <3>4. polling' \in BOOLEAN
        BY <3>1, <3>2, <3>3, Zenon
      <3>5. incoming' \in 0 .. MaxKeys
        BY <3>1, <1>5
      <3> QED BY <3>4, <3>5
    <2>2. lockHolder' \in [Locks -> Threads \cup {Nobody}]
      BY <1>1, <1>5 DEF TypeOK
    <2>3. pc' \in [Threads -> Labels]
      BY <1>1, <1>4 DEF TypeOK, Labels
    <2> QED BY <2>1, <2>2, <2>3, <1>1, <1>5, <1>6 DEF TypeOK
  <1>8. Roles'
    BY <1>1, <1>4, <1>5 DEF TypeOK, Roles
  <1>9. Answering'
    BY <1>1, <1>2, <1>4, <1>5, <1>6 DEF TypeOK, Answering, Runs, DonesSame, Devices
  <1>10. Typing'
    <2>1. Done("keyboard")' = Done("keyboard")
      BY <1>6 DEF DonesSame, Devices
    <2>2. pc'[t] # "release" /\ \A u \in Threads \ {t} : pc'[u] = pc[u] /\ call'[u] = call[u]
      BY <1>1, <1>4, <1>5 DEF TypeOK
    <2>3. CASE l = "keyboard"
      <3>1. In(t, l) /\ \A u \in Threads : In(u, l) => u = t
        BY <1>1, <1>2, <1>3 DEF Exclusive, In, Runs
      <3>2. \A u \in Threads : ~(pc'[u] = "release" /\ call'[u] = "keyboard")
        BY <2>2, <2>3, <3>1 DEF In
      <3>3. ~polling /\ Done("keyboard") = 0
        BY <1>1, <1>2, <1>3, <2>3 DEF Typing, Runs
      <3> QED BY <1>5, <2>1, <2>3, <3>2, <3>3 DEF Typing
    <2>4. CASE l # "keyboard"
      BY <1>1, <1>3, <1>5, <2>1, <2>2, <2>4 DEF Typing
    <2> QED BY <2>3, <2>4
  <1>11. Delivering' /\ NoAssertionFails'
    <2>1. (pc'[Worker] = "sort") <=> (pc[Worker] = "sort")
      BY <1>1, <1>2, <1>4, SemaphoreNames DEF TypeOK, Runs
    <2> QED BY <2>1, <1>1, <1>5, <1>6 DEF Delivering, DonesSame, Devices, NoAssertionFails
  <1> QED BY <1>6, <1>7, <1>8, <1>9, <1>10, <1>11 DEF Inv

\* The worker puts its packet into the box and signals a receiver, if one waits.
LEMMA PutKeeps ==
    ASSUME Inv, NEW t \in Threads, Put(t)
    PROVE  Inv'
  <1> USE DEF synchVars, ioVars, inputVars
  <1>1. /\ TypeOK /\ Roles /\ Exclusive /\ Holding /\ Answering /\ Typing /\ Delivering /\ NoAssertionFails
    BY DEF Inv
  <1>2. /\ Runs(t, "inside") /\ t = Worker
        /\ UNCHANGED <<version, running, slept, timer, ended, machine, call, calls, left, active,
                       polling, incoming, typed, inHdr, buffer, nextId>>
    BY DEF Put
  <1>3. PICK b \in Boxes : b = call[t] /\ b \in Locks /\ b # "keyboard" /\ b \notin Outputs
    BY <1>1, <1>2, SemaphoreNames DEF Roles, Runs, Mail
  <1>4. /\ buffer.id \in 1 .. MaxMail
        /\ box' = [box EXCEPT ![b] = Append(@, buffer.id)]
    BY <1>1, <1>2, <1>3 DEF Put, Roles, Runs, Mail
  <1>5. box' \in [Boxes -> Seq(1 .. MaxMail)]
    BY <1>1, <1>4, AppendQueue DEF TypeOK
  <1>6. CASE Signals(b)
    <2>1. PICK u \in Threads : u = Head(waitQueue[b])
      BY <1>1, <1>3, <1>6, TakeFront DEF TypeOK, Signals
    <2>2. /\ lockHolder' = [lockHolder EXCEPT ![b] = t]
          /\ waitQueue' = [waitQueue EXCEPT ![b] = Tail(@)]
          /\ V(<<"waiter", u>>)
          /\ pc' = [pc EXCEPT ![t] = "release"]
      BY <1>3, <1>6, <2>1 DEF Put, HoldLock, Signal, Goes
    <2>3. /\ sem' \in [Semaphores -> [value : Nat, queue : Seq(Threads)]]
          /\ ready' \in Seq(Threads)
          /\ LocksSame(Locks) /\ DonesSame(Devices)
      BY <1>1, <2>2, VWaiter
    <2>4. In(t, b) /\ \A v \in Threads : In(v, b) => v = t
      BY <1>1, <1>2, <1>3 DEF In, Runs, Exclusive
    <2>5. TypeOK'
      <3>1. waitQueue' \in [Locks -> Seq(Threads)]
        BY <1>1, <1>3, <1>6, <2>2, TakeFront DEF TypeOK, Signals
      <3> QED BY <3>1, <1>1, <1>2, <1>5, <2>2, <2>3 DEF TypeOK, Labels
    <2>6. Roles'
      BY <1>1, <1>2, <2>2 DEF TypeOK, Roles, Runs
    <2>7. Exclusive'
      <3>1. \A v \in Threads : \A k \in Locks : In(v, k)' <=> In(v, k)
        BY <1>1, <1>2, <2>2 DEF TypeOK, In, Runs
      <3>2. \A v \in Threads : \A k \in Locks : lockHolder'[k] = v => lockHolder[k] = v \/ In(v, k)
        BY <1>1, <2>2, <2>4 DEF TypeOK
      <3> QED BY <3>1, <3>2, <1>1, <2>3, StayExcludes DEF LocksSame
    <2>8. Holding'
      <3>1. ASSUME NEW v \in Threads \ {t},
                   pc'[v] = "release" \/ (pc'[v] = "wait" /\ call'[v] \notin Boxes)
            PROVE  lockHolder'[call'[v]] = v
        <4>1. pc'[v] = pc[v] /\ call'[v] = call[v] /\ lockHolder[call[v]] = v
          BY <1>1, <1>2, <2>2, <3>1 DEF TypeOK, Holding
        <4>2. lockHolder[b] # v
          BY <1>1, <1>3, <2>4 DEF Exclusive
        <4> QED BY <4>1, <4>2, <2>2
      <3>2. lockHolder'[call'[t]] = t
        BY <1>1, <1>2, <1>3, <2>2 DEF TypeOK
      <3> QED BY <3>1, <3>2 DEF Holding
    <2>9. Answering'
      BY <1>1, <1>2, <1>3, <2>2, <2>3 DEF TypeOK, Answering, Runs, DonesSame, Devices
    <2>10. Typing'
      BY <1>1, <1>2, <1>3, <2>2, <2>3 DEF TypeOK, Typing, Runs, DonesSame, Devices
    <2>11. Delivering' /\ NoAssertionFails'
      BY <1>1, <1>2, <2>2, <2>3 DEF TypeOK, Delivering, Runs, DonesSame, Devices, NoAssertionFails
    <2> QED BY <2>5, <2>6, <2>7, <2>8, <2>9, <2>10, <2>11 DEF Inv
  <1>7. CASE ~Signals(b)
    <2>1. /\ lockHolder' = [lockHolder EXCEPT ![b] = Nobody] /\ V(<<"lock", b>>)
          /\ pc' = [pc EXCEPT ![t] = "worker"] /\ UNCHANGED waitQueue
      BY <1>3, <1>7 DEF Put, Release, Goes
    <2>2. /\ Exclusive' /\ Holding'
          /\ sem' \in [Semaphores -> [value : Nat, queue : Seq(Threads)]]
          /\ ready' \in Seq(Threads)
          /\ DonesSame(Devices)
      <3>1. pc[t] \in {"inside", "release"} /\ "worker" \in {"user", "worker", "wait"}
        BY <1>2 DEF Runs
      <3> QED BY <3>1, <1>1, <1>2, <1>3, <2>1, LeaveExcludes
    <2>3. TypeOK'
      BY <1>1, <1>2, <1>5, <2>1, <2>2 DEF TypeOK, Labels
    <2>4. Roles'
      BY <1>1, <1>2, <2>1 DEF TypeOK, Roles, Runs
    <2>5. Answering'
      BY <1>1, <1>2, <1>3, <2>1, <2>2 DEF TypeOK, Answering, Runs, DonesSame, Devices
    <2>6. Typing'
      BY <1>1, <1>2, <1>3, <2>1, <2>2 DEF TypeOK, Typing, Runs, DonesSame, Devices
    <2>7. Delivering' /\ NoAssertionFails'
      BY <1>1, <1>2, <2>1, <2>2 DEF TypeOK, Delivering, Runs, DonesSame, Devices, NoAssertionFails
    <2> QED BY <2>2, <2>3, <2>4, <2>5, <2>6, <2>7 DEF Inv
  <1> QED BY <1>6, <1>7

\* A receiver takes the oldest item, or queues itself on the box and releases.
LEMMA GetKeeps ==
    ASSUME Inv, NEW t \in Threads, Get(t)
    PROVE  Inv'
  <1> USE DEF synchVars, ioVars, inputVars
  <1>1. /\ TypeOK /\ Roles /\ Exclusive /\ Holding /\ Answering /\ Typing /\ Delivering /\ NoAssertionFails
    BY DEF Inv
  <1>2. /\ Runs(t, "inside") /\ t # Worker /\ call[t] \in Boxes
        /\ UNCHANGED <<version, running, slept, timer, ended, machine, call, calls, left, active,
                       polling, incoming, typed, inHdr, buffer, nextId>>
    BY DEF Get
  <1>3. PICK b \in Boxes : b = call[t] /\ b \in Locks /\ b # "keyboard" /\ b \notin Outputs
    BY <1>2, SemaphoreNames
  <1>4. PICK x \in {"wait", "user"} :
           /\ pc' = [pc EXCEPT ![t] = x]
           /\ lockHolder' = [lockHolder EXCEPT ![b] = Nobody] /\ V(<<"lock", b>>)
           /\ \/ box[b] # << >> /\ box' = [box EXCEPT ![b] = Tail(@)] /\ UNCHANGED waitQueue
              \/ UNCHANGED box /\ waitQueue' = [waitQueue EXCEPT ![b] = Append(@, t)]
    BY <1>3 DEF Get, Wait, Release, Goes
  <1>5. /\ Exclusive' /\ Holding'
        /\ sem' \in [Semaphores -> [value : Nat, queue : Seq(Threads)]]
        /\ ready' \in Seq(Threads)
        /\ DonesSame(Devices)
    <2>1. pc[t] \in {"inside", "release"} /\ x \in {"user", "worker", "wait"} /\ b \in Boxes
      BY <1>2 DEF Runs
    <2> QED BY <2>1, <1>1, <1>2, <1>3, <1>4, LeaveExcludes
  <1>6. TypeOK'
    <2>1. box' \in [Boxes -> Seq(1 .. MaxMail)]
      <3>1. box[b] \in Seq(1 .. MaxMail) /\ box \in [Boxes -> Seq(1 .. MaxMail)]
        BY <1>1 DEF TypeOK
      <3>2. box[b] # << >> => Tail(box[b]) \in Seq(1 .. MaxMail)
        BY <3>1, TakeFront
      <3> QED BY <3>1, <3>2, <1>4
    <2>2. waitQueue' \in [Locks -> Seq(Threads)]
      <3>1. waitQueue[b] \in Seq(Threads) /\ waitQueue \in [Locks -> Seq(Threads)]
        BY <1>1, <1>3 DEF TypeOK
      <3>2. Append(waitQueue[b], t) \in Seq(Threads)
        BY <3>1, AppendQueue
      <3> QED BY <3>1, <3>2, <1>4
    <2> QED BY <2>1, <2>2, <1>1, <1>2, <1>4, <1>5 DEF TypeOK, Labels
  <1>7. Roles'
    BY <1>1, <1>2, <1>3, <1>4 DEF TypeOK, Roles, Runs
  <1>8. Answering'
    BY <1>1, <1>2, <1>3, <1>4, <1>5 DEF TypeOK, Answering, Runs, DonesSame, Devices
  <1>9. Typing'
    BY <1>1, <1>2, <1>3, <1>4, <1>5 DEF TypeOK, Typing, Runs, DonesSame, Devices
  <1>10. Delivering' /\ NoAssertionFails'
    BY <1>1, <1>2, <1>4, <1>5 DEF TypeOK, Delivering, Runs, DonesSame, Devices, NoAssertionFails
  <1> QED BY <1>5, <1>6, <1>7, <1>8, <1>9, <1>10 DEF Inv

\* An interrupt changes no thread's label: locks and labels stay as they are.
LEMMA InterruptStays ==
    ASSUME Exclusive, Holding, LocksSame(Locks), UNCHANGED <<pc, call, lockHolder>>
    PROVE  Exclusive' /\ Holding'
  <1>1. \A u \in Threads : \A k \in Locks : In(u, k)' <=> In(u, k)
    BY DEF In
  <1>2. Exclusive'
    BY <1>1, StayExcludes DEF LocksSame
  <1>3. Holding'
    BY DEF Holding
  <1> QED BY <1>2, <1>3

\* An output device answers the request it was given.
LEMMA OutputKeeps ==
    ASSUME Inv, NEW d \in Outputs, OutputInterrupt(d)
    PROVE  Inv'
  <1> USE DEF synchVars, ioVars, inputVars
  <1>1. /\ TypeOK /\ Roles /\ Exclusive /\ Holding /\ Answering /\ Typing /\ Delivering /\ NoAssertionFails
    BY DEF Inv
  <1>2. /\ d \in active /\ active' = active \ {d} /\ V(<<"done", d>>)
        /\ UNCHANGED <<version, lockHolder, waitQueue, running, slept, timer, ended, pc,
                       call, calls, left, buffer, box, machine, polling, incoming, typed, inHdr, nextId>>
    BY DEF OutputInterrupt, Interrupted
  <1>3. d \in Devices /\ d # "keyboard" /\ d # "mail"
    BY DEF Devices, Outputs
  <1>4. /\ sem' \in [Semaphores -> [value : Nat, queue : Seq(Threads)]]
        /\ ready' \in Seq(Threads)
        /\ Done(d)' = Done(d) + 1
        /\ LocksSame(Locks) /\ DonesSame(Devices \ {d})
    BY <1>1, <1>2, <1>3, VDone
  <1>5. TypeOK'
    BY <1>1, <1>2, <1>4 DEF TypeOK
  <1>6. Roles'
    BY <1>1, <1>2 DEF Roles
  <1>7. Answering'
    <2>1. Done(d) = 0 /\ Done(d)' = 1 /\ \E u \in Threads : pc[u] = "wait" /\ call[u] = d
      BY <1>1, <1>2, <1>4 DEF Answering
    <2>2. \A k \in Outputs \ {d} : Done(k)' = Done(k) /\ (k \in active' <=> k \in active)
      BY <1>2, <1>4 DEF DonesSame, Devices
    <2> QED BY <1>1, <1>2, <2>1, <2>2 DEF Answering
  <1>8. Typing'
    BY <1>1, <1>2, <1>3, <1>4 DEF Typing, DonesSame, Devices
  <1>9. Delivering' /\ NoAssertionFails'
    BY <1>1, <1>2, <1>3, <1>4 DEF Delivering, DonesSame, Devices, NoAssertionFails
  <1> QED BY <1>1, <1>2, <1>4, <1>5, <1>6, <1>7, <1>8, <1>9, InterruptStays DEF Inv

\* A poll of the keyboard finds no character untaken, and announces what it finds.
LEMMA KeyboardKeeps ==
    ASSUME Inv, KeyboardInterrupt
    PROVE  Inv'
  <1> USE DEF synchVars, ioVars, inputVars
  <1>1. /\ TypeOK /\ Roles /\ Exclusive /\ Holding /\ Answering /\ Typing /\ Delivering /\ NoAssertionFails
    BY DEF Inv
  <1>2. polling /\ incoming = 0 /\ Done("keyboard") = 0
    BY <1>1 DEF KeyboardInterrupt, Typing
  <1>3. /\ polling' = FALSE
        /\ UNCHANGED <<version, lockHolder, waitQueue, running, slept, timer, ended, pc,
                       call, calls, left, buffer, box, machine, active, inHdr, nextId>>
    BY <1>2 DEF KeyboardInterrupt, Interrupted
  <1>4. "keyboard" \in Devices /\ "keyboard" \notin Outputs
    BY DEF Devices, Outputs
  <1>5. \A u \in Threads : ~(pc[u] = "release" /\ call[u] = "keyboard")
    BY <1>1, <1>2 DEF Typing
  <1>6. CASE ended
    <2>1. UNCHANGED <<sem, ready, incoming, typed>>
      BY <1>2, <1>6 DEF KeyboardInterrupt
    <2>2. LocksSame(Locks) /\ DonesSame(Devices)
      BY <2>1 DEF LocksSame, DonesSame, LockUp, Done, Value
    <2>3. TypeOK' /\ Roles' /\ Exclusive' /\ Holding'
      <3>1. TypeOK'
        BY <1>1, <1>3, <2>1 DEF TypeOK
      <3>2. Roles'
        BY <1>1, <1>3 DEF Roles
      <3> QED BY <3>1, <3>2, <1>1, <1>3, <2>2, InterruptStays
    <2>4. Answering' /\ Typing'
      BY <1>1, <1>2, <1>3, <2>1, <2>2 DEF Answering, Typing, DonesSame, Devices
    <2>5. Delivering' /\ NoAssertionFails'
      BY <1>1, <1>3, <2>2 DEF Delivering, DonesSame, Devices, NoAssertionFails
    <2> QED BY <2>3, <2>4, <2>5 DEF Inv
  <1>7. CASE ~ended
    <2>1. /\ V(<<"done", "keyboard">>)
          /\ \/ typed < MaxKeys /\ typed' = typed + 1 /\ incoming' = typed + 1
             \/ UNCHANGED <<incoming, typed>>
      BY <1>2, <1>7 DEF KeyboardInterrupt
    <2>2. /\ sem' \in [Semaphores -> [value : Nat, queue : Seq(Threads)]]
          /\ ready' \in Seq(Threads)
          /\ Done("keyboard")' = 1
          /\ LocksSame(Locks) /\ DonesSame(Devices \ {"keyboard"})
      BY <1>1, <1>2, <1>4, <2>1, VDone
    <2>3. TypeOK'
      <3>1. typed' \in 0 .. MaxKeys /\ incoming' \in 0 .. MaxKeys
        BY <1>1, <2>1, SyncIOAssumption DEF TypeOK
      <3> QED BY <3>1, <1>1, <1>3, <2>2 DEF TypeOK
    <2>4. Roles'
      BY <1>1, <1>3 DEF Roles
    <2>5. Answering'
      BY <1>1, <1>3, <1>4, <2>2 DEF Answering, DonesSame, Devices
    <2>6. Typing'
      BY <1>3, <1>5, <2>2 DEF Typing
    <2>7. Delivering' /\ NoAssertionFails'
      BY <1>1, <1>3, <2>2 DEF Delivering, DonesSame, Devices, NoAssertionFails
    <2> QED BY <1>1, <1>3, <2>2, <2>3, <2>4, <2>5, <2>6, <2>7, InterruptStays DEF Inv
  <1> QED BY <1>6, <1>7

\* A packet comes in when the buffer is free.
LEMMA NetworkKeeps ==
    ASSUME Inv, NetworkInterrupt
    PROVE  Inv'
  <1> USE DEF synchVars, ioVars, inputVars
  <1>1. /\ TypeOK /\ Roles /\ Exclusive /\ Holding /\ Answering /\ Typing /\ Delivering /\ NoAssertionFails
    BY DEF Inv
  <1>2. /\ inHdr = NoMail /\ nextId <= MaxMail
        /\ nextId' = nextId + 1 /\ V(<<"done", "mail">>)
        /\ UNCHANGED <<version, lockHolder, waitQueue, running, slept, timer, ended, pc,
                       call, calls, left, buffer, box, machine, active, polling, incoming, typed>>
    BY DEF NetworkInterrupt, InboxFree, Interrupted
  <1>3. nextId \in 1 .. MaxMail /\ nextId' \in 1 .. MaxMail + 1
    BY <1>1, <1>2, SyncIOAssumption DEF TypeOK
  <1>4. inHdr' \in Mail /\ inHdr' # NoMail
    BY <1>3, SyncIOAssumption DEF NetworkInterrupt, Mail
  <1>5. "mail" \in Devices /\ "mail" \notin Outputs /\ Done("mail") = 0 /\ pc[Worker] # "sort"
    BY <1>1, <1>2 DEF Devices, Outputs, Delivering
  <1>6. /\ sem' \in [Semaphores -> [value : Nat, queue : Seq(Threads)]]
        /\ ready' \in Seq(Threads)
        /\ Done("mail")' = 1
        /\ LocksSame(Locks) /\ DonesSame(Devices \ {"mail"})
    <2>1. "mail" \in Devices /\ TypeOK /\ V(<<"done", "mail">>)
      BY <1>1, <1>2, <1>5
    <2>2. /\ sem' \in [Semaphores -> [value : Nat, queue : Seq(Threads)]]
          /\ ready' \in Seq(Threads)
          /\ Done("mail")' = Done("mail") + 1
          /\ LocksSame(Locks) /\ DonesSame(Devices \ {"mail"})
      BY <2>1, VDone
    <2> QED BY <2>2, <1>5
  <1>7. TypeOK'
    BY <1>1, <1>2, <1>3, <1>4, <1>6 DEF TypeOK
  <1>8. Roles'
    BY <1>1, <1>2 DEF Roles
  <1>9. Answering' /\ Typing'
    <2>1. Answering'
      BY <1>1, <1>2, <1>5, <1>6 DEF Answering, DonesSame, Devices
    <2>2. Done("keyboard")' = Done("keyboard")
      BY <1>6 DEF DonesSame, Devices
    <2> QED BY <1>1, <1>2, <2>1, <2>2 DEF Typing
  <1>10. Delivering' /\ NoAssertionFails'
    BY <1>1, <1>2, <1>4, <1>5, <1>6 DEF Delivering, NoAssertionFails
  <1> QED BY <1>1, <1>2, <1>6, <1>7, <1>8, <1>9, <1>10, InterruptStays DEF Inv

\* Thread::Yield, Sleep and the end of a thread leave every variable its type.
LEMMA SchedulingTypes ==
    ASSUME TypeOK,
           \/ \E t \in Threads : Finish(t)
           \/ IdleReturns /\ UNCHANGED ioVars
           \/ TimerInterrupt /\ UNCHANGED ioVars
           \/ Halt
           \/ UNCHANGED vars
    PROVE  TypeOK'
  <1> USE DEF synchVars, ioVars, inputVars
  <1>1. ready \in Seq(Threads) /\ running \in Threads \cup {Nobody} /\ ended \in BOOLEAN
    BY DEF TypeOK
  <1>2. ready # << >> => Head(ready) \in Threads /\ Tail(ready) \in Seq(Threads)
    BY <1>1, TakeFront
  <1>3. CASE \E t \in Threads : Finish(t)
    <2>1. PICK t \in Threads : Finish(t)
      BY <1>3
    <2>2. pc' \in [Threads -> Labels]
      BY <2>1 DEF Finish, Goes, TypeOK, Labels
    <2>3. ready' \in Seq(Threads) /\ running' \in Threads \cup {Nobody} /\ ended' \in BOOLEAN
      BY <1>1, <1>2, <2>1 DEF Finish, Sleep, PrepareToEnd
    <2> QED BY <2>1, <2>2, <2>3 DEF Finish, TypeOK
  <1>4. CASE IdleReturns /\ UNCHANGED ioVars
    BY <1>2, <1>4 DEF IdleReturns, TypeOK
  <1>5. CASE TimerInterrupt /\ UNCHANGED ioVars
    <2>1. running # Nobody /\ ready # << >> => Append(Tail(ready), running) \in Seq(Threads)
      BY <1>1, <1>2, AppendQueue
    <2>2. ready' \in Seq(Threads) /\ running' \in Threads \cup {Nobody}
      BY <1>1, <1>2, <1>5, <2>1 DEF TimerInterrupt
    <2>3. timer' \in BOOLEAN
      BY <1>5 DEF TimerInterrupt
    <2> QED BY <1>5, <2>2, <2>3 DEF TimerInterrupt, TypeOK
  <1>6. CASE Halt
    BY <1>6 DEF Halt, TypeOK
  <1>7. CASE UNCHANGED vars
    BY <1>7 DEF vars, TypeOK
  <1> QED BY <1>3, <1>4, <1>5, <1>6, <1>7

\* The kernel starts with the locks free, nothing done and nothing come in.
LEMMA InitEstablishesInv ==
    ASSUME Init
    PROVE  Inv
  <1>1. /\ Users \in Seq(Threads) /\ Users # << >>
        /\ Head(Users) \in Threads /\ Tail(Users) \in Seq(Threads)
    BY SyncIOAssumption, TakeFront
  <1>2. <<Worker>> \o Tail(Users) \in Seq(Threads)
    BY <1>1, SemaphoreNames
  <1>3. \A s \in Semaphores : sem[s].value = InitialValue(s) /\ sem[s].queue = << >>
    BY DEF Init, NewSemaphore
  <1>4. \A s \in Semaphores : InitialValue(s) \in Nat
    BY DEF InitialValue
  <1> DEFINE Start(s) == [value |-> InitialValue(s), queue |-> << >>]
  <1>5. sem \in [Semaphores -> [value : Nat, queue : Seq(Threads)]]
    <2>1. << >> \in Seq(Threads)
      OBVIOUS
    <2>2. \A s \in Semaphores : Start(s) \in [value : Nat, queue : Seq(Threads)]
      BY <1>4, <2>1
    <2>3. sem = [s \in Semaphores |-> Start(s)]
      BY DEF Init, NewSemaphore
    <2> HIDE DEF Start
    <2> QED BY <2>2, <2>3
  <1>6. /\ pc[Worker] \in {"worker", "finished"}
        /\ \A t \in Threads \ {Worker} : pc[t] = "user"
        /\ pc \in [Threads -> {"user", "worker", "finished"}]
    <2>1. pc = [t \in Threads |-> IF t # Worker THEN "user"
                                  ELSE IF version = "MP1" THEN "worker" ELSE "finished"]
      BY DEF Init
    <2>2. Worker \in Threads
      BY SemaphoreNames
    <2> QED BY <2>1, <2>2
  <1>7. TypeOK
    <2>1. /\ version \in {"MP1", "MP4"} /\ machine \in {"on", "halted", "aborted"}
          /\ lockHolder \in [Locks -> Threads \cup {Nobody}]
          /\ waitQueue \in [Locks -> Seq(Threads)]
          /\ ready \in Seq(Threads) /\ running \in Threads \cup {Nobody} /\ slept \subseteq Threads
          /\ timer \in BOOLEAN /\ ended \in BOOLEAN
      <3>1. ready \in Seq(Threads)
        <4>1. ready = IF version = "MP1" THEN <<Worker>> \o Tail(Users) ELSE Tail(Users)
          BY DEF Init
        <4> QED BY <1>1, <1>2, <4>1
      <3>2. running = Head(Users) /\ slept = {} /\ timer = TRUE /\ ended = FALSE
        BY DEF Init
      <3>3. waitQueue \in [Locks -> Seq(Threads)]
        BY DEF Init
      <3>4. lockHolder \in [Locks -> Threads \cup {Nobody}]
        BY DEF Init
      <3>5. version \in {"MP1", "MP4"} /\ machine \in {"on", "halted", "aborted"}
        BY DEF Init
      <3> QED BY <1>1, <3>1, <3>2, <3>3, <3>4, <3>5
    <2>2. /\ pc \in [Threads -> Labels] /\ call \in [Threads -> Locks \cup {"none"}]
          /\ calls \in [Threads -> Nat] /\ \A t \in Threads : calls[t] <= MaxCalls[t]
          /\ left \in [Threads -> 0 .. 2]
      BY <1>6, SyncIOAssumption DEF Init, Labels
    <2>3. /\ active \subseteq Outputs /\ polling \in BOOLEAN
          /\ typed \in 0 .. MaxKeys /\ incoming \in 0 .. MaxKeys
          /\ inHdr \in Mail \cup {NoMail} /\ buffer \in Mail \cup {NoMail}
          /\ box \in [Boxes -> Seq(1 .. MaxMail)] /\ nextId \in 1 .. MaxMail + 1
      BY SyncIOAssumption DEF Init
    <2> QED BY <1>5, <2>1, <2>2, <2>3 DEF TypeOK
  <1>8. /\ \A l \in Locks : LockUp(l) = 1
        /\ \A l \in Devices : Done(l) = 0
    BY <1>3, SemaphoreNames DEF LockUp, Done, Value, InitialValue
  <1>9. \A t \in Threads : pc[t] \in {"user", "worker", "finished"}
    BY <1>6
  <1>10. Roles
    BY <1>6 DEF Roles
  <1>11. Exclusive /\ Holding
    <2>1. \A l \in Locks : \A t \in Threads : ~In(t, l) /\ lockHolder[l] # t
      BY <1>9, SemaphoreNames DEF In, Init
    <2> QED BY <1>8, <1>9, <2>1 DEF Exclusive, Holding
  <1>12. Answering /\ Typing /\ Delivering /\ NoAssertionFails
    BY <1>6, <1>8, <1>9, SemaphoreNames
    DEF Answering, Typing, Delivering, NoAssertionFails, Devices, Outputs, Init
  <1> QED BY <1>7, <1>10, <1>11, <1>12 DEF Inv

\* Every step keeps it.
LEMMA StepKeepsInv ==
    ASSUME Inv, [Next]_vars
    PROVE  Inv'
  <1> USE DEF synchVars, ioVars, inputVars
  <1>1. TypeOK /\ NoAssertionFails
    BY DEF Inv
  <1>2. ASSUME NEW t \in Threads,
               \/ Call(t) \/ Acquire(t) \/ Finish(t) \/ Request(t) \/ AwaitKey(t) \/ Answered(t)
               \/ ReleaseLock(t) \/ AwaitMail(t) \/ Sort(t) \/ Put(t) \/ Get(t) \/ AwaitSignal(t)
        PROVE  Inv'
    <2>1. CASE Finish(t)
      <3>1. TypeOK'
        BY <1>1, <2>1, SchedulingTypes
      <3>2. /\ UNCHANGED <<sem, lockHolder, call, left, active, polling, incoming, inHdr, buffer>>
            /\ machine' # "aborted"
            /\ t \in Threads \ {Worker} /\ pc[t] = "user" /\ pc' = [pc EXCEPT ![t] = "finished"]
        BY <1>1, <2>1 DEF Finish, Runs, Goes, NoAssertionFails
      <3> QED BY <3>1, <3>2, SchedulingKeeps
    <2> QED BY <1>2, <2>1, CallKeeps, AcquireKeeps, RequestKeeps, AwaitKeyKeeps, AnsweredKeeps,
               ReleaseLockKeeps, AwaitMailKeeps, SortKeeps, PutKeeps, GetKeeps, AwaitSignalKeeps
  <1>3. ASSUME \/ IdleReturns /\ UNCHANGED ioVars
               \/ TimerInterrupt /\ UNCHANGED ioVars
               \/ Halt
               \/ UNCHANGED vars
        PROVE  Inv'
    <2>1. TypeOK'
      BY <1>1, <1>3, SchedulingTypes
    <2>2. /\ UNCHANGED <<sem, lockHolder, call, left, active, polling, incoming, inHdr, buffer>>
          /\ machine' # "aborted" /\ UNCHANGED pc
      BY <1>1, <1>3 DEF IdleReturns, TimerInterrupt, Halt, vars, NoAssertionFails
    <2> QED BY <2>1, <2>2, SchedulingKeeps
  <1> QED BY <1>2, <1>3, OutputKeeps, KeyboardKeeps, NetworkKeeps DEF Next, ThreadStep

---------------------------------------------------------------------------
(* The theorems about locks, devices and mail.                             *)

\* The locks, the devices and the mail are in order in every state.
THEOREM Invariance == Spec => []Inv
  <1>1. Init => Inv
    BY InitEstablishesInv
  <1>2. Inv /\ [Next]_vars => Inv'
    BY StepKeepsInv
  <1> QED BY <1>1, <1>2, PTL DEF Spec

\* Every variable of the synchronous calls keeps its type, so no call makes
\* more P's than its characters and no packet is stored that did not arrive.
THEOREM TypeCorrect == Spec => []TypeOK
  <1>1. Inv => TypeOK
    BY DEF Inv
  <1> QED BY <1>1, Invariance, PTL

\* ASSERT in Lock::Release, in the disk's and the display's request and in
\* ConsoleInput::CallBack: none of them fails, however the calls interleave.
THEOREM NoAssertionFailsHolds == Spec => []NoAssertionFails
  <1>1. Inv => NoAssertionFails
    BY DEF Inv
  <1> QED BY <1>1, Invariance, PTL

\* Lock::Acquire and Release (synch.cc): at most one thread is inside, the
\* semaphore says whether one is, and the recorded holder is that thread.
THEOREM OneInsideHolds == Spec => []OneInside
  <1>1. ASSUME Inv PROVE OneInside
    <2> SUFFICES ASSUME NEW l \in Locks
                 PROVE  /\ Cardinality(Inside(l)) <= 1
                        /\ sem[<<"lock", l>>].value = IF Inside(l) = {} THEN 1 ELSE 0
                        /\ lockHolder[l] \in Inside(l) \cup {Nobody}
      BY DEF OneInside
    <2>1. TypeOK /\ Exclusive
      BY <1>1 DEF Inv
    <2>2. Inside(l) = {t \in Threads : In(t, l)}
      BY DEF Inside, In
    <2>3. Cardinality(Inside(l)) <= 1
      <3>1. CASE Inside(l) = {}
        BY <3>1, FS_EmptySet
      <3>2. CASE Inside(l) # {}
        <4>1. PICK t : t \in Inside(l)
          BY <3>2
        <4>2. Inside(l) = {t}
          BY <2>1, <2>2, <4>1 DEF Exclusive
        <4> QED BY <4>2, FS_Singleton
      <3> QED BY <3>1, <3>2
    <2>4. LockUp(l) = IF Inside(l) = {} THEN 1 ELSE 0
      BY <2>1, <2>2 DEF Exclusive
    <2>5. lockHolder[l] \in Inside(l) \cup {Nobody}
      BY <2>1, <2>2 DEF Exclusive, TypeOK
    <2> QED BY <2>3, <2>4, <2>5 DEF LockUp, Value
  <1> QED BY <1>1, Invariance, PTL

\* SynchDisk and SynchConsoleOutput: whoever is about to release the device
\* had its own request answered, and nothing is left for the next caller.
THEOREM OwnAnswerHolds == Spec => []OwnAnswer
  <1>1. ASSUME Inv PROVE OwnAnswer
    <2> SUFFICES ASSUME NEW t \in Threads, pc[t] = "release", call[t] \in Outputs
                 PROVE  call[t] \notin active /\ sem[<<"done", call[t]>>].value = 0
      BY DEF OwnAnswer
    <2>1. Exclusive /\ Answering
      BY <1>1 DEF Inv
    <2>2. PICK l \in Outputs : l = call[t]
      OBVIOUS
    <2>3. l \in Locks /\ l \notin Boxes
      BY SemaphoreNames
    <2>4. In(t, l)
      BY <2>2 DEF In
    <2>5. ~\E u \in Threads : pc[u] = "wait" /\ call[u] = l
      BY <2>1, <2>3, <2>4 DEF Exclusive, In
    <2>6. l \notin active /\ Done(l) = 0
      BY <2>1, <2>5 DEF Answering
    <2> QED BY <2>2, <2>6 DEF Done, Value
  <1> QED BY <1>1, Invariance, PTL

---------------------------------------------------------------------------
(* The post office implements Mailboxes.                                   *)

\* The parts of MailFor(b) beside the list: with the worker, in the network's
\* buffer.
Handed(b) == IF InBuffer /\ buffer.to = b THEN <<buffer.id>> ELSE << >>
Arrived(b) == IF inHdr # NoMail /\ inHdr.to = b THEN <<inHdr.id>> ELSE << >>

\* A step that leaves the three parts alone leaves the mail alone.
LEMMA MailStays ==
    ASSUME UNCHANGED <<box, inHdr, nextId>>,
           InBuffer' <=> InBuffer, InBuffer => buffer' = buffer
    PROVE  UNCHANGED <<[b \in Boxes |-> MailFor(b)], nextId>>
  <1>1. ASSUME NEW b \in Boxes PROVE MailFor(b)' = MailFor(b)
    <2>1. Handed(b)' = Handed(b)
      BY DEF Handed
    <2>2. Arrived(b)' = Arrived(b)
      BY DEF Arrived
    <2> QED BY <2>1, <2>2 DEF MailFor, Handed, Arrived
  <1> QED BY <1>1

\* The parts are sequences of packet numbers.
LEMMA MailParts ==
    ASSUME Inv, NEW b \in Boxes
    PROVE  /\ box[b] \in Seq(1 .. MaxMail)
           /\ Handed(b) \in Seq(1 .. MaxMail)
           /\ Arrived(b) \in Seq(1 .. MaxMail)
           /\ MailFor(b) = (box[b] \o Handed(b)) \o Arrived(b)
           /\ InBuffer => buffer \in Mail /\ call[Worker] = buffer.to
  <1>1. TypeOK /\ Roles
    BY DEF Inv
  <1>2. InBuffer => buffer \in Mail /\ call[Worker] = buffer.to
    BY <1>1 DEF Roles, InBuffer
  <1>3. \A m \in Mail : <<m.id>> \in Seq(1 .. MaxMail)
    <2>1. \A i \in 1 .. MaxMail : <<i>> \in Seq(1 .. MaxMail)
      OBVIOUS
    <2> QED BY <2>1 DEF Mail
  <1>4. << >> \in Seq(1 .. MaxMail)
    OBVIOUS
  <1>5. inHdr # NoMail => inHdr \in Mail
    BY <1>1 DEF TypeOK
  <1>6. Handed(b) \in Seq(1 .. MaxMail) /\ Arrived(b) \in Seq(1 .. MaxMail)
    BY <1>2, <1>3, <1>4, <1>5 DEF Handed, Arrived
  <1> QED BY <1>1, <1>2, <1>6 DEF TypeOK, MailFor, Handed, Arrived

\* Sort hands the packet over: it leaves the network's buffer for the worker's.
LEMMA SortStays ==
    ASSUME Inv, NEW t \in Threads, Sort(t)
    PROVE  UNCHANGED <<[b \in Boxes |-> MailFor(b)], nextId>>
  <1> USE DEF ioVars, inputVars
  <1>1. TypeOK /\ Roles /\ Delivering
    BY DEF Inv
  <1>2. t = Worker /\ pc[Worker] = "sort" /\ Worker \in Threads
    BY <1>1, SemaphoreNames DEF Sort, Runs, Roles
  <1>3. /\ inHdr # NoMail /\ inHdr \in Mail
        /\ inHdr' = NoMail /\ buffer' = inHdr
        /\ box' = box /\ nextId' = nextId
    BY <1>1, <1>2 DEF Sort, Delivering, TypeOK
  <1>4. pc'[Worker] \in {"acquire", "inside"}
    BY <1>1, <1>2 DEF Sort, P, TypeOK
  <1>5. ~InBuffer /\ InBuffer'
    BY <1>2, <1>4 DEF InBuffer
  <1>6. ASSUME NEW b \in Boxes PROVE MailFor(b)' = MailFor(b)
    <2>1. /\ Handed(b) = << >> /\ Arrived(b)' = << >>
          /\ Handed(b)' = Arrived(b)
      BY <1>3, <1>5 DEF Handed, Arrived
    <2>2. box[b] \in Seq(1 .. MaxMail) /\ Arrived(b) \in Seq(1 .. MaxMail)
      BY MailParts
    <2>3. MailFor(b) = (box[b] \o << >>) \o Arrived(b)
      BY <2>1, MailParts
    <2>4. MailFor(b)' = (box[b] \o Arrived(b)) \o << >>
      BY <1>3, <2>1 DEF MailFor, Handed, Arrived
    <2>5. box[b] \o Arrived(b) \in Seq(1 .. MaxMail)
      BY <2>2, ConcatProperties
    <2> HIDE DEF Handed, Arrived
    <2> QED BY <2>2, <2>3, <2>4, <2>5, ConcatEmptySeq
  <1> QED BY <1>3, <1>6

\* SynchList::Append moves the packet from the worker's hands to the list.
LEMMA PutStays ==
    ASSUME Inv, NEW t \in Threads, Put(t)
    PROVE  UNCHANGED <<[b \in Boxes |-> MailFor(b)], nextId>>
  <1> USE DEF ioVars, inputVars
  <1>1. TypeOK /\ Roles
    BY DEF Inv
  <1>2. /\ t = Worker /\ pc[Worker] = "inside" /\ Worker \in Threads
        /\ buffer \in Mail /\ call[Worker] = buffer.to
    BY <1>1 DEF Put, Runs, Roles
  <1>3. /\ box' = [box EXCEPT ![buffer.to] = Append(@, buffer.id)]
        /\ UNCHANGED <<inHdr, buffer, nextId>>
        /\ pc'[Worker] \in {"release", "worker"}
    BY <1>1, <1>2 DEF Put, Goes, TypeOK
  <1>4. InBuffer /\ ~InBuffer'
    BY <1>2, <1>3 DEF InBuffer
  <1>5. ASSUME NEW b \in Boxes PROVE MailFor(b)' = MailFor(b)
    <2>1. Handed(b)' = << >> /\ Arrived(b)' = Arrived(b)
      BY <1>3, <1>4 DEF Handed, Arrived
    <2>2. /\ box[b] \in Seq(1 .. MaxMail) /\ Arrived(b) \in Seq(1 .. MaxMail)
          /\ MailFor(b) = (box[b] \o Handed(b)) \o Arrived(b)
      BY MailParts
    <2>3. box'[b] = box[b] \o Handed(b) /\ box'[b] \in Seq(1 .. MaxMail)
      <3>1. CASE buffer.to = b
        <4>1. buffer.id \in 1 .. MaxMail
          BY <1>2 DEF Mail
        <4>2. box'[b] = Append(box[b], buffer.id)
          BY <1>1, <1>3, <3>1 DEF TypeOK
        <4>3. Handed(b) = <<buffer.id>>
          BY <1>4, <3>1 DEF Handed
        <4> HIDE DEF Handed
        <4> DEFINE S == 1 .. MaxMail
        <4>4. buffer.id \in S /\ box[b] \in Seq(S)
          BY <2>2, <4>1
        <4> HIDE DEF S
        <4>5. box[b] \o <<buffer.id>> = Append(box[b], buffer.id)
          BY <4>4, JoinOne
        <4>6. Append(box[b], buffer.id) \in Seq(S)
          BY <4>4, AppendQueue
        <4> QED BY <4>2, <4>3, <4>5, <4>6 DEF S
      <3>2. CASE buffer.to # b
        <4>1. box'[b] = box[b]
          BY <1>1, <1>3, <3>2 DEF TypeOK
        <4>2. Handed(b) = << >>
          BY <3>2 DEF Handed
        <4> QED BY <2>2, <4>1, <4>2, ConcatEmptySeq
      <3> QED BY <3>1, <3>2
    <2>4. MailFor(b)' = (box'[b] \o << >>) \o Arrived(b)
      BY <2>1 DEF MailFor, Handed, Arrived
    <2> HIDE DEF Handed, Arrived
    <2> QED BY <2>2, <2>3, <2>4, ConcatEmptySeq
  <1> QED BY <1>3, <1>5

\* RemoveFront hands out the oldest mail for its box, or finds the list empty.
LEMMA GetMaps ==
    ASSUME Inv, NEW t \in Threads, Get(t)
    PROVE  \/ \E b \in Boxes : Abstract!Receive(b)
           \/ UNCHANGED <<[b \in Boxes |-> MailFor(b)], nextId>>
  <1> USE DEF ioVars, inputVars
  <1>1. TypeOK
    BY DEF Inv
  <1>2. PICK b \in Boxes : b = call[t]
    BY DEF Get
  <1>3. /\ t # Worker /\ UNCHANGED <<inHdr, buffer, nextId>>
        /\ Worker \in Threads
    BY SemaphoreNames DEF Get
  <1>4. pc'[Worker] = pc[Worker]
    BY <1>1, <1>3 DEF Get, Goes, TypeOK
  <1>5. InBuffer' <=> InBuffer
    BY <1>4 DEF InBuffer
  <1>6. CASE box[b] = << >>
    <2>1. box' = box
      BY <1>2, <1>6 DEF Get
    <2> QED BY <1>3, <1>5, <2>1, MailStays
  <1>7. CASE box[b] # << >>
    <2>1. box' = [box EXCEPT ![b] = Tail(@)]
      BY <1>2, <1>7 DEF Get
    <2>2. ASSUME NEW c \in Boxes
          PROVE  /\ Handed(c)' = Handed(c) /\ Arrived(c)' = Arrived(c)
                 /\ MailFor(c)' = (box'[c] \o Handed(c)) \o Arrived(c)
      <3>1. Handed(c)' = Handed(c) /\ Arrived(c)' = Arrived(c)
        BY <1>3, <1>5 DEF Handed, Arrived
      <3>2. MailFor(c)' = (box'[c] \o Handed(c)') \o Arrived(c)'
        BY DEF MailFor, Handed, Arrived
      <3> HIDE DEF Handed, Arrived
      <3> QED BY <3>1, <3>2
    <2>3. \A c \in Boxes \ {b} : MailFor(c)' = MailFor(c)
      <3> SUFFICES ASSUME NEW c \in Boxes \ {b} PROVE MailFor(c)' = MailFor(c)
        OBVIOUS
      <3>1. box'[c] = box[c]
        BY <1>1, <2>1 DEF TypeOK
      <3>2. MailFor(c) = (box[c] \o Handed(c)) \o Arrived(c)
        BY MailParts
      <3> QED BY <2>2, <3>1, <3>2
    <2>4. MailFor(b) # << >> /\ MailFor(b)' = Tail(MailFor(b))
      <3> DEFINE S == 1 .. MaxMail
                 s == box[b]
                 h == Handed(b)
                 a == Arrived(b)
      <3>1. /\ s \in Seq(S) /\ h \in Seq(S) /\ a \in Seq(S) /\ s # << >>
            /\ MailFor(b) = (s \o h) \o a
        BY <1>7, MailParts
      <3>2. box'[b] = Tail(s)
        BY <1>1, <2>1 DEF TypeOK
      <3>3. MailFor(b)' = (Tail(s) \o h) \o a
        BY <2>2, <3>2
      <3> HIDE DEF S, s, h, a
      <3>4. s \o h \in Seq(S) /\ s \o h # << >> /\ Tail(s \o h) = Tail(s) \o h
        BY <3>1, ConcatProperties, TailOfJoin
      <3>5. (s \o h) \o a # << >> /\ Tail((s \o h) \o a) = Tail(s \o h) \o a
        BY <3>1, <3>4, TailOfJoin
      <3> QED BY <3>1, <3>3, <3>4, <3>5
    <2>5. [c \in Boxes |-> MailFor(c)']
             = [[c \in Boxes |-> MailFor(c)] EXCEPT ![b] = Tail(@)]
      BY <2>3, <2>4
    <2>6. Abstract!Receive(b)
      BY <1>3, <2>4, <2>5 DEF Abstract!Receive
    <2> QED BY <2>6
  <1> QED BY <1>6, <1>7

\* A packet that comes in is the newest mail for its box.
LEMMA NetworkMaps ==
    ASSUME Inv, NetworkInterrupt
    PROVE  \E b \in Boxes : Abstract!Arrive(b)
  <1>1. TypeOK
    BY DEF Inv
  <1>2. PICK b \in Boxes : inHdr' = [to |-> b, id |-> nextId]
    BY DEF NetworkInterrupt
  <1>3. /\ inHdr = NoMail /\ nextId \in 1 .. MaxMail /\ nextId' = nextId + 1
        /\ UNCHANGED <<pc, box, buffer>>
    BY <1>1 DEF NetworkInterrupt, InboxFree, Interrupted, TypeOK
  <1>4. inHdr' \in Mail
    BY <1>2, <1>3 DEF Mail
  <1>5. inHdr' # NoMail
    BY <1>4, SyncIOAssumption DEF Mail
  <1>6. ASSUME NEW c \in Boxes
        PROVE  MailFor(c)' = IF c = b THEN Append(MailFor(c), nextId) ELSE MailFor(c)
    <2> DEFINE S == 1 .. MaxMail
               s == box[c] \o Handed(c)
    <2>1. Arrived(c) = << >> /\ Handed(c)' = Handed(c)
      BY <1>3 DEF Arrived, Handed, InBuffer
    <2>2. Arrived(c)' = IF c = b THEN <<nextId>> ELSE << >>
      <3>1. Arrived(c)' = IF b = c THEN <<inHdr'.id>> ELSE << >>
        BY <1>2, <1>5 DEF Arrived
      <3> QED BY <1>2, <3>1
    <2>3. MailFor(c)' = s \o Arrived(c)'
      <3>1. MailFor(c)' = (box[c] \o Handed(c)') \o Arrived(c)'
        BY <1>3 DEF MailFor, Handed, Arrived
      <3> QED BY <2>1, <3>1
    <2>4. s \in Seq(S) /\ MailFor(c) = s \o Arrived(c)
      BY MailParts, ConcatProperties
    <2> HIDE DEF S, s
    <2>5. MailFor(c) = s
      BY <2>1, <2>4, ConcatEmptySeq
    <2>6. s \o << >> = s
      BY <2>4, ConcatEmptySeq
    <2>7. s \o <<nextId>> = Append(s, nextId)
      <3>1. nextId \in S
        BY <1>3 DEF S
      <3> QED BY <2>4, <3>1, JoinOne
    <2> QED BY <2>2, <2>3, <2>5, <2>6, <2>7
  <1>7. [c \in Boxes |-> MailFor(c)']
           = [[c \in Boxes |-> MailFor(c)] EXCEPT ![b] = Append(@, nextId)]
    BY <1>6
  <1>8. Abstract!Arrive(b)
    BY <1>3, <1>7 DEF Abstract!Arrive
  <1> QED BY <1>8

\* The steps outside the post office, and those of the worker that do not
\* touch the packet, leave the mail alone.
LEMMA OthersStay ==
    ASSUME Inv, UNCHANGED <<box, inHdr, buffer, nextId>>,
           \/ UNCHANGED pc
           \/ \E t \in Threads : \E x \in Labels :
                 /\ pc' = [pc EXCEPT ![t] = x]
                 /\ t = Worker => (x \in {"acquire", "inside"} <=> InBuffer)
    PROVE  UNCHANGED <<[b \in Boxes |-> MailFor(b)], nextId>>
  <1>1. pc \in [Threads -> Labels] /\ Worker \in Threads
    BY SemaphoreNames DEF Inv, TypeOK
  <1>2. InBuffer' <=> InBuffer
    <2>1. CASE UNCHANGED pc
      BY <2>1 DEF InBuffer
    <2>2. CASE ~UNCHANGED pc
      <3>1. PICK t \in Threads, x \in Labels :
               /\ pc' = [pc EXCEPT ![t] = x]
               /\ t = Worker => (x \in {"acquire", "inside"} <=> InBuffer)
        BY <2>2
      <3> QED BY <1>1, <3>1 DEF InBuffer
    <2> QED BY <2>1, <2>2
  <1> QED BY <1>2, MailStays

\* A thread's step takes mail out of a box for its caller, or stutters.
LEMMA ThreadMaps ==
    ASSUME Inv, ThreadStep
    PROVE  \/ Abstract!Next
           \/ UNCHANGED <<[b \in Boxes |-> MailFor(b)], nextId>>
  <1> USE DEF ioVars, inputVars
  <1> DEFINE Stays == UNCHANGED <<[b \in Boxes |-> MailFor(b)], nextId>>
  <1>1. TypeOK /\ Roles
    BY DEF Inv
  <1>2. PICK t \in Threads :
           \/ Call(t) \/ Acquire(t) \/ Finish(t) \/ Request(t) \/ AwaitKey(t) \/ Answered(t)
           \/ ReleaseLock(t) \/ AwaitMail(t) \/ Sort(t) \/ Put(t) \/ Get(t) \/ AwaitSignal(t)
    BY DEF ThreadStep
  <1>3. \A s, x, y : P(t, s, x, y) => pc' = [pc EXCEPT ![t] = x] \/ pc' = [pc EXCEPT ![t] = y]
    BY DEF P
  <1>4. /\ \A x \in Labels : x = x
        /\ {"user", "acquire", "inside", "wait", "release", "worker", "sort", "finished"} = Labels
    BY DEF Labels
  <1>5. t = Worker => call[t] \notin Outputs \cup {"keyboard"} \/ ~InBuffer
    BY <1>1, SemaphoreNames DEF Roles, Mail, InBuffer
  <1>6. CASE Call(t)
    <2>1. \E x \in Labels : pc' = [pc EXCEPT ![t] = x]
      BY <1>3, <1>4, <1>6 DEF Call
    <2>2. t # Worker /\ UNCHANGED <<box, inHdr, buffer, nextId>>
      BY <1>6 DEF Call
    <2> QED BY <2>1, <2>2, OthersStay
  <1>7. CASE Acquire(t)
    <2>1. \E x \in {"acquire", "inside"} : pc' = [pc EXCEPT ![t] = x]
      BY <1>3, <1>7 DEF Acquire
    <2>2. t = Worker => InBuffer
      BY <1>7 DEF Acquire, Runs, InBuffer
    <2>3. UNCHANGED <<box, inHdr, buffer, nextId>>
      BY <1>7 DEF Acquire
    <2> QED BY <1>4, <2>1, <2>2, <2>3, OthersStay
  <1>8. CASE Finish(t)
    <2>1. pc' = [pc EXCEPT ![t] = "finished"] /\ t # Worker
      BY <1>8 DEF Finish, Goes
    <2>2. UNCHANGED <<box, inHdr, buffer, nextId>>
      BY <1>8 DEF Finish
    <2> QED BY <1>4, <2>1, <2>2, OthersStay
  <1>9. CASE Request(t)
    <2>1. t # Worker
      BY <1>5, <1>9 DEF Request, Runs, InBuffer
    <2>2. UNCHANGED <<box, inHdr, buffer, nextId>>
      BY <1>9 DEF Request, Aborts
    <2>3. AfterDone(left[t] - 1) \in Labels
      BY DEF AfterDone, Labels
    <2>4. UNCHANGED pc \/ \E x \in Labels : pc' = [pc EXCEPT ![t] = x]
      BY <1>3, <1>4, <1>9, <2>3 DEF Request, Aborts
    <2> QED BY <2>1, <2>2, <2>4, OthersStay
  <1>10. CASE AwaitKey(t)
    <2>1. t # Worker
      BY <1>5, <1>10 DEF AwaitKey, Runs, InBuffer
    <2>2. UNCHANGED <<box, inHdr, buffer, nextId>>
      BY <1>10 DEF AwaitKey
    <2>3. \E x \in Labels : pc' = [pc EXCEPT ![t] = x]
      BY <1>3, <1>4, <1>10 DEF AwaitKey
    <2> QED BY <2>1, <2>2, <2>3, OthersStay
  <1>11. CASE Answered(t)
    <2>1. t # Worker
      BY <1>1, <1>11 DEF Answered, Runs, Roles
    <2>2. UNCHANGED <<box, inHdr, buffer, nextId>>
      BY <1>11 DEF Answered
    <2>3. \E x \in Labels : pc' = [pc EXCEPT ![t] = x]
      BY <1>3, <1>4, <1>11 DEF Answered, AfterDone
    <2> QED BY <2>1, <2>2, <2>3, OthersStay
  <1>12. CASE ReleaseLock(t)
    <2>1. UNCHANGED pc \/ pc' = [pc EXCEPT ![t] = IF t = Worker THEN "worker" ELSE "user"]
      BY <1>12 DEF ReleaseLock, Aborts, Goes
    <2>2. t = Worker => ~InBuffer
      BY <1>12 DEF ReleaseLock, Runs, InBuffer
    <2>3. UNCHANGED <<box, inHdr, buffer, nextId>>
      BY <1>12 DEF ReleaseLock, Aborts
    <2> QED BY <1>4, <2>1, <2>2, <2>3, OthersStay
  <1>13. CASE AwaitMail(t)
    <2>1. \E x \in {"worker", "sort"} : pc' = [pc EXCEPT ![t] = x]
      BY <1>3, <1>13 DEF AwaitMail
    <2>2. t = Worker => ~InBuffer
      BY <1>13 DEF AwaitMail, Runs, InBuffer
    <2>3. UNCHANGED <<box, inHdr, buffer, nextId>>
      BY <1>13 DEF AwaitMail
    <2> QED BY <1>4, <2>1, <2>2, <2>3, OthersStay
  <1>14. CASE Sort(t)
    BY <1>14, SortStays
  <1>15. CASE Put(t)
    BY <1>15, PutStays
  <1>16. CASE Get(t)
    BY <1>16, GetMaps DEF Abstract!Next
  <1>17. CASE AwaitSignal(t)
    <2>1. t # Worker
      BY <1>1, <1>17 DEF AwaitSignal, Runs, Roles
    <2>2. UNCHANGED <<box, inHdr, buffer, nextId>>
      BY <1>17 DEF AwaitSignal
    <2>3. \E x \in Labels : pc' = [pc EXCEPT ![t] = x]
      BY <1>3, <1>4, <1>17 DEF AwaitSignal
    <2> QED BY <2>1, <2>2, <2>3, OthersStay
  <1> QED BY <1>2, <1>6, <1>7, <1>8, <1>9, <1>10, <1>11, <1>12, <1>13, <1>14, <1>15, <1>16, <1>17

\* Post office (post.cc, synchlist.cc): whatever the worker, the receivers and
\* the network do in between, mail is handed out once, in the order it came.
THEOREM MailboxesImplemented == Spec => ImplementsMailboxes
  <1>1. Init => Abstract!Init
    <2> SUFFICES ASSUME Init PROVE Abstract!Init
      OBVIOUS
    <2>1. Inv
      BY InitEstablishesInv
    <2>2. nextId = 1 /\ inHdr = NoMail /\ \A b \in Boxes : box[b] = << >>
      BY DEF Init
    <2>3. ~InBuffer
      BY SemaphoreNames DEF Init, InBuffer
    <2>4. ASSUME NEW b \in Boxes PROVE MailFor(b) = << >>
      <3>1. Handed(b) = << >> /\ Arrived(b) = << >>
        BY <2>2, <2>3 DEF Handed, Arrived
      <3>2. MailFor(b) = (<< >> \o << >>) \o << >>
        BY <2>1, <2>2, <3>1, MailParts
      <3> QED BY <3>2
    <2> QED BY <2>2, <2>4 DEF Abstract!Init
  <1>2. ASSUME Inv, [Next]_vars
        PROVE  [Abstract!Next]_<<[b \in Boxes |-> MailFor(b)], nextId>>
    <2> USE DEF synchVars, ioVars, inputVars
    <2>1. CASE ThreadStep
      BY <1>2, <2>1, ThreadMaps
    <2>2. CASE NetworkInterrupt
      BY <1>2, <2>2, NetworkMaps DEF Abstract!Next
    <2>3. CASE ~ThreadStep /\ ~NetworkInterrupt
      <3>1. UNCHANGED <<pc, box, inHdr, buffer, nextId>>
        BY <1>2, <2>3 DEF Next, vars, IdleReturns, TimerInterrupt, OutputInterrupt,
                          KeyboardInterrupt, Interrupted, Halt
      <3> QED BY <1>2, <3>1, OthersStay
    <2> QED BY <2>1, <2>2, <2>3
  <1> QED BY <1>1, <1>2, Invariance, PTL DEF Spec, ImplementsMailboxes, Abstract!Spec
=============================================================================
