----------------------------- MODULE SyncIOWaits -----------------------------
(***************************************************************************)
(* SyncIO, for any number of threads, calls and mailboxes: nobody is       *)
(* forgotten when the machine idles.  Above the locks, devices and mail of *)
(* SyncIOProofs this needs to know where each thread is queued, and whom a *)
(* V, a Signal or an item in a box has set going.                          *)
(***************************************************************************)
EXTENDS SyncIOProofs

\* The semaphore a thread is about to wait for, or waits for.
Target(t) ==
    IF pc[t] = "acquire" THEN <<"lock", call[t]>>
    ELSE IF pc[t] = "worker" THEN <<"done", "mail">>
    ELSE IF pc[t] # "wait" THEN << >>
    ELSE IF call[t] \in Boxes THEN <<"waiter", t>>
    ELSE <<"done", call[t]>>

Queue(s) == sem[s].queue
Scheduled(t) == running = t \/ t \in Range(ready)

\* A thread that is not finished runs, is ready or is queued at the semaphore it
\* waits for: in one place, once.
Placed ==
    /\ \A t \in Threads :
          \/ pc[t] = "finished"
          \/ Scheduled(t)
          \/ \E s \in Semaphores : Target(t) = s /\ t \in Range(Queue(s))
    /\ \A t \in Threads : Scheduled(t) => pc[t] # "finished"
    /\ \A s \in Semaphores : \A t \in Range(Queue(s)) : Target(t) = s /\ ~Scheduled(t)
    /\ \A s \in Semaphores : Distinct(Queue(s))
    /\ Distinct(ready) /\ running \notin Range(ready)

\* When a semaphore is up and has waiters, one that it woke is on its way.
Woken == \A s \in Semaphores :
    Value(s) > 0 /\ Queue(s) # << >> => \E t \in Threads : Target(t) = s /\ Scheduled(t)

\* A receiver that waits for mail is queued on the box, or was signalled and
\* its own semaphore is up.
Signalled ==
    /\ \A l \in Locks : Distinct(waitQueue[l])
    /\ \A l \in Locks : \A t \in Range(waitQueue[l]) :
          l \in Boxes /\ t # Worker /\ pc[t] = "wait" /\ call[t] = l
    /\ \A t \in Threads :
          /\ Note(t) \in {0, 1}
          /\ Note(t) = 1 <=>
                /\ pc[t] = "wait" /\ call[t] \in Boxes
                /\ t \notin Range(waitQueue[call[t]])

\* The receivers that are about to look into box b.
Coming(b) == {t \in Threads \ {Worker} :
    /\ call[t] = b
    /\ \/ pc[t] \in {"acquire", "inside"}
       \/ pc[t] = "wait" /\ Note(t) = 1}

\* While someone waits at box b, there is a receiver on its way for each item.
EnoughComing == \A b \in Boxes :
    waitQueue[b] # << >> => Len(box[b]) <= Cardinality(Coming(b))

\* The inductive invariant.
IInv == Inv /\ Placed /\ Woken /\ Signalled /\ EnoughComing

---------------------------------------------------------------------------
(* Queues, and names of semaphores.                                        *)

\* Joining in front (the worker, forked before main's user threads).
LEMMA JoinFront ==
    ASSUME NEW S, NEW s \in Seq(S), NEW e \in S
    PROVE  /\ <<e>> \o s \in Seq(S)
           /\ Range(<<e>> \o s) = Range(s) \cup {e}
           /\ Distinct(s) /\ e \notin Range(s) => Distinct(<<e>> \o s)
  <1> DEFINE n == Len(s)
             j == <<e>> \o s
  <1>1. <<e>> \in Seq(S) /\ Len(<<e>>) = 1 /\ <<e>>[1] = e /\ n \in Nat /\ DOMAIN s = 1 .. n
    BY LenProperties
  <1>2. j \in Seq(S) /\ Len(j) = 1 + n
        /\ \A i \in 1 .. 1 + n : j[i] = IF i <= 1 THEN <<e>>[i] ELSE s[i - 1]
    BY <1>1, ConcatProperties
  <1>3. DOMAIN j = 1 .. 1 + n
    BY <1>2, LenProperties
  <1> HIDE DEF n, j
  <1>4. /\ 1 \in 1 .. 1 + n /\ j[1] = e
        /\ \A i \in 1 .. n : i + 1 \in 1 .. 1 + n /\ j[i + 1] = s[i] /\ i + 1 # 1
        /\ \A i \in 1 .. 1 + n : i = 1 \/ (i - 1 \in 1 .. n /\ j[i] = s[i - 1])
    <2>1. \A i \in 1 .. n : i + 1 \in 1 .. 1 + n /\ ~(i + 1 <= 1) /\ (i + 1) - 1 = i
      BY <1>1
    <2>2. \A i \in 1 .. 1 + n : i = 1 \/ (i - 1 \in 1 .. n /\ ~(i <= 1))
      BY <1>1
    <2>3. 1 \in 1 .. 1 + n
      BY <1>1
    <2> QED BY <1>1, <1>2, <2>1, <2>2, <2>3
  <1>5. Range(j) = Range(s) \cup {e}
    <2>1. \A x : x \in Range(j) <=> \E i \in 1 .. 1 + n : j[i] = x
      BY <1>3 DEF Range
    <2>2. \A x : x \in Range(s) <=> \E i \in 1 .. n : s[i] = x
      BY <1>1 DEF Range
    <2>3. \A x : x \in Range(j) => x \in Range(s) \/ x = e
      BY <1>4, <2>1, <2>2
    <2>4. \A x : x \in Range(s) \/ x = e => x \in Range(j)
      BY <1>4, <2>1, <2>2
    <2> QED BY <2>3, <2>4
  <1>6. ASSUME Distinct(s), e \notin Range(s) PROVE Distinct(j)
    <2>1. \A i \in 1 .. n : s[i] # e
      BY <1>1, <1>6 DEF Range
    <2>2. \A i, k \in 1 .. n : s[i] = s[k] => i = k
      BY <1>1, <1>6 DEF Distinct
    <2>3. ASSUME NEW i \in 1 .. 1 + n, NEW k \in 1 .. 1 + n, j[i] = j[k] PROVE i = k
      <3>1. CASE i = 1 \/ k = 1
        BY <1>4, <2>1, <2>3, <3>1
      <3>2. CASE i # 1 /\ k # 1
        <4>1. i - 1 \in 1 .. n /\ k - 1 \in 1 .. n /\ s[i - 1] = s[k - 1]
          BY <1>4, <2>3, <3>2
        <4>2. i - 1 = k - 1
          BY <2>2, <4>1
        <4> QED BY <4>2, <1>1
      <3> QED BY <3>1, <3>2
    <2> QED BY <1>3, <2>3 DEF Distinct
  <1> QED BY <1>2, <1>5, <1>6 DEF j

\* Nobody waits for nothing: a thread outside P has no target.
LEMMA NoTarget ==
    ASSUME NEW t, pc[t] \notin {"acquire", "worker", "wait"}
    PROVE  Target(t) \notin Semaphores
  <1>1. << >> \notin Semaphores
    BY SyncIOAssumption
  <1> QED BY <1>1 DEF Target

\* A semaphore counts at most one: locks and answers are up or down.
LEMMA AtMostOne ==
    ASSUME Inv, Signalled, NEW s \in Semaphores
    PROVE  Value(s) \in {0, 1}
  <1>1. \/ \E l \in Locks : s = <<"lock", l>>
        \/ \E l \in Outputs \cup {"keyboard", "mail"} : s = <<"done", l>>
        \/ \E t \in Threads : s = <<"waiter", t>>
    BY SyncIOAssumption
  <1> QED BY <1>1 DEF Inv, Exclusive, Answering, Typing, Delivering, Signalled, LockUp, Done, Note

---------------------------------------------------------------------------
(* Threads change places.                                                  *)

\* The front of the ready list gets the processor from a thread that leaves it:
\* who was scheduled stays so, but for that thread.
LEMMA SleepTakesNext ==
    ASSUME TypeOK, Distinct(ready), running \notin Range(ready), Sleep
    PROVE  /\ Distinct(ready') /\ running' \notin Range(ready')
           /\ \A u \in Threads : Scheduled(u)' <=> u \in Range(ready)
  <1>1. ready \in Seq(Threads) /\ Nobody \notin Threads
    BY SynchAssumption DEF TypeOK
  <1>2. CASE ready # << >>
    <2>1. running' = Head(ready) /\ ready' = Tail(ready)
      BY <1>2 DEF Sleep
    <2>2. /\ Distinct(Tail(ready)) /\ Head(ready) \notin Range(Tail(ready))
          /\ Range(ready) = Range(Tail(ready)) \cup {Head(ready)}
      BY <1>1, <1>2, TakeFront
    <2> QED BY <2>1, <2>2 DEF Scheduled
  <1>3. CASE ready = << >>
    <2>1. running' = Nobody /\ ready' = ready /\ Range(ready) = {}
      BY <1>3 DEF Sleep, Range
    <2> QED BY <1>1, <2>1 DEF Scheduled
  <1> QED BY <1>2, <1>3

\* P lets the running thread pass, or queues it and gives the processor away
\* (Semaphore::P, Thread::Sleep).
LEMMA PMoves ==
    ASSUME TypeOK, Placed, Woken, NEW t \in Threads, running = t,
           NEW s \in Semaphores, Value(s) \in {0, 1},
           NEW asleep, NEW taken, P(t, s, asleep, taken),
           asleep # "finished", taken # "finished",
           \A u \in Threads \ {t} : Target(u)' = Target(u) /\ pc'[u] = pc[u],
           Target(t) = s \/ Target(t) \notin Semaphores,
           Value(s) = 0 => Target(t)' = s
    PROVE  Placed' /\ Woken'
  <1>1. /\ sem \in [Semaphores -> [value : Nat, queue : Seq(Threads)]]
        /\ ready \in Seq(Threads) /\ pc \in [Threads -> Labels]
        /\ sem[s].queue \in Seq(Threads)
    BY DEF TypeOK
  <1>2. /\ \A r \in Semaphores :
              Value(r)' = IF r = s /\ Value(s) > 0 THEN Value(s) - 1 ELSE Value(r)
        /\ pc' = [pc EXCEPT ![t] = IF Value(s) > 0 THEN taken ELSE asleep]
    BY PTakes
  <1>3. pc[t] # "finished" /\ pc'[t] # "finished"
    BY <1>1, <1>2 DEF Placed, Scheduled
  <1>4. \A r \in Semaphores : \A u \in Range(Queue(r)) : u # t /\ u \in Threads
    <2>1. ASSUME NEW r \in Semaphores, NEW u \in Range(Queue(r)) PROVE u \in Threads
      BY <1>1 DEF Queue, Range
    <2> QED BY <2>1 DEF Placed, Scheduled
  <1>5. CASE Value(s) = 1
    <2>1. /\ sem' = [sem EXCEPT ![s].value = @ - 1]
          /\ UNCHANGED <<ready, running>>
      BY <1>5 DEF P, Enough, Value
    <2>2. \A r \in Semaphores : Queue(r)' = Queue(r)
      <3>1. \A r \in Semaphores \ {s} : sem'[r] = sem[r]
        BY <1>1, <2>1
      <3>2. sem'[s] = [sem[s] EXCEPT !.value = @ - 1]
        BY <1>1, <2>1
      <3>3. sem[s] \in [value : Nat, queue : Seq(Threads)]
        BY <1>1
      <3> QED BY <3>1, <3>2, <3>3 DEF Queue
    <2>3. \A u \in Threads : Scheduled(u)' <=> Scheduled(u)
      BY <2>1 DEF Scheduled
    <2>4. Placed'
      <3>1. ASSUME NEW u \in Threads
            PROVE  /\ \/ pc'[u] = "finished"
                      \/ Scheduled(u)'
                      \/ \E r \in Semaphores : Target(u)' = r /\ u \in Range(Queue(r)')
                   /\ Scheduled(u)' => pc'[u] # "finished"
        <4>1. CASE u = t
          BY <4>1, <1>3, <2>3 DEF Scheduled
        <4>2. CASE u # t
          BY <4>2, <2>2, <2>3 DEF Placed
        <4> QED BY <4>1, <4>2
      <3>2. \A r \in Semaphores : \A u \in Range(Queue(r)') : Target(u)' = r /\ ~Scheduled(u)'
        BY <1>4, <2>2, <2>3 DEF Placed
      <3>3. \A r \in Semaphores : Distinct(Queue(r)')
        BY <2>2 DEF Placed
      <3>4. Distinct(ready') /\ running' \notin Range(ready')
        BY <2>1 DEF Placed
      <3> QED BY <3>1, <3>2, <3>3, <3>4 DEF Placed
    <2>5. Woken'
      <3>1. ASSUME NEW r \in Semaphores, Value(r)' > 0, Queue(r)' # << >>
            PROVE  \E u \in Threads : Target(u)' = r /\ Scheduled(u)'
        <4>1. r # s /\ Value(r) > 0 /\ Queue(r) # << >>
          BY <1>2, <1>5, <2>2, <3>1
        <4>2. PICK u \in Threads : Target(u) = r /\ Scheduled(u)
          BY <4>1 DEF Woken
        <4>3. u # t
          BY <4>1, <4>2
        <4> QED BY <4>2, <4>3, <2>3
      <3> QED BY <3>1 DEF Woken
    <2> QED BY <2>4, <2>5
  <1>6. CASE Value(s) = 0
    <2>1. /\ sem' = [sem EXCEPT ![s].queue = Append(@, t)]
          /\ Sleep
      BY <1>6 DEF P, Enough, Value
    <2>2. /\ \A r \in Semaphores \ {s} : Queue(r)' = Queue(r)
          /\ Queue(s)' = Append(Queue(s), t)
      <3>1. \A r \in Semaphores \ {s} : sem'[r] = sem[r]
        BY <1>1, <2>1
      <3>2. sem'[s] = [sem[s] EXCEPT !.queue = Append(@, t)]
        BY <1>1, <2>1
      <3>3. sem[s] \in [value : Nat, queue : Seq(Threads)]
        BY <1>1
      <3> QED BY <3>1, <3>2, <3>3 DEF Queue
    <2>3. /\ Distinct(ready') /\ running' \notin Range(ready')
          /\ \A u \in Threads : Scheduled(u)' <=> u \in Range(ready)
      BY <2>1, SleepTakesNext DEF Placed
    <2>4. /\ \A u \in Threads \ {t} : Scheduled(u)' <=> Scheduled(u)
          /\ ~Scheduled(t)'
      BY <2>3 DEF Placed, Scheduled
    <2>5. /\ Range(Queue(s)') = Range(Queue(s)) \cup {t}
          /\ Distinct(Queue(s)')
      <3>1. Queue(s) \in Seq(Threads) /\ Distinct(Queue(s)) /\ t \notin Range(Queue(s))
        BY <1>1, <1>4 DEF Placed, Queue
      <3> QED BY <3>1, <2>2, AppendQueue
    <2>6. Placed'
      <3>1. ASSUME NEW u \in Threads
            PROVE  /\ \/ pc'[u] = "finished"
                      \/ Scheduled(u)'
                      \/ \E r \in Semaphores : Target(u)' = r /\ u \in Range(Queue(r)')
                   /\ Scheduled(u)' => pc'[u] # "finished"
        <4>1. CASE u = t
          BY <4>1, <1>6, <2>4, <2>5
        <4>2. CASE u # t
          <5>1. \A r \in Semaphores : u \in Range(Queue(r)) => u \in Range(Queue(r)')
            BY <2>2, <2>5
          <5> QED BY <4>2, <5>1, <2>4 DEF Placed
        <4> QED BY <4>1, <4>2
      <3>2. ASSUME NEW r \in Semaphores, NEW u \in Range(Queue(r)')
            PROVE  Target(u)' = r /\ ~Scheduled(u)'
        <4>1. CASE u = t /\ r = s
          BY <4>1, <1>6, <2>4
        <4>2. CASE ~(u = t /\ r = s)
          <5>1. u \in Range(Queue(r))
            BY <4>2, <2>2, <2>5
          <5>2. u \in Threads \ {t}
            BY <5>1, <1>4
          <5> QED BY <5>1, <5>2, <2>4 DEF Placed
        <4> QED BY <4>1, <4>2
      <3>3. ASSUME NEW r \in Semaphores PROVE Distinct(Queue(r)')
        <4>1. CASE r = s
          BY <4>1, <2>5
        <4>2. CASE r # s
          <5>1. Queue(r)' = Queue(r) /\ Distinct(Queue(r))
            BY <4>2, <2>2 DEF Placed
          <5> QED BY <5>1
        <4> QED BY <4>1, <4>2
      <3>4. Distinct(ready') /\ running' \notin Range(ready')
        BY <2>3
      <3> QED BY <3>1, <3>2, <3>3, <3>4 DEF Placed
    <2>7. Woken'
      <3>1. ASSUME NEW r \in Semaphores, Value(r)' > 0, Queue(r)' # << >>
            PROVE  \E u \in Threads : Target(u)' = r /\ Scheduled(u)'
        <4>1. r # s /\ Value(r) > 0 /\ Queue(r) # << >>
          BY <1>2, <1>6, <2>2, <3>1
        <4>2. PICK u \in Threads : Target(u) = r /\ Scheduled(u)
          BY <4>1 DEF Woken
        <4>3. u # t
          BY <4>1, <4>2
        <4> QED BY <4>2, <4>3, <2>4
      <3> QED BY <3>1 DEF Woken
    <2> QED BY <2>6, <2>7
  <1> QED BY <1>5, <1>6

\* V readies the front waiter, who keeps its target until it runs (Semaphore::V).
LEMMA VMoves ==
    ASSUME TypeOK, Placed, Woken, NEW s \in Semaphores, V(s), UNCHANGED running,
           \A u \in Threads :
              \/ Target(u)' = Target(u) /\ pc'[u] = pc[u]
              \/ u = running /\ Target(u) \notin Semaphores /\ pc'[u] # "finished"
    PROVE  Placed' /\ Woken'
  <1> DEFINE q == sem[s].queue
  <1>1. /\ sem \in [Semaphores -> [value : Nat, queue : Seq(Threads)]]
        /\ q \in Seq(Threads) /\ ready \in Seq(Threads)
        /\ q = Queue(s)
    BY DEF TypeOK, Queue
  <1>2. /\ sem' = [sem EXCEPT ![s] = [value |-> sem[s].value + 1,
                                      queue |-> IF q = << >> THEN q ELSE Tail(q)]]
        /\ ready' = IF q = << >> THEN ready ELSE Append(ready, Head(q))
    BY DEF V
  <1>3. /\ \A r \in Semaphores \ {s} : Queue(r)' = Queue(r) /\ Value(r)' = Value(r)
        /\ Queue(s)' = IF q = << >> THEN q ELSE Tail(q)
    BY <1>1, <1>2 DEF Queue, Value
  <1>4. \A r \in Semaphores : \A u \in Range(Queue(r)) :
           u \in Threads /\ Target(u) = r /\ ~Scheduled(u) /\ Target(u)' = r /\ pc'[u] = pc[u]
    <2>1. ASSUME NEW r \in Semaphores, NEW u \in Range(Queue(r))
          PROVE  u \in Threads /\ Target(u) = r /\ ~Scheduled(u)
      <3>1. u \in Threads
        BY <1>1 DEF Queue, Range
      <3> QED BY <3>1 DEF Placed
    <2> QED BY <2>1
  <1>5. \A u \in Threads : pc[u] # "finished" => pc'[u] # "finished"
    OBVIOUS
  <1> HIDE DEF q
  <1>6. PICK w \in Range(Queue(s)) \cup {Nobody} : w = IF q = << >> THEN Nobody ELSE Head(q)
    BY <1>1, TakeFront
  <1>7. /\ q # << >> => w \in Range(Queue(s)) /\ w \in Threads
        /\ \A u \in Threads : Scheduled(u)' <=> Scheduled(u) \/ (u = w /\ q # << >>)
        /\ Distinct(ready') /\ running' \notin Range(ready')
        /\ \A r \in Semaphores : \A u :
              u \in Range(Queue(r)') <=> u \in Range(Queue(r)) /\ ~(r = s /\ u = w /\ q # << >>)
        /\ \A r \in Semaphores : Distinct(Queue(r)')
    <2>0. Distinct(ready) /\ running \notin Range(ready) /\ Distinct(q)
      BY <1>1 DEF Placed
    <2>1. CASE q = << >>
      <3>1. ready' = ready /\ Queue(s)' = Queue(s)
        BY <1>1, <1>2, <1>3, <2>1
      <3>2. \A r \in Semaphores : Queue(r)' = Queue(r)
        BY <1>3, <3>1
      <3>3. \A r \in Semaphores : Distinct(Queue(r)) 
        BY DEF Placed
      <3>4. ASSUME NEW r \in Semaphores
            PROVE  Distinct(Queue(r)') /\ Range(Queue(r)') = Range(Queue(r))
        BY <3>2, <3>3
      <3> QED BY <2>0, <2>1, <3>1, <3>4 DEF Scheduled
    <2>2. CASE q # << >>
      <3>1. /\ w = Head(q) /\ ready' = Append(ready, w) /\ Queue(s)' = Tail(q)
        BY <1>2, <1>3, <1>6, <2>2
      <3>2. /\ w \in Threads /\ w \in Range(q) /\ Range(q) = Range(Tail(q)) \cup {w}
            /\ Distinct(Tail(q)) /\ w \notin Range(Tail(q))
        BY <1>1, <2>0, <2>2, <3>1, TakeFront
      <3>3. ~Scheduled(w)
        BY <1>1, <1>4, <3>2
      <3>4. /\ Range(ready') = Range(ready) \cup {w}
            /\ Distinct(ready')
        BY <1>1, <2>0, <3>1, <3>2, <3>3, AppendQueue DEF Scheduled
      <3>5. ASSUME NEW r \in Semaphores
            PROVE  /\ Distinct(Queue(r)')
                   /\ \A u : u \in Range(Queue(r)') <=>
                                u \in Range(Queue(r)) /\ ~(r = s /\ u = w)
        <4>1. CASE r = s
          BY <1>1, <3>1, <3>2, <4>1
        <4>2. CASE r # s
          <5>1. Queue(r)' = Queue(r) /\ Distinct(Queue(r))
            BY <1>3, <4>2 DEF Placed
          <5> QED BY <4>2, <5>1
        <4> QED BY <4>1, <4>2
      <3>6. running' \notin Range(ready')
        BY <2>0, <3>3, <3>4 DEF Scheduled
      <3>7. \A u \in Threads : Scheduled(u)' <=> Scheduled(u) \/ u = w
        BY <3>4 DEF Scheduled
      <3> QED BY <1>1, <2>2, <3>2, <3>4, <3>5, <3>6, <3>7
    <2> QED BY <2>1, <2>2
  <1>8. Placed'
    <2>1. ASSUME NEW u \in Threads
          PROVE  /\ \/ pc'[u] = "finished"
                    \/ Scheduled(u)'
                    \/ \E r \in Semaphores : Target(u)' = r /\ u \in Range(Queue(r)')
                 /\ Scheduled(u)' => pc'[u] # "finished"
      <3>1. CASE Scheduled(u)
        <4>1. pc[u] # "finished"
          BY <3>1 DEF Placed
        <4> QED BY <3>1, <4>1, <1>5, <1>7
      <3>2. CASE ~Scheduled(u) /\ pc[u] = "finished"
        <4>1. u # running
          BY <3>2 DEF Scheduled
        <4>2. pc'[u] = "finished" /\ Target(u) \notin Semaphores
          BY <3>2, <4>1, NoTarget
        <4>3. u \notin Range(Queue(s))
          BY <4>2, <1>4
        <4> QED BY <3>2, <4>2, <4>3, <1>7
      <3>3. CASE ~Scheduled(u) /\ pc[u] # "finished"
        <4>1. PICK r \in Semaphores : Target(u) = r /\ u \in Range(Queue(r))
          BY <3>3 DEF Placed
        <4>2. Target(u)' = r /\ pc'[u] # "finished"
          BY <4>1, <1>4, <1>5, <3>3
        <4>3. CASE r = s /\ u = w /\ q # << >>
          BY <4>2, <4>3, <1>7
        <4>4. CASE ~(r = s /\ u = w /\ q # << >>)
          BY <4>1, <4>2, <4>4, <1>7
        <4> QED BY <4>3, <4>4
      <3> QED BY <3>1, <3>2, <3>3
    <2>2. ASSUME NEW r \in Semaphores, NEW u \in Range(Queue(r)')
          PROVE  Target(u)' = r /\ ~Scheduled(u)'
      <3>1. u \in Range(Queue(r)) /\ ~(r = s /\ u = w /\ q # << >>)
        BY <1>7
      <3>2. u \in Threads /\ Target(u) = r /\ ~Scheduled(u) /\ Target(u)' = r
        BY <3>1, <1>4
      <3>3. q # << >> => w \in Range(Queue(s)) /\ Target(w) = s
        BY <1>4, <1>7
      <3>4. ~(u = w /\ q # << >>)
        BY <3>1, <3>2, <3>3
      <3> QED BY <3>2, <3>4, <1>7
    <2>3. \A r \in Semaphores : Distinct(Queue(r)')
      BY <1>7
    <2>4. Distinct(ready') /\ running' \notin Range(ready')
      BY <1>7
    <2> QED BY <2>1, <2>2, <2>3, <2>4 DEF Placed
  <1>9. Woken'
    <2>1. ASSUME NEW r \in Semaphores, Value(r)' > 0, Queue(r)' # << >>
          PROVE  \E u \in Threads : Target(u)' = r /\ Scheduled(u)'
      <3>1. CASE r # s
        <4>1. Value(r) > 0 /\ Queue(r) # << >>
          BY <1>3, <2>1, <3>1
        <4>2. PICK u \in Threads : Target(u) = r /\ Scheduled(u)
          BY <4>1 DEF Woken
        <4>3. Target(u)' = r
          BY <4>2
        <4> QED BY <4>2, <4>3, <1>7
      <3>2. CASE r = s
        <4>1. q # << >>
          BY <1>3, <2>1, <3>2
        <4>2. w \in Threads /\ w \in Range(Queue(s)) /\ Target(w)' = s
          BY <4>1, <1>7, <1>4
        <4> QED BY <3>2, <4>1, <4>2, <1>7
      <3> QED BY <3>1, <3>2
    <2> QED BY <2>1 DEF Woken
  <1> QED BY <1>8, <1>9

\* The processor goes from thread to thread: who runs and who is ready stay
\* together the same threads (Thread::Yield, Interrupt::Idle).
LEMMA TurnMoves ==
    ASSUME TypeOK, Placed, Woken, UNCHANGED <<sem, pc, call>>,
           \A u \in Threads : Scheduled(u)' <=> Scheduled(u),
           Distinct(ready'), running' \notin Range(ready')
    PROVE  Placed' /\ Woken'
  <1>1. /\ \A u \in Threads : Target(u)' = Target(u)
        /\ \A r \in Semaphores : Queue(r)' = Queue(r) /\ Value(r)' = Value(r)
    BY DEF Target, Queue, Value
  <1>2. ASSUME NEW u \in Threads
        PROVE  /\ \/ pc'[u] = "finished"
                  \/ Scheduled(u)'
                  \/ \E r \in Semaphores : Target(u)' = r /\ u \in Range(Queue(r)')
               /\ Scheduled(u)' => pc'[u] # "finished"
    BY <1>1 DEF Placed
  <1>3. ASSUME NEW r \in Semaphores, NEW u \in Range(Queue(r)')
        PROVE  Target(u)' = r /\ ~Scheduled(u)'
    <2>1. Queue(r)' = Queue(r) /\ u \in Range(Queue(r))
      BY <1>1
    <2>2. Target(u) = r /\ ~Scheduled(u)
      BY <2>1 DEF Placed
    <2>3. Target(u)' = Target(u) /\ sem' = sem
      BY DEF Target
    <2>4. u \in Threads
      <3>1. sem[r].queue \in Seq(Threads)
        BY DEF TypeOK
      <3> QED BY <2>1, <3>1 DEF Queue, Range
    <2> QED BY <2>2, <2>3, <2>4
  <1>4. \A r \in Semaphores : Distinct(Queue(r)')
    BY <1>1 DEF Placed
  <1>5. Placed'
    BY <1>2, <1>3, <1>4 DEF Placed
  <1>6. Woken'
    BY <1>1 DEF Woken
  <1> QED BY <1>5, <1>6

\* A user that is done leaves the processor to the next.
LEMMA FinishMoves ==
    ASSUME TypeOK, Placed, Woken, NEW t \in Threads, running = t, Sleep,
           UNCHANGED <<sem, call>>, pc[t] = "user", pc' = [pc EXCEPT ![t] = "finished"]
    PROVE  Placed' /\ Woken'
  <1>1. /\ sem \in [Semaphores -> [value : Nat, queue : Seq(Threads)]]
        /\ \A u \in Threads \ {t} : pc'[u] = pc[u]
        /\ pc'[t] = "finished"
    BY DEF TypeOK
  <1>2. /\ \A u \in Threads \ {t} : Target(u)' = Target(u)
        /\ \A r \in Semaphores : Queue(r)' = Queue(r) /\ Value(r)' = Value(r)
    BY <1>1 DEF Target, Queue, Value
  <1>3. /\ Distinct(ready') /\ running' \notin Range(ready')
        /\ \A u \in Threads : Scheduled(u)' <=> u \in Range(ready)
    BY SleepTakesNext DEF Placed
  <1>4. /\ \A u \in Threads \ {t} : Scheduled(u)' <=> Scheduled(u)
        /\ ~Scheduled(t)'
    BY <1>3 DEF Placed, Scheduled
  <1>5. \A r \in Semaphores : \A u \in Range(Queue(r)) : u \in Threads \ {t}
    <2>1. ASSUME NEW r \in Semaphores, NEW u \in Range(Queue(r)) PROVE u \in Threads
      BY <1>1 DEF Queue, Range
    <2> QED BY <2>1 DEF Placed, Scheduled
  <1>6. ASSUME NEW u \in Threads
        PROVE  /\ \/ pc'[u] = "finished"
                  \/ Scheduled(u)'
                  \/ \E r \in Semaphores : Target(u)' = r /\ u \in Range(Queue(r)')
               /\ Scheduled(u)' => pc'[u] # "finished"
    <2>1. CASE u = t
      BY <2>1, <1>1, <1>4
    <2>2. CASE u # t
      BY <2>2, <1>1, <1>2, <1>4 DEF Placed
    <2> QED BY <2>1, <2>2
  <1>7. \A r \in Semaphores : \A u \in Range(Queue(r)') : Target(u)' = r /\ ~Scheduled(u)'
    BY <1>2, <1>4, <1>5 DEF Placed
  <1>8. \A r \in Semaphores : Distinct(Queue(r)')
    BY <1>2 DEF Placed
  <1>9. Placed'
    BY <1>3, <1>6, <1>7, <1>8 DEF Placed
  <1>10. Woken'
    <2>1. ASSUME NEW r \in Semaphores, Value(r)' > 0, Queue(r)' # << >>
          PROVE  \E u \in Threads : Target(u)' = r /\ Scheduled(u)'
      <3>1. Value(r) > 0 /\ Queue(r) # << >>
        BY <1>2, <2>1
      <3>2. PICK u \in Threads : Target(u) = r /\ Scheduled(u)
        BY <3>1 DEF Woken
      <3>3. u # t
        BY <3>2, NoTarget
      <3> QED BY <3>2, <3>3, <1>2, <1>4
    <2> QED BY <2>1 DEF Woken
  <1> QED BY <1>9, <1>10

\* There are finitely many threads: main forks each of them.
LEMMA ThreadsFinite ==
    IsFiniteSet(Threads)
  <1>1. Users \in Seq(Threads) /\ Threads = Range(Users) \cup {Worker}
    BY SyncIOAssumption
  <1>2. Len(Users) \in Nat /\ DOMAIN Users = 1 .. Len(Users)
    BY <1>1, LenProperties
  <1>3. IsFiniteSet(1 .. Len(Users))
    <2>1. 1 \in Int /\ Len(Users) \in Int
      BY <1>2
    <2> QED BY <2>1, FS_Interval
  <1>4. IsFiniteSet(Range(Users))
    <2>1. Users \in Surjection(1 .. Len(Users), Range(Users))
      BY <1>1, <1>2 DEF Surjection, Range
    <2> QED BY <1>3, <2>1, FS_Surjection
  <1> QED BY <1>1, <1>4, FS_AddElement

---------------------------------------------------------------------------
(* Receivers and their mail.                                               *)

\* The receivers on their way to a box are finitely many.
LEMMA ComingFinite ==
    ASSUME NEW b
    PROVE  IsFiniteSet(Coming(b)) /\ IsFiniteSet(Coming(b)')
  <1>1. Coming(b) \in SUBSET Threads /\ Coming(b)' \in SUBSET Threads
    BY DEF Coming
  <1> QED BY <1>1, ThreadsFinite, FS_Subset

\* A step that does not touch the waiters of the boxes.
LEMMA SignalsStay ==
    ASSUME TypeOK, Signalled, UNCHANGED waitQueue, NotesSame(Threads),
           \A u \in Threads :
              /\ (pc'[u] = "wait" /\ call'[u] \in Boxes) <=> (pc[u] = "wait" /\ call[u] \in Boxes)
              /\ pc[u] = "wait" /\ call[u] \in Boxes => call'[u] = call[u]
    PROVE  Signalled'
  <1>1. \A u \in Threads : Note(u)' = Note(u)
    BY DEF NotesSame
  <1>2. \A l \in Locks : Distinct(waitQueue'[l])
    BY DEF Signalled
  <1>3. ASSUME NEW l \in Locks, NEW u \in Range(waitQueue'[l])
        PROVE  l \in Boxes /\ u # Worker /\ pc'[u] = "wait" /\ call'[u] = l
    <2>1. u \in Range(waitQueue[l]) /\ u \in Threads
      BY DEF TypeOK, Range
    <2> QED BY <2>1 DEF Signalled
  <1>4. ASSUME NEW u \in Threads
        PROVE  /\ Note(u)' \in {0, 1}
               /\ Note(u)' = 1 <=>
                     /\ pc'[u] = "wait" /\ call'[u] \in Boxes
                     /\ u \notin Range(waitQueue'[call'[u]])
    BY <1>1 DEF Signalled
  <1> QED BY <1>2, <1>3, <1>4 DEF Signalled

\* A step that does not touch the boxes, their queues and their waiters, and
\* lets no receiver turn back before it has looked, keeps this part.
LEMMA ReceiversStay ==
    ASSUME TypeOK, Signalled, EnoughComing, UNCHANGED <<waitQueue, box>>, NotesSame(Threads),
           \A u \in Threads :
              /\ (pc'[u] = "wait" /\ call'[u] \in Boxes) <=> (pc[u] = "wait" /\ call[u] \in Boxes)
              /\ pc[u] = "wait" /\ call[u] \in Boxes => call'[u] = call[u]
              /\ u # Worker /\ pc[u] \in {"acquire", "inside"} /\ call[u] \in Boxes =>
                    pc'[u] \in {"acquire", "inside"} /\ call'[u] = call[u]
    PROVE  Signalled' /\ EnoughComing'
  <1>0. \A u \in Threads : Note(u)' = Note(u)
    BY DEF NotesSame
  <1>1. Signalled'
    BY SignalsStay
  <1>2. EnoughComing'
    <2>1. ASSUME NEW b \in Boxes, waitQueue'[b] # << >>
          PROVE  Len(box'[b]) <= Cardinality(Coming(b)')
      <3>1. Coming(b) \subseteq Coming(b)'
        BY <1>0 DEF Coming
      <3>2. Cardinality(Coming(b)) <= Cardinality(Coming(b)')
        BY <3>1, ComingFinite, FS_Subset
      <3>3. Len(box[b]) <= Cardinality(Coming(b)) /\ box' = box /\ Len(box[b]) \in Nat
        BY <2>1 DEF EnoughComing, TypeOK
      <3>4. Cardinality(Coming(b)) \in Nat /\ Cardinality(Coming(b)') \in Nat
        BY ComingFinite, FS_CardinalityType
      <3> QED BY <3>2, <3>3, <3>4
    <2> QED BY <2>1 DEF EnoughComing
  <1> QED BY <1>1, <1>2

---------------------------------------------------------------------------
(* Each step keeps it.                                                     *)

\* A call begins with P on the lock.
LEMMA CallWaits ==
    ASSUME IInv, NEW t \in Threads, Call(t)
    PROVE  Placed' /\ Woken' /\ Signalled' /\ EnoughComing'
  <1> USE DEF synchVars, ioVars, inputVars
  <1>1. Inv /\ TypeOK /\ Placed /\ Woken /\ Signalled /\ EnoughComing
    BY DEF IInv, Inv
  <1>2. running = t /\ pc[t] = "user"
    BY DEF Call, Runs
  <1>3. PICK l \in Callable : /\ call' = [call EXCEPT ![t] = l]
                              /\ P(t, <<"lock", l>>, "acquire", "inside")
    BY DEF Call
  <1>4. l \in Locks /\ <<"lock", l>> \in Semaphores
    BY SemaphoreNames DEF Callable, Outputs
  <1>5. /\ NotesSame(Threads)
        /\ pc' = [pc EXCEPT ![t] = IF LockUp(l) > 0 THEN "inside" ELSE "acquire"]
    BY <1>1, <1>3, <1>4, PLock
  <1>6. /\ \A u \in Threads \ {t} : pc'[u] = pc[u] /\ call'[u] = call[u]
        /\ call'[t] = l
        /\ pc'[t] = IF LockUp(l) > 0 THEN "inside" ELSE "acquire"
    BY <1>1, <1>3, <1>5 DEF TypeOK
  <1>7. Placed' /\ Woken'
    <2>1. Target(t) \notin Semaphores
      BY <1>2, NoTarget
    <2>2. \A u \in Threads \ {t} : Target(u)' = Target(u)
      BY <1>6 DEF Target
    <2>3. Value(<<"lock", l>>) = 0 => Target(t)' = <<"lock", l>>
      BY <1>6 DEF Target, LockUp
    <2>4. Value(<<"lock", l>>) \in {0, 1}
      BY <1>1, <1>4, AtMostOne
    <2>5. "acquire" # "finished" /\ "inside" # "finished"
      OBVIOUS
    <2>6. \A u \in Threads \ {t} : Target(u)' = Target(u) /\ pc'[u] = pc[u]
      BY <1>6, <2>2
    <2> QED BY <1>1, <1>2, <1>3, <1>4, <2>1, <2>3, <2>4, <2>5, <2>6, PMoves
  <1>8. Signalled' /\ EnoughComing'
    <2>1. UNCHANGED <<waitQueue, box>>
      BY DEF Call
    <2>2. pc'[t] # "wait"
      BY <1>6
    <2> QED BY <1>1, <1>2, <1>5, <1>6, <2>1, <2>2, ReceiversStay
  <1> QED BY <1>7, <1>8

\* The other P's that leave the boxes alone: on a lock again, or on an answer,
\* a key or a packet.
LEMMA PWaits ==
    ASSUME IInv, NEW t \in Threads, running = t, NEW s \in Semaphores,
           \A u \in Threads : s # <<"waiter", u>>,
           NEW asleep \in Labels, NEW taken \in Labels, P(t, s, asleep, taken),
           asleep # "finished", taken \notin {"finished", "wait"},
           UNCHANGED <<call, waitQueue, box>>,
           Target(t) = s \/ Target(t) \notin Semaphores,
           Value(s) = 0 /\ pc'[t] = asleep => Target(t)' = s,
           pc[t] = "wait" => call[t] \notin Boxes,
           asleep = "wait" => call[t] \notin Boxes,
           \/ call[t] \notin Boxes
           \/ t = Worker
           \/ asleep \in {"acquire", "inside"} /\ taken \in {"acquire", "inside"}
    PROVE  Placed' /\ Woken' /\ Signalled' /\ EnoughComing'
  <1>1. Inv /\ TypeOK /\ Placed /\ Woken /\ Signalled /\ EnoughComing
    BY DEF IInv, Inv
  <1>2. /\ \A r \in Semaphores :
              Value(r)' = IF r = s /\ Value(s) > 0 THEN Value(s) - 1 ELSE Value(r)
        /\ pc' = [pc EXCEPT ![t] = IF Value(s) > 0 THEN taken ELSE asleep]
    BY <1>1, PTakes
  <1>3. NotesSame(Threads)
    BY <1>2, SemaphoreNames DEF NotesSame, Note
  <1>4. /\ \A u \in Threads \ {t} : pc'[u] = pc[u] /\ call'[u] = call[u]
        /\ pc'[t] = IF Value(s) > 0 THEN taken ELSE asleep
    BY <1>1, <1>2 DEF TypeOK
  <1>5. Value(s) \in {0, 1}
    BY <1>1, AtMostOne
  <1>6. Placed' /\ Woken'
    <2>1. \A u \in Threads \ {t} : Target(u)' = Target(u) /\ pc'[u] = pc[u]
      BY <1>4 DEF Target
    <2>2. Value(s) = 0 => Target(t)' = s
      BY <1>4
    <2> QED BY <1>1, <1>5, <2>1, <2>2, PMoves
  <1>7. Signalled' /\ EnoughComing'
    BY <1>1, <1>3, <1>4, ReceiversStay
  <1> QED BY <1>6, <1>7

\* Acquire again after Sleep.
LEMMA AcquireWaits ==
    ASSUME IInv, NEW t \in Threads, Acquire(t)
    PROVE  Placed' /\ Woken' /\ Signalled' /\ EnoughComing'
  <1> USE DEF synchVars, ioVars, inputVars
  <1>1. running = t /\ pc[t] = "acquire" /\ P(t, <<"lock", call[t]>>, "acquire", "inside")
        /\ UNCHANGED <<call, waitQueue, box>>
    BY DEF Acquire, Runs
  <1>2. call[t] \in Locks
    BY <1>1, SemaphoreNames DEF IInv, Inv, Roles, Mail
  <1>3. PICK s \in Semaphores : s = <<"lock", call[t]>>
    BY <1>2, SemaphoreNames
  <1>4. Target(t) = s /\ (pc'[t] = "acquire" => Target(t)' = s)
    BY <1>1, <1>3 DEF Target
  <1>5. \A u \in Threads : s # <<"waiter", u>>
    BY <1>3
  <1>6. {"acquire", "inside"} \subseteq Labels
    BY DEF Labels
  <1> QED BY <1>1, <1>3, <1>4, <1>5, <1>6, PWaits

\* A request, and the wait for its answer.
LEMMA RequestWaits ==
    ASSUME IInv, NEW t \in Threads, Request(t)
    PROVE  Placed' /\ Woken' /\ Signalled' /\ EnoughComing'
  <1> USE DEF synchVars, ioVars, inputVars
  <1>1. running = t /\ pc[t] = "inside" /\ call[t] \in Outputs
    BY DEF Request, Runs
  <1>2. CASE BusyDevice(call[t])
    <2>1. call[t] \in active
      BY <1>2 DEF BusyDevice
    <2>2. PICK u \in Threads : pc[u] = "wait" /\ call[u] = call[t]
      BY <1>1, <2>1 DEF IInv, Inv, Answering
    <2>3. call[t] \in Locks /\ call[t] \notin Boxes
      BY <1>1, SemaphoreNames
    <2>4. u = t
      <3>1. In(u, call[t]) /\ In(t, call[t])
        BY <1>1, <2>2, <2>3 DEF In
      <3> QED BY <2>3, <3>1 DEF IInv, Inv, Exclusive
    <2> QED BY <1>1, <2>2, <2>4
  <1>3. CASE ~BusyDevice(call[t])
    <2>1. PICK taken \in {"inside", "release"} : P(t, <<"done", call[t]>>, "wait", taken)
      BY <1>3 DEF Request, AfterDone
    <2>2. UNCHANGED <<call, waitQueue, box>>
      BY <1>3 DEF Request
    <2>3. call[t] \in Devices /\ call[t] \notin Boxes
      BY <1>1, SemaphoreNames DEF Devices
    <2>4. PICK s \in Semaphores : s = <<"done", call[t]>>
      BY <2>3, SemaphoreNames
    <2>5. Target(t) \notin Semaphores
      BY <1>1, NoTarget
    <2>6. pc'[t] = "wait" => Target(t)' = s
      BY <2>2, <2>3, <2>4 DEF Target
    <2>7. \A u \in Threads : s # <<"waiter", u>>
      BY <2>4
    <2>8. {"wait", "inside", "release"} \subseteq Labels
      BY DEF Labels
    <2> QED BY <1>1, <2>1, <2>2, <2>3, <2>4, <2>5, <2>6, <2>7, <2>8, PWaits
  <1> QED BY <1>2, <1>3

\* A reader waits for a character.
LEMMA AwaitKeyWaits ==
    ASSUME IInv, NEW t \in Threads, AwaitKey(t)
    PROVE  Placed' /\ Woken' /\ Signalled' /\ EnoughComing'
  <1> USE DEF synchVars, ioVars, inputVars
  <1>1. /\ running = t /\ pc[t] = "inside" /\ call[t] = "keyboard"
        /\ P(t, <<"done", "keyboard">>, "wait", "release")
        /\ UNCHANGED <<call, waitQueue, box>>
    BY DEF AwaitKey, Runs
  <1>2. call[t] \in Devices /\ call[t] \notin Boxes
    BY <1>1, SemaphoreNames DEF Devices
  <1>3. PICK s \in Semaphores : s = <<"done", "keyboard">>
    BY <1>1, <1>2, SemaphoreNames
  <1>4. Target(t) \notin Semaphores
    BY <1>1, NoTarget
  <1>5. pc'[t] = "wait" => Target(t)' = s
    BY <1>1, <1>2, <1>3 DEF Target
  <1>6. \A u \in Threads : s # <<"waiter", u>>
    BY <1>3
  <1>7. {"wait", "release"} \subseteq Labels
    BY DEF Labels
  <1> QED BY <1>1, <1>2, <1>3, <1>4, <1>5, <1>6, <1>7, PWaits

\* The thread that an interrupt readied tests the semaphore again.
LEMMA AnsweredWaits ==
    ASSUME IInv, NEW t \in Threads, Answered(t)
    PROVE  Placed' /\ Woken' /\ Signalled' /\ EnoughComing'
  <1> USE DEF synchVars, ioVars, inputVars
  <1>1. /\ running = t /\ pc[t] = "wait" /\ call[t] \in Outputs \cup {"keyboard"}
        /\ UNCHANGED <<call, waitQueue, box>>
    BY DEF Answered, Runs
  <1>2. PICK taken \in {"inside", "release"} : P(t, <<"done", call[t]>>, "wait", taken)
    BY DEF Answered, AfterDone
  <1>3. call[t] \in Devices /\ call[t] \notin Boxes
    BY <1>1, SemaphoreNames DEF Devices
  <1>4. PICK s \in Semaphores : s = <<"done", call[t]>>
    BY <1>3, SemaphoreNames
  <1>5. Target(t) = s
    BY <1>1, <1>3, <1>4 DEF Target
  <1>6. pc'[t] = "wait" => Target(t)' = s
    BY <1>1, <1>3, <1>4 DEF Target
  <1>7. \A u \in Threads : s # <<"waiter", u>>
    BY <1>4
  <1>8. {"wait", "inside", "release"} \subseteq Labels
    BY DEF Labels
  <1> QED BY <1>1, <1>2, <1>3, <1>4, <1>5, <1>6, <1>7, <1>8, PWaits

\* The postal worker waits for a packet.
LEMMA AwaitMailWaits ==
    ASSUME IInv, NEW t \in Threads, AwaitMail(t)
    PROVE  Placed' /\ Woken' /\ Signalled' /\ EnoughComing'
  <1> USE DEF synchVars, ioVars, inputVars
  <1>1. /\ running = t /\ pc[t] = "worker"
        /\ P(t, <<"done", "mail">>, "worker", "sort")
        /\ UNCHANGED <<call, waitQueue, box>>
    BY DEF AwaitMail, Runs
  <1>2. t = Worker
    BY <1>1 DEF IInv, Inv, Roles
  <1>3. PICK s \in Semaphores : s = <<"done", "mail">>
    BY SemaphoreNames DEF Devices
  <1>4. Target(t) = s /\ (pc'[t] = "worker" => Target(t)' = s)
    BY <1>1, <1>3 DEF Target
  <1>5. \A u \in Threads : s # <<"waiter", u>>
    BY <1>3
  <1>6. {"worker", "sort"} \subseteq Labels
    BY DEF Labels
  <1> QED BY <1>1, <1>2, <1>3, <1>4, <1>5, <1>6, PWaits

\* The worker takes the packet and acquires its box.
LEMMA SortWaits ==
    ASSUME IInv, NEW t \in Threads, Sort(t)
    PROVE  Placed' /\ Woken' /\ Signalled' /\ EnoughComing'
  <1> USE DEF synchVars, ioVars, inputVars
  <1>1. Inv /\ TypeOK /\ Placed /\ Woken /\ Signalled /\ EnoughComing /\ Delivering
    BY DEF IInv, Inv
  <1>2. running = t /\ pc[t] = "sort" /\ t = Worker
    BY <1>1 DEF Sort, Runs, Inv, Roles
  <1>3. buffer' \in Mail
    BY <1>1, <1>2 DEF Sort, TypeOK, Delivering
  <1>4. PICK l \in Boxes : l = buffer'.to
    BY <1>3 DEF Mail
  <1>5. /\ call' = [call EXCEPT ![t] = l]
        /\ P(t, <<"lock", l>>, "acquire", "inside")
        /\ UNCHANGED <<waitQueue, box>>
    BY <1>4 DEF Sort
  <1>6. l \in Locks /\ <<"lock", l>> \in Semaphores
    BY SemaphoreNames
  <1>7. /\ NotesSame(Threads)
        /\ pc' = [pc EXCEPT ![t] = IF LockUp(l) > 0 THEN "inside" ELSE "acquire"]
    BY <1>1, <1>5, <1>6, PLock
  <1>8. /\ \A u \in Threads \ {t} : pc'[u] = pc[u] /\ call'[u] = call[u]
        /\ call'[t] = l
        /\ pc'[t] = IF LockUp(l) > 0 THEN "inside" ELSE "acquire"
    BY <1>1, <1>5, <1>7 DEF TypeOK
  <1>9. Placed' /\ Woken'
    <2>1. Target(t) \notin Semaphores
      BY <1>2, NoTarget
    <2>2. \A u \in Threads \ {t} : Target(u)' = Target(u) /\ pc'[u] = pc[u]
      BY <1>8 DEF Target
    <2>3. Value(<<"lock", l>>) = 0 => Target(t)' = <<"lock", l>>
      BY <1>8 DEF Target, LockUp
    <2>4. Value(<<"lock", l>>) \in {0, 1}
      BY <1>1, <1>6, AtMostOne
    <2>5. "acquire" # "finished" /\ "inside" # "finished"
      OBVIOUS
    <2> QED BY <1>1, <1>2, <1>5, <1>6, <2>1, <2>2, <2>3, <2>4, <2>5, PMoves
  <1>10. Signalled' /\ EnoughComing'
    <2>1. pc'[t] # "wait" /\ pc[t] # "wait"
      BY <1>2, <1>8
    <2> QED BY <1>1, <1>2, <1>5, <1>7, <1>8, <2>1, ReceiversStay
  <1> QED BY <1>9, <1>10

\* A receiver that was signalled goes on to Acquire; before that it sleeps on.
LEMMA AwaitSignalWaits ==
    ASSUME IInv, NEW t \in Threads, AwaitSignal(t)
    PROVE  Placed' /\ Woken' /\ Signalled' /\ EnoughComing'
  <1> USE DEF synchVars, ioVars, inputVars
  <1>1. Inv /\ TypeOK /\ Placed /\ Woken /\ Signalled /\ EnoughComing
    BY DEF IInv, Inv
  <1>2. /\ running = t /\ pc[t] = "wait" /\ call[t] \in Boxes
        /\ P(t, <<"waiter", t>>, "wait", "acquire")
        /\ UNCHANGED <<call, waitQueue, box>>
    BY DEF AwaitSignal, Runs
  <1>3. t # Worker
    BY <1>1, <1>2 DEF Inv, Roles
  <1>4. PICK s \in Semaphores : s = <<"waiter", t>>
    BY SemaphoreNames
  <1>5. Note(t) \in {0, 1} /\ Value(s) = Note(t)
    BY <1>1, <1>4 DEF Signalled, Note
  <1>6. /\ Note(t)' = IF Note(t) > 0 THEN Note(t) - 1 ELSE Note(t)
        /\ NotesSame(Threads \ {t})
        /\ pc' = [pc EXCEPT ![t] = IF Note(t) > 0 THEN "acquire" ELSE "wait"]
    BY <1>1, <1>2, PWaiter
  <1>7. /\ \A u \in Threads \ {t} : pc'[u] = pc[u] /\ Note(u)' = Note(u)
        /\ pc'[t] = IF Note(t) = 1 THEN "acquire" ELSE "wait"
        /\ Note(t)' = 0
    BY <1>1, <1>5, <1>6 DEF TypeOK, NotesSame
  <1>8. Placed' /\ Woken'
    <2>1. Target(t) = s
      BY <1>2, <1>4 DEF Target
    <2>2. \A u \in Threads \ {t} : Target(u)' = Target(u) /\ pc'[u] = pc[u]
      BY <1>2, <1>7 DEF Target
    <2>3. Value(s) = 0 => Target(t)' = s
      BY <1>2, <1>4, <1>5, <1>7 DEF Target
    <2>4. "wait" # "finished" /\ "acquire" # "finished"
      OBVIOUS
    <2> QED BY <1>1, <1>2, <1>4, <1>5, <2>1, <2>2, <2>3, <2>4, PMoves
  <1>9. Signalled' /\ EnoughComing'
    <2>1. CASE Note(t) = 0
      <3>1. NotesSame(Threads)
        BY <1>7, <2>1 DEF NotesSame
      <3> QED BY <1>1, <1>2, <1>7, <2>1, <3>1, ReceiversStay
    <2>2. CASE Note(t) = 1
      <3>1. t \notin Range(waitQueue[call[t]])
        BY <1>1, <2>2 DEF Signalled
      <3>2. ASSUME NEW l \in Locks, NEW u \in Range(waitQueue'[l])
            PROVE  l \in Boxes /\ u # Worker /\ pc'[u] = "wait" /\ call'[u] = l
        <4>1. u \in Range(waitQueue[l]) /\ u \in Threads
          BY <1>1, <1>2 DEF TypeOK, Range
        <4>2. l \in Boxes /\ u # Worker /\ pc[u] = "wait" /\ call[u] = l
          BY <1>1, <4>1 DEF Signalled
        <4>3. u # t
          BY <3>1, <4>1, <4>2
        <4> QED BY <1>2, <1>7, <4>1, <4>2, <4>3
      <3>3. ASSUME NEW u \in Threads
            PROVE  /\ Note(u)' \in {0, 1}
                   /\ Note(u)' = 1 <=>
                         /\ pc'[u] = "wait" /\ call'[u] \in Boxes
                         /\ u \notin Range(waitQueue'[call'[u]])
        <4>1. CASE u = t
          BY <1>7, <2>2, <4>1
        <4>2. CASE u # t
          BY <1>1, <1>2, <1>7, <4>2 DEF Signalled
        <4> QED BY <4>1, <4>2
      <3>4. Signalled'
        BY <1>1, <1>2, <3>2, <3>3 DEF Signalled
      <3>5. ASSUME NEW b \in Boxes, waitQueue'[b] # << >>
            PROVE  Len(box'[b]) <= Cardinality(Coming(b)')
        <4>1. Coming(b) = Coming(b)'
          BY <1>2, <1>7, <2>2 DEF Coming
        <4> QED BY <1>1, <1>2, <3>5, <4>1 DEF EnoughComing
      <3>6. EnoughComing'
        BY <3>5 DEF EnoughComing
      <3> QED BY <3>4, <3>6
    <2> QED BY <1>5, <2>1, <2>2
  <1> QED BY <1>8, <1>9

\* The end of a call: V on the lock.
LEMMA ReleaseLockWaits ==
    ASSUME IInv, NEW t \in Threads, ReleaseLock(t)
    PROVE  Placed' /\ Woken' /\ Signalled' /\ EnoughComing'
  <1> USE DEF synchVars, ioVars, inputVars
  <1>1. Inv /\ TypeOK /\ Placed /\ Woken /\ Signalled /\ EnoughComing
    BY DEF IInv, Inv
  <1>2. running = t /\ pc[t] = "release" /\ lockHolder[call[t]] = t
    BY <1>1 DEF ReleaseLock, Runs, Inv, Holding
  <1>3. PICK l \in Locks : l = call[t] /\ (t # Worker => l \notin Boxes)
    BY <1>1, <1>2, SemaphoreNames DEF Inv, Roles, Mail
  <1>4. PICK x \in {"user", "worker"} : pc' = [pc EXCEPT ![t] = x]
    BY <1>2 DEF ReleaseLock, Goes
  <1>5. /\ V(<<"lock", l>>)
        /\ UNCHANGED <<running, waitQueue, call, box>>
    BY <1>2, <1>3 DEF ReleaseLock, Release
  <1>6. /\ \A u \in Threads \ {t} : pc'[u] = pc[u] /\ call'[u] = call[u]
        /\ pc'[t] = x
    BY <1>1, <1>4, <1>5 DEF TypeOK
  <1>7. NotesSame(Threads)
    BY <1>1, <1>5, VLock
  <1>8. Placed' /\ Woken'
    <2>1. Target(t) \notin Semaphores
      BY <1>2, NoTarget
    <2>2. \A u \in Threads : \/ Target(u)' = Target(u) /\ pc'[u] = pc[u]
                             \/ u = running /\ Target(u) \notin Semaphores /\ pc'[u] # "finished"
      BY <1>2, <1>6, <2>1 DEF Target
    <2> QED BY <1>1, <1>5, <2>2, SemaphoreNames, VMoves
  <1>9. Signalled' /\ EnoughComing'
    BY <1>1, <1>2, <1>3, <1>5, <1>6, <1>7, ReceiversStay
  <1> QED BY <1>8, <1>9

\* The worker puts a packet into the box: with a waiter it signals the first,
\* who is then one more on the way for one more item; else it releases.
LEMMA PutWaits ==
    ASSUME IInv, NEW t \in Threads, Put(t)
    PROVE  Placed' /\ Woken' /\ Signalled' /\ EnoughComing'
  <1> USE DEF synchVars, ioVars, inputVars
  <1>1. Inv /\ TypeOK /\ Placed /\ Woken /\ Signalled /\ EnoughComing
    BY DEF IInv, Inv
  <1>2. running = t /\ pc[t] = "inside" /\ t = Worker /\ UNCHANGED <<running, call>>
    BY DEF Put, Runs
  <1>3. PICK b \in Boxes : b = call[t] /\ b \in Locks
    BY <1>1, <1>2, SemaphoreNames DEF Inv, Roles, Mail
  <1>4. /\ box' = [box EXCEPT ![b] = Append(@, buffer.id)]
        /\ buffer.id \in 1 .. MaxMail
    BY <1>1, <1>2, <1>3 DEF Put, Inv, Roles, Mail
  <1>5. /\ Len(box[b]) \in Nat /\ Len(box'[b]) = Len(box[b]) + 1
        /\ \A c \in Boxes \ {b} : box'[c] = box[c]
    <2>1. box[b] \in Seq(1 .. MaxMail) /\ box \in [Boxes -> Seq(1 .. MaxMail)]
      BY <1>1 DEF TypeOK
    <2> QED BY <1>4, <2>1, AppendProperties, LenProperties
  <1>6. Target(t) \notin Semaphores
    BY <1>2, NoTarget
  <1>7. CASE Signals(b)
    <2>1. waitQueue[b] \in Seq(Threads) /\ waitQueue[b] # << >>
      BY <1>1, <1>3, <1>7 DEF TypeOK, Signals
    <2>2. PICK u \in Range(waitQueue[b]) :
             /\ u \in Threads /\ u = Head(waitQueue[b])
             /\ u \notin Range(Tail(waitQueue[b])) /\ Distinct(Tail(waitQueue[b]))
             /\ Range(waitQueue[b]) = Range(Tail(waitQueue[b])) \cup {u}
      BY <1>1, <1>3, <2>1, TakeFront DEF Signalled
    <2>3. /\ waitQueue' = [waitQueue EXCEPT ![b] = Tail(@)]
          /\ V(<<"waiter", u>>)
          /\ pc' = [pc EXCEPT ![t] = "release"]
      BY <1>3, <1>7, <2>2 DEF Put, Signal, Goes
    <2>4. /\ \A l \in Locks \ {b} : waitQueue'[l] = waitQueue[l]
          /\ waitQueue'[b] = Tail(waitQueue[b])
          /\ \A v \in Threads \ {t} : pc'[v] = pc[v]
          /\ pc'[t] = "release"
      BY <1>1, <1>3, <2>3 DEF TypeOK
    <2>5. /\ u # t /\ pc[u] = "wait" /\ call[u] = b /\ Note(u) = 0
      BY <1>1, <1>2, <1>3, <2>2 DEF Signalled
    <2>6. Note(u)' = 1 /\ \A v \in Threads \ {u} : Note(v)' = Note(v)
      BY <1>1, <2>2, <2>3, <2>5, VWaiter DEF NotesSame
    <2>7. Placed' /\ Woken'
      <3>1. \A v \in Threads : \/ Target(v)' = Target(v) /\ pc'[v] = pc[v]
                               \/ v = running /\ Target(v) \notin Semaphores /\ pc'[v] # "finished"
        BY <1>2, <1>6, <2>4 DEF Target
      <3>2. <<"waiter", u>> \in Semaphores
        BY <2>2, SemaphoreNames
      <3> QED BY <1>1, <1>2, <2>3, <3>1, <3>2, VMoves
    <2>8. Signalled'
      <3>1. ASSUME NEW l \in Locks
            PROVE  /\ Distinct(waitQueue'[l])
                   /\ Range(waitQueue'[l]) \subseteq Range(waitQueue[l])
                   /\ l # b => Range(waitQueue'[l]) = Range(waitQueue[l])
        BY <1>1, <2>2, <2>4 DEF Signalled
      <3>2. ASSUME NEW l \in Locks, NEW v \in Range(waitQueue'[l])
            PROVE  l \in Boxes /\ v # Worker /\ pc'[v] = "wait" /\ call'[v] = l
        <4>1. v \in Range(waitQueue[l])
          BY <3>1
        <4>2. v \in Threads
          BY <1>1, <4>1 DEF TypeOK, Range
        <4>3. l \in Boxes /\ v # Worker /\ pc[v] = "wait" /\ call[v] = l
          BY <1>1, <4>1 DEF Signalled
        <4> QED BY <1>2, <2>4, <4>2, <4>3
      <3>3. ASSUME NEW v \in Threads
            PROVE  /\ Note(v)' \in {0, 1}
                   /\ Note(v)' = 1 <=>
                         /\ pc'[v] = "wait" /\ call'[v] \in Boxes
                         /\ v \notin Range(waitQueue'[call'[v]])
        <4>1. CASE v = u
          BY <1>2, <1>3, <2>2, <2>4, <2>5, <2>6, <4>1
        <4>2. CASE v = t
          BY <1>1, <1>2, <2>4, <2>5, <2>6, <4>2 DEF Signalled
        <4>3. CASE v # t /\ v # u
          <5>1. /\ Note(v)' = Note(v) /\ pc'[v] = pc[v] /\ call'[v] = call[v]
                /\ Note(v) \in {0, 1}
                /\ Note(v) = 1 <=> /\ pc[v] = "wait" /\ call[v] \in Boxes
                                   /\ v \notin Range(waitQueue[call[v]])
            BY <1>1, <1>2, <2>4, <2>6, <4>3 DEF Signalled
          <5>2. call[v] \in Boxes =>
                   (v \in Range(waitQueue'[call[v]]) <=> v \in Range(waitQueue[call[v]]))
            <6>1. CASE call[v] = b
              BY <2>2, <2>4, <4>3, <6>1
            <6>2. CASE call[v] # b /\ call[v] \in Boxes
              BY <3>1, <6>2, SemaphoreNames
            <6> QED BY <6>1, <6>2
          <5> QED BY <5>1, <5>2
        <4> QED BY <4>1, <4>2, <4>3
      <3> QED BY <3>1, <3>2, <3>3 DEF Signalled
    <2>9. EnoughComing'
      <3>1. ASSUME NEW c \in Boxes, waitQueue'[c] # << >>
            PROVE  Len(box'[c]) <= Cardinality(Coming(c)')
        <4>1. CASE c = b
          <5>1. /\ u \in Coming(b)' /\ u \notin Coming(b)
                /\ \A v : v # u => (v \in Coming(b) <=> v \in Coming(b)')
            <6>1. u \in Coming(b)'
              <7>1. u # Worker /\ pc'[u] = "wait" /\ call'[u] = b /\ Note(u)' = 1
                BY <1>2, <2>2, <2>4, <2>5, <2>6
              <7> QED BY <2>2, <7>1 DEF Coming
            <6>2. u \notin Coming(b)
              BY <2>5 DEF Coming
            <6>3. ASSUME NEW v, v # u PROVE v \in Coming(b) <=> v \in Coming(b)'
              <7>1. CASE v \in Threads \ {Worker}
                <8>1. pc'[v] = pc[v] /\ call'[v] = call[v] /\ Note(v)' = Note(v)
                  BY <1>2, <2>4, <2>6, <6>3, <7>1
                <8> QED BY <7>1, <8>1 DEF Coming
              <7>2. CASE v \notin Threads \ {Worker}
                BY <7>2 DEF Coming
              <7> QED BY <7>1, <7>2
            <6> QED BY <6>1, <6>2, <6>3
          <5>2. Cardinality(Coming(b)') = Cardinality(Coming(b)) + 1
            BY <5>1, ComingFinite, OneMoves
          <5>3. Len(box[b]) <= Cardinality(Coming(b)) /\ Cardinality(Coming(b)) \in Nat
            BY <1>1, <2>1, ComingFinite, FS_CardinalityType DEF EnoughComing
          <5> QED BY <1>5, <4>1, <5>2, <5>3
        <4>2. CASE c # b
          <5>1. Coming(c) = Coming(c)'
            <6>1. ASSUME NEW v \in Threads \ {Worker}, call[v] = c
                  PROVE  pc'[v] = pc[v] /\ Note(v)' = Note(v)
              BY <1>2, <2>4, <2>5, <2>6, <4>2, <6>1
            <6> QED BY <1>2, <6>1 DEF Coming
          <5>2. waitQueue[c] # << >> /\ box'[c] = box[c]
            BY <1>5, <2>4, <3>1, <4>2, SemaphoreNames
          <5> QED BY <1>1, <5>1, <5>2 DEF EnoughComing
        <4> QED BY <4>1, <4>2
      <3> QED BY <3>1 DEF EnoughComing
    <2> QED BY <2>7, <2>8, <2>9
  <1>8. CASE ~Signals(b)
    <2>1. /\ V(<<"lock", b>>) /\ pc' = [pc EXCEPT ![t] = "worker"] /\ UNCHANGED waitQueue
      BY <1>3, <1>8 DEF Put, Release, Goes
    <2>2. pc'[t] = "worker" /\ \A v \in Threads \ {t} : pc'[v] = pc[v]
      BY <1>1, <2>1 DEF TypeOK
    <2>3. NotesSame(Threads)
      BY <1>1, <1>3, <2>1, VLock
    <2>4. Placed' /\ Woken'
      <3>1. \A v \in Threads : \/ Target(v)' = Target(v) /\ pc'[v] = pc[v]
                               \/ v = running /\ Target(v) \notin Semaphores /\ pc'[v] # "finished"
        BY <1>2, <1>6, <2>2 DEF Target
      <3> QED BY <1>1, <1>2, <1>3, <2>1, <3>1, SemaphoreNames, VMoves
    <2>5. Signalled'
      BY <1>1, <1>2, <2>1, <2>2, <2>3, SignalsStay
    <2>6. EnoughComing'
      <3>1. ASSUME NEW c \in Boxes, waitQueue'[c] # << >>
            PROVE  Len(box'[c]) <= Cardinality(Coming(c)')
        <4>1. c # b /\ waitQueue[c] # << >>
          BY <1>8, <2>1, <3>1 DEF Signals
        <4>2. Coming(c) = Coming(c)'
          <5>1. \A v \in Threads \ {Worker} :
                   pc'[v] = pc[v] /\ call'[v] = call[v] /\ Note(v)' = Note(v)
            BY <1>2, <2>2, <2>3 DEF NotesSame
          <5> QED BY <5>1 DEF Coming
        <4> QED BY <1>1, <1>5, <4>1, <4>2 DEF EnoughComing
      <3> QED BY <3>1 DEF EnoughComing
    <2> QED BY <2>4, <2>5, <2>6
  <1> QED BY <1>7, <1>8

\* A receiver takes an item and leaves, or finds none and queues itself.
LEMMA GetWaits ==
    ASSUME IInv, NEW t \in Threads, Get(t)
    PROVE  Placed' /\ Woken' /\ Signalled' /\ EnoughComing'
  <1> USE DEF synchVars, ioVars, inputVars
  <1>1. Inv /\ TypeOK /\ Placed /\ Woken /\ Signalled /\ EnoughComing
    BY DEF IInv, Inv
  <1>2. /\ running = t /\ pc[t] = "inside" /\ t # Worker /\ call[t] \in Boxes
        /\ UNCHANGED <<running, call>>
    BY DEF Get, Runs
  <1>3. PICK b \in Boxes : b = call[t] /\ b \in Locks
    BY <1>2, SemaphoreNames
  <1>4. PICK x \in {"wait", "user"} : pc' = [pc EXCEPT ![t] = x] /\ V(<<"lock", b>>)
                                      /\ x = IF box[b] = << >> THEN "wait" ELSE "user"
    BY <1>3 DEF Get, Wait, Release, Goes
  <1>5. pc'[t] = x /\ \A v \in Threads \ {t} : pc'[v] = pc[v]
    BY <1>1, <1>4 DEF TypeOK
  <1>6. NotesSame(Threads)
    BY <1>1, <1>3, <1>4, VLock
  <1>7. Placed' /\ Woken'
    <2>1. Target(t) \notin Semaphores
      BY <1>2, NoTarget
    <2>2. \A v \in Threads : \/ Target(v)' = Target(v) /\ pc'[v] = pc[v]
                             \/ v = running /\ Target(v) \notin Semaphores /\ pc'[v] # "finished"
      BY <1>2, <1>5, <2>1 DEF Target
    <2> QED BY <1>1, <1>2, <1>3, <1>4, <2>2, SemaphoreNames, VMoves
  <1>8. ASSUME NEW c \in Boxes \ {b} PROVE Coming(c) = Coming(c)'
    <2>1. ASSUME NEW v \in Threads \ {Worker}, call[v] = c
          PROVE  pc'[v] = pc[v] /\ Note(v)' = Note(v)
      BY <1>3, <1>5, <1>6, <2>1 DEF NotesSame
    <2> QED BY <1>2, <2>1 DEF Coming
  <1>9. CASE box[b] = << >>
    <2>1. waitQueue' = [waitQueue EXCEPT ![b] = Append(@, t)] /\ UNCHANGED box
      BY <1>3, <1>9 DEF Get, Wait
    <2>2. /\ \A l \in Locks \ {b} : waitQueue'[l] = waitQueue[l]
          /\ waitQueue'[b] = Append(waitQueue[b], t)
          /\ waitQueue[b] \in Seq(Threads)
      BY <1>1, <1>3, <2>1 DEF TypeOK
    <2>3. t \notin Range(waitQueue[b]) /\ Distinct(waitQueue[b])
      BY <1>1, <1>2, <1>3 DEF Signalled
    <2>4. /\ Range(waitQueue'[b]) = Range(waitQueue[b]) \cup {t}
          /\ Distinct(waitQueue'[b])
      BY <2>2, <2>3, AppendQueue
    <2>5. Signalled'
      <3>1. \A l \in Locks : Distinct(waitQueue'[l])
        BY <1>1, <2>2, <2>4 DEF Signalled
      <3>2. ASSUME NEW l \in Locks, NEW v \in Range(waitQueue'[l])
            PROVE  l \in Boxes /\ v # Worker /\ pc'[v] = "wait" /\ call'[v] = l
        <4>1. CASE v = t
          <5>1. l = b
            <6>1. SUFFICES ASSUME l # b PROVE FALSE
              OBVIOUS
            <6>2. t \in Range(waitQueue[l])
              BY <2>2, <4>1, <6>1
            <6> QED BY <1>1, <1>2, <6>2 DEF Signalled
          <5> QED BY <1>2, <1>3, <1>4, <1>5, <1>9, <4>1, <5>1
        <4>2. CASE v # t
          <5>1. v \in Range(waitQueue[l])
            BY <2>2, <2>4, <4>2
          <5>2. v \in Threads
            BY <1>1, <5>1 DEF TypeOK, Range
          <5>3. l \in Boxes /\ v # Worker /\ pc[v] = "wait" /\ call[v] = l
            BY <1>1, <5>1 DEF Signalled
          <5> QED BY <1>2, <1>5, <4>2, <5>2, <5>3
        <4> QED BY <4>1, <4>2
      <3>3. ASSUME NEW v \in Threads
            PROVE  /\ Note(v)' \in {0, 1}
                   /\ Note(v)' = 1 <=>
                         /\ pc'[v] = "wait" /\ call'[v] \in Boxes
                         /\ v \notin Range(waitQueue'[call'[v]])
        <4>1. /\ Note(v)' = Note(v) /\ Note(v) \in {0, 1}
              /\ Note(v) = 1 <=> /\ pc[v] = "wait" /\ call[v] \in Boxes
                                 /\ v \notin Range(waitQueue[call[v]])
          BY <1>1, <1>6 DEF NotesSame, Signalled
        <4>2. CASE v = t
          BY <1>2, <1>3, <2>4, <4>1, <4>2
        <4>3. CASE v # t
          <5>1. call[v] \in Boxes =>
                   (v \in Range(waitQueue'[call[v]]) <=> v \in Range(waitQueue[call[v]]))
            <6>1. CASE call[v] = b
              BY <2>4, <4>3, <6>1
            <6>2. CASE call[v] # b
              BY <2>2, <6>2, SemaphoreNames
            <6> QED BY <6>1, <6>2
          <5> QED BY <1>2, <1>5, <4>1, <4>3, <5>1
        <4> QED BY <4>2, <4>3
      <3> QED BY <3>1, <3>2, <3>3 DEF Signalled
    <2>6. EnoughComing'
      <3>1. ASSUME NEW c \in Boxes, waitQueue'[c] # << >>
            PROVE  Len(box'[c]) <= Cardinality(Coming(c)')
        <4>1. CASE c = b
          <5>1. Len(box'[c]) = 0
            BY <1>9, <2>1, <4>1
          <5> QED BY <5>1, ComingFinite, FS_CardinalityType
        <4>2. CASE c # b
          BY <1>1, <1>8, <2>1, <2>2, <3>1, <4>2, SemaphoreNames DEF EnoughComing
        <4> QED BY <4>1, <4>2
      <3> QED BY <3>1 DEF EnoughComing
    <2> QED BY <1>7, <2>5, <2>6
  <1>10. CASE box[b] # << >>
    <2>1. box' = [box EXCEPT ![b] = Tail(@)] /\ UNCHANGED waitQueue
      BY <1>3, <1>10 DEF Get
    <2>2. /\ Len(box[b]) \in Nat \ {0} /\ Len(box'[b]) = Len(box[b]) - 1
          /\ \A c \in Boxes \ {b} : box'[c] = box[c]
      <3>1. box[b] \in Seq(1 .. MaxMail) /\ box \in [Boxes -> Seq(1 .. MaxMail)]
        BY <1>1 DEF TypeOK
      <3> QED BY <1>10, <2>1, <3>1, HeadTailProperties, LenProperties, EmptySeq
    <2>3. Signalled'
      BY <1>1, <1>2, <1>4, <1>5, <1>6, <1>10, <2>1, SignalsStay
    <2>4. EnoughComing'
      <3>1. ASSUME NEW c \in Boxes, waitQueue'[c] # << >>
            PROVE  Len(box'[c]) <= Cardinality(Coming(c)')
        <4>1. CASE c = b
          <5>1. t \in Coming(b) /\ t \notin Coming(b)'
            BY <1>2, <1>3, <1>4, <1>5, <1>10 DEF Coming
          <5>2. ASSUME NEW v, v # t PROVE v \in Coming(b) <=> v \in Coming(b)'
            <6>1. CASE v \in Threads \ {Worker}
              <7>1. pc'[v] = pc[v] /\ call'[v] = call[v] /\ Note(v)' = Note(v)
                BY <1>2, <1>5, <1>6, <5>2, <6>1 DEF NotesSame
              <7> QED BY <6>1, <7>1 DEF Coming
            <6>2. CASE v \notin Threads \ {Worker}
              BY <6>2 DEF Coming
            <6> QED BY <6>1, <6>2
          <5>3. Cardinality(Coming(b)) = Cardinality(Coming(b)') + 1
            BY <5>1, <5>2, ComingFinite, OneMoves
          <5>4. /\ Len(box[b]) <= Cardinality(Coming(b))
                /\ Cardinality(Coming(b)) \in Nat /\ Cardinality(Coming(b)') \in Nat
            BY <1>1, <2>1, <3>1, <4>1, ComingFinite, FS_CardinalityType DEF EnoughComing
          <5> QED BY <2>2, <4>1, <5>3, <5>4
        <4>2. CASE c # b
          <5>1. /\ Coming(c) = Coming(c)' /\ box'[c] = box[c]
                /\ Len(box[c]) <= Cardinality(Coming(c))
            BY <1>1, <1>8, <2>1, <2>2, <3>1, <4>2 DEF EnoughComing
          <5> QED BY <5>1
        <4> QED BY <4>1, <4>2
      <3> QED BY <3>1 DEF EnoughComing
    <2> QED BY <1>7, <2>3, <2>4
  <1> QED BY <1>9, <1>10

\* A user that is done.
LEMMA FinishWaits ==
    ASSUME IInv, NEW t \in Threads, Finish(t)
    PROVE  Placed' /\ Woken' /\ Signalled' /\ EnoughComing'
  <1> USE DEF synchVars, ioVars, inputVars
  <1>1. Inv /\ TypeOK /\ Placed /\ Woken /\ Signalled /\ EnoughComing
    BY DEF IInv, Inv
  <1>2. /\ running = t /\ pc[t] = "user" /\ pc' = [pc EXCEPT ![t] = "finished"] /\ Sleep
        /\ UNCHANGED <<sem, call, waitQueue, box>>
    BY DEF Finish, Runs, Goes
  <1>3. Placed' /\ Woken'
    BY <1>1, <1>2, FinishMoves
  <1>4. NotesSame(Threads)
    BY <1>2 DEF NotesSame, Note, Value
  <1>5. pc'[t] = "finished" /\ \A u \in Threads \ {t} : pc'[u] = pc[u]
    BY <1>1, <1>2 DEF TypeOK
  <1>6. Signalled' /\ EnoughComing'
    BY <1>1, <1>2, <1>4, <1>5, ReceiversStay
  <1> QED BY <1>3, <1>6

\* An interrupt's V moves no thread in its call.
LEMMA InterruptWaits ==
    ASSUME IInv, NEW d \in Devices, V(<<"done", d>>),
           UNCHANGED <<running, pc, call, waitQueue, box>>
    PROVE  Placed' /\ Woken' /\ Signalled' /\ EnoughComing'
  <1>1. Inv /\ TypeOK /\ Placed /\ Woken /\ Signalled /\ EnoughComing
    BY DEF IInv, Inv
  <1>2. <<"done", d>> \in Semaphores
    BY SemaphoreNames
  <1>3. \A u \in Threads : Target(u)' = Target(u) /\ pc'[u] = pc[u]
    BY DEF Target
  <1>4. Placed' /\ Woken'
    BY <1>1, <1>2, <1>3, VMoves
  <1>5. NotesSame(Threads)
    BY <1>1, VDone
  <1> QED BY <1>1, <1>4, <1>5, ReceiversStay

\* The timer, the end of idling, a poll that finds nothing, and the halt change
\* at most who of the same threads runs.
LEMMA TurnWaits ==
    ASSUME IInv, UNCHANGED <<sem, pc, call, waitQueue, box>>,
           \/ UNCHANGED <<running, ready>>
           \/ running = Nobody /\ ready # << >> /\ running' = Head(ready) /\ ready' = Tail(ready)
           \/ /\ running # Nobody /\ ready # << >>
              /\ running' = Head(ready) /\ ready' = Append(Tail(ready), running)
    PROVE  Placed' /\ Woken' /\ Signalled' /\ EnoughComing'
  <1>1. Inv /\ TypeOK /\ Placed /\ Woken /\ Signalled /\ EnoughComing
    BY DEF IInv, Inv
  <1>2. /\ ready \in Seq(Threads) /\ running \in Threads \cup {Nobody} /\ Nobody \notin Threads
        /\ Distinct(ready) /\ running \notin Range(ready)
    BY <1>1, SynchAssumption DEF TypeOK, Placed
  <1>3. ready # << >> => /\ Head(ready) \in Range(ready) /\ Tail(ready) \in Seq(Threads)
                         /\ Range(ready) = Range(Tail(ready)) \cup {Head(ready)}
                         /\ Distinct(Tail(ready)) /\ Head(ready) \notin Range(Tail(ready))
    BY <1>2, TakeFront
  <1>4. /\ \A u \in Threads : Scheduled(u)' <=> Scheduled(u)
        /\ Distinct(ready') /\ running' \notin Range(ready')
    <2>1. CASE UNCHANGED <<running, ready>>
      BY <1>2, <2>1 DEF Scheduled
    <2>2. CASE running = Nobody /\ ready # << >> /\ running' = Head(ready) /\ ready' = Tail(ready)
      BY <1>2, <1>3, <2>2 DEF Scheduled
    <2>3. CASE /\ running # Nobody /\ ready # << >>
               /\ running' = Head(ready) /\ ready' = Append(Tail(ready), running)
      <3>1. /\ Range(ready') = Range(Tail(ready)) \cup {running}
            /\ Distinct(ready')
        <4>1. /\ running \in Threads /\ running \notin Range(Tail(ready))
              /\ Tail(ready) \in Seq(Threads) /\ Distinct(Tail(ready))
          BY <1>2, <1>3, <2>3
        <4>2. /\ Range(Append(Tail(ready), running)) = Range(Tail(ready)) \cup {running}
              /\ Distinct(Append(Tail(ready), running))
          BY <4>1, AppendQueue
        <4>3. ready' = Append(Tail(ready), running)
          BY <2>3
        <4> QED BY <4>2, <4>3
      <3>2. running' \notin Range(ready')
        BY <1>2, <1>3, <2>3, <3>1
      <3>3. \A u : u \in Range(ready) <=> u \in Range(Tail(ready)) \/ u = running'
        BY <1>3, <2>3
      <3>4. \A u \in Threads : Scheduled(u)' <=> Scheduled(u)
        BY <3>1, <3>3 DEF Scheduled
      <3> QED BY <3>1, <3>2, <3>4
    <2> QED BY <2>1, <2>2, <2>3
  <1>5. Placed' /\ Woken'
    BY <1>1, <1>4, TurnMoves
  <1>6. NotesSame(Threads)
    BY DEF NotesSame, Note, Value
  <1> QED BY <1>1, <1>5, <1>6, ReceiversStay

\* The kernel starts with its threads ready, in the order they were forked.
LEMMA InitWaits ==
    ASSUME Init
    PROVE  Placed /\ Woken /\ Signalled /\ EnoughComing
  <1>1. /\ Users \in Seq(Threads) /\ Users # << >> /\ Distinct(Users)
        /\ Threads = Range(Users) \cup {Worker} /\ Worker \notin Range(Users)
    BY SyncIOAssumption DEF Distinct
  <1> DEFINE h == Head(Users)
             w == Tail(Users)
  <1>2. /\ h \in Threads /\ w \in Seq(Threads) /\ Range(Users) = Range(w) \cup {h}
        /\ Distinct(w) /\ h \notin Range(w)
    BY <1>1, TakeFront
  <1> HIDE DEF h, w
  <1>3. /\ running = h
        /\ ready = IF version = "MP1" THEN <<Worker>> \o w ELSE w
    BY DEF Init, h, w
  <1>4. /\ \A t \in Threads \ {Worker} : pc[t] = "user"
        /\ pc[Worker] = IF version = "MP1" THEN "worker" ELSE "finished"
    <2>1. pc = [t \in Threads |-> IF t # Worker THEN "user"
                                  ELSE IF version = "MP1" THEN "worker" ELSE "finished"]
      BY DEF Init
    <2>2. Worker \in Threads
      BY SemaphoreNames
    <2> QED BY <2>1, <2>2
  <1>5. \A s \in Semaphores : Queue(s) = << >> /\ Value(s) = InitialValue(s)
    BY DEF Init, NewSemaphore, Queue, Value
  <1>6. Range(<< >>) = {} /\ Distinct(<< >>)
    BY DEF Range, Distinct
  <1>7. /\ Distinct(ready) /\ running \notin Range(ready)
        /\ \A t \in Threads : Scheduled(t) <=> t # Worker \/ version = "MP1"
    <2>1. Worker \notin Range(w) /\ Worker # h /\ Worker \in Threads
      BY <1>1, <1>2
    <2>2. CASE version = "MP1"
      <3>1. /\ ready = <<Worker>> \o w
            /\ Range(<<Worker>> \o w) = Range(w) \cup {Worker} /\ Distinct(<<Worker>> \o w)
        BY <1>2, <1>3, <2>1, <2>2, JoinFront
      <3> QED BY <1>1, <1>2, <1>3, <2>1, <2>2, <3>1 DEF Scheduled
    <2>3. CASE version # "MP1"
      BY <1>1, <1>2, <1>3, <2>1, <2>3 DEF Scheduled
    <2> QED BY <2>2, <2>3
  <1>8. Placed
    BY <1>4, <1>5, <1>6, <1>7 DEF Placed
  <1>9. Woken
    BY <1>5 DEF Woken
  <1>10. \A l \in Locks : waitQueue[l] = << >>
    BY DEF Init
  <1>11. Signalled
    <2>1. \A t \in Threads : Note(t) = 0 /\ pc[t] # "wait"
      BY <1>4, <1>5, SemaphoreNames DEF Note, InitialValue
    <2> QED BY <1>6, <1>10, <2>1 DEF Signalled
  <1>12. EnoughComing
    BY <1>10, SemaphoreNames DEF EnoughComing
  <1> QED BY <1>8, <1>9, <1>11, <1>12

\* Every step keeps the whole invariant.
LEMMA StepKeepsIInv ==
    ASSUME IInv, [Next]_vars
    PROVE  IInv'
  <1> USE DEF synchVars, ioVars, inputVars
  <1>1. Inv'
    BY StepKeepsInv DEF IInv
  <1>2. ASSUME NEW t \in Threads,
               \/ Call(t) \/ Acquire(t) \/ Finish(t) \/ Request(t) \/ AwaitKey(t) \/ Answered(t)
               \/ ReleaseLock(t) \/ AwaitMail(t) \/ Sort(t) \/ Put(t) \/ Get(t) \/ AwaitSignal(t)
        PROVE  Placed' /\ Woken' /\ Signalled' /\ EnoughComing'
    BY <1>2, CallWaits, AcquireWaits, FinishWaits, RequestWaits, AwaitKeyWaits, AnsweredWaits,
       ReleaseLockWaits, AwaitMailWaits, SortWaits, PutWaits, GetWaits, AwaitSignalWaits
  <1>3. ASSUME NEW d \in Outputs, OutputInterrupt(d)
        PROVE  Placed' /\ Woken' /\ Signalled' /\ EnoughComing'
    <2>1. d \in Devices /\ V(<<"done", d>>) /\ UNCHANGED <<running, pc, call, waitQueue, box>>
      BY <1>3 DEF OutputInterrupt, Interrupted, Devices
    <2> QED BY <2>1, InterruptWaits
  <1>4. ASSUME NetworkInterrupt
        PROVE  Placed' /\ Woken' /\ Signalled' /\ EnoughComing'
    <2>1. "mail" \in Devices /\ V(<<"done", "mail">>) /\ UNCHANGED <<running, pc, call, waitQueue, box>>
      BY <1>4 DEF NetworkInterrupt, Interrupted, Devices
    <2> QED BY <2>1, InterruptWaits
  <1>5. ASSUME KeyboardInterrupt
        PROVE  Placed' /\ Woken' /\ Signalled' /\ EnoughComing'
    <2>1. UNCHANGED <<running, pc, call, waitQueue, box>> /\ "keyboard" \in Devices
      BY <1>5 DEF KeyboardInterrupt, Interrupted, Devices
    <2>2. V(<<"done", "keyboard">>) \/ UNCHANGED <<sem, ready>>
      BY <1>5 DEF KeyboardInterrupt
    <2> QED BY <2>1, <2>2, InterruptWaits, TurnWaits
  <1>6. ASSUME \/ IdleReturns /\ UNCHANGED ioVars
               \/ TimerInterrupt /\ UNCHANGED ioVars
               \/ Halt
               \/ UNCHANGED vars
        PROVE  Placed' /\ Woken' /\ Signalled' /\ EnoughComing'
    <2>1. UNCHANGED <<sem, pc, call, waitQueue, box>>
      BY <1>6 DEF IdleReturns, TimerInterrupt, Halt, vars
    <2>2. \/ UNCHANGED <<running, ready>>
          \/ running = Nobody /\ ready # << >> /\ running' = Head(ready) /\ ready' = Tail(ready)
          \/ /\ running # Nobody /\ ready # << >>
             /\ running' = Head(ready) /\ ready' = Append(Tail(ready), running)
      BY <1>6 DEF IdleReturns, TimerInterrupt, Halt, vars
    <2> QED BY <2>1, <2>2, TurnWaits
  <1>7. Placed' /\ Woken' /\ Signalled' /\ EnoughComing'
    BY <1>2, <1>3, <1>4, <1>5, <1>6 DEF Next, ThreadStep
  <1> QED BY <1>1, <1>7 DEF IInv

\* Where the threads wait, whom they were set going by, and that each item in a
\* box has a receiver on its way, hold in every state.
THEOREM WaitingInvariance == Spec => []IInv
  <1>1. Init => IInv
    BY InitEstablishesInv, InitWaits DEF IInv
  <1>2. IInv /\ [Next]_vars => IInv'
    BY StepKeepsIInv
  <1> QED BY <1>1, <1>2, PTL DEF Spec

\* When nobody is scheduled, all that are not finished are queued where they
\* wait, and what they wait for is not there.
LEMMA IdleQueued ==
    ASSUME IInv, running = Nobody, ready = << >>, NEW t \in Threads, pc[t] # "finished"
    PROVE  Target(t) \in Semaphores /\ Value(Target(t)) = 0
  <1>1. \A u \in Threads : ~Scheduled(u)
    BY SynchAssumption DEF Scheduled, Range
  <1>2. PICK s \in Semaphores : Target(t) = s /\ t \in Range(Queue(s))
    BY <1>1 DEF IInv, Placed
  <1>3. Queue(s) # << >>
    BY <1>2 DEF Range
  <1>4. ~(Value(s) > 0)
    BY <1>1, <1>3 DEF IInv, Woken
  <1>5. Value(s) \in {0, 1}
    BY AtMostOne DEF IInv
  <1> QED BY <1>2, <1>4, <1>5

\* When the machine idles and no device is at work, nobody waits for what has
\* come (Semaphore::P and V, Condition::Wait and Signal, Interrupt::Idle).
THEOREM NobodyForgottenHolds == Spec => []NobodyForgotten
  <1>1. ASSUME IInv, running = Nobody, ready = << >>, active = {}, NEW t \in Threads
        PROVE  Waits(t)
    <2>1. Inv /\ TypeOK /\ Roles /\ Exclusive /\ Answering /\ Typing /\ Delivering
              /\ Signalled /\ EnoughComing
      BY <1>1 DEF IInv, Inv
    <2>2. \A u \in Threads : pc[u] = "finished" \/ (Target(u) \in Semaphores /\ Value(Target(u)) = 0)
      BY <1>1, IdleQueued
    <2>3. \A u \in Threads : pc[u] \in {"finished", "acquire", "worker", "wait"}
      BY <2>2, NoTarget
    <2>4. \A u \in Threads : ~(pc[u] = "wait" /\ call[u] \in Outputs)
      <3>1. SUFFICES ASSUME NEW u \in Threads, pc[u] = "wait", call[u] \in Outputs PROVE FALSE
        OBVIOUS
      <3>2. Done(call[u]) = 1
        BY <1>1, <2>1, <3>1 DEF Answering
      <3>3. Target(u) = <<"done", call[u]>>
        BY <3>1, SemaphoreNames DEF Target
      <3> QED BY <2>2, <3>1, <3>2, <3>3 DEF Done
    <2>5. \A l \in Locks : LockUp(l) = 0 => l = "keyboard"
      <3>1. SUFFICES ASSUME NEW l \in Locks, LockUp(l) = 0, l # "keyboard" PROVE FALSE
        OBVIOUS
      <3>2. PICK u \in Threads : In(u, l)
        BY <2>1, <3>1 DEF Exclusive
      <3>3. pc[u] = "wait" /\ call[u] = l /\ l \notin Boxes
        BY <2>3, <3>2 DEF In
      <3> QED BY <2>4, <3>1, <3>3, SemaphoreNames
    <2>6. \A u \in Threads : pc[u] = "acquire" => LockUp(call[u]) = 0 /\ call[u] = "keyboard"
      <3>1. SUFFICES ASSUME NEW u \in Threads, pc[u] = "acquire"
                     PROVE  LockUp(call[u]) = 0 /\ call[u] = "keyboard"
        OBVIOUS
      <3>2. Target(u) = <<"lock", call[u]>>
        BY <3>1 DEF Target
      <3>3. LockUp(call[u]) = 0
        BY <2>2, <3>1, <3>2 DEF LockUp
      <3>4. call[u] \in Locks
        BY <2>1, <3>1, SemaphoreNames DEF Roles, Mail
      <3> QED BY <2>5, <3>3, <3>4
    <2>7. \A u \in Threads : pc[u] = "wait" => call[u] \in Locks /\ u # Worker
      BY <2>1 DEF Roles
    <2>8. Done("keyboard") = 0 => incoming = 0
      BY <2>1, <2>3 DEF Typing
    <2>9. \A u \in Threads : pc[u] = "wait" /\ call[u] = "keyboard" => Done("keyboard") = 0
      <3>1. SUFFICES ASSUME NEW u \in Threads, pc[u] = "wait", call[u] = "keyboard"
                     PROVE  Done("keyboard") = 0
        OBVIOUS
      <3>2. Target(u) = <<"done", "keyboard">>
        BY <3>1, SemaphoreNames DEF Target
      <3> QED BY <2>2, <3>1, <3>2 DEF Done
    <2>10. CASE pc[t] = "finished"
      BY <2>10 DEF Waits
    <2>11. CASE pc[t] = "worker"
      <3>1. Target(t) = <<"done", "mail">> /\ t = Worker
        BY <2>1, <2>11 DEF Target, Roles
      <3>2. Done("mail") = 0
        BY <2>2, <2>11, <3>1 DEF Done
      <3> QED BY <2>1, <2>11, <3>1, <3>2 DEF Delivering, Waits
    <2>12. CASE pc[t] = "acquire"
      <3>1. LockUp("keyboard") = 0 /\ call[t] = "keyboard"
        BY <2>6, <2>12
      <3>2. PICK u \in Threads : In(u, "keyboard")
        BY <2>1, <3>1, SemaphoreNames DEF Exclusive
      <3>3. pc[u] = "wait" /\ call[u] = "keyboard"
        BY <2>3, <3>2 DEF In
      <3> QED BY <2>8, <2>9, <2>12, <3>1, <3>3 DEF Waits
    <2>13. CASE pc[t] = "wait" /\ call[t] \notin Boxes
      <3>1. call[t] = "keyboard"
        BY <2>4, <2>7, <2>13, SemaphoreNames
      <3> QED BY <2>8, <2>9, <2>13, <3>1 DEF Waits
    <2>14. CASE pc[t] = "wait" /\ call[t] \in Boxes
      <3>1. \A u \in Threads : pc[u] = "wait" /\ call[u] \in Boxes => Note(u) = 0
        <4>1. SUFFICES ASSUME NEW u \in Threads, pc[u] = "wait", call[u] \in Boxes
                       PROVE  Note(u) = 0
          OBVIOUS
        <4>2. Target(u) = <<"waiter", u>>
          BY <4>1 DEF Target
        <4> QED BY <2>2, <4>1, <4>2 DEF Note
      <3> DEFINE b == call[t]
      <3>2. waitQueue[b] # << >>
        <4>1. t \in Range(waitQueue[b])
          BY <2>1, <2>14, <3>1 DEF Signalled
        <4> QED BY <4>1 DEF Range
      <3>3. b \in Boxes /\ b # "keyboard"
        BY <2>14, SemaphoreNames
      <3> HIDE DEF b
      <3>4. Coming(b) = {}
        <4>1. SUFFICES ASSUME NEW u \in Coming(b) PROVE FALSE
          OBVIOUS
        <4>2. /\ u \in Threads /\ call[u] = b
              /\ pc[u] \in {"acquire", "inside"} \/ (pc[u] = "wait" /\ Note(u) = 1)
          BY DEF Coming
        <4> QED BY <2>3, <2>6, <3>1, <3>3, <4>2
      <3>5. Len(box[b]) <= 0
        BY <2>1, <3>2, <3>3, <3>4, FS_EmptySet DEF EnoughComing
      <3>6. box[b] = << >>
        <4>1. box[b] \in Seq(1 .. MaxMail)
          BY <2>1, <3>3 DEF TypeOK
        <4> QED BY <3>5, <4>1, LenProperties, EmptySeq
      <3> QED BY <2>14, <3>6 DEF Waits, b
    <2> QED BY <2>3, <2>10, <2>11, <2>12, <2>13, <2>14
  <1>2. IInv => NobodyForgotten
    BY <1>1 DEF NobodyForgotten
  <1> QED BY <1>2, WaitingInvariance, PTL
=============================================================================
