--------------------------- MODULE PipelineProofs ---------------------------
(***************************************************************************)
(* Pipeline, for every number of lines and producers, all queue sizes and  *)
(* thresholds and any number of consumers: no line is lost or duplicated,  *)
(* the output is complete when main has joined them,  and the controller   *)
(* always leaves a consumer that serves.                                   *)
(***************************************************************************)
EXTENDS Pipeline, DataLemmas

\* A consumer thread has an item in hand just before it enqueues it.
Carrying == \A c \in ConsumerThreads :
    IF cpc[c] = "enqueue" THEN consumed[c] \in Item ELSE consumed[c] = Nothing

\* The Consumer at address o has a thread that runs it and is not cancelled.
Serves(o) ==
    /\ thread[o] \in ConsumerThreads
    /\ object[thread[o]] = o
    /\ cpc[thread[o]] \in {"test", "dequeue", "enqueue"}
    /\ removed[thread[o]] = -1
    /\ ~is_cancel[o]

\* The controller's vector names Consumers that serve, each once, and is not
\* empty once the first thread was started; a thread not yet started was not
\* removed, and only started threads have a Consumer.
Team ==
    /\ Distinct(consumers)
    /\ \A o \in Range(consumers) : Serves(o)
    /\ (\E c \in ConsumerThreads : cpc[c] # "unborn") => consumers # << >>
    /\ \A c \in ConsumerThreads :
          IF cpc[c] = "unborn" THEN removed[c] = -1 ELSE object[c] \in Objects

\* The writer counts what it has written, and main waits for its end.
Counted ==
    /\ ofs => Len(written) + expected = Lines
    /\ wpc = "done" /\ ofs => expected = 0
    /\ Joined => wpc = "done"

\* The inductive invariant.
IInv ==
    /\ TypeOK
    /\ Carrying
    /\ Team
    /\ Counted
    /\ LineConserved

---------------------------------------------------------------------------
(* Counting the places where a line is.                                    *)

\* 1 if line e is line k.
Is(e, k) == IF e = k THEN 1 ELSE 0

\* A queue holds a line finitely often.
LEMMA HoldsFinite ==
    ASSUME NEW S, NEW q \in Seq(S), NEW k
    PROVE  IsFiniteSet(Holds(q, k)) /\ Cardinality(Holds(q, k)) \in Nat
  <1>1. Len(q) \in Nat /\ DOMAIN q = 1 .. Len(q)
    BY LenProperties
  <1>2. Holds(q, k) \subseteq 1 .. Len(q)
    BY <1>1 DEF Holds
  <1>3. IsFiniteSet(1 .. Len(q))
    BY <1>1, FS_Interval
  <1> QED BY <1>2, <1>3, FS_Subset, FS_CardinalityType

\* Enqueueing a line adds it once.
LEMMA HoldsAppend ==
    ASSUME NEW S, NEW q \in Seq(S), NEW e \in S, NEW k
    PROVE  Cardinality(Holds(Append(q, e), k)) = Cardinality(Holds(q, k)) + Is(e, k)
  <1> DEFINE n == Len(q) + 1
             A == Holds(q, k)
             B == Holds(Append(q, e), k)
  <1>1. /\ Len(q) \in Nat /\ DOMAIN q = 1 .. Len(q) /\ DOMAIN Append(q, e) = 1 .. n
        /\ Append(q, e)[n] = e /\ \A i \in 1 .. Len(q) : Append(q, e)[i] = q[i]
    BY LenProperties
  <1>2. \A i : i # n => (i \in A <=> i \in B)
    BY <1>1 DEF Holds
  <1>3. n \notin A /\ (n \in B <=> e = k)
    BY <1>1 DEF Holds
  <1>4. IsFiniteSet(A) /\ Cardinality(A) \in Nat
    BY HoldsFinite
  <1> HIDE DEF A, B, n
  <1>5. Cardinality(B) = Cardinality(A) + Is(e, k)
    BY <1>2, <1>3, <1>4, OneMoves DEF Is
  <1> QED BY <1>5 DEF A, B

\* Dequeueing takes the front line once.
LEMMA HoldsTail ==
    ASSUME NEW S, NEW q \in Seq(S), q # << >>, NEW k
    PROVE  Cardinality(Holds(q, k)) = Cardinality(Holds(Tail(q), k)) + Is(Head(q), k)
  <1> DEFINE A == Holds(q, k)
             B == A \ {1}
             C == Holds(Tail(q), k)
             f == [i \in B |-> i - 1]
  <1>1. /\ Len(q) \in Nat /\ Len(q) > 0 /\ DOMAIN q = 1 .. Len(q)
        /\ Tail(q) \in Seq(S) /\ DOMAIN Tail(q) = 1 .. Len(q) - 1
        /\ \A i \in 1 .. Len(q) - 1 : Tail(q)[i] = q[i + 1]
        /\ Head(q) = q[1]
    BY EmptySeq, LenProperties, HeadTailProperties
  <1>2. 1 \in A <=> Head(q) = k
    BY <1>1 DEF Holds
  <1>3. \A i : i \in B <=> i \in 2 .. Len(q) /\ q[i] = k
    BY <1>1 DEF Holds
  <1>4. \A i : i \in C <=> i \in 1 .. Len(q) - 1 /\ q[i + 1] = k
    BY <1>1 DEF Holds
  <1>5. f \in Bijection(B, C)
    <2>1. f \in [B -> C]
      BY <1>1, <1>3, <1>4
    <2>2. \A i, j \in B : f[i] = f[j] => i = j
      BY <1>1, <1>3
    <2>3. \A j \in C : \E i \in B : f[i] = j
      <3> SUFFICES ASSUME NEW j \in C PROVE \E i \in B : f[i] = j
        OBVIOUS
      <3>1. j + 1 \in B /\ (j + 1) - 1 = j
        BY <1>1, <1>3, <1>4
      <3> QED BY <3>1
    <2> HIDE DEF f
    <2> QED BY <2>1, <2>2, <2>3 DEF Bijection, Injection, Surjection, IsInjective
  <1>6. IsFiniteSet(A) /\ Cardinality(A) \in Nat
    BY HoldsFinite
  <1> HIDE DEF f, C, A
  <1>7. /\ IsFiniteSet(B)
        /\ Cardinality(A) = Cardinality(B) + Is(Head(q), k)
    <2>1. /\ \A i : i # 1 => (i \in A <=> i \in B)
          /\ 1 \notin B
      OBVIOUS
    <2>2. Cardinality(B) \in Nat
      BY <1>6, FS_RemoveElement, FS_CardinalityType
    <2> HIDE DEF B
    <2> QED BY <1>2, <1>6, <2>1, <2>2, OneMoves DEF Is
  <1> HIDE DEF B
  <1>8. Cardinality(C) = Cardinality(B)
    BY <1>5, <1>7, FS_Bijection DEF ExistsBijection
  <1> QED BY <1>7, <1>8 DEF A, C

\* A hand that takes or gives up a line.
LEMMA HandChanges ==
    ASSUME NEW h, NEW g, NEW k, NEW x \in DOMAIN h, IsFiniteSet(DOMAIN h),
           DOMAIN g = DOMAIN h, \A y \in DOMAIN h \ {x} : g[y] = h[y]
    PROVE  /\ Cardinality(InHand(h, k)) \in Nat
           /\ Cardinality(InHand(g, k)) \in Nat
           /\ Cardinality(InHand(g, k)) + Is(h[x], k)
                 = Cardinality(InHand(h, k)) + Is(g[x], k)
  <1> DEFINE A == InHand(h, k)
             B == InHand(g, k)
  <1>1. A \subseteq DOMAIN h
    BY DEF InHand
  <1>2. IsFiniteSet(A) /\ Cardinality(A) \in Nat
    BY <1>1, FS_Subset, FS_CardinalityType
  <1>3. /\ \A y : y # x => (y \in A <=> y \in B)
        /\ x \in A <=> h[x] = k
        /\ x \in B <=> g[x] = k
    BY DEF InHand
  <1> HIDE DEF A, B
  <1>4. IsFiniteSet(B) /\ Cardinality(B) \in Nat
    BY <1>2, <1>3, OneMoves, FS_CardinalityType
  <1>5. Cardinality(B) + Is(h[x], k) = Cardinality(A) + Is(g[x], k)
    BY <1>2, <1>3, <1>4, OneMoves DEF Is
  <1> QED BY <1>2, <1>4, <1>5 DEF A, B

---------------------------------------------------------------------------
(* No step loses or duplicates a line.                                     *)

\* The terms of Copies(k).
Unread(k) == IF k > Lines - unread THEN 1 ELSE 0
Queued(q, k) == Cardinality(Holds(q, k))
Carried(h, k) == Cardinality(InHand(h, k))

LEMMA CopiesAre ==
    ASSUME NEW k
    PROVE  Copies(k) = Unread(k) + Queued(input_queue, k) + Queued(worker_queue, k)
                       + Queued(output_queue, k) + Queued(written, k)
                       + Carried(produced, k) + Carried(consumed, k)
  BY DEF Copies, Unread, Is, Queued, Carried

\* After a step.
LEMMA CopiesAreAfter ==
    ASSUME NEW k
    PROVE  Copies(k)' = Unread(k)' + Queued(input_queue', k) + Queued(worker_queue', k)
                       + Queued(output_queue', k) + Queued(written', k)
                       + Carried(produced', k) + Carried(consumed', k)
  BY DEF Copies, Unread, Is, Queued, Carried

\* They are numbers.
LEMMA CountsAreNat ==
    ASSUME TypeOK, NEW k \in Item
    PROVE  /\ Unread(k) \in Nat
           /\ Queued(input_queue, k) \in Nat /\ Queued(worker_queue, k) \in Nat
           /\ Queued(output_queue, k) \in Nat /\ Queued(written, k) \in Nat
           /\ Carried(produced, k) \in Nat /\ Carried(consumed, k) \in Nat
           /\ \A e : Is(e, k) \in {0, 1}
  <1>1. /\ input_queue \in Seq(Item) /\ worker_queue \in Seq(Item)
        /\ output_queue \in Seq(Item) /\ written \in Seq(Item)
        /\ produced \in [Producers -> Item \cup {Nothing}]
        /\ consumed \in [ConsumerThreads -> Item \cup {Nothing}]
    BY DEF TypeOK
  <1>2. /\ Queued(input_queue, k) \in Nat /\ Queued(worker_queue, k) \in Nat
        /\ Queued(output_queue, k) \in Nat /\ Queued(written, k) \in Nat
    BY <1>1, HoldsFinite DEF Queued
  <1>3. InHand(produced, k) \subseteq Producers /\ InHand(consumed, k) \subseteq ConsumerThreads
    BY <1>1 DEF InHand
  <1>4. IsFiniteSet(Producers) /\ IsFiniteSet(ConsumerThreads)
    BY PipelineAssumption, FS_Interval DEF ConsumerThreads
  <1>5. Carried(produced, k) \in Nat /\ Carried(consumed, k) \in Nat
    BY <1>3, <1>4, FS_Subset, FS_CardinalityType DEF Carried
  <1> QED BY <1>2, <1>5 DEF Unread, Is

\* The steps that move no line.
LEMMA NoneMoves ==
    ASSUME LineConserved, UNCHANGED <<unread, queues, produced, consumed, written, ofs>>
    PROVE  LineConserved'
  BY DEF LineConserved, Copies, queues

\* Reader::process: the next line leaves the input.
LEMMA ReaderConserves ==
    ASSUME TypeOK, LineConserved, ReaderStep
    PROVE  LineConserved'
  <1> SUFFICES ASSUME NEW k \in Item
               PROVE  Copies(k)' = Copies(k) /\ ofs' = ofs
    BY DEF LineConserved
  <1>1. /\ unread \in 0 .. Lines /\ unread > 0 /\ unread' = unread - 1 /\ Lines \in Nat
        /\ input_queue \in Seq(Item) /\ k \in Int
        /\ UNCHANGED <<worker_queue, output_queue, produced, consumed, written, ofs>>
    BY PipelineAssumption DEF ReaderStep, TypeOK, workers, writer, Item
  <1>2. input_queue' = Append(input_queue, Lines - unread + 1) /\ Lines - unread + 1 \in Item
    BY <1>1 DEF ReaderStep, Item
  <1>3. Queued(input_queue', k) = Queued(input_queue, k) + Is(Lines - unread + 1, k)
    BY <1>1, <1>2, HoldsAppend DEF Queued
  <1>4. Unread(k) = Unread(k)' + Is(Lines - unread + 1, k)
    BY <1>1 DEF Unread, Is
  <1>5. Unread(k)' \in Nat
    BY DEF Unread, Is
  <1>6. /\ Queued(worker_queue', k) = Queued(worker_queue, k)
        /\ Queued(output_queue', k) = Queued(output_queue, k)
        /\ Queued(written', k) = Queued(written, k)
        /\ Carried(produced', k) = Carried(produced, k)
        /\ Carried(consumed', k) = Carried(consumed, k)
    BY <1>1
  <1>7. Copies(k)' = Copies(k)
    BY <1>3, <1>4, <1>5, <1>6, CountsAreNat, CopiesAre, CopiesAreAfter
  <1> QED BY <1>1, <1>7

\* One hand changes and the others stay.
LEMMA OneHand ==
    ASSUME NEW T, IsFiniteSet(T), NEW h, DOMAIN h = T, NEW x \in T, NEW k,
           NEW g, DOMAIN g = T, \A y \in T \ {x} : g[y] = h[y]
    PROVE  /\ Carried(h, k) \in Nat /\ Carried(g, k) \in Nat
           /\ Carried(g, k) + Is(h[x], k) = Carried(h, k) + Is(g[x], k)
  BY HandChanges DEF Carried

\* A producer or consumer takes a line into its empty hand.
LEMMA DequeueCarries ==
    ASSUME NEW T, IsFiniteSet(T), NEW h \in [T -> Item \cup {Nothing}], NEW x \in T,
           h[x] = Nothing, NEW q \in Seq(Item), q # << >>, NEW k \in Item,
           NEW g, DOMAIN g = T, g[x] = Head(q), \A y \in T \ {x} : g[y] = h[y]
    PROVE  Queued(Tail(q), k) + Carried(g, k)
              = Queued(q, k) + Carried(h, k)
  <1>1. h[x] # k
    BY PipelineAssumption DEF Item
  <1>2. Queued(q, k) = Queued(Tail(q), k) + Is(Head(q), k)
    BY HoldsTail DEF Queued
  <1>3. /\ Carried(h, k) \in Nat /\ Carried(g, k) \in Nat
        /\ Carried(g, k) + Is(h[x], k) = Carried(h, k) + Is(g[x], k)
    BY OneHand
  <1>4. Tail(q) \in Seq(Item)
    BY HeadTailProperties
  <1>5. Queued(Tail(q), k) \in Nat
    BY <1>4, HoldsFinite DEF Queued
  <1>6. Is(h[x], k) = 0 /\ Is(g[x], k) = Is(Head(q), k) /\ Is(Head(q), k) \in {0, 1}
    BY <1>1 DEF Is
  <1> QED BY <1>2, <1>3, <1>5, <1>6

\* It gives its line away.
LEMMA EnqueueCarries ==
    ASSUME NEW T, IsFiniteSet(T), NEW h \in [T -> Item \cup {Nothing}], NEW x \in T,
           h[x] \in Item, NEW q \in Seq(Item), NEW k \in Item,
           NEW g, DOMAIN g = T, g[x] = Nothing, \A y \in T \ {x} : g[y] = h[y]
    PROVE  Queued(Append(q, h[x]), k) + Carried(g, k)
              = Queued(q, k) + Carried(h, k)
  <1>1. Nothing # k
    BY PipelineAssumption DEF Item
  <1>2. Queued(Append(q, h[x]), k) = Queued(q, k) + Is(h[x], k)
    BY HoldsAppend DEF Queued
  <1>3. /\ Carried(h, k) \in Nat /\ Carried(g, k) \in Nat
        /\ Carried(g, k) + Is(h[x], k) = Carried(h, k) + Is(g[x], k)
    BY OneHand
  <1>4. Queued(q, k) \in Nat
    BY HoldsFinite DEF Queued
  <1>5. Is(g[x], k) = 0 /\ Is(h[x], k) \in {0, 1}
    BY <1>1 DEF Is
  <1> QED BY <1>2, <1>3, <1>4, <1>5

\* ItemProducer: a producer takes a line from the reader's queue.
LEMMA ProducerDequeueConserves ==
    ASSUME TypeOK, LineConserved, NEW p \in Producers, ProducerDequeue(p)
    PROVE  LineConserved'
  <1> SUFFICES ASSUME NEW k \in Item
               PROVE  Copies(k)' = Copies(k) /\ ofs' = ofs
    BY DEF LineConserved
  <1>1. /\ produced \in [Producers -> Item \cup {Nothing}] /\ produced[p] = Nothing
        /\ input_queue \in Seq(Item) /\ input_queue # << >>
        /\ input_queue' = Tail(input_queue) /\ IsFiniteSet(Producers)
        /\ UNCHANGED <<unread, worker_queue, output_queue, consumed, written, ofs>>
    BY PipelineAssumption DEF ProducerDequeue, TypeOK, workers, writer
  <1>2. /\ DOMAIN produced' = Producers /\ produced'[p] = Head(input_queue)
        /\ \A y \in Producers \ {p} : produced'[y] = produced[y]
    BY <1>1 DEF ProducerDequeue
  <1>3. Queued(input_queue', k) + Carried(produced', k)
           = Queued(input_queue, k) + Carried(produced, k)
    BY <1>1, <1>2, DequeueCarries
  <1>4. Carried(produced', k) \in Nat /\ Queued(input_queue', k) \in Nat
    <2>1. input_queue' \in Seq(Item)
      BY <1>1, HeadTailProperties
    <2>2. DOMAIN produced = Producers
      BY <1>1
    <2> QED BY <1>1, <1>2, <2>1, <2>2, OneHand, HoldsFinite DEF Queued
  <1>5. /\ Queued(worker_queue', k) = Queued(worker_queue, k)
        /\ Queued(output_queue', k) = Queued(output_queue, k)
        /\ Queued(written', k) = Queued(written, k)
        /\ Carried(consumed', k) = Carried(consumed, k)
        /\ Unread(k)' = Unread(k)
    BY <1>1 DEF Unread
  <1>6. Copies(k)' = Copies(k)
    BY <1>3, <1>4, <1>5, CountsAreNat, CopiesAre, CopiesAreAfter
  <1> QED BY <1>1, <1>6

\* It hands its new Item on to the worker queue.
LEMMA ProducerEnqueueConserves ==
    ASSUME TypeOK, LineConserved, NEW p \in Producers, ProducerEnqueue(p)
    PROVE  LineConserved'
  <1> SUFFICES ASSUME NEW k \in Item
               PROVE  Copies(k)' = Copies(k) /\ ofs' = ofs
    BY DEF LineConserved
  <1>1. /\ produced \in [Producers -> Item \cup {Nothing}] /\ produced[p] \in Item
        /\ worker_queue \in Seq(Item)
        /\ worker_queue' = Append(worker_queue, produced[p]) /\ IsFiniteSet(Producers)
        /\ UNCHANGED <<unread, input_queue, output_queue, consumed, written, ofs>>
    BY PipelineAssumption DEF ProducerEnqueue, TypeOK, workers, writer
  <1>2. /\ DOMAIN produced' = Producers /\ produced'[p] = Nothing
        /\ \A y \in Producers \ {p} : produced'[y] = produced[y]
    BY <1>1 DEF ProducerEnqueue
  <1>3. Queued(worker_queue', k) + Carried(produced', k)
           = Queued(worker_queue, k) + Carried(produced, k)
    BY <1>1, <1>2, EnqueueCarries
  <1>4. Carried(produced', k) \in Nat /\ Queued(worker_queue', k) \in Nat
    <2>1. worker_queue' \in Seq(Item)
      BY <1>1, AppendQueue
    <2>2. DOMAIN produced = Producers
      BY <1>1
    <2> QED BY <1>1, <1>2, <2>1, <2>2, OneHand, HoldsFinite DEF Queued
  <1>5. /\ Queued(input_queue', k) = Queued(input_queue, k)
        /\ Queued(output_queue', k) = Queued(output_queue, k)
        /\ Queued(written', k) = Queued(written, k)
        /\ Carried(consumed', k) = Carried(consumed, k)
        /\ Unread(k)' = Unread(k)
    BY <1>1 DEF Unread
  <1>6. Copies(k)' = Copies(k)
    BY <1>3, <1>4, <1>5, CountsAreNat, CopiesAre, CopiesAreAfter
  <1> QED BY <1>1, <1>6

\* Consumer::process: a consumer takes a line from the worker queue.
LEMMA ConsumerDequeueConserves ==
    ASSUME TypeOK, Carrying, LineConserved, NEW c \in ConsumerThreads, ConsumerDequeue(c)
    PROVE  LineConserved'
  <1> SUFFICES ASSUME NEW k \in Item
               PROVE  Copies(k)' = Copies(k) /\ ofs' = ofs
    BY DEF LineConserved
  <1>1. /\ consumed \in [ConsumerThreads -> Item \cup {Nothing}] /\ consumed[c] = Nothing
        /\ worker_queue \in Seq(Item) /\ worker_queue # << >>
        /\ worker_queue' = Tail(worker_queue)
        /\ UNCHANGED <<unread, input_queue, output_queue, produced, written, ofs>>
    BY DEF ConsumerDequeue, TypeOK, Carrying, writer
  <1>2. /\ DOMAIN consumed' = ConsumerThreads /\ consumed'[c] = Head(worker_queue)
        /\ \A y \in ConsumerThreads \ {c} : consumed'[y] = consumed[y]
    BY <1>1 DEF ConsumerDequeue
  <1>3. IsFiniteSet(ConsumerThreads)
    BY PipelineAssumption, FS_Interval DEF ConsumerThreads
  <1>4. Queued(worker_queue', k) + Carried(consumed', k)
           = Queued(worker_queue, k) + Carried(consumed, k)
    BY <1>1, <1>2, <1>3, DequeueCarries
  <1>5. Carried(consumed', k) \in Nat /\ Queued(worker_queue', k) \in Nat
    <2>1. worker_queue' \in Seq(Item)
      BY <1>1, HeadTailProperties
    <2>2. DOMAIN consumed = ConsumerThreads
      BY <1>1
    <2> QED BY <1>2, <1>3, <2>1, <2>2, OneHand, HoldsFinite DEF Queued
  <1>6. /\ Queued(input_queue', k) = Queued(input_queue, k)
        /\ Queued(output_queue', k) = Queued(output_queue, k)
        /\ Queued(written', k) = Queued(written, k)
        /\ Carried(produced', k) = Carried(produced, k)
        /\ Unread(k)' = Unread(k)
    BY <1>1 DEF Unread
  <1>7. Copies(k)' = Copies(k)
    BY <1>4, <1>5, <1>6, CountsAreNat, CopiesAre, CopiesAreAfter
  <1> QED BY <1>1, <1>7

\* It hands it on whatever the controller has done to it meanwhile.
LEMMA ConsumerEnqueueConserves ==
    ASSUME TypeOK, Carrying, LineConserved, NEW c \in ConsumerThreads, ConsumerEnqueue(c)
    PROVE  LineConserved'
  <1> SUFFICES ASSUME NEW k \in Item
               PROVE  Copies(k)' = Copies(k) /\ ofs' = ofs
    BY DEF LineConserved
  <1>1. /\ consumed \in [ConsumerThreads -> Item \cup {Nothing}] /\ consumed[c] \in Item
        /\ output_queue \in Seq(Item)
        /\ output_queue' = Append(output_queue, consumed[c])
        /\ UNCHANGED <<unread, input_queue, worker_queue, produced, written, ofs>>
    BY DEF ConsumerEnqueue, TypeOK, Carrying, writer
  <1>2. /\ DOMAIN consumed' = ConsumerThreads /\ consumed'[c] = Nothing
        /\ \A y \in ConsumerThreads \ {c} : consumed'[y] = consumed[y]
    BY <1>1 DEF ConsumerEnqueue
  <1>3. IsFiniteSet(ConsumerThreads)
    BY PipelineAssumption, FS_Interval DEF ConsumerThreads
  <1>4. Queued(output_queue', k) + Carried(consumed', k)
           = Queued(output_queue, k) + Carried(consumed, k)
    BY <1>1, <1>2, <1>3, EnqueueCarries
  <1>5. Carried(consumed', k) \in Nat /\ Queued(output_queue', k) \in Nat
    <2>1. output_queue' \in Seq(Item)
      BY <1>1, AppendQueue
    <2>2. DOMAIN consumed = ConsumerThreads
      BY <1>1
    <2> QED BY <1>2, <1>3, <2>1, <2>2, OneHand, HoldsFinite DEF Queued
  <1>6. /\ Queued(input_queue', k) = Queued(input_queue, k)
        /\ Queued(worker_queue', k) = Queued(worker_queue, k)
        /\ Queued(written', k) = Queued(written, k)
        /\ Carried(produced', k) = Carried(produced, k)
        /\ Unread(k)' = Unread(k)
    BY <1>1 DEF Unread
  <1>7. Copies(k)' = Copies(k)
    BY <1>4, <1>5, <1>6, CountsAreNat, CopiesAre, CopiesAreAfter
  <1> QED BY <1>1, <1>7

\* Writer::process: a line goes from the queue to the file, or is lost with it.
LEMMA WriterConserves ==
    ASSUME TypeOK, LineConserved, WriterStep
    PROVE  LineConserved'
  <1>1. /\ output_queue \in Seq(Item) /\ output_queue # << >>
        /\ output_queue' = Tail(output_queue) /\ output_queue' \in Seq(Item)
        /\ Head(output_queue) \in Item
        /\ written \in Seq(Item)
        /\ UNCHANGED <<unread, input_queue, worker_queue, produced, consumed>>
        /\ ofs \in BOOLEAN
    BY HeadTailProperties DEF WriterStep, TypeOK, workers
  <1>2. \/ ofs' /\ ofs /\ written' = Append(written, Head(output_queue))
        \/ ~ofs' /\ written' = written
    BY DEF WriterStep
  <1>3. ASSUME NEW k \in Item
        PROVE  /\ Copies(k) \in Nat /\ Copies(k)' \in Nat /\ Copies(k)' <= Copies(k)
               /\ ofs' => ofs /\ Copies(k)' = Copies(k)
    <2>1. Queued(output_queue, k) = Queued(output_queue', k) + Is(Head(output_queue), k)
      BY <1>1, HoldsTail DEF Queued
    <2>2. Queued(output_queue', k) \in Nat
      BY <1>1, HoldsFinite DEF Queued
    <2>3. /\ Queued(input_queue', k) = Queued(input_queue, k)
          /\ Queued(worker_queue', k) = Queued(worker_queue, k)
          /\ Carried(produced', k) = Carried(produced, k)
          /\ Carried(consumed', k) = Carried(consumed, k)
          /\ Unread(k)' = Unread(k)
      BY <1>1 DEF Unread
    <2>4. Is(Head(output_queue), k) \in {0, 1}
      BY DEF Is
    <2>5. CASE ofs' /\ ofs /\ written' = Append(written, Head(output_queue))
      <3>1. Queued(written', k) = Queued(written, k) + Is(Head(output_queue), k)
        BY <1>1, <2>5, HoldsAppend DEF Queued
      <3>2. Copies(k) = Copies(k)' /\ Copies(k) \in Nat
        BY <2>1, <2>2, <2>3, <2>4, <3>1, CountsAreNat, CopiesAre, CopiesAreAfter
      <3> QED BY <2>5, <3>2
    <2>6. CASE ~ofs' /\ written' = written
      <3>1. Queued(written', k) = Queued(written, k)
        BY <2>6
      <3>2. /\ Copies(k) = Copies(k)' + Is(Head(output_queue), k)
            /\ Copies(k) \in Nat /\ Copies(k)' \in Nat
        BY <2>1, <2>2, <2>3, <2>4, <3>1, CountsAreNat, CopiesAre, CopiesAreAfter
      <3> QED BY <2>4, <2>6, <3>2
    <2> QED BY <1>2, <2>5, <2>6
  <1> QED BY <1>3 DEF LineConserved

---------------------------------------------------------------------------
(* The types and the controller's team.                                    *)

\* pop_back takes the last element off.
LEMMA TakeBack ==
    ASSUME NEW S, NEW s \in Seq(S), s # << >>
    PROVE  /\ Last(s) \in S /\ Last(s) \in Range(s)
           /\ Front(s) \in Seq(S)
           /\ Range(Front(s)) \subseteq Range(s)
           /\ Len(s) > 1 => Front(s) # << >>
           /\ Distinct(s) => Distinct(Front(s)) /\ Last(s) \notin Range(Front(s))
  <1> DEFINE n == Len(s)
  <1>1. /\ n \in Nat /\ n > 0 /\ DOMAIN s = 1 .. n /\ \A i \in 1 .. n : s[i] \in S
    BY EmptySeq, LenProperties
  <1>2. Last(s) = s[n] /\ Front(s) = SubSeq(s, 1, n - 1)
    BY DEF Last, Front
  <1>3. /\ SubSeq(s, 1, n - 1) \in Seq(S)
        /\ Len(SubSeq(s, 1, n - 1)) = n - 1
        /\ \A i \in 1 .. n - 1 : SubSeq(s, 1, n - 1)[i] = s[i]
    <2> DEFINE m == n - 1
    <2> HIDE DEF n
    <2>0. m \in Nat /\ \A i \in 1 .. m : i \in 1 .. n
      BY <1>1
    <2>1. /\ 1 \in Int /\ m \in Int /\ \A i \in 1 .. m : s[i] \in S
          /\ m \in Nat
      BY <1>1, <2>0
    <2> HIDE DEF m
    <2>2. IF 1 <= m THEN m - 1 + 1 = m ELSE m = 0
      BY <2>1
    <2>3. m - 1 + 1 = m /\ \A i \in 1 .. m : 1 + i - 1 = i
      BY <2>1
    <2>4. /\ SubSeq(s, 1, m) \in Seq(S) /\ Len(SubSeq(s, 1, m)) = m
          /\ \A i \in 1 .. m : SubSeq(s, 1, m)[i] = s[i]
      BY <2>1, <2>2, <2>3, SubSeqProperties
    <2> QED BY <2>4 DEF m
  <1>4. /\ Front(s) \in Seq(S) /\ DOMAIN Front(s) = 1 .. n - 1
        /\ \A i \in 1 .. n - 1 : Front(s)[i] = s[i]
    BY <1>2, <1>3, LenProperties
  <1>5. n > 1 => Front(s) # << >>
    <2>1. Len(Front(s)) = n - 1
      BY <1>2, <1>3
    <2> HIDE DEF n
    <2>2. n > 1 => n - 1 # 0
      BY <1>1
    <2> QED BY <2>1, <2>2, EmptySeq
  <1>6. Range(Front(s)) \subseteq Range(s) /\ Last(s) \in Range(s) /\ Last(s) \in S
    BY <1>1, <1>2, <1>4 DEF Range
  <1>7. Distinct(s) => Distinct(Front(s)) /\ Last(s) \notin Range(Front(s))
    BY <1>1, <1>2, <1>4 DEF Range, Distinct
  <1> QED BY <1>4, <1>5, <1>6, <1>7

\* There are never more Consumers than addresses for them.
LEMMA TeamFits ==
    ASSUME NEW s \in Seq(Objects), Distinct(s)
    PROVE  Len(s) <= MaxConsumers
  <1>1. Len(s) \in Nat /\ s \in [1 .. Len(s) -> Objects] /\ MaxConsumers \in Nat
    BY LenProperties, PipelineAssumption
  <1>2. s \in Injection(1 .. Len(s), Objects)
    <2>1. IsInjective(s)
      BY DEF Distinct, IsInjective
    <2> QED BY <1>1, <2>1 DEF Injection
  <1>3. \A m \in Nat : IsFiniteSet(1 .. m) /\ Cardinality(1 .. m) = m
    BY FS_Interval
  <1>4. /\ IsFiniteSet(Objects) /\ Cardinality(Objects) = MaxConsumers
        /\ Cardinality(1 .. Len(s)) = Len(s)
    BY <1>1, <1>3 DEF Objects
  <1>5. Cardinality(1 .. Len(s)) <= Cardinality(Objects)
    BY <1>2, <1>4, FS_Injection
  <1> QED BY <1>4, <1>5

\* A queue operation that goes through keeps a queue within its slots.
LEMMA QueueFits ==
    ASSUME NEW q \in Seq(Item), NEW n \in Nat, Len(q) <= n
    PROVE  /\ \A e \in Item : Len(q) < n => Append(q, e) \in Seq(Item) /\ Len(Append(q, e)) <= n
           /\ q # << >> => /\ Tail(q) \in Seq(Item) /\ Len(Tail(q)) <= n
                           /\ Head(q) \in Item
  <1>1. q # << >> => Tail(q) \in Seq(Item) /\ Len(Tail(q)) = Len(q) - 1 /\ Head(q) \in Item
    BY HeadTailProperties
  <1>2. Len(q) \in Nat
    BY LenProperties
  <1> QED BY <1>1, <1>2

\* The steps of reader and producers keep the types.
LEMMA FrontTypes ==
    ASSUME TypeOK, ReaderStep \/ \E p \in Producers : ProducerDequeue(p) \/ ProducerEnqueue(p)
    PROVE  TypeOK'
  <1> USE DEF controller, workers, writer
  <1>1. /\ input_queue \in Seq(Item) /\ Len(input_queue) <= ReaderQueueSize
        /\ worker_queue \in Seq(Item) /\ Len(worker_queue) <= WorkerQueueSize
        /\ produced \in [Producers -> Item \cup {Nothing}]
        /\ {ReaderQueueSize, WorkerQueueSize, Lines} \subseteq Nat /\ unread \in 0 .. Lines
    BY PipelineAssumption DEF TypeOK
  <1>2. CASE ReaderStep
    <2>1. Lines - unread + 1 \in Item /\ unread' \in 0 .. Lines
      BY <1>1, <1>2 DEF ReaderStep, Item
    <2>2. input_queue' \in Seq(Item) /\ Len(input_queue') <= ReaderQueueSize
      BY <1>1, <1>2, <2>1, QueueFits DEF ReaderStep, Room
    <2> QED BY <1>2, <2>1, <2>2 DEF ReaderStep, TypeOK
  <1>3. ASSUME NEW p \in Producers, ProducerDequeue(p) PROVE TypeOK'
    <2>1. /\ input_queue' \in Seq(Item) /\ Len(input_queue') <= ReaderQueueSize
          /\ Head(input_queue) \in Item
      BY <1>1, <1>3, QueueFits DEF ProducerDequeue
    <2>2. produced' \in [Producers -> Item \cup {Nothing}]
      BY <1>1, <1>3, <2>1 DEF ProducerDequeue
    <2> QED BY <1>3, <2>1, <2>2 DEF ProducerDequeue, TypeOK
  <1>4. ASSUME NEW p \in Producers, ProducerEnqueue(p) PROVE TypeOK'
    <2>1. worker_queue' \in Seq(Item) /\ Len(worker_queue') <= WorkerQueueSize
      BY <1>1, <1>4, QueueFits DEF ProducerEnqueue, Room
    <2>2. produced' \in [Producers -> Item \cup {Nothing}]
      BY <1>1, <1>4 DEF ProducerEnqueue
    <2> QED BY <1>4, <2>1, <2>2 DEF ProducerEnqueue, TypeOK
  <1> QED BY <1>2, <1>3, <1>4

\* The steps of a consumer keep the types, what it carries, and the team: one
\* that serves is not cancelled, so it goes on.
LEMMA ConsumerKeeps ==
    ASSUME TypeOK, Carrying, Team, NEW c \in ConsumerThreads,
           ConsumerTest(c) \/ ConsumerDequeue(c) \/ ConsumerEnqueue(c)
    PROVE  TypeOK' /\ Carrying' /\ Team'
  <1> USE DEF controller, workers, writer, queues
  <1>1. /\ worker_queue \in Seq(Item) /\ Len(worker_queue) <= WorkerQueueSize
        /\ output_queue \in Seq(Item) /\ Len(output_queue) <= WriterQueueSize
        /\ {WriterQueueSize, WorkerQueueSize} \subseteq Nat
        /\ consumed \in [ConsumerThreads -> Item \cup {Nothing}]
        /\ removed \in [ConsumerThreads -> Nat \cup {-1}]
        /\ cpc \in [ConsumerThreads -> {"unborn", "test", "dequeue", "enqueue", "done"}]
        /\ Nothing \notin Item
    BY PipelineAssumption DEF TypeOK, Item
  <1>2. /\ UNCHANGED <<consumers, is_cancel, thread, object, expected, ofs, wpc, main>>
        /\ cpc[c] # "unborn" /\ cpc'[c] # "unborn"
        /\ \A d \in ConsumerThreads \ {c} : /\ cpc'[d] = cpc[d] /\ consumed'[d] = consumed[d]
                                           /\ removed'[d] = removed[d]
        /\ removed[c] = -1 => removed'[c] = -1
        /\ cpc' \in [ConsumerThreads -> {"unborn", "test", "dequeue", "enqueue", "done"}]
        /\ removed' \in [ConsumerThreads -> Nat \cup {-1}]
        /\ cpc'[c] = "done" => is_cancel[object[c]]
    <2>1. CASE ConsumerTest(c)
      <3>1. cpc' = [cpc EXCEPT ![c] = IF is_cancel[object[c]] THEN "done" ELSE "dequeue"]
        BY <2>1 DEF ConsumerTest
      <3> QED BY <1>1, <2>1, <3>1 DEF ConsumerTest
    <2>2. CASE ConsumerDequeue(c)
      BY <1>1, <2>2 DEF ConsumerDequeue
    <2>3. CASE ConsumerEnqueue(c)
      BY <1>1, <2>3 DEF ConsumerEnqueue
    <2> QED BY <2>1, <2>2, <2>3
  <1>3. /\ worker_queue' \in Seq(Item) /\ Len(worker_queue') <= WorkerQueueSize
        /\ output_queue' \in Seq(Item) /\ Len(output_queue') <= WriterQueueSize
        /\ consumed' \in [ConsumerThreads -> Item \cup {Nothing}]
        /\ IF cpc'[c] = "enqueue" THEN consumed'[c] \in Item ELSE consumed'[c] = Nothing
    <2>1. CASE ConsumerTest(c)
      BY <1>1, <2>1 DEF ConsumerTest, Carrying
    <2>2. CASE ConsumerDequeue(c)
      <3>1. Head(worker_queue) \in Item
        BY <1>1, <2>2, QueueFits DEF ConsumerDequeue
      <3> QED BY <1>1, <2>2, <3>1, QueueFits DEF ConsumerDequeue
    <2>3. CASE ConsumerEnqueue(c)
      <3>1. consumed[c] \in Item
        BY <2>3 DEF ConsumerEnqueue, Carrying
      <3> QED BY <1>1, <2>3, <3>1, QueueFits DEF ConsumerEnqueue, Room
    <2> QED BY <2>1, <2>2, <2>3
  <1>4. TypeOK'
    BY <1>2, <1>3 DEF ConsumerTest, ConsumerDequeue, ConsumerEnqueue, TypeOK
  <1>5. Carrying'
    BY <1>2, <1>3 DEF Carrying
  <1>6. Team'
    <2>1. ASSUME NEW o \in Range(consumers) PROVE Serves(o)'
      <3>1. Serves(o)
        BY DEF Team
      <3>2. thread[o] = c => cpc'[c] \in {"test", "dequeue", "enqueue"}
        BY <1>2, <3>1 DEF Serves
      <3> QED BY <1>2, <3>1, <3>2 DEF Serves
    <2> QED BY <1>2, <2>1 DEF Team
  <1> QED BY <1>4, <1>5, <1>6

\* new Consumer, push_back, start: the new object's flag is lowered and its
\* thread is given that object, wherever new found the memory.
LEMMA ScaleUpKeeps ==
    ASSUME TypeOK, Carrying, Team, ScaleUp
    PROVE  TypeOK' /\ Carrying' /\ Team'
  <1> USE DEF controller, workers, writer, queues
  <1> DEFINE c == CHOOSE c \in Unborn : \A d \in Unborn : c <= d
  <1>1. c \in ConsumerThreads /\ cpc[c] = "unborn"
    <2>1. Unborn \in SUBSET Nat /\ Unborn # {}
      BY PipelineAssumption DEF ScaleUp, Unborn, ConsumerThreads
    <2>2. \E d \in Unborn : \A e \in Unborn : d <= e
      BY <2>1, LeastNat
    <2>3. c \in Unborn
      BY <2>2
    <2> HIDE DEF c
    <2> QED BY <2>3 DEF Unborn
  <1>2. PICK o \in Allocatable :
           /\ consumers' = Append(consumers, o)
           /\ is_cancel' = [is_cancel EXCEPT ![o] = FALSE]
           /\ thread' = [thread EXCEPT ![o] = c]
           /\ object' = [object EXCEPT ![c] = o]
           /\ cpc' = [cpc EXCEPT ![c] = "test"]
    BY DEF ScaleUp
  <1> HIDE DEF c
  <1>3. o \in Objects /\ o \notin Range(consumers)
    BY DEF Allocatable, ToSet, Range
  <1>4. /\ consumers \in Seq(Objects) /\ Distinct(consumers)
        /\ is_cancel \in [Objects -> BOOLEAN] /\ thread \in [Objects -> 0 .. MaxConsumers]
        /\ object \in [ConsumerThreads -> 0 .. MaxConsumers]
        /\ cpc \in [ConsumerThreads -> {"unborn", "test", "dequeue", "enqueue", "done"}]
        /\ Objects = ConsumerThreads /\ Objects \subseteq 0 .. MaxConsumers /\ -1 \in Int
    BY PipelineAssumption DEF TypeOK, Team, Objects, ConsumerThreads
  <1>5. /\ consumers' \in Seq(Objects) /\ Distinct(consumers') /\ consumers' # << >>
        /\ Range(consumers') = Range(consumers) \cup {o}
    BY <1>2, <1>3, <1>4, AppendQueue
  <1>6. Len(consumers') <= MaxConsumers
    BY <1>5, TeamFits
  <1>7. /\ is_cancel' \in [Objects -> BOOLEAN]
        /\ thread' \in [Objects -> 0 .. MaxConsumers]
        /\ object' \in [ConsumerThreads -> 0 .. MaxConsumers]
        /\ cpc' \in [ConsumerThreads -> {"unborn", "test", "dequeue", "enqueue", "done"}]
    BY <1>1, <1>2, <1>3, <1>4
  <1>8. /\ current_size' = -1 /\ -1 \in -1 .. WorkerQueueSize
        /\ UNCHANGED <<unread, queues, produced, consumed, removed, writer, main>>
    BY PipelineAssumption DEF ScaleUp
  <1>9. TypeOK'
    BY <1>5, <1>6, <1>7, <1>8 DEF TypeOK
  <1>10. Carrying'
    BY <1>1, <1>2, <1>4, <1>8 DEF Carrying
  <1>11. Team'
    <2>1. ASSUME NEW p \in Range(consumers) PROVE Serves(p)'
      <3>1. Serves(p) /\ p # o /\ p \in Objects
        BY <1>3, <1>4 DEF Team, Range
      <3>2. thread[p] # c
        BY <1>1, <3>1 DEF Serves
      <3> QED BY <1>1, <1>2, <1>4, <1>8, <3>1, <3>2 DEF Serves
    <2>2. Serves(o)'
      <3>1. removed[c] = -1
        BY <1>1 DEF Team
      <3> QED BY <1>1, <1>2, <1>3, <1>4, <1>8, <3>1 DEF Serves
    <2>3. \A d \in ConsumerThreads :
             IF cpc'[d] = "unborn" THEN removed'[d] = -1 ELSE object'[d] \in Objects
      BY <1>1, <1>2, <1>3, <1>4, <1>8 DEF Team
    <2> QED BY <1>5, <2>1, <2>2, <2>3 DEF Team
  <1> QED BY <1>9, <1>10, <1>11

\* cancel, pop_back, delete: the last Consumer goes, the others stay.
LEMMA ScaleDownKeeps ==
    ASSUME TypeOK, Carrying, Team, ScaleDown
    PROVE  TypeOK' /\ Carrying' /\ Team'
  <1> USE DEF controller, workers, writer, queues
  <1> DEFINE o == Last(consumers)
             c == thread[o]
  <1>1. /\ consumers \in Seq(Objects) /\ Distinct(consumers) /\ consumers # << >>
        /\ Len(consumers) > 1
        /\ is_cancel \in [Objects -> BOOLEAN]
        /\ removed \in [ConsumerThreads -> Nat \cup {-1}]
    BY EmptySeq DEF ScaleDown, OneStays, TypeOK, Team
  <1>2. /\ is_cancel' = [is_cancel EXCEPT ![o] = TRUE]
        /\ removed' = [removed EXCEPT ![c] = 0]
        /\ consumers' = Front(consumers) /\ current_size' = -1
        /\ UNCHANGED <<unread, queues, produced, thread, object, cpc, consumed, writer, main>>
    BY DEF ScaleDown
  <1>3. /\ o \in Objects /\ o \in Range(consumers) /\ o \notin Range(consumers')
        /\ consumers' \in Seq(Objects) /\ Distinct(consumers') /\ consumers' # << >>
        /\ Range(consumers') \subseteq Range(consumers)
    BY <1>1, <1>2, TakeBack
  <1>4. Serves(o)
    BY <1>3 DEF Team
  <1>5. c \in ConsumerThreads /\ object[c] = o /\ cpc[c] # "unborn"
    BY <1>4 DEF Serves
  <1> HIDE DEF o, c
  <1>6. Len(consumers') <= MaxConsumers /\ -1 \in -1 .. WorkerQueueSize
    BY <1>3, TeamFits, PipelineAssumption
  <1>7. is_cancel' \in [Objects -> BOOLEAN] /\ removed' \in [ConsumerThreads -> Nat \cup {-1}]
    BY <1>1, <1>2, <1>3, <1>5
  <1>8. TypeOK'
    BY <1>2, <1>3, <1>6, <1>7 DEF TypeOK
  <1>9. Carrying'
    BY <1>2 DEF Carrying
  <1>10. Team'
    <2>1. ASSUME NEW p \in Range(consumers') PROVE Serves(p)'
      <3>1. Serves(p) /\ p # o /\ p \in Objects
        <4>1. p \in Range(consumers) /\ p # o
          BY <1>3
        <4>2. p \in Objects
          BY <1>1, <4>1 DEF Range
        <4> QED BY <4>1, <4>2 DEF Team
      <3>2. thread[p] # c
        BY <1>5, <3>1 DEF Serves
      <3>3. thread[p] \in ConsumerThreads
        BY <3>1 DEF Serves
      <3>4. \A q \in Objects \ {o} : is_cancel'[q] = is_cancel[q]
        BY <1>1, <1>2
      <3>5. \A d \in ConsumerThreads \ {c} : removed'[d] = removed[d]
        BY <1>1, <1>2
      <3> QED BY <1>2, <3>1, <3>2, <3>3, <3>4, <3>5 DEF Serves
    <2>2. \A d \in ConsumerThreads :
             IF cpc'[d] = "unborn" THEN removed'[d] = -1 ELSE object'[d] \in Objects
      <3>1. \A d \in ConsumerThreads : cpc[d] = "unborn" => d # c /\ removed'[d] = removed[d]
        BY <1>1, <1>2, <1>5
      <3> QED BY <1>2, <3>1 DEF Team
    <2> QED BY <1>3, <2>1, <2>2 DEF Team
  <1> QED BY <1>8, <1>9, <1>10

\* Writer::process counts each line it writes down from expected_lines.
LEMMA WriterKeeps ==
    ASSUME TypeOK, Counted, WriterStart \/ WriterStep \/ WriterEnd, Live
    PROVE  TypeOK' /\ Counted'
  <1> USE DEF controller, workers, queues
  <1>1. /\ expected \in 0 .. Lines /\ Lines \in Nat /\ ofs \in BOOLEAN
        /\ written \in Seq(Item) /\ Len(written) \in Nat
        /\ output_queue \in Seq(Item) /\ Len(output_queue) <= WriterQueueSize
        /\ WriterQueueSize \in Nat
    BY PipelineAssumption, LenProperties DEF TypeOK
  <1>2. CASE WriterStart
    BY <1>1, <1>2 DEF WriterStart, TypeOK, Counted, Joined
  <1>3. CASE WriterEnd
    BY <1>1, <1>3 DEF WriterEnd, WriterGoesOn, TypeOK, Counted, Joined
  <1>4. CASE WriterStep
    <2>1. /\ output_queue' \in Seq(Item) /\ Len(output_queue') <= WriterQueueSize
          /\ Head(output_queue) \in Item
      BY <1>1, <1>4, QueueFits DEF WriterStep
    <2>2. /\ Append(written, Head(output_queue)) \in Seq(Item)
          /\ Len(Append(written, Head(output_queue))) = Len(written) + 1
      BY <1>1, <2>1
    <2>3. /\ ofs' \in BOOLEAN /\ written' \in Seq(Item) /\ expected' \in 0 .. Lines
          /\ wpc' \in {"start", "loop", "done"}
          /\ ofs' => Len(written') + expected' = Lines /\ wpc' # "done"
      <3>1. wpc = "loop" /\ expected > 0
        BY <1>4 DEF WriterStep, WriterGoesOn
      <3>2. CASE /\ ofs /\ ofs' \in BOOLEAN
                 /\ written' = IF ofs' THEN Append(written, Head(output_queue)) ELSE written
                 /\ expected' = expected - 1 /\ UNCHANGED wpc
        <4>1. Len(written) + expected = Lines
          BY <3>2 DEF Counted
        <4>2. expected' \in 0 .. Lines /\ Len(written) + 1 + expected' = Lines
          <5>1. expected \in 0 .. Lines /\ Lines \in Nat /\ Len(written) \in Nat
            BY <1>1
          <5>2. expected > 0 /\ expected' = expected - 1
            BY <3>1, <3>2
          <5> QED BY <5>1, <5>2, <4>1
        <4> QED BY <1>1, <2>2, <3>1, <3>2, <4>2
      <3>3. CASE ~ofs /\ wpc' = "done" /\ UNCHANGED <<expected, ofs, written>>
        BY <1>1, <3>3
      <3> QED BY <1>4, <3>2, <3>3 DEF WriterStep
    <2>4. TypeOK'
      BY <1>4, <2>1, <2>3 DEF WriterStep, TypeOK
    <2>5. ~Joined'
      <3>1. wpc = "loop" /\ UNCHANGED main
        BY <1>4 DEF WriterStep
      <3> QED BY <3>1 DEF Counted, Joined
    <2>6. Counted'
      BY <1>1, <2>3, <2>5 DEF Counted
    <2> QED BY <2>4, <2>6
  <1> QED BY <1>2, <1>3, <1>4

---------------------------------------------------------------------------
(* The inductive invariant and the theorems.                               *)

\* main starts with every line still to be read.
LEMMA InitEstablishes ==
    ASSUME Init
    PROVE  IInv
  <1>1. /\ Lines \in Nat /\ MaxConsumers \in Nat /\ Nothing \notin Item
        /\ {ReaderQueueSize, WorkerQueueSize, WriterQueueSize} \subseteq Nat
    BY PipelineAssumption DEF Item
  <1>2. << >> \in Seq(Item) /\ << >> \in Seq(Objects) /\ Len(<< >>) = 0
    BY EmptySeq
  <1>3. TypeOK
    BY <1>1, <1>2 DEF Init, TypeOK
  <1>4. Carrying
    BY DEF Init, Carrying
  <1>5. Team
    BY DEF Init, Team, Distinct, Range
  <1>6. Counted
    BY <1>1, <1>2 DEF Init, Counted, Joined
  <1>7. LineConserved
    <2> SUFFICES ASSUME NEW k \in Item PROVE Copies(k) = 1
      BY DEF LineConserved
    <2>1. /\ Holds(input_queue, k) = {} /\ Holds(worker_queue, k) = {}
          /\ Holds(output_queue, k) = {} /\ Holds(written, k) = {}
      BY DEF Init, Holds
    <2>2. InHand(produced, k) = {} /\ InHand(consumed, k) = {}
      BY <1>1 DEF Init, InHand
    <2>3. k > Lines - unread
      BY <1>1 DEF Init, Item
    <2> QED BY <2>1, <2>2, <2>3, FS_EmptySet DEF Copies
  <1> QED BY <1>3, <1>4, <1>5, <1>6, <1>7 DEF IInv

\* Every step keeps it.
LEMMA NextPreserves ==
    ASSUME IInv, [Next]_vars
    PROVE  IInv'
  <1> USE DEF controller, workers, writer, queues
  <1>1. TypeOK /\ Carrying /\ Team /\ Counted /\ LineConserved
    BY DEF IInv
  <1>2. ASSUME ReaderStep \/ \E p \in Producers : ProducerDequeue(p) \/ ProducerEnqueue(p),
               Live
        PROVE  IInv'
    <2>1. TypeOK'
      BY <1>1, <1>2, FrontTypes
    <2>2. UNCHANGED <<controller, workers, writer, main>>
      BY <1>2 DEF ReaderStep, ProducerDequeue, ProducerEnqueue
    <2>3. Carrying' /\ Team' /\ Counted'
      BY <1>1, <2>2 DEF Carrying, Team, Serves, Counted, Joined
    <2>4. LineConserved'
      BY <1>1, <1>2, ReaderConserves, ProducerDequeueConserves, ProducerEnqueueConserves
    <2> QED BY <2>1, <2>3, <2>4 DEF IInv
  <1>3. ASSUME NEW c \in ConsumerThreads, Consumer(c) PROVE IInv'
    <2>1. ConsumerTest(c) \/ ConsumerDequeue(c) \/ ConsumerEnqueue(c)
      BY <1>3 DEF Consumer
    <2>2. TypeOK' /\ Carrying' /\ Team'
      BY <1>1, <2>1, ConsumerKeeps
    <2>3. Counted'
      BY <1>1, <2>1 DEF ConsumerTest, ConsumerDequeue, ConsumerEnqueue, Counted, Joined
    <2>4. LineConserved'
      <3>1. CASE ConsumerTest(c)
        BY <1>1, <3>1, NoneMoves DEF ConsumerTest
      <3> QED BY <1>1, <2>1, <3>1, ConsumerDequeueConserves, ConsumerEnqueueConserves
    <2> QED BY <2>2, <2>3, <2>4 DEF IInv
  <1>4. ASSUME Control PROVE IInv'
    <2>1. TypeOK' /\ Carrying' /\ Team'
      <3>1. CASE ControllerWake \/ KeepAsIs
        <4>1. /\ current_size' \in -1 .. WorkerQueueSize
              /\ UNCHANGED <<unread, queues, produced, consumers, is_cancel, thread, workers,
                             writer, main>>
          <5>1. Len(worker_queue) \in Nat /\ WorkerQueueSize \in Nat /\ Len(worker_queue) <= WorkerQueueSize
            BY <1>1, LenProperties, PipelineAssumption DEF TypeOK
          <5> QED BY <3>1, <5>1 DEF ControllerWake, KeepAsIs
        <4> QED BY <1>1, <4>1 DEF TypeOK, Carrying, Team, Serves
      <3> QED BY <1>1, <1>4, <3>1, ScaleUpKeeps, ScaleDownKeeps DEF Control, Controller
    <2>2. UNCHANGED <<unread, queues, produced, consumed, writer, main>>
      BY <1>4 DEF Control, Controller, ControllerWake, ScaleUp, ScaleDown, KeepAsIs
    <2>3. Counted' /\ LineConserved'
      BY <1>1, <2>2, NoneMoves DEF Counted, Joined
    <2> QED BY <2>1, <2>3 DEF IInv
  <1>5. ASSUME Writer PROVE IInv'
    <2>1. TypeOK' /\ Counted'
      BY <1>1, <1>5, WriterKeeps DEF Writer
    <2>2. Carrying' /\ Team'
      <3>1. UNCHANGED <<controller, workers>>
        BY <1>5 DEF Writer, WriterStart, WriterStep, WriterEnd
      <3> QED BY <1>1, <3>1 DEF Carrying, Team, Serves
    <2>3. LineConserved'
      <3>1. CASE WriterStart \/ WriterEnd
        BY <1>1, <3>1, NoneMoves DEF WriterStart, WriterEnd
      <3> QED BY <1>1, <1>5, <3>1, WriterConserves DEF Writer
    <2> QED BY <2>1, <2>2, <2>3 DEF IInv
  <1>6. ASSUME Main \/ Exited \/ UNCHANGED vars PROVE IInv'
    <2>1. /\ UNCHANGED <<unread, queues, produced, controller, workers, writer>>
          /\ main' \in {"reader", "writer", "joined", "exited", "stuck"}
          /\ main' \in {"joined", "exited", "stuck"} => wpc = "done"
      BY <1>1, <1>6 DEF Main, MainJoinReader, MainJoinWriter, MainDelete, Exited, Joined, vars,
                        Counted, TypeOK
    <2>2. TypeOK'
      BY <1>1, <2>1 DEF TypeOK
    <2>3. Carrying' /\ Team' /\ Counted'
      BY <1>1, <2>1 DEF Carrying, Team, Serves, Counted, Joined
    <2> QED BY <1>1, <2>1, <2>2, <2>3, NoneMoves DEF IInv
  <1>7. ASSUME Reader \/ \E p \in Producers : Producer(p) PROVE IInv'
    BY <1>2, <1>7 DEF Reader, Producer
  <1> QED BY <1>3, <1>4, <1>5, <1>6, <1>7 DEF Next

\* The invariant holds in every state, for all sizes and thread numbers.
THEOREM Invariance == Spec => []IInv
  <1>1. Init => IInv
    BY InitEstablishes
  <1>2. IInv /\ [Next]_vars => IInv'
    BY NextPreserves
  <1> QED BY <1>1, <1>2, PTL DEF Spec

\* Types: no queue ever exceeds its slots and the controller never has more
\* Consumers than addresses.
THEOREM TypeCorrect == Spec => []TypeOK
  <1>1. IInv => TypeOK
    BY DEF IInv
  <1> QED BY <1>1, Invariance, PTL

\* Each line is in one place on its way through queues and hands, whichever
\* consumers the controller starts, cancels and deletes meanwhile, until the
\* output file fails.
THEOREM LineConservedHolds == Spec => []LineConserved
  <1>1. IInv => LineConserved
    BY DEF IInv
  <1> QED BY <1>1, Invariance, PTL

\* ConsumerController keeps one Consumer whose thread is not cancelled, although
\* it deletes objects whose threads still read them and reuses their memory.
THEOREM OneConsumerServesHolds == Spec => []OneConsumerServes
  <1>1. ASSUME IInv PROVE OneConsumerServes
    <2> SUFFICES ASSUME \E c \in ConsumerThreads : cpc[c] # "unborn"
                 PROVE  \E c \in ConsumerThreads :
                           /\ removed[c] = -1 /\ cpc[c] \in {"test", "dequeue", "enqueue"}
                           /\ ~is_cancel[object[c]]
      BY DEF OneConsumerServes
    <2>1. consumers # << >> /\ consumers \in Seq(Objects)
      BY <1>1 DEF IInv, Team, TypeOK
    <2>2. Serves(Last(consumers))
      BY <1>1, <2>1, TakeBack DEF IInv, Team
    <2> QED BY <2>2 DEF Serves
  <1> QED BY <1>1, Invariance, PTL

\* As many lines written as there are, none twice, are all of them.
LEMMA AllWritten ==
    ASSUME NEW w \in Seq(Item), Len(w) = Lines,
           \A k \in Item : Queued(w, k) \in {0, 1}
    PROVE  \A k \in Item : \E i \in 1 .. Lines : w[i] = k
  <1>1. Lines \in Nat /\ DOMAIN w = 1 .. Lines /\ w \in [1 .. Lines -> Item]
    BY LenProperties, PipelineAssumption
  <1>2. ASSUME NEW i \in 1 .. Lines, NEW j \in 1 .. Lines, w[i] = w[j]
        PROVE  i = j
    <2> DEFINE A == Holds(w, w[i])
    <2>1. w[i] \in Item /\ i \in A /\ j \in A
      BY <1>1, <1>2 DEF Holds
    <2>2. IsFiniteSet(A) /\ Cardinality(A) \in {0, 1}
      BY <2>1, HoldsFinite DEF Queued
    <2> HIDE DEF A
    <2>3. \E x : A = {x}
      BY <2>1, <2>2, FS_EmptySet, FS_Singleton
    <2> QED BY <2>1, <2>3
  <1>3. w \in Injection(1 .. Lines, Item)
    <2>1. IsInjective(w)
      BY <1>1, <1>2 DEF IsInjective
    <2> QED BY <1>1, <2>1 DEF Injection
  <1>4. IsFiniteSet(1 .. Lines) /\ Item = 1 .. Lines
    BY <1>1, FS_Interval DEF Item
  <1>5. w \in Surjection(1 .. Lines, Item)
    BY <1>3, <1>4, FS_Injection
  <1> QED BY <1>5 DEF Surjection

\* main joins reader and writer only: if the file did not fail, every line is in
\* it by then, and the queues and threads main goes on to delete hold none.
THEOREM OutputCompleteHolds == Spec => []OutputComplete
  <1>1. ASSUME IInv PROVE OutputComplete
    <2> SUFFICES ASSUME Joined, ofs
                 PROVE  /\ unread = 0 /\ queues = << << >>, << >>, << >> >>
                        /\ \A p \in Producers : produced[p] = Nothing
                        /\ \A c \in ConsumerThreads : consumed[c] = Nothing
                        /\ ToSet(written) = Item
      BY DEF OutputComplete
    <2>1. TypeOK /\ LineConserved /\ Counted
      BY <1>1 DEF IInv
    <2>2. Len(written) = Lines
      <3>1. Len(written) + expected = Lines /\ expected = 0
        BY <2>1 DEF Counted
      <3>2. Len(written) \in Nat
        BY <2>1, LenProperties DEF TypeOK
      <3> QED BY <3>1, <3>2
    <2>3. \A k \in Item : /\ Copies(k) = 1 /\ Queued(written, k) \in {0, 1}
      <3> SUFFICES ASSUME NEW k \in Item PROVE Copies(k) = 1 /\ Queued(written, k) \in {0, 1}
        OBVIOUS
      <3>1. Copies(k) = 1
        BY <2>1 DEF LineConserved
      <3>2. /\ Unread(k) \in Nat /\ Queued(input_queue, k) \in Nat
            /\ Queued(worker_queue, k) \in Nat /\ Queued(output_queue, k) \in Nat
            /\ Queued(written, k) \in Nat
            /\ Carried(produced, k) \in Nat /\ Carried(consumed, k) \in Nat
        BY <2>1, CountsAreNat
      <3>3. Unread(k) + Queued(input_queue, k) + Queued(worker_queue, k)
            + Queued(output_queue, k) + Queued(written, k)
            + Carried(produced, k) + Carried(consumed, k) = 1
        BY <3>1, CopiesAre
      <3> DEFINE a == Unread(k)
                 b == Queued(input_queue, k)
                 c == Queued(worker_queue, k)
                 d == Queued(output_queue, k)
                 e == Queued(written, k)
                 f == Carried(produced, k)
                 g == Carried(consumed, k)
      <3>4. a \in Nat /\ b \in Nat /\ c \in Nat /\ d \in Nat /\ e \in Nat /\ f \in Nat /\ g \in Nat
        BY <3>2
      <3>5. a + b + c + d + e + f + g = 1
        BY <3>3
      <3>6. e \in {0, 1}
        <4> HIDE DEF a, b, c, d, e, f, g
        <4> QED BY <3>4, <3>5
      <3> QED BY <3>1, <3>6
    <2>4. \A k \in Item : \E i \in 1 .. Lines : written[i] = k
      BY <2>1, <2>2, <2>3, AllWritten DEF TypeOK
    <2>5. /\ Lines \in Nat /\ Nothing \notin Item /\ IsFiniteSet(Producers)
          /\ IsFiniteSet(ConsumerThreads)
      BY PipelineAssumption, FS_Interval DEF Item, ConsumerThreads
    <2>6. ASSUME NEW k \in Item
          PROVE  /\ Unread(k) = 0
                 /\ Queued(input_queue, k) = 0 /\ Queued(worker_queue, k) = 0
                 /\ Queued(output_queue, k) = 0
                 /\ Carried(produced, k) = 0 /\ Carried(consumed, k) = 0
      <3>1. Holds(written, k) # {}
        BY <2>1, <2>2, <2>4, LenProperties DEF Holds, TypeOK
      <3>2. Queued(written, k) # 0
        BY <2>1, <3>1, HoldsFinite, FS_EmptySet DEF Queued, TypeOK
      <3>3. Queued(written, k) \in {0, 1} /\ Copies(k) = 1
        BY <2>3
      <3>4. Queued(written, k) = 1
        BY <3>2, <3>3
      <3>5. /\ Unread(k) \in Nat /\ Queued(input_queue, k) \in Nat
            /\ Queued(worker_queue, k) \in Nat /\ Queued(output_queue, k) \in Nat
            /\ Carried(produced, k) \in Nat /\ Carried(consumed, k) \in Nat
        BY <2>1, CountsAreNat
      <3>6. Unread(k) + Queued(input_queue, k) + Queued(worker_queue, k)
            + Queued(output_queue, k) + 1 + Carried(produced, k) + Carried(consumed, k) = 1
        BY <3>3, <3>4, CopiesAre
      <3> QED BY <3>5, <3>6
    <2>7. ASSUME NEW q \in Seq(Item), \A k \in Item : Queued(q, k) = 0
          PROVE  q = << >>
      <3> SUFFICES ASSUME q # << >> PROVE FALSE
        OBVIOUS
      <3>1. 1 \in DOMAIN q /\ q[1] \in Item
        BY EmptySeq, LenProperties
      <3>2. 1 \in Holds(q, q[1])
        BY <3>1 DEF Holds
      <3>3. IsFiniteSet(Holds(q, q[1])) /\ Cardinality(Holds(q, q[1])) = 0
        BY <2>7, <3>1, HoldsFinite DEF Queued
      <3>4. Holds(q, q[1]) = {}
        BY <3>3, FS_EmptySet
      <3> QED BY <3>2, <3>4
    <2>8. queues = << << >>, << >>, << >> >>
      BY <2>1, <2>6, <2>7 DEF queues, TypeOK
    <2>9. ASSUME NEW T, IsFiniteSet(T), NEW h \in [T -> Item \cup {Nothing}],
                 \A k \in Item : Carried(h, k) = 0, NEW x \in T
          PROVE  h[x] = Nothing
      <3> SUFFICES ASSUME h[x] \in Item PROVE FALSE
        OBVIOUS
      <3>1. x \in InHand(h, h[x]) /\ InHand(h, h[x]) \subseteq T
        BY DEF InHand
      <3>2. IsFiniteSet(InHand(h, h[x])) /\ Cardinality(InHand(h, h[x])) = 0
        BY <2>9, <3>1, FS_Subset DEF Carried
      <3> QED BY <3>1, <3>2, FS_EmptySet
    <2>10. \A p \in Producers : produced[p] = Nothing
      BY <2>1, <2>5, <2>6, <2>9 DEF TypeOK
    <2>11. \A c \in ConsumerThreads : consumed[c] = Nothing
      BY <2>1, <2>5, <2>6, <2>9 DEF TypeOK
    <2>12. unread = 0
      <3>1. unread \in 0 .. Lines
        BY <2>1 DEF TypeOK
      <3>2. CASE Lines = 0
        BY <3>1, <3>2
      <3>3. CASE Lines # 0
        <4>1. Lines \in Item /\ Unread(Lines) = 0
          BY <2>5, <2>6, <3>3 DEF Item
        <4> QED BY <2>5, <3>1, <4>1 DEF Unread
      <3> QED BY <3>2, <3>3
    <2>13. ToSet(written) = Item
      <3>1. DOMAIN written = 1 .. Lines /\ \A i \in 1 .. Lines : written[i] \in Item
        BY <2>1, <2>2, LenProperties DEF TypeOK
      <3> QED BY <2>4, <3>1 DEF ToSet
    <2> QED BY <2>8, <2>10, <2>11, <2>12, <2>13
  <1> QED BY <1>1, Invariance, PTL
=============================================================================
