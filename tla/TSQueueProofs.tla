--------------------------- MODULE TSQueueProofs ---------------------------
(***************************************************************************)
(* TSQueue, for every number of callers and every buffer_size: the         *)
(* critical sections exclude one another, the ring is consistent and free  *)
(* of uninitialised slots, and the queue implements BoundedFIFO.           *)
(***************************************************************************)
EXTENDS TSQueue, DataLemmas

\* A caller past its while loop still finds what the loop waited for: only the
\* holder of the mutex changes size.
LoopExitHolds ==
    \A t \in Threads : pc[t] = "copy" =>
        /\ t \in Enqueuers => size < buffer_size
        /\ t \in Dequeuers => size > 0

\* The inductive invariant.
IInv ==
    /\ TypeOK
    /\ MutualExclusion
    /\ WaitersListed
    /\ LoopExitHolds
    /\ RingConsistent
    /\ NoGarbage

---------------------------------------------------------------------------
(* Indices around the ring.                                                *)

\* Where the i-th slot after h lies, for the distances the queue uses.
LEMMA RingIndex ==
    ASSUME NEW h \in Slots, NEW i \in 0 .. buffer_size + 1
    PROVE  (h + i) % buffer_size =
             IF h + i < buffer_size THEN h + i
             ELSE IF h + i < 2 * buffer_size THEN h + i - buffer_size
             ELSE 0
  <1>1. CASE h + i < buffer_size
    BY <1>1, QueueAssumption DEF Slots
  <1>2. CASE h + i >= buffer_size /\ h + i < 2 * buffer_size
    BY <1>2, QueueAssumption DEF Slots
  <1>3. CASE h + i = 2 * buffer_size
    BY <1>3, QueueAssumption DEF Slots
  <1> QED BY <1>1, <1>2, <1>3, QueueAssumption DEF Slots

\* Succ steps to the next slot.
LEMMA SuccIndex ==
    ASSUME NEW h \in Slots
    PROVE  /\ Succ(h) = (h + 1) % buffer_size
           /\ Succ(h) \in Slots
           /\ Succ(h) = IF h + 1 = buffer_size THEN 0 ELSE h + 1
  <1>1. (h + 1) % buffer_size =
          IF h + 1 < buffer_size THEN h + 1
          ELSE IF h + 1 < 2 * buffer_size THEN h + 1 - buffer_size ELSE 0
    <2>1. 1 \in 0 .. buffer_size + 1
      BY QueueAssumption
    <2> QED BY <2>1, RingIndex
  <1> QED BY <1>1, QueueAssumption DEF Slots, Succ

\* The slot enqueue writes is outside the queued ones unless the ring is full.
LEMMA TailIsFree ==
    ASSUME TypeOK, RingConsistent, NEW i \in 1 .. size, size < buffer_size
    PROVE  /\ (head + i) % buffer_size \in Slots
           /\ (head + i) % buffer_size # tail
  <1>1. head \in Slots /\ i \in 0 .. buffer_size + 1 /\ size + 1 \in 0 .. buffer_size + 1
    BY QueueAssumption DEF TypeOK
  <1>2. (head + i) % buffer_size =
          IF head + i < buffer_size THEN head + i
          ELSE IF head + i < 2 * buffer_size THEN head + i - buffer_size ELSE 0
    BY <1>1, RingIndex
  <1>3. tail =
          IF head + (size + 1) < buffer_size THEN head + (size + 1)
          ELSE IF head + (size + 1) < 2 * buffer_size
               THEN head + (size + 1) - buffer_size ELSE 0
    BY <1>1, RingIndex DEF RingConsistent
  <1> QED BY <1>1, <1>2, <1>3, QueueAssumption DEF TypeOK, Slots

---------------------------------------------------------------------------
(* Type correctness, mutual exclusion and the callers' locations.          *)

\* The constructor establishes the inductive invariant.
LEMMA InitEstablishes == Init => IInv
  <1> SUFFICES ASSUME Init PROVE IInv
    OBVIOUS
  <1>1. TypeOK
    BY QueueAssumption DEF Init, TypeOK, Slots, Locations, FirstHead
  <1>2. MutualExclusion /\ WaitersListed /\ LoopExitHolds
    BY QueueAssumption
    DEF Init, MutualExclusion, WaitersListed, LoopExitHolds, Critical
  <1>3. RingConsistent
    BY QueueAssumption DEF Init, RingConsistent, FirstHead
  <1>4. NoGarbage
    BY DEF Init, NoGarbage
  <1> QED BY <1>1, <1>2, <1>3, <1>4 DEF IInv

\* The steps that move a caller, the mutex or the condition variables and leave
\* the ring alone.
Moves(t) ==
    \/ \E v \in Items : CallEnqueue(t, v)
    \/ CallDequeue(t) \/ Lock(t) \/ Unlock(t) \/ SpuriousWakeup(t)
    \/ EnqueueTest(t) \/ EnqueueSignal(t) \/ DequeueTest(t) \/ DequeueSignal(t)

\* A step of enqueue or dequeue that leaves the ring alone keeps the types.
LEMMA MovesType ==
    ASSUME IInv, NEW t \in Threads, Moves(t)
    PROVE  TypeOK'
  <1>1. ASSUME NEW v \in Items, CallEnqueue(t, v) PROVE TypeOK'
    BY <1>1 DEF IInv, TypeOK, CallEnqueue, Goto, Locations
  <1>2. CASE CallDequeue(t)
    BY <1>2 DEF IInv, TypeOK, CallDequeue, Goto, Locations, Threads
  <1>3. CASE Lock(t)
    BY <1>3 DEF IInv, TypeOK, Lock, Goto, Locations, Threads
  <1>4. CASE EnqueueTest(t)
    BY <1>4 DEF IInv, TypeOK, EnqueueTest, Goto, Locations, Threads
  <1>5. CASE EnqueueSignal(t)
    BY <1>5 DEF IInv, TypeOK, EnqueueSignal, Signalled, Goto, Locations, Threads
  <1>6. CASE DequeueTest(t)
    BY <1>6 DEF IInv, TypeOK, DequeueTest, Goto, Locations, Threads
  <1>7. CASE DequeueSignal(t)
    BY <1>7 DEF IInv, TypeOK, DequeueSignal, Signalled, Goto, Locations, Threads
  <1>8. CASE Unlock(t)
    BY <1>8 DEF IInv, TypeOK, Unlock, Goto, Locations, Threads
  <1>9. CASE SpuriousWakeup(t)
    BY <1>9 DEF IInv, TypeOK, SpuriousWakeup, Goto, Locations, Threads
  <1> QED BY <1>1, <1>2, <1>3, <1>4, <1>5, <1>6, <1>7, <1>8, <1>9 DEF Moves

\* Such a step keeps mutual exclusion, the waiters' bookkeeping and what a caller
\* knows about the queue once it has left its while loop.
LEMMA MovesLocations ==
    ASSUME IInv, NEW t \in Threads, Moves(t)
    PROVE  MutualExclusion' /\ WaitersListed' /\ LoopExitHolds'
  <1> DEFINE Goal == MutualExclusion' /\ WaitersListed' /\ LoopExitHolds'
  <1>1. ASSUME NEW v \in Items, CallEnqueue(t, v) PROVE Goal
    BY <1>1, QueueAssumption
    DEF IInv, TypeOK, MutualExclusion, WaitersListed, LoopExitHolds,
        Critical, Locations, CallEnqueue, Goto, Threads, Full, Empty
  <1>2. CASE CallDequeue(t)
    BY <1>2, QueueAssumption
    DEF IInv, TypeOK, MutualExclusion, WaitersListed, LoopExitHolds,
        Critical, Locations, CallDequeue, Goto, Threads, Full, Empty
  <1>3. CASE Lock(t)
    BY <1>3, QueueAssumption
    DEF IInv, TypeOK, MutualExclusion, WaitersListed, LoopExitHolds,
        Critical, Locations, Lock, Goto, Threads, Full, Empty
  <1>4. CASE EnqueueTest(t)
    BY <1>4, QueueAssumption
    DEF IInv, TypeOK, MutualExclusion, WaitersListed, LoopExitHolds,
        Critical, Locations, EnqueueTest, Goto, Threads, Full, Empty
  <1>5. CASE EnqueueSignal(t)
    BY <1>5, QueueAssumption
    DEF IInv, TypeOK, MutualExclusion, WaitersListed, LoopExitHolds,
        Critical, Locations, EnqueueSignal, Signalled, Goto, Threads, Full, Empty
  <1>6. CASE DequeueTest(t)
    BY <1>6, QueueAssumption
    DEF IInv, TypeOK, MutualExclusion, WaitersListed, LoopExitHolds,
        Critical, Locations, DequeueTest, Goto, Threads, Full, Empty
  <1>7. CASE DequeueSignal(t)
    BY <1>7, QueueAssumption
    DEF IInv, TypeOK, MutualExclusion, WaitersListed, LoopExitHolds,
        Critical, Locations, DequeueSignal, Signalled, Goto, Threads, Full, Empty
  <1>8. CASE Unlock(t)
    BY <1>8, QueueAssumption
    DEF IInv, TypeOK, MutualExclusion, WaitersListed, LoopExitHolds,
        Critical, Locations, Unlock, Goto, Threads, Full, Empty
  <1>9. CASE SpuriousWakeup(t)
    BY <1>9, QueueAssumption
    DEF IInv, TypeOK, MutualExclusion, WaitersListed, LoopExitHolds,
        Critical, Locations, SpuriousWakeup, Goto, Threads, Full, Empty
  <1> QED BY <1>1, <1>2, <1>3, <1>4, <1>5, <1>6, <1>7, <1>8, <1>9 DEF Moves

\* A step that moves leaves the ring, and all but the argument of a new enqueue,
\* as they are.
LEMMA MovesRing ==
    ASSUME IInv, NEW t \in Threads, Moves(t)
    PROVE  /\ UNCHANGED <<buffer, size, head, tail>>
           /\ RingConsistent' /\ NoGarbage'
  <1>1. UNCHANGED <<buffer, size, head, tail>>
    BY DEF Moves, CallEnqueue, CallDequeue, Lock, Unlock, SpuriousWakeup,
           EnqueueTest, EnqueueSignal, DequeueTest, DequeueSignal
  <1>2. item' = item \/ \E v \in Items : item' = [item EXCEPT ![t] = v]
    BY DEF Moves, CallEnqueue, CallDequeue, Lock, Unlock, SpuriousWakeup,
           EnqueueTest, EnqueueSignal, DequeueTest, DequeueSignal
  <1> QED BY <1>1, <1>2 DEF IInv, TypeOK, RingConsistent, NoGarbage

\* enqueue's stores keep the invariant: the tail slot is free, so no queued item is
\* overwritten, and size grows by one within the bound.
LEMMA EnqueueCopyPreserves ==
    ASSUME IInv, NEW t \in Threads, EnqueueCopy(t)
    PROVE  IInv'
  <1>1. /\ size < buffer_size /\ size' = size + 1 /\ head' = head
        /\ tail' = Succ(tail) /\ item' = item
        /\ buffer' = [buffer EXCEPT ![tail] = item[t]]
    BY DEF IInv, LoopExitHolds, EnqueueCopy, StoreSlot
  <1>2. TypeOK'
    <2>1. tail' \in Slots
      BY <1>1, SuccIndex DEF IInv, TypeOK
    <2>2. size' \in 0 .. buffer_size
      BY <1>1, QueueAssumption DEF IInv, TypeOK
    <2> QED BY <1>1, <2>1, <2>2 DEF IInv, TypeOK, NoGarbage, EnqueueCopy, Goto, Locations
  <1>3. MutualExclusion' /\ WaitersListed' /\ LoopExitHolds'
    BY QueueAssumption
    DEF IInv, TypeOK, MutualExclusion, WaitersListed, LoopExitHolds,
        EnqueueCopy, Goto, Critical, Threads
  <1>4. RingConsistent'
    <2>1. tail = (head + (size + 1)) % buffer_size
      BY DEF IInv, RingConsistent
    <2>2. head \in Slots /\ size + 1 \in 0 .. buffer_size + 1
          /\ size + 2 \in 0 .. buffer_size + 1
      BY <1>1, QueueAssumption DEF IInv, TypeOK
    <2>3. tail = IF head + (size + 1) < buffer_size THEN head + (size + 1)
                 ELSE IF head + (size + 1) < 2 * buffer_size
                      THEN head + (size + 1) - buffer_size ELSE 0
      BY <2>1, <2>2, RingIndex
    <2>4. (head + (size + 2)) % buffer_size =
            IF head + (size + 2) < buffer_size THEN head + (size + 2)
            ELSE IF head + (size + 2) < 2 * buffer_size
                 THEN head + (size + 2) - buffer_size ELSE 0
      BY <2>2, RingIndex
    <2>5. tail' = IF tail + 1 = buffer_size THEN 0 ELSE tail + 1
      BY <1>1, SuccIndex DEF IInv, TypeOK
    <2>6. tail' = (head + (size + 2)) % buffer_size
      BY <1>1, <2>2, <2>3, <2>4, <2>5, QueueAssumption DEF IInv, TypeOK, Slots
    <2>7. size' + 1 = size + 2
      BY <1>1 DEF IInv, TypeOK
    <2> QED BY <1>1, <2>6, <2>7 DEF RingConsistent
  <1>5. NoGarbage'
    <2>1. ASSUME NEW i \in 1 .. size + 1
          PROVE  buffer'[(head + i) % buffer_size] \in Items
      <3>1. CASE i = size + 1
        BY <1>1, <3>1 DEF IInv, TypeOK, NoGarbage, RingConsistent
      <3>2. CASE i \in 1 .. size
        BY <1>1, <3>2, TailIsFree DEF IInv, TypeOK, NoGarbage
      <3> QED BY <3>1, <3>2 DEF IInv, TypeOK
    <2> QED BY <1>1, <2>1 DEF IInv, NoGarbage
  <1> QED BY <1>2, <1>3, <1>4, <1>5 DEF IInv

\* dequeue's loads keep the invariant, and return an item that was enqueued.
LEMMA DequeueCopyPreserves ==
    ASSUME IInv, NEW t \in Threads, DequeueCopy(t)
    PROVE  /\ IInv'
           /\ \A i \in 1 .. size - 1 :
                (head' + i) % buffer_size = (head + (i + 1)) % buffer_size
  <1>1. /\ size > 0 /\ size' = size - 1 /\ tail' = tail /\ buffer' = buffer
        /\ head' = (head + 1) % buffer_size
        /\ head' = IF head + 1 = buffer_size THEN 0 ELSE head + 1
        /\ head' \in Slots
        /\ item' = [item EXCEPT ![t] = buffer[head']]
    BY SuccIndex DEF IInv, TypeOK, LoopExitHolds, DequeueCopy, SizeAfterDequeue
  <1>2. \A i \in 1 .. size :
            (head' + i) % buffer_size = (head + (i + 1)) % buffer_size
    <2> TAKE i \in 1 .. size
    <2>1. head \in Slots /\ i \in 0 .. buffer_size + 1 /\ i + 1 \in 0 .. buffer_size + 1
      BY QueueAssumption DEF IInv, TypeOK
    <2>2. (head' + i) % buffer_size =
            IF head' + i < buffer_size THEN head' + i
            ELSE IF head' + i < 2 * buffer_size THEN head' + i - buffer_size ELSE 0
      BY <1>1, <2>1, RingIndex
    <2>3. (head + (i + 1)) % buffer_size =
            IF head + (i + 1) < buffer_size THEN head + (i + 1)
            ELSE IF head + (i + 1) < 2 * buffer_size
                 THEN head + (i + 1) - buffer_size ELSE 0
      BY <2>1, RingIndex
    <2>4. head' = IF head + 1 = buffer_size THEN 0 ELSE head + 1
      BY <1>1
    <2>5. i \in Nat /\ head \in 0 .. buffer_size - 1 /\ i <= buffer_size
          /\ buffer_size \in Nat
      BY <2>1, QueueAssumption DEF IInv, TypeOK, Slots
    <2>6. CASE head + 1 = buffer_size
      BY <2>2, <2>3, <2>4, <2>5, <2>6
    <2>7. CASE head + 1 # buffer_size
      BY <2>2, <2>3, <2>4, <2>5, <2>7
    <2> QED BY <2>6, <2>7
  <1>3. buffer[head'] \in Items
    BY <1>1 DEF IInv, TypeOK, NoGarbage
  <1>4. TypeOK'
    BY <1>1, <1>3, QueueAssumption
    DEF IInv, TypeOK, DequeueCopy, Goto, Locations
  <1>5. MutualExclusion' /\ WaitersListed' /\ LoopExitHolds'
    BY QueueAssumption
    DEF IInv, TypeOK, MutualExclusion, WaitersListed, LoopExitHolds,
        DequeueCopy, Goto, Critical, Threads
  <1>6. RingConsistent'
    <2>1. size \in 1 .. size /\ size' + 1 = size
      BY <1>1 DEF IInv, TypeOK
    <2> QED BY <1>1, <1>2, <2>1 DEF IInv, RingConsistent
  <1>7. NoGarbage'
    <2>1. ASSUME NEW i \in 1 .. size - 1
          PROVE  buffer[(head' + i) % buffer_size] \in Items
      BY <1>2 DEF IInv, TypeOK, NoGarbage
    <2>2. \A u \in Threads : item'[u] \in Items
      BY <1>1, <1>3 DEF IInv, TypeOK, NoGarbage
    <2> QED BY <1>1, <2>1, <2>2 DEF NoGarbage
  <1>8. IInv'
    BY <1>4, <1>5, <1>6, <1>7 DEF IInv
  <1> QED BY <1>2, <1>8 DEF IInv, TypeOK

\* Every step of the queue keeps the inductive invariant.
LEMMA NextPreserves ==
    ASSUME IInv, [Next]_vars
    PROVE  IInv'
  <1>1. ASSUME NEW t \in Threads, Moves(t) PROVE IInv'
    BY <1>1, MovesType, MovesLocations, MovesRing DEF IInv
  <1>2. ASSUME NEW o \in Observers, GetSize(o) PROVE IInv'
    BY <1>2
    DEF IInv, TypeOK, MutualExclusion, WaitersListed, LoopExitHolds,
        RingConsistent, NoGarbage, GetSize
  <1>3. CASE UNCHANGED vars
    BY <1>3
    DEF IInv, TypeOK, MutualExclusion, WaitersListed, LoopExitHolds,
        RingConsistent, NoGarbage, vars
  <1>4. ASSUME NEW t \in Threads, Call(t) \/ Step(t) \/ SpuriousWakeup(t)
        PROVE  Moves(t) \/ EnqueueCopy(t) \/ DequeueCopy(t)
    BY <1>4 DEF Call, Step, Moves
  <1> QED BY <1>1, <1>2, <1>3, <1>4, EnqueueCopyPreserves, DequeueCopyPreserves DEF Next

\* The inductive invariant holds in every reachable state, for every number of
\* callers and every buffer_size.
THEOREM Invariance == Spec => []IInv
  <1>1. Init => IInv
    BY InitEstablishes
  <1>2. IInv /\ [Next]_vars => IInv'
    BY NextPreserves
  <1> QED BY <1>1, <1>2, PTL DEF Spec

\* Types: in particular size never leaves 0 .. buffer_size.
THEOREM TypeCorrect == Spec => []TypeOK
  BY Invariance, PTL DEF IInv

\* enqueue's and dequeue's critical sections never overlap, although every
\* wait gives the mutex up in the middle of one.
THEOREM MutualExclusionHolds == Spec => []MutualExclusion
  BY Invariance, PTL DEF IInv

\* head, tail and size agree about which slots are in use.
THEOREM RingConsistentHolds == Spec => []RingConsistent
  BY Invariance, PTL DEF IInv

\* dequeue never returns an uninitialised slot.
THEOREM NoGarbageHolds == Spec => []NoGarbage
  BY Invariance, PTL DEF IInv

---------------------------------------------------------------------------
(* The ring buffer implements the bounded FIFO.                            *)

\* The slots from head on, read around the ring, are a sequence of items.
LEMMA RingIsSeq ==
    ASSUME NEW n \in Nat, NEW b, NEW h,
           \A i \in 1 .. n : b[(h + i) % buffer_size] \in Items
    PROVE  LET c == [i \in 1 .. n |-> b[(h + i) % buffer_size]]
           IN  c \in Seq(Items) /\ Len(c) = n
  <1> DEFINE c == [i \in 1 .. n |-> b[(h + i) % buffer_size]]
  <1>1. c \in [1 .. n -> Items] /\ DOMAIN c = 1 .. n
    OBVIOUS
  <1>2. c \in Seq(Items)
    BY <1>1, SeqDef
  <1> HIDE DEF c
  <1>3. Len(c) = n
    BY <1>1, <1>2, LenProperties
  <1> QED BY <1>2, <1>3 DEF c

\* The abstract contents are as long as size says and hold the queued slots.
LEMMA ContentsIsSeq ==
    ASSUME IInv
    PROVE  /\ Contents \in Seq(Items)
           /\ Len(Contents) = size
           /\ \A i \in 1 .. size : Contents[i] = buffer[(head + i) % buffer_size]
  <1>1. size \in Nat
    BY QueueAssumption DEF IInv, TypeOK
  <1> QED BY <1>1, RingIsSeq DEF IInv, NoGarbage, Contents

\* The same in the next state.
LEMMA ContentsIsSeqAfter ==
    ASSUME IInv'
    PROVE  /\ Contents' \in Seq(Items)
           /\ Len(Contents') = size'
           /\ \A i \in 1 .. size' : Contents'[i] = buffer'[(head' + i) % buffer_size]
  <1>1. size' \in Nat
    BY QueueAssumption DEF IInv, TypeOK
  <1> QED BY <1>1, RingIsSeq DEF IInv, NoGarbage, Contents

\* enqueue's stores append the caller's item.
LEMMA EnqueueCopyAppends ==
    ASSUME IInv, IInv', NEW t \in Threads, EnqueueCopy(t)
    PROVE  FIFO!Enqueue(t)
  <1>1. /\ size < buffer_size /\ size' = size + 1 /\ head' = head /\ item' = item
        /\ buffer' = [buffer EXCEPT ![tail] = item[t]]
    BY DEF IInv, LoopExitHolds, EnqueueCopy, StoreSlot
  <1>2. /\ Contents' \in Seq(Items) /\ Len(Contents') = size + 1
        /\ \A i \in 1 .. size + 1 : Contents'[i] = buffer'[(head + i) % buffer_size]
    <2>1. /\ Contents' \in Seq(Items) /\ Len(Contents') = size'
          /\ \A i \in 1 .. size' : Contents'[i] = buffer'[(head' + i) % buffer_size]
      BY ContentsIsSeqAfter
    <2> QED BY <1>1, <2>1
  <1>3. /\ Append(Contents, item[t]) \in Seq(Items)
        /\ Len(Append(Contents, item[t])) = size + 1
        /\ \A i \in 1 .. size : Append(Contents, item[t])[i] = Contents[i]
        /\ Append(Contents, item[t])[size + 1] = item[t]
    BY ContentsIsSeq, AppendProperties DEF IInv, TypeOK, NoGarbage
  <1>4. ASSUME NEW i \in 1 .. size + 1
        PROVE  Contents'[i] = Append(Contents, item[t])[i]
    <2>1. CASE i = size + 1
      BY <1>1, <1>2, <1>3, <2>1 DEF IInv, TypeOK, RingConsistent
    <2>2. CASE i \in 1 .. size
      BY <1>1, <1>2, <1>3, <2>2, TailIsFree, ContentsIsSeq DEF IInv, TypeOK
    <2>3. i = size + 1 \/ i \in 1 .. size
      BY QueueAssumption DEF IInv, TypeOK
    <2> QED BY <2>1, <2>2, <2>3
  <1>5. Contents' = Append(Contents, item[t])
    BY <1>2, <1>3, <1>4, SeqEqual
  <1> QED BY <1>1, <1>5, ContentsIsSeq DEF FIFO!Enqueue

\* dequeue's loads take the oldest item.
LEMMA DequeueCopyTakesHead ==
    ASSUME IInv, IInv', NEW t \in Threads, DequeueCopy(t)
    PROVE  FIFO!Dequeue(t)
  <1>1. /\ size > 0 /\ size' = size - 1 /\ buffer' = buffer
        /\ item' = [item EXCEPT ![t] = buffer[(head + 1) % buffer_size]]
    BY DEF IInv, TypeOK, LoopExitHolds, DequeueCopy, SizeAfterDequeue, Succ
  <1>2. \A i \in 1 .. size - 1 :
            (head' + i) % buffer_size = (head + (i + 1)) % buffer_size
    BY DequeueCopyPreserves
  <1>3. /\ Contents' \in Seq(Items) /\ Len(Contents') = size - 1
        /\ \A i \in 1 .. size - 1 : Contents'[i] = buffer[(head' + i) % buffer_size]
    <2>1. /\ Contents' \in Seq(Items) /\ Len(Contents') = size'
          /\ \A i \in 1 .. size' : Contents'[i] = buffer'[(head' + i) % buffer_size]
      BY ContentsIsSeqAfter
    <2> QED BY <1>1, <2>1
  <1>4. Contents # << >> /\ Head(Contents) = buffer[(head + 1) % buffer_size]
    <2>1. Contents # << >>
      BY <1>1, ContentsIsSeq, EmptySeq DEF IInv, TypeOK
    <2>2. Head(Contents) = Contents[1]
      BY <2>1, ContentsIsSeq
    <2> QED BY <1>1, <2>1, <2>2, ContentsIsSeq DEF IInv, TypeOK
  <1>5. /\ Tail(Contents) \in Seq(Items) /\ Len(Tail(Contents)) = size - 1
        /\ \A i \in 1 .. size - 1 : Tail(Contents)[i] = Contents[i + 1]
    BY <1>4, ContentsIsSeq, HeadTailProperties
  <1>6. ASSUME NEW i \in 1 .. size - 1
        PROVE  Contents'[i] = Tail(Contents)[i]
    <2>1. i + 1 \in 1 .. size
      BY QueueAssumption DEF IInv, TypeOK
    <2>2. Contents'[i] = buffer[(head + (i + 1)) % buffer_size]
      BY <1>2, <1>3
    <2> QED BY <1>5, <2>1, <2>2, ContentsIsSeq
  <1>7. Contents' = Tail(Contents)
    BY <1>3, <1>5, <1>6, SeqEqual
  <1> QED BY <1>1, <1>4, <1>7 DEF FIFO!Dequeue

\* For every number of callers and every buffer_size, the ring buffer with its
\* mutex and condition variables is an atomic bounded FIFO queue.
THEOREM Refinement == Spec => ImplementsFIFO
  <1>1. Init => FIFO!Init
    <2> SUFFICES ASSUME Init PROVE FIFO!Init
      OBVIOUS
    <2>1. Contents = << >>
      BY InitEstablishes, ContentsIsSeq, EmptySeq DEF Init
    <2> QED BY <2>1 DEF Init, FIFO!Init, Threads
  <1>2. IInv /\ IInv' /\ [Next]_vars => [FIFO!Next]_(FIFO!vars)
    <2> SUFFICES ASSUME IInv, IInv', [Next]_vars
                 PROVE  FIFO!Next \/ UNCHANGED FIFO!vars
      OBVIOUS
    <2>1. ASSUME UNCHANGED <<buffer, size, head>>
          PROVE  Contents' = Contents
      BY <2>1 DEF Contents
    <2>2. ASSUME NEW t \in Threads, Moves(t)
          PROVE  FIFO!Next \/ UNCHANGED FIFO!vars
      <3>1. UNCHANGED <<buffer, size, head>>
        BY <2>2, MovesRing
      <3>2. item' = item \/ \E v \in Items : item' = [item EXCEPT ![t] = v]
        BY <2>2 DEF Moves, CallEnqueue, CallDequeue, Lock, Unlock, SpuriousWakeup,
                    EnqueueTest, EnqueueSignal, DequeueTest, DequeueSignal
      <3> QED BY <2>1, <3>1, <3>2 DEF FIFO!Next, FIFO!Offer, FIFO!vars, Threads
    <2>3. CASE UNCHANGED vars \/ \E o \in Observers : GetSize(o)
      BY <2>1, <2>3 DEF vars, GetSize, FIFO!vars
    <2>4. ASSUME NEW t \in Threads, EnqueueCopy(t) PROVE FIFO!Next
      BY <2>4, EnqueueCopyAppends DEF FIFO!Next
    <2>5. ASSUME NEW t \in Threads, DequeueCopy(t) PROVE FIFO!Next
      BY <2>5, DequeueCopyTakesHead DEF FIFO!Next
    <2>6. ASSUME NEW t \in Threads, Call(t) \/ Step(t) \/ SpuriousWakeup(t)
          PROVE  Moves(t) \/ EnqueueCopy(t) \/ DequeueCopy(t)
      BY <2>6 DEF Call, Step, Moves
    <2> QED BY <2>2, <2>3, <2>4, <2>5, <2>6 DEF Next
  <1> QED BY <1>1, <1>2, Invariance, PTL DEF Spec, ImplementsFIFO, FIFO!Spec


---------------------------------------------------------------------------
(* One signal per item, and per free slot, is enough.                      *)

\* Awake dequeuers that will take an item, enqueuers that will announce one.
Taking == At(Dequeuers, {"lock", "test", "copy"})
Announcing == At(Enqueuers, {"signal"})

\* Awake enqueuers that will fill a slot, dequeuers that will announce one.
Filling == At(Enqueuers, {"lock", "test", "copy"})
Freeing == At(Dequeuers, {"signal"})

\* The four sets are finite, before and after a step.
LEMMA CallersFinite ==
    /\ IsFiniteSet(Taking) /\ IsFiniteSet(Announcing)
    /\ IsFiniteSet(Filling) /\ IsFiniteSet(Freeing)
    /\ Cardinality(Taking) \in Nat /\ Cardinality(Announcing) \in Nat
    /\ Cardinality(Filling) \in Nat /\ Cardinality(Freeing) \in Nat
  <1>1. /\ Taking \subseteq Dequeuers /\ Freeing \subseteq Dequeuers
        /\ Announcing \subseteq Enqueuers /\ Filling \subseteq Enqueuers
    BY DEF Taking, Announcing, Filling, Freeing, At
  <1> QED BY <1>1, QueueAssumption, FS_Subset, FS_CardinalityType

LEMMA CallersFiniteAfter ==
    /\ IsFiniteSet(Taking') /\ IsFiniteSet(Announcing')
    /\ IsFiniteSet(Filling') /\ IsFiniteSet(Freeing')
    /\ Cardinality(Taking') \in Nat /\ Cardinality(Announcing') \in Nat
    /\ Cardinality(Filling') \in Nat /\ Cardinality(Freeing') \in Nat
  <1>1. /\ Taking' \subseteq Dequeuers /\ Freeing' \subseteq Dequeuers
        /\ Announcing' \subseteq Enqueuers /\ Filling' \subseteq Enqueuers
    BY DEF Taking, Announcing, Filling, Freeing, At
  <1> QED BY <1>1, QueueAssumption, FS_Subset, FS_CardinalityType

\* A step after which at least as many callers take and announce as before,
\* and no more items are queued.
LEMMA ItemsStillCovered ==
    ASSUME TypeOK, TypeOK', NoLostItemWakeup,
           Taking \subseteq Taking', Announcing \subseteq Announcing',
           size' = size, cond_dequeue' \subseteq cond_dequeue
    PROVE  NoLostItemWakeup'
  <1>1. Cardinality(Taking) <= Cardinality(Taking')
    BY CallersFiniteAfter, FS_Subset
  <1>2. Cardinality(Announcing) <= Cardinality(Announcing')
    BY CallersFiniteAfter, FS_Subset
  <1>3. cond_dequeue' # {} => size <= Cardinality(Taking) + Cardinality(Announcing)
    BY DEF NoLostItemWakeup, Taking, Announcing
  <1>4. cond_dequeue' # {} => size' <= Cardinality(Taking') + Cardinality(Announcing')
    BY <1>1, <1>2, <1>3, CallersFinite, CallersFiniteAfter DEF TypeOK
  <1> QED BY <1>4 DEF NoLostItemWakeup, Taking, Announcing

\* While a dequeue sleeps, every step keeps a caller for each queued item.
LEMMA ItemWakeup ==
    ASSUME IInv, IInv', NoLostItemWakeup, [Next]_vars
    PROVE  NoLostItemWakeup'
  <1> DEFINE Same == /\ Taking \subseteq Taking' /\ Announcing \subseteq Announcing'
                     /\ size' = size /\ cond_dequeue' \subseteq cond_dequeue
  <1>1. /\ TypeOK /\ TypeOK' /\ WaitersListed /\ WaitersListed' /\ LoopExitHolds
        /\ Enqueuers \cap Dequeuers = {}
        /\ pc \in [Threads -> Locations] /\ cond_dequeue \subseteq Dequeuers
        /\ cond_enqueue \subseteq Enqueuers /\ size \in Nat
    BY QueueAssumption DEF IInv, TypeOK
  <1>2. Same => NoLostItemWakeup'
    BY <1>1, ItemsStillCovered
  <1>3. cond_dequeue # {} => size <= Cardinality(Taking) + Cardinality(Announcing)
    BY DEF NoLostItemWakeup, Taking, Announcing
  <1>4. NoLostItemWakeup' <=>
           (cond_dequeue' # {} => size' <= Cardinality(Taking') + Cardinality(Announcing'))
    BY DEF NoLostItemWakeup, Taking, Announcing
  <1>5. ASSUME NEW t \in Threads,
               \/ (\E v \in Items : CallEnqueue(t, v)) \/ CallDequeue(t) \/ Lock(t) \/ Unlock(t)
               \/ EnqueueTest(t)
        PROVE  Same
    BY <1>1, <1>5 DEF CallEnqueue, CallDequeue, Lock, Unlock, EnqueueTest, Goto,
                      Taking, Announcing, At, Threads
  <1>6. ASSUME NEW t \in Threads, SpuriousWakeup(t) PROVE Same
    BY <1>1, <1>6 DEF SpuriousWakeup, Goto, Taking, Announcing, At, Threads
  <1>7. ASSUME NEW t \in Threads, EnqueueCopy(t) PROVE NoLostItemWakeup'
    <2>1. /\ size' = size + 1 /\ cond_dequeue' = cond_dequeue
          /\ pc[t] = "copy" /\ t \in Enqueuers /\ pc' = [pc EXCEPT ![t] = "signal"]
      BY <1>7 DEF EnqueueCopy, Goto
    <2>2. Taking' = Taking
      BY <1>1, <2>1 DEF Taking, At, Threads
    <2>3. t \notin Announcing /\ t \in Announcing' /\ \A u : u # t => (u \in Announcing <=> u \in Announcing')
      BY <1>1, <2>1 DEF Announcing, At, Threads
    <2>4. Cardinality(Announcing') = Cardinality(Announcing) + 1
      BY <2>3, CallersFinite, OneMoves
    <2> QED BY <1>1, <1>3, <1>4, <2>1, <2>2, <2>4, CallersFinite
  <1>8. ASSUME NEW t \in Threads, EnqueueSignal(t) PROVE NoLostItemWakeup'
    <2>1. CASE cond_dequeue = {}
      BY <1>4, <1>8, <2>1 DEF EnqueueSignal
    <2>2. CASE cond_dequeue # {}
      <3>1. PICK w \in cond_dequeue : pc' = [pc EXCEPT ![t] = "unlock", ![w] = "lock"]
        BY <1>8, <2>2 DEF EnqueueSignal, Signalled
      <3>2. /\ t \in Enqueuers /\ pc[t] = "signal" /\ size' = size
            /\ w \in Dequeuers /\ pc[w] = "wait"
        BY <1>1, <1>8, <3>1 DEF EnqueueSignal, WaitersListed, Threads
      <3>3. w \notin Taking /\ w \in Taking' /\ \A u : u # w => (u \in Taking <=> u \in Taking')
        BY <1>1, <3>1, <3>2 DEF Taking, At, Threads
      <3>4. t \in Announcing /\ t \notin Announcing' /\ \A u : u # t => (u \in Announcing <=> u \in Announcing')
        BY <1>1, <3>1, <3>2 DEF Announcing, At, Threads
      <3>5. /\ Cardinality(Taking') = Cardinality(Taking) + 1
            /\ Cardinality(Announcing) = Cardinality(Announcing') + 1
        BY <3>3, <3>4, CallersFinite, OneMoves
      <3> QED BY <1>1, <1>3, <1>4, <2>2, <3>2, <3>5, CallersFinite, CallersFiniteAfter
    <2> QED BY <2>1, <2>2
  <1>9. ASSUME NEW t \in Threads, DequeueTest(t) PROVE NoLostItemWakeup'
    <2>1. CASE Empty
      <3>1. size' = 0
        BY <1>9, <2>1 DEF DequeueTest, Empty
      <3> QED BY <1>4, <3>1, CallersFiniteAfter
    <2>2. CASE ~Empty
      <3>1. Same
        BY <1>1, <1>9, <2>2 DEF DequeueTest, Goto, Taking, Announcing, At, Threads
      <3> QED BY <1>2, <3>1
    <2> QED BY <2>1, <2>2
  <1>10. ASSUME NEW t \in Threads, DequeueCopy(t) PROVE NoLostItemWakeup'
    <2>1. /\ size' = size - 1 /\ cond_dequeue' = cond_dequeue
          /\ pc[t] = "copy" /\ t \in Dequeuers /\ pc' = [pc EXCEPT ![t] = "signal"]
      BY <1>10 DEF DequeueCopy, Goto, SizeAfterDequeue
    <2>2. Announcing' = Announcing
      BY <1>1, <2>1 DEF Announcing, At, Threads
    <2>3. t \in Taking /\ t \notin Taking' /\ \A u : u # t => (u \in Taking <=> u \in Taking')
      BY <1>1, <2>1 DEF Taking, At, Threads
    <2>4. Cardinality(Taking) = Cardinality(Taking') + 1
      BY <2>3, CallersFinite, OneMoves
    <2> QED BY <1>1, <1>3, <1>4, <2>1, <2>2, <2>4, CallersFinite, CallersFiniteAfter
  <1>11. ASSUME NEW t \in Threads, DequeueSignal(t) PROVE Same
    <2>1. /\ t \in Dequeuers /\ pc[t] = "signal" /\ size' = size
          /\ cond_dequeue' = cond_dequeue
          /\ \/ pc' = [pc EXCEPT ![t] = "unlock"]
             \/ \E w \in Enqueuers : pc[w] = "wait" /\ pc' = [pc EXCEPT ![t] = "unlock", ![w] = "lock"]
      BY <1>1, <1>11 DEF DequeueSignal, Signalled, Goto, WaitersListed, Threads
    <2> QED BY <1>1, <2>1 DEF Taking, Announcing, At, Threads
  <1>12. ASSUME (\E o \in Observers : GetSize(o)) \/ UNCHANGED vars PROVE Same
    BY <1>12 DEF GetSize, vars, Taking, Announcing, At
  <1> HIDE DEF Same
  <1> QED BY <1>2, <1>5, <1>6, <1>7, <1>8, <1>9, <1>10, <1>11, <1>12 DEF Next, Call, Step

\* The same for free slots, the enqueuers that fill and the dequeuers that
\* announce them.
LEMMA RoomStillCovered ==
    ASSUME TypeOK, TypeOK', NoLostRoomWakeup,
           Filling \subseteq Filling', Freeing \subseteq Freeing',
           size' = size, cond_enqueue' \subseteq cond_enqueue
    PROVE  NoLostRoomWakeup'
  <1>1. Cardinality(Filling) <= Cardinality(Filling')
    BY CallersFiniteAfter, FS_Subset
  <1>2. Cardinality(Freeing) <= Cardinality(Freeing')
    BY CallersFiniteAfter, FS_Subset
  <1>3. cond_enqueue' # {} => buffer_size - size <= Cardinality(Filling) + Cardinality(Freeing)
    BY DEF NoLostRoomWakeup, Filling, Freeing
  <1>4. cond_enqueue' # {} => buffer_size - size' <= Cardinality(Filling') + Cardinality(Freeing')
    BY <1>1, <1>2, <1>3, CallersFinite, CallersFiniteAfter, QueueAssumption DEF TypeOK
  <1> QED BY <1>4 DEF NoLostRoomWakeup, Filling, Freeing

\* While an enqueue sleeps, every step keeps a caller for each free slot.
LEMMA RoomWakeup ==
    ASSUME IInv, IInv', NoLostRoomWakeup, [Next]_vars
    PROVE  NoLostRoomWakeup'
  <1> DEFINE Same == /\ Filling \subseteq Filling' /\ Freeing \subseteq Freeing'
                     /\ size' = size /\ cond_enqueue' \subseteq cond_enqueue
  <1>1. /\ TypeOK /\ TypeOK' /\ WaitersListed /\ WaitersListed' /\ LoopExitHolds
        /\ Enqueuers \cap Dequeuers = {}
        /\ pc \in [Threads -> Locations] /\ cond_enqueue \subseteq Enqueuers
        /\ cond_dequeue \subseteq Dequeuers /\ size \in Nat /\ buffer_size \in Nat
    BY QueueAssumption DEF IInv, TypeOK
  <1>2. Same => NoLostRoomWakeup'
    BY <1>1, RoomStillCovered
  <1>3. cond_enqueue # {} => buffer_size - size <= Cardinality(Filling) + Cardinality(Freeing)
    BY DEF NoLostRoomWakeup, Filling, Freeing
  <1>4. NoLostRoomWakeup' <=>
           (cond_enqueue' # {} => buffer_size - size' <= Cardinality(Filling') + Cardinality(Freeing'))
    BY DEF NoLostRoomWakeup, Filling, Freeing
  <1>5. ASSUME NEW t \in Threads,
               \/ (\E v \in Items : CallEnqueue(t, v)) \/ CallDequeue(t) \/ Lock(t) \/ Unlock(t)
               \/ DequeueTest(t)
        PROVE  Same
    BY <1>1, <1>5 DEF CallEnqueue, CallDequeue, Lock, Unlock, DequeueTest, Goto,
                      Filling, Freeing, At, Threads
  <1>6. ASSUME NEW t \in Threads, SpuriousWakeup(t) PROVE Same
    BY <1>1, <1>6 DEF SpuriousWakeup, Goto, Filling, Freeing, At, Threads
  <1>7. ASSUME NEW t \in Threads, DequeueCopy(t) PROVE NoLostRoomWakeup'
    <2>1. /\ size' = size - 1 /\ cond_enqueue' = cond_enqueue
          /\ pc[t] = "copy" /\ t \in Dequeuers /\ pc' = [pc EXCEPT ![t] = "signal"]
      BY <1>7 DEF DequeueCopy, Goto, SizeAfterDequeue
    <2>2. Filling' = Filling
      BY <1>1, <2>1 DEF Filling, At, Threads
    <2>3. t \notin Freeing /\ t \in Freeing' /\ \A u : u # t => (u \in Freeing <=> u \in Freeing')
      BY <1>1, <2>1 DEF Freeing, At, Threads
    <2>4. Cardinality(Freeing') = Cardinality(Freeing) + 1
      BY <2>3, CallersFinite, OneMoves
    <2> QED BY <1>1, <1>3, <1>4, <2>1, <2>2, <2>4, CallersFinite
  <1>8. ASSUME NEW t \in Threads, DequeueSignal(t) PROVE NoLostRoomWakeup'
    <2>1. CASE cond_enqueue = {}
      BY <1>4, <1>8, <2>1 DEF DequeueSignal
    <2>2. CASE cond_enqueue # {}
      <3>1. PICK w \in cond_enqueue : pc' = [pc EXCEPT ![t] = "unlock", ![w] = "lock"]
        BY <1>8, <2>2 DEF DequeueSignal, Signalled
      <3>2. /\ t \in Dequeuers /\ pc[t] = "signal" /\ size' = size
            /\ w \in Enqueuers /\ pc[w] = "wait"
        BY <1>1, <1>8, <3>1 DEF DequeueSignal, WaitersListed, Threads
      <3>3. w \notin Filling /\ w \in Filling' /\ \A u : u # w => (u \in Filling <=> u \in Filling')
        BY <1>1, <3>1, <3>2 DEF Filling, At, Threads
      <3>4. t \in Freeing /\ t \notin Freeing' /\ \A u : u # t => (u \in Freeing <=> u \in Freeing')
        BY <1>1, <3>1, <3>2 DEF Freeing, At, Threads
      <3>5. /\ Cardinality(Filling') = Cardinality(Filling) + 1
            /\ Cardinality(Freeing) = Cardinality(Freeing') + 1
        BY <3>3, <3>4, CallersFinite, OneMoves
      <3> QED BY <1>1, <1>3, <1>4, <2>2, <3>2, <3>5, CallersFinite, CallersFiniteAfter
    <2> QED BY <2>1, <2>2
  <1>9. ASSUME NEW t \in Threads, EnqueueTest(t) PROVE NoLostRoomWakeup'
    <2>1. CASE Full
      <3>1. size' = buffer_size
        BY <1>9, <2>1 DEF EnqueueTest, Full
      <3> QED BY <1>1, <1>4, <3>1, CallersFiniteAfter
    <2>2. CASE ~Full
      <3>1. Same
        BY <1>1, <1>9, <2>2 DEF EnqueueTest, Goto, Filling, Freeing, At, Threads
      <3> QED BY <1>2, <3>1
    <2> QED BY <2>1, <2>2
  <1>10. ASSUME NEW t \in Threads, EnqueueCopy(t) PROVE NoLostRoomWakeup'
    <2>1. /\ size' = size + 1 /\ cond_enqueue' = cond_enqueue
          /\ pc[t] = "copy" /\ t \in Enqueuers /\ pc' = [pc EXCEPT ![t] = "signal"]
      BY <1>10 DEF EnqueueCopy, Goto
    <2>2. Freeing' = Freeing
      BY <1>1, <2>1 DEF Freeing, At, Threads
    <2>3. t \in Filling /\ t \notin Filling' /\ \A u : u # t => (u \in Filling <=> u \in Filling')
      BY <1>1, <2>1 DEF Filling, At, Threads
    <2>4. Cardinality(Filling) = Cardinality(Filling') + 1
      BY <2>3, CallersFinite, OneMoves
    <2> QED BY <1>1, <1>3, <1>4, <2>1, <2>2, <2>4, CallersFinite, CallersFiniteAfter
  <1>11. ASSUME NEW t \in Threads, EnqueueSignal(t) PROVE Same
    <2>1. /\ t \in Enqueuers /\ pc[t] = "signal" /\ size' = size
          /\ cond_enqueue' = cond_enqueue
          /\ \/ pc' = [pc EXCEPT ![t] = "unlock"]
             \/ \E w \in Dequeuers : pc[w] = "wait" /\ pc' = [pc EXCEPT ![t] = "unlock", ![w] = "lock"]
      BY <1>1, <1>11 DEF EnqueueSignal, Signalled, Goto, WaitersListed, Threads
    <2> QED BY <1>1, <2>1 DEF Filling, Freeing, At, Threads
  <1>12. ASSUME (\E o \in Observers : GetSize(o)) \/ UNCHANGED vars PROVE Same
    BY <1>12 DEF GetSize, vars, Filling, Freeing, At
  <1> HIDE DEF Same
  <1> QED BY <1>2, <1>5, <1>6, <1>7, <1>8, <1>9, <1>10, <1>11, <1>12 DEF Next, Call, Step

\* enqueue signals once per item (pthread_cond_signal, not broadcast): whatever
\* thread it wakes, and however that one is overtaken on its way to the mutex,
\* no item lies in the queue unnoticed while a dequeue sleeps.
THEOREM NoLostItemWakeupHolds == Spec => []NoLostItemWakeup
  <1>1. Init => NoLostItemWakeup
    BY DEF Init, NoLostItemWakeup
  <1>2. IInv /\ IInv' /\ NoLostItemWakeup /\ [Next]_vars => NoLostItemWakeup'
    BY ItemWakeup
  <1> QED BY <1>1, <1>2, Invariance, PTL DEF Spec

\* dequeue signals once per free slot: no slot stays free unnoticed while an
\* enqueue sleeps.
THEOREM NoLostRoomWakeupHolds == Spec => []NoLostRoomWakeup
  <1>1. Init => NoLostRoomWakeup
    BY DEF Init, NoLostRoomWakeup
  <1>2. IInv /\ IInv' /\ NoLostRoomWakeup /\ [Next]_vars => NoLostRoomWakeup'
    BY RoomWakeup
  <1> QED BY <1>1, <1>2, Invariance, PTL DEF Spec
=============================================================================
