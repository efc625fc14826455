-------------------------- MODULE SchedulerProofs --------------------------
(***************************************************************************)
(* Proofs about Scheduler: the ready lists hold exactly the READY threads, *)
(* each once and on no better list than its priority earns, L1 stays       *)
(* nearly sorted, one thread runs, and it loses the processor only to a    *)
(* better one.                                                             *)
(*                                                                         *)
(* The state between two statements of a handler (a thread READY but not   *)
(* yet on a list, or already taken off one) is what most steps go through, *)
(* so the lists are described against the set of threads that ought to be  *)
(* on them, and lemmas say what Append, RemoveFront and Remove do to it.   *)
(***************************************************************************)
EXTENDS Scheduler, DataLemmas

---------------------------------------------------------------------------
(* Sequences: what list.cc does to one list.                               *)

\* r is s with t put in at position i.
IsInsertion(r, s, i, t) ==
    /\ i \in 1 .. Len(s) + 1
    /\ Len(r) = Len(s) + 1
    /\ \A j \in 1 .. Len(s) + 1 :
         r[j] = IF j < i THEN s[j] ELSE IF j = i THEN t ELSE s[j - 1]

\* The search from the front of a list stops at the least index there is.
LEMMA LeastIndex ==
    ASSUME NEW I \in SUBSET Nat, I # {}
    PROVE  Min(I) \in I /\ \A y \in I : Min(I) <= y
  <1>1. \E x \in I : \A y \in I : x =< y
    BY LeastNat
  <1> QED BY <1>1 DEF Min

\* What the search of List::Remove and the iterator finds: where x is.
LEMMA SearchFindsOne ==
    ASSUME NEW S, NEW s \in Seq(S), NEW x \in Range(s),
           NEW i, i = LET I == {j \in 1 .. Len(s) : s[j] = x}
                      IN  IF I # {} THEN Min(I) ELSE 0
    PROVE  i \in 1 .. Len(s) /\ s[i] = x
  <1> DEFINE I == {j \in 1 .. Len(s) : s[j] = x}
  <1>1. Len(s) \in Nat /\ DOMAIN s = 1 .. Len(s)
    BY LenProperties
  <1>2. I # {} /\ I \in SUBSET Nat
    BY <1>1 DEF Range
  <1>3. i = IF I # {} THEN Min(I) ELSE 0
    OBVIOUS
  <1>4. i \in I
    <2> HIDE DEF I
    <2> QED BY <1>2, <1>3, LeastIndex
  <1> QED BY <1>4

\* Append puts the thread in at the end.
LEMMA AppendInserts ==
    ASSUME NEW S, NEW s \in Seq(S), NEW t \in S
    PROVE  Append(s, t) \in Seq(S) /\ IsInsertion(Append(s, t), s, Len(s) + 1, t)
  <1>1. Len(s) \in Nat
    BY LenProperties
  <1>2. /\ Append(s, t) \in Seq(S) /\ Len(Append(s, t)) = Len(s) + 1
        /\ \A i \in 1 .. Len(s) : Append(s, t)[i] = s[i]
        /\ Append(s, t)[Len(s) + 1] = t
    BY AppendProperties
  <1> QED BY <1>1, <1>2 DEF IsInsertion

\* InsertAt puts it in where it says.
LEMMA InsertAtInserts ==
    ASSUME NEW S, NEW s \in Seq(S), NEW t \in S, NEW i \in 1 .. Len(s)
    PROVE  InsertAt(s, i, t) \in Seq(S) /\ IsInsertion(InsertAt(s, i, t), s, i, t)
  <1> DEFINE a == SubSeq(s, 1, i - 1)
             b == SubSeq(s, i, Len(s))
             o == <<t>>
  <1>1. Len(s) \in Nat /\ i \in Nat /\ i >= 1 /\ i <= Len(s)
    BY LenProperties
  <1>2. /\ a \in Seq(S) /\ Len(a) = i - 1
        /\ \A j \in 1 .. i - 1 : a[j] = s[j]
    <2>1. \A j \in 1 .. i - 1 : s[j] \in S
      BY <1>1, ElementOfSeq
    <2> QED BY <1>1, <2>1, SubSeqProperties
  <1>3. /\ b \in Seq(S) /\ Len(b) = Len(s) - i + 1
        /\ \A j \in 1 .. Len(s) - i + 1 : b[j] = s[i + j - 1]
    <2>1. \A j \in i .. Len(s) : s[j] \in S
      BY <1>1, ElementOfSeq
    <2> QED BY <1>1, <2>1, SubSeqProperties
  <1>4. o \in Seq(S) /\ Len(o) = 1 /\ o[1] = t
    OBVIOUS
  <1>5. InsertAt(s, i, t) = (a \o o) \o b
    BY DEF InsertAt
  <1> DEFINE c == a \o o
             r == c \o b
  <1> HIDE DEF a, b, o
  <1>6. /\ c \in Seq(S) /\ Len(c) = i
        /\ \A j \in 1 .. i : c[j] = IF j < i THEN s[j] ELSE t
    <2>1. /\ c \in Seq(S) /\ Len(c) = Len(a) + Len(o)
          /\ \A j \in 1 .. Len(a) + Len(o) : c[j] = IF j <= Len(a) THEN a[j] ELSE o[j - Len(a)]
      BY <1>2, <1>4, ConcatProperties
    <2> HIDE DEF c
    <2> QED BY <1>1, <1>2, <1>4, <2>1
  <1> HIDE DEF c
  <1>7. /\ r \in Seq(S) /\ Len(r) = Len(s) + 1
        /\ \A j \in 1 .. Len(s) + 1 : r[j] = IF j <= i THEN c[j] ELSE b[j - i]
    <2>1. /\ r \in Seq(S) /\ Len(r) = Len(c) + Len(b)
          /\ \A j \in 1 .. Len(c) + Len(b) : r[j] = IF j <= Len(c) THEN c[j] ELSE b[j - Len(c)]
      BY <1>3, <1>6, ConcatProperties
    <2> HIDE DEF r
    <2> QED BY <1>1, <1>3, <1>6, <2>1
  <1>8. ASSUME NEW j \in 1 .. Len(s) + 1
        PROVE  r[j] = IF j < i THEN s[j] ELSE IF j = i THEN t ELSE s[j - 1]
    <2>1. CASE j <= i
      BY <1>1, <1>6, <1>7, <2>1
    <2>2. CASE j > i
      <3>1. j - i \in 1 .. Len(s) - i + 1 /\ i + (j - i) - 1 = j - 1
        BY <1>1, <2>2
      <3>2. r[j] = b[j - i] /\ b[j - i] = s[j - 1]
        BY <1>1, <1>3, <1>7, <2>2, <3>1
      <3> QED BY <1>1, <2>2, <3>2
    <2>3. j \in Nat /\ i \in Nat
      BY <1>1
    <2> HIDE DEF r
    <2> QED BY <2>1, <2>2, <2>3
  <1>9. InsertAt(s, i, t) = r
    BY <1>5 DEF c
  <1> HIDE DEF r
  <1> QED BY <1>1, <1>7, <1>8, <1>9 DEF IsInsertion

\* Inserting adds the thread to the list's members and doubles none.
LEMMA InsertionAdds ==
    ASSUME NEW S, NEW s \in Seq(S), NEW r \in Seq(S), NEW i, NEW t,
           IsInsertion(r, s, i, t)
    PROVE  /\ Range(r) = Range(s) \cup {t}
           /\ Distinct(s) /\ t \notin Range(s) => Distinct(r)
  <1>1. /\ Len(s) \in Nat /\ DOMAIN s = 1 .. Len(s)
        /\ DOMAIN r = 1 .. Len(s) + 1 /\ i \in 1 .. Len(s) + 1
        /\ \A j \in 1 .. Len(s) + 1 :
             r[j] = IF j < i THEN s[j] ELSE IF j = i THEN t ELSE s[j - 1]
    BY LenProperties DEF IsInsertion
  <1>2. ASSUME NEW j \in DOMAIN r
        PROVE  \/ j = i /\ r[j] = t
               \/ j < i /\ j \in DOMAIN s /\ r[j] = s[j]
               \/ j > i /\ j - 1 \in DOMAIN s /\ r[j] = s[j - 1]
    BY <1>1
  <1>3. ASSUME NEW j \in DOMAIN s
        PROVE  \/ j \in DOMAIN r /\ r[j] = s[j]
               \/ j + 1 \in DOMAIN r /\ r[j + 1] = s[j]
    <2>1. CASE j < i
      BY <1>1, <2>1
    <2>2. CASE ~(j < i)
      <3>1. j + 1 \in 1 .. Len(s) + 1 /\ ~(j + 1 < i) /\ j + 1 # i /\ (j + 1) - 1 = j
        BY <1>1, <2>2
      <3> QED BY <1>1, <3>1
    <2> QED BY <2>1, <2>2
  <1>4. Range(r) \subseteq Range(s) \cup {t}
    BY <1>2 DEF Range
  <1>5. i \in DOMAIN r /\ r[i] = t
    BY <1>1
  <1>6. Range(s) \subseteq Range(r) /\ t \in Range(r)
    BY <1>3, <1>5 DEF Range
  <1>7. ASSUME Distinct(s), t \notin Range(s) PROVE Distinct(r)
    <2> SUFFICES ASSUME NEW j \in DOMAIN r, NEW k \in DOMAIN r, r[j] = r[k] PROVE j = k
      BY DEF Distinct
    <2>1. \A m \in DOMAIN s : s[m] # t
      BY <1>7 DEF Range
    <2>2. \A m, n \in DOMAIN s : s[m] = s[n] => m = n
      BY <1>7 DEF Distinct
    <2>3. j \in Nat /\ k \in Nat /\ i \in Nat
      BY <1>1
    <2>4. CASE j = i
      BY <1>2, <2>1, <2>4
    <2>5. CASE k = i
      BY <1>2, <2>1, <2>5
    <2>6. CASE j # i /\ k # i
      <3> DEFINE p == IF j < i THEN j ELSE j - 1
                 q == IF k < i THEN k ELSE k - 1
      <3>1. p \in DOMAIN s /\ r[j] = s[p] /\ q \in DOMAIN s /\ r[k] = s[q]
        BY <1>2, <2>3, <2>6
      <3>2. p = q
        <4> HIDE DEF p, q
        <4> QED BY <2>2, <3>1
      <3> QED BY <2>3, <2>6, <3>2
    <2> QED BY <2>4, <2>5, <2>6
  <1> QED BY <1>4, <1>6, <1>7

\* SortedList::Insert puts the thread in front of the first one that orders
\* after it.
LEMMA SortedInsertInserts ==
    ASSUME NEW S, NEW s \in Seq(S), NEW t \in S, NEW A
    PROVE  \E i \in 1 .. Len(s) + 1 :
             /\ SortedInsert(s, t, A) \in Seq(S)
             /\ IsInsertion(SortedInsert(s, t, A), s, i, t)
             /\ \A j \in 1 .. Len(s) : j < i => s[j] \notin A
             /\ i # Len(s) + 1 => s[i] \in A
  <1> DEFINE I == {j \in 1 .. Len(s) : s[j] \in A}
             i == IF I # {} THEN Min(I) ELSE 0
  <1>1. SortedInsert(s, t, A) = IF i = 0 THEN Append(s, t) ELSE InsertAt(s, i, t)
    BY DEF SortedInsert, SelectInSeq
  <1>2. Len(s) \in Nat
    BY LenProperties
  <1>3. /\ i \in 0 .. Len(s)
        /\ i = 0 => \A j \in 1 .. Len(s) : s[j] \notin A
        /\ i # 0 => s[i] \in A /\ \A j \in 1 .. Len(s) : j < i => s[j] \notin A
    <2>1. i = IF I # {} THEN Min(I) ELSE 0
      OBVIOUS
    <2>2. CASE I = {}
      BY <1>2, <2>1, <2>2
    <2>3. CASE I # {}
      <3>1. Min(I) \in I /\ \A y \in I : Min(I) <= y
        <4>1. I \in SUBSET Nat
          BY <1>2
        <4> QED BY <4>1, <2>3, LeastIndex
      <3>2. i = Min(I)
        BY <2>1, <2>3
      <3>3. i \in I /\ \A y \in I : i <= y
        BY <3>1, <3>2
      <3>4. i \in 1 .. Len(s) /\ s[i] \in A /\ \A j \in 1 .. Len(s) : s[j] \in A => i <= j
        BY <3>3
      <3>5. i \in Nat /\ i # 0 /\ i <= Len(s)
        BY <1>2, <3>4
      <3>6. ASSUME NEW j \in 1 .. Len(s), j < i PROVE s[j] \notin A
        BY <3>4, <3>5, <3>6
      <3> QED BY <1>2, <3>4, <3>5, <3>6
    <2> QED BY <2>2, <2>3
  <1> HIDE DEF i
  <1>4. CASE i = 0
    <2>1. /\ SortedInsert(s, t, A) \in Seq(S)
          /\ IsInsertion(SortedInsert(s, t, A), s, Len(s) + 1, t)
      BY <1>1, <1>4, AppendInserts
    <2>2. Len(s) + 1 \in 1 .. Len(s) + 1
      BY <1>2
    <2> QED BY <1>3, <1>4, <2>1, <2>2
  <1>5. CASE i # 0
    <2>1. i \in 1 .. Len(s) /\ i \in 1 .. Len(s) + 1
      BY <1>3, <1>2, <1>5
    <2>2. /\ SortedInsert(s, t, A) \in Seq(S)
          /\ IsInsertion(SortedInsert(s, t, A), s, i, t)
      BY <1>1, <1>5, <2>1, InsertAtInserts
    <2> QED BY <1>3, <1>5, <2>1, <2>2
  <1> QED BY <1>4, <1>5

\* List::Remove takes out the one element it is asked to.
LEMMA RemoveFirstRemoves ==
    ASSUME NEW S, NEW s \in Seq(S), Distinct(s), NEW x \in Range(s)
    PROVE  /\ RemoveFirst(s, x) \in Seq(S)
           /\ Range(RemoveFirst(s, x)) = Range(s) \ {x}
           /\ Distinct(RemoveFirst(s, x))
  <1> DEFINE I == {j \in 1 .. Len(s) : s[j] = x}
             i == IF I # {} THEN Min(I) ELSE 0
             a == SubSeq(s, 1, i - 1)
             b == SubSeq(s, i + 1, Len(s))
             r == a \o b
  <1>1. Len(s) \in Nat /\ DOMAIN s = 1 .. Len(s)
    BY LenProperties
  <1>2. i \in 1 .. Len(s) /\ s[i] = x
    BY SearchFindsOne
  <1>3. RemoveFirst(s, x) = r
    <2>1. \E j \in 1 .. Len(s) : s[j] = x
      BY <1>1 DEF Range
    <2> QED BY <2>1 DEF RemoveFirst, RemoveAt, SelectInSeq
  <1> HIDE DEF i
  <1>4. /\ a \in Seq(S) /\ Len(a) = i - 1
        /\ \A j \in 1 .. i - 1 : a[j] = s[j]
    <2>1. \A j \in 1 .. i - 1 : s[j] \in S
      BY <1>1, <1>2, ElementOfSeq
    <2> QED BY <1>1, <1>2, <2>1, SubSeqProperties
  <1>5. /\ b \in Seq(S) /\ Len(b) = Len(s) - i
        /\ \A j \in 1 .. Len(s) - i : b[j] = s[i + j]
    <2>1. \A j \in i + 1 .. Len(s) : s[j] \in S
      BY <1>1, <1>2, ElementOfSeq
    <2>2. i + 1 \in Int /\ Len(s) \in Int /\ i + 1 <= Len(s) + 1
      BY <1>1, <1>2
    <2>3. /\ b \in Seq(S) /\ Len(b) = Len(s) - (i + 1) + 1
          /\ \A j \in 1 .. Len(s) - (i + 1) + 1 : b[j] = s[i + 1 + j - 1]
      BY <2>1, <2>2, SubSeqProperties
    <2>4. Len(s) - (i + 1) + 1 = Len(s) - i /\ \A j \in Int : i + 1 + j - 1 = i + j
      BY <2>2, <1>1, <1>2
    <2>5. 1 .. Len(s) - i \subseteq Int
      BY <2>2, <1>1, <1>2
    <2> HIDE DEF b
    <2> QED BY <2>3, <2>4, <2>5
  <1> HIDE DEF a, b
  <1>6. /\ r \in Seq(S) /\ Len(r) = Len(a) + Len(b)
        /\ \A j \in 1 .. Len(a) + Len(b) : r[j] = IF j <= Len(a) THEN a[j] ELSE b[j - Len(a)]
    BY <1>4, <1>5, ConcatProperties
  <1> HIDE DEF r
  <1>7. DOMAIN r = 1 .. Len(s) - 1
    BY <1>1, <1>2, <1>4, <1>5, <1>6, LenProperties
  <1>8. ASSUME NEW j \in 1 .. Len(s) - 1
        PROVE  r[j] = s[IF j < i THEN j ELSE j + 1]
    <2> /\ Len(a) = i - 1 /\ Len(a) + Len(b) = Len(s) - 1
        /\ j \in 1 .. Len(a) + Len(b) /\ j \in Nat /\ i \in Nat
      BY <1>1, <1>2, <1>4, <1>5
    <2> r[j] = IF j <= Len(a) THEN a[j] ELSE b[j - Len(a)]
      BY <1>6
    <2>1. CASE j < i
      <3>1. j \in 1 .. i - 1 /\ j <= Len(a)
        BY <2>1
      <3> QED BY <1>4, <2>1, <3>1
    <2>2. CASE ~(j < i)
      <3>1. j - (i - 1) \in 1 .. Len(s) - i /\ i + (j - (i - 1)) = j + 1
        BY <1>1, <1>2, <2>2
      <3>2. ~(j <= Len(a)) /\ j - Len(a) = j - (i - 1)
        BY <2>2
      <3> QED BY <1>5, <2>2, <3>1, <3>2
    <2> QED BY <2>1, <2>2
  <1>9. \A m, n \in DOMAIN s : s[m] = s[n] => m = n
    BY DEF Distinct
  <1>10. Distinct(r)
    <2> SUFFICES ASSUME NEW j \in 1 .. Len(s) - 1, NEW k \in 1 .. Len(s) - 1, r[j] = r[k]
                 PROVE  j = k
      BY <1>7 DEF Distinct
    <2> DEFINE p == IF j < i THEN j ELSE j + 1
               q == IF k < i THEN k ELSE k + 1
    <2>1. p \in DOMAIN s /\ q \in DOMAIN s /\ s[p] = s[q]
      BY <1>1, <1>2, <1>8
    <2>2. p = q
      <3> HIDE DEF p, q
      <3> QED BY <1>9, <2>1
    <2> QED BY <1>1, <1>2, <2>2
  <1>11. Range(r) \subseteq Range(s) \ {x}
    <2> SUFFICES ASSUME NEW j \in 1 .. Len(s) - 1 PROVE r[j] \in Range(s) /\ r[j] # x
      BY <1>7 DEF Range
    <2> DEFINE p == IF j < i THEN j ELSE j + 1
    <2>1. p \in DOMAIN s /\ r[j] = s[p] /\ p # i /\ i \in DOMAIN s
      BY <1>1, <1>2, <1>8
    <2> HIDE DEF p
    <2> QED BY <1>2, <1>9, <2>1 DEF Range
  <1>12. Range(s) \ {x} \subseteq Range(r)
    <2> SUFFICES ASSUME NEW m \in 1 .. Len(s), s[m] # x PROVE s[m] \in Range(r)
      BY <1>1 DEF Range
    <2> DEFINE j == IF m < i THEN m ELSE m - 1
    <2>1. j \in 1 .. Len(s) - 1 /\ (IF j < i THEN j ELSE j + 1) = m
      BY <1>1, <1>2
    <2> HIDE DEF j
    <2>2. r[j] = s[m]
      BY <1>8, <2>1
    <2> QED BY <1>7, <2>1, <2>2 DEF Range
  <1> QED BY <1>3, <1>6, <1>10, <1>11, <1>12

---------------------------------------------------------------------------
(* The three lists.                                                        *)

\* A thread with its ThreadStateController, between any two statements.
TCBs == [status : Statuses, priority : 0 .. 149, since : Nat, burst : 0 .. MaxBurst,
         remain : 0 .. Scale * MaxBurst, waits : 0 .. MaxWaits]

\* The lists q hold the threads of R, each once and on one list.
Lists(q, R) ==
    /\ q \in [1 .. 3 -> Seq(Threads)]
    /\ \A l \in 1 .. 3 : Distinct(q[l])
    /\ \A l, m \in 1 .. 3 : l # m => Range(q[l]) \cap Range(q[m]) = {}
    /\ \A t : t \in R <=> \E l \in 1 .. 3 : t \in Range(q[l])

\* No thread is on a better list than its priority earns.
Levels(ths, q) == \A l \in 1 .. 3 : \A t \in Range(q[l]) : LevelOf(ths[t]) <= l

\* Those behind a thread have at most one tick less to run than it has.
NearlySorted(ths, s) ==
    \A i, j \in 1 .. Len(s) :
      i < j => RemainTime(ths[s[j]]) > RemainTime(ths[s[i]]) - Scale

Kept(ths, q, R) == Lists(q, R) /\ Levels(ths, q) /\ NearlySorted(ths, q[1])

\* Remaining times are numbers, and levels are lists.
LEMMA Numbers ==
    ASSUME NEW r \in TCBs
    PROVE  /\ RemainTime(r) \in Int /\ LevelOf(r) \in 1 .. 3
           /\ Scale \in Nat \ {0}
  <1>1. /\ Scale \in Nat \ {0} /\ MaxBurst \in Nat
        /\ Scale * MaxBurst \in Nat
    BY ScaleAssumption, SchedulerAssumption
  <1> DEFINE n == r.burst + (IF r.status = "RUNNING" THEN r.since ELSE 0)
  <1>2. r.burst \in Nat /\ r.since \in Nat /\ r.remain \in Nat
    <2>1. r.burst \in 0 .. MaxBurst /\ r.since \in Nat /\ r.remain \in 0 .. Scale * MaxBurst
      BY DEF TCBs
    <2> QED BY <1>1, <2>1
  <1>3. n \in Nat
    BY <1>2
  <1> HIDE DEF n
  <1>4. r.remain - Scale * n \in Int
    BY <1>1, <1>2, <1>3
  <1>5. RemainTime(r) = r.remain - Scale * n
    BY DEF RemainTime, n
  <1>6. LevelOf(r) \in 1 .. 3
    BY DEF LevelOf
  <1> QED BY <1>1, <1>4, <1>5, <1>6

\* What Append of MultilevelThreadQueue does: one list gets one thread, L1 in
\* front of the first thread with at least a tick more to run.
LEMMA InsertedIs ==
    ASSUME NEW ths \in [Threads -> TCBs], NEW q \in [1 .. 3 -> Seq(Threads)], NEW t \in Threads
    PROVE  LET l == LevelOf(ths[t])
               r == Inserted(ths, q, t)
           IN  /\ l \in 1 .. 3 /\ r \in [1 .. 3 -> Seq(Threads)]
               /\ \A m \in 1 .. 3 : m # l => r[m] = q[m]
               /\ \E i \in 1 .. Len(q[l]) + 1 :
                    /\ IsInsertion(r[l], q[l], i, t)
                    /\ l = 1 => /\ \A j \in 1 .. Len(q[1]) :
                                     j < i => ~TimeBefore(ths[t], ths[q[1][j]])
                                /\ i # Len(q[1]) + 1 => TimeBefore(ths[t], ths[q[1][i]])
  <1> DEFINE l == LevelOf(ths[t])
             r == Inserted(ths, q, t)
             A == {x \in ToSet(q[l]) : TimeBefore(ths[t], ths[x])}
             B == {x \in ToSet(q[l]) : PriorityBefore(ths[t], ths[x])}
             new == CASE l = 1 -> SortedInsert(q[l], t, A)
                      [] l = 2 -> SortedInsert(q[l], t, B)
                      [] l = 3 -> Append(q[l], t)
  <1>1. l \in 1 .. 3
    BY Numbers
  <1>2. r = [q EXCEPT ![l] = new]
    BY <1>1 DEF Inserted
  <1>3. q[l] \in Seq(Threads) /\ Len(q[l]) \in Nat /\ DOMAIN q[l] = 1 .. Len(q[l])
    BY <1>1, LenProperties
  <1>4. /\ new \in Seq(Threads)
        /\ \E i \in 1 .. Len(q[l]) + 1 :
             /\ IsInsertion(new, q[l], i, t)
             /\ l = 1 => /\ \A j \in 1 .. Len(q[l]) : j < i => q[l][j] \notin A
                         /\ i # Len(q[l]) + 1 => q[l][i] \in A
    <2>1. CASE l = 1
      <3>1. new = SortedInsert(q[l], t, A)
        BY <2>1
      <3> HIDE DEF new, l, A
      <3> QED BY <1>3, <3>1, SortedInsertInserts
    <2>2. CASE l = 2
      <3>1. new = SortedInsert(q[l], t, B)
        BY <2>2
      <3>2. l # 1
        BY <2>2
      <3> HIDE DEF new, l, B
      <3>3. /\ SortedInsert(q[l], t, B) \in Seq(Threads)
            /\ \E i \in 1 .. Len(q[l]) + 1 : IsInsertion(SortedInsert(q[l], t, B), q[l], i, t)
        BY <1>3, SortedInsertInserts
      <3> QED BY <3>1, <3>2, <3>3
    <2>3. CASE l = 3
      <3>1. new = Append(q[l], t)
        BY <2>3
      <3>2. l # 1
        BY <2>3
      <3> HIDE DEF new, l
      <3>3. Append(q[l], t) \in Seq(Threads) /\ IsInsertion(Append(q[l], t), q[l], Len(q[l]) + 1, t)
        BY <1>3, AppendInserts
      <3>4. Len(q[l]) + 1 \in 1 .. Len(q[l]) + 1
        BY <1>3
      <3> QED BY <3>1, <3>2, <3>3, <3>4
    <2> HIDE DEF l, new, A
    <2>4. l = 1 \/ l = 2 \/ l = 3
      BY <1>1
    <2> QED BY <2>1, <2>2, <2>3, <2>4
  <1> HIDE DEF new
  <1>5. /\ r \in [1 .. 3 -> Seq(Threads)] /\ r[l] = new
        /\ \A m \in 1 .. 3 : m # l => r[m] = q[m]
    <2> HIDE DEF r, l
    <2> QED BY <1>1, <1>2, <1>4
  <1>6. PICK i \in 1 .. Len(q[l]) + 1 :
             /\ IsInsertion(new, q[l], i, t)
             /\ l = 1 => /\ \A j \in 1 .. Len(q[l]) : j < i => q[l][j] \notin A
                         /\ i # Len(q[l]) + 1 => q[l][i] \in A
    BY <1>4
  <1>7. ASSUME l = 1
        PROVE  /\ \A j \in 1 .. Len(q[1]) : j < i => ~TimeBefore(ths[t], ths[q[1][j]])
               /\ i # Len(q[1]) + 1 => TimeBefore(ths[t], ths[q[1][i]])
    <2>1. \A j \in 1 .. Len(q[l]) : q[l][j] \in ToSet(q[l])
      BY <1>3 DEF ToSet
    <2>2. \A j \in 1 .. Len(q[l]) : q[l][j] \in A <=> TimeBefore(ths[t], ths[q[l][j]])
      BY <2>1
    <2>3. \A j \in 1 .. Len(q[l]) : j < i => ~TimeBefore(ths[t], ths[q[l][j]])
      BY <1>6, <1>7, <2>2
    <2>4. i # Len(q[l]) + 1 => TimeBefore(ths[t], ths[q[l][i]])
      BY <1>6, <1>7
    <2> HIDE DEF l
    <2> QED BY <1>7, <2>3, <2>4
  <1> HIDE DEF r, l
  <1>8. \E k \in 1 .. Len(q[l]) + 1 :
          /\ IsInsertion(r[l], q[l], k, t)
          /\ l = 1 => /\ \A j \in 1 .. Len(q[1]) : j < k => ~TimeBefore(ths[t], ths[q[1][j]])
                      /\ k # Len(q[1]) + 1 => TimeBefore(ths[t], ths[q[1][k]])
    BY <1>5, <1>6, <1>7
  <1> QED BY <1>1, <1>5, <1>8 DEF r, l

\* Putting a thread on its list keeps the lists as they should be.
LEMMA InsertKeeps ==
    ASSUME NEW ths \in [Threads -> TCBs], NEW q, NEW R, Kept(ths, q, R),
           NEW t \in Threads, t \notin R
    PROVE  Kept(ths, Inserted(ths, q, t), R \cup {t})
  <1> DEFINE l == LevelOf(ths[t])
             r == Inserted(ths, q, t)
  <1>0. q \in [1 .. 3 -> Seq(Threads)] /\ Lists(q, R)
    BY DEF Kept, Lists
  <1>1. /\ l \in 1 .. 3 /\ r \in [1 .. 3 -> Seq(Threads)]
        /\ \A m \in 1 .. 3 : m # l => r[m] = q[m]
        /\ \E i \in 1 .. Len(q[l]) + 1 :
             /\ IsInsertion(r[l], q[l], i, t)
             /\ l = 1 => /\ \A j \in 1 .. Len(q[1]) : j < i => ~TimeBefore(ths[t], ths[q[1][j]])
                         /\ i # Len(q[1]) + 1 => TimeBefore(ths[t], ths[q[1][i]])
    BY <1>0, InsertedIs
  <1> HIDE DEF r
  <1>2. PICK i \in 1 .. Len(q[l]) + 1 :
             /\ IsInsertion(r[l], q[l], i, t)
             /\ l = 1 => /\ \A j \in 1 .. Len(q[1]) : j < i => ~TimeBefore(ths[t], ths[q[1][j]])
                         /\ i # Len(q[1]) + 1 => TimeBefore(ths[t], ths[q[1][i]])
    BY <1>1
  <1> HIDE DEF l
  <1>3. q[l] \in Seq(Threads) /\ r[l] \in Seq(Threads)
    BY <1>0, <1>1
  <1>4. t \notin Range(q[l]) /\ Distinct(q[l])
    BY <1>0, <1>1 DEF Lists
  <1>5. Range(r[l]) = Range(q[l]) \cup {t} /\ Distinct(r[l])
    BY <1>2, <1>3, <1>4, InsertionAdds
  <1>6. Lists(r, R \cup {t})
    <2>1. \A m \in 1 .. 3 : Distinct(r[m])
      <3> SUFFICES ASSUME NEW m \in 1 .. 3 PROVE Distinct(r[m])
        OBVIOUS
      <3> QED BY <1>0, <1>1, <1>5 DEF Lists
    <2>2. ASSUME NEW m \in 1 .. 3, NEW n \in 1 .. 3, m # n, NEW x, x \in Range(r[m]), x \in Range(r[n])
          PROVE  FALSE
      <3>1. \A k \in 1 .. 3 : t \notin Range(q[k])
        BY <1>0 DEF Lists
      <3>2. Range(q[m]) \cap Range(q[n]) = {}
        BY <1>0, <2>2 DEF Lists
      <3>3. CASE m = l
        BY <1>1, <1>5, <2>2, <3>1, <3>2, <3>3
      <3>4. CASE n = l
        BY <1>1, <1>5, <2>2, <3>1, <3>2, <3>4
      <3>5. CASE m # l /\ n # l
        BY <1>1, <2>2, <3>2, <3>5
      <3> QED BY <3>3, <3>4, <3>5
    <2>3. ASSUME NEW x PROVE x \in R \cup {t} <=> \E m \in 1 .. 3 : x \in Range(r[m])
      <3>1. x \in R <=> \E m \in 1 .. 3 : x \in Range(q[m])
        BY <1>0 DEF Lists
      <3>2. \A m \in 1 .. 3 : x \in Range(r[m]) <=> x \in Range(q[m]) \/ (m = l /\ x = t)
        BY <1>1, <1>5
      <3> QED BY <1>1, <3>1, <3>2
    <2> QED BY <1>1, <2>1, <2>2, <2>3 DEF Lists
  <1>7. Levels(ths, r)
    <2> SUFFICES ASSUME NEW m \in 1 .. 3, NEW x \in Range(r[m]) PROVE LevelOf(ths[x]) <= m
      BY DEF Levels
    <2>1. CASE x \in Range(q[m])
      BY <2>1 DEF Kept, Levels
    <2>2. CASE x \notin Range(q[m])
      <3>1. m = l /\ x = t
        BY <1>1, <1>5, <2>2
      <3> QED BY <1>1, <3>1 DEF l
    <2> QED BY <2>1, <2>2
  <1>8. NearlySorted(ths, r[1])
    <2>1. CASE l # 1
      <3>1. r[1] = q[1]
        BY <1>1, <2>1
      <3> QED BY <3>1 DEF Kept
    <2>2. CASE l = 1
      <3> DEFINE s == q[1]
                 u == r[1]
                 rem(x) == RemainTime(ths[x])
      <3>1. /\ s \in Seq(Threads) /\ Len(s) \in Nat
            /\ i \in 1 .. Len(s) + 1 /\ Len(u) = Len(s) + 1
            /\ \A j \in 1 .. Len(s) + 1 :
                 u[j] = IF j < i THEN s[j] ELSE IF j = i THEN t ELSE s[j - 1]
        BY <1>2, <1>3, <2>2, LenProperties DEF IsInsertion
      <3>2. \A x \in Threads : rem(x) \in Int
        BY Numbers
      <3>3. Scale \in Nat \ {0}
        BY ScaleAssumption
      <3>4. \A j \in 1 .. Len(s) : s[j] \in Threads
        BY <3>1, ElementOfSeq
      <3>5. \A j, k \in 1 .. Len(s) : j < k => rem(s[k]) > rem(s[j]) - Scale
        BY DEF Kept, NearlySorted
      <3>6. \A j \in 1 .. Len(s) : j < i => rem(t) > rem(s[j]) - Scale
        <4> SUFFICES ASSUME NEW j \in 1 .. Len(s), j < i PROVE rem(t) > rem(s[j]) - Scale
          OBVIOUS
        <4>1. ~TimeBefore(ths[t], ths[s[j]])
          BY <1>2, <2>2
        <4>2. ~(rem(s[j]) - rem(t) >= Scale)
          BY <4>1 DEF TimeBefore
        <4>3. rem(t) \in Int /\ rem(s[j]) \in Int
          BY <3>2, <3>4
        <4> HIDE DEF rem, s
        <4> QED BY <3>3, <4>2, <4>3
      <3>7. i # Len(s) + 1 => i \in 1 .. Len(s) /\ rem(s[i]) - rem(t) >= Scale
        BY <1>2, <2>2, <3>1 DEF TimeBefore
      <3> HIDE DEF rem, s
      <3>8. \A k \in 1 .. Len(s) : k >= i => rem(s[k]) > rem(t) - Scale
        <4> SUFFICES ASSUME NEW k \in 1 .. Len(s), k >= i PROVE rem(s[k]) > rem(t) - Scale
          OBVIOUS
        <4>1. i \in 1 .. Len(s) /\ rem(s[i]) - rem(t) >= Scale
          BY <3>1, <3>7
        <4>2. rem(s[k]) \in Int /\ rem(s[i]) \in Int /\ rem(t) \in Int
          BY <3>2, <3>4, <4>1
        <4>3. k = i \/ rem(s[k]) > rem(s[i]) - Scale
          BY <3>5, <4>1
        <4> QED BY <3>3, <4>1, <4>2, <4>3
      <3> HIDE DEF u
      <3>9. ASSUME NEW j \in 1 .. Len(u), NEW k \in 1 .. Len(u), j < k
            PROVE  rem(u[k]) > rem(u[j]) - Scale
        <4>1. j \in 1 .. Len(s) + 1 /\ k \in 1 .. Len(s) + 1 /\ i \in Nat /\ Len(s) \in Nat
          BY <3>1
        <4>2. CASE k < i
          <5>1. j < i /\ j \in 1 .. Len(s) /\ k \in 1 .. Len(s)
            BY <3>1, <3>9, <4>1, <4>2
          <5>2. u[j] = s[j] /\ u[k] = s[k]
            BY <3>1, <4>1, <4>2, <5>1
          <5> QED BY <3>5, <3>9, <5>1, <5>2
        <4>3. CASE k = i
          <5>1. j < i /\ j \in 1 .. Len(s)
            BY <3>1, <3>9, <4>1, <4>3
          <5>2. u[j] = s[j] /\ u[k] = t
            BY <3>1, <4>1, <4>3, <5>1
          <5> QED BY <3>6, <5>1, <5>2
        <4>4. CASE k > i /\ j < i
          <5>1. j \in 1 .. Len(s) /\ k - 1 \in 1 .. Len(s) /\ j < k - 1
            BY <3>1, <4>1, <4>4
          <5>2. u[j] = s[j] /\ u[k] = s[k - 1]
            BY <3>1, <4>1, <4>4
          <5> QED BY <3>5, <5>1, <5>2
        <4>5. CASE k > i /\ j = i
          <5>1. k - 1 \in 1 .. Len(s) /\ k - 1 >= i
            BY <3>1, <4>1, <4>5
          <5>2. u[j] = t /\ u[k] = s[k - 1]
            BY <3>1, <4>1, <4>5
          <5> QED BY <3>8, <5>1, <5>2
        <4>6. CASE k > i /\ j > i
          <5>1. j - 1 \in 1 .. Len(s) /\ k - 1 \in 1 .. Len(s) /\ j - 1 < k - 1
            BY <3>1, <3>9, <4>1, <4>6
          <5>2. u[j] = s[j - 1] /\ u[k] = s[k - 1]
            BY <3>1, <4>1, <4>6
          <5> QED BY <3>5, <5>1, <5>2
        <4> QED BY <4>1, <4>2, <4>3, <4>4, <4>5, <4>6
      <3> QED BY <3>9 DEF NearlySorted, u, rem
    <2> QED BY <2>1, <2>2
  <1> QED BY <1>6, <1>7, <1>8 DEF Kept, r

\* Taking a list's threads x out keeps the lists as they should be, if what is
\* left of L1 is nearly sorted.
LEMMA TakeOutKeeps ==
    ASSUME NEW ths, NEW q, NEW R, Kept(ths, q, R),
           NEW l \in 1 .. 3, NEW x \in Range(q[l]),
           NEW s \in Seq(Threads), Range(s) = Range(q[l]) \ {x}, Distinct(s),
           l = 1 => NearlySorted(ths, s)
    PROVE  x \in R /\ Kept(ths, [q EXCEPT ![l] = s], R \ {x})
  <1> DEFINE r == [q EXCEPT ![l] = s]
  <1>1. Lists(q, R) /\ Levels(ths, q) /\ NearlySorted(ths, q[1])
    BY DEF Kept
  <1>2. q \in [1 .. 3 -> Seq(Threads)]
    BY <1>1 DEF Lists
  <1>3. /\ r \in [1 .. 3 -> Seq(Threads)] /\ r[l] = s
        /\ \A m \in 1 .. 3 : m # l => r[m] = q[m]
    BY <1>2
  <1> HIDE DEF r
  <1>4. \A m \in 1 .. 3 : Distinct(r[m])
    <2> SUFFICES ASSUME NEW m \in 1 .. 3 PROVE Distinct(r[m])
      OBVIOUS
    <2>1. Distinct(q[m])
      BY <1>1 DEF Lists
    <2> QED BY <1>3, <2>1
  <1>5. \A m, n \in 1 .. 3 : m # n => Range(q[m]) \cap Range(q[n]) = {}
    BY <1>1 DEF Lists
  <1>6. \A m \in 1 .. 3 : Range(r[m]) = Range(q[m]) \ {x}
    <2> SUFFICES ASSUME NEW m \in 1 .. 3 PROVE Range(r[m]) = Range(q[m]) \ {x}
      OBVIOUS
    <2>1. CASE m = l
      BY <1>3, <2>1
    <2>2. CASE m # l
      BY <1>3, <1>5, <2>2
    <2> QED BY <2>1, <2>2
  <1>7. \A t : t \in R <=> \E m \in 1 .. 3 : t \in Range(q[m])
    BY <1>1 DEF Lists
  <1>8. Lists(r, R \ {x})
    BY <1>3, <1>4, <1>5, <1>6, <1>7 DEF Lists
  <1>9. Levels(ths, r)
    BY <1>1, <1>6 DEF Levels
  <1>10. NearlySorted(ths, r[1])
    <2>1. CASE l = 1
      BY <1>3, <2>1
    <2>2. CASE l # 1
      BY <1>1, <1>3, <2>2
    <2> QED BY <2>1, <2>2
  <1> QED BY <1>7, <1>8, <1>9, <1>10 DEF Kept, r

\* RemoveFront gives a thread of the first list that is not empty.
LEMMA FrontKeeps ==
    ASSUME NEW ths \in [Threads -> TCBs], NEW q, NEW R, Kept(ths, q, R), ~IsEmpty(q)
    PROVE  /\ Front1(q) \in R /\ Front1(q) \in Threads
           /\ Kept(ths, WithoutFront(q), R \ {Front1(q)})
           /\ LevelOf(ths[Front1(q)]) <= FrontLevel(q)
  <1> DEFINE l == FrontLevel(q)
             f == Front1(q)
  <1>1. l \in 1 .. 3 /\ q[l] # << >>
    BY DEF FrontLevel, IsEmpty
  <1>2. q[l] \in Seq(Threads) /\ Distinct(q[l])
    BY <1>1 DEF Kept, Lists
  <1>3. f = Head(q[l]) /\ WithoutFront(q) = [q EXCEPT ![l] = Tail(q[l])]
    BY DEF Front1, WithoutFront
  <1> HIDE DEF f, l
  <1>4. /\ f \in Threads /\ Tail(q[l]) \in Seq(Threads) /\ f \in Range(q[l])
        /\ Range(q[l]) = Range(Tail(q[l])) \cup {f}
        /\ Distinct(Tail(q[l])) /\ f \notin Range(Tail(q[l]))
    BY <1>1, <1>2, <1>3, TakeFront
  <1>5. l = 1 => NearlySorted(ths, Tail(q[l]))
    <2> SUFFICES ASSUME l = 1 PROVE NearlySorted(ths, Tail(q[1]))
      BY <1>1
    <2> DEFINE s == q[1]
               u == Tail(s)
    <2>1. s \in Seq(Threads) /\ s # << >>
      BY <1>1, <1>2
    <2>2. Len(s) \in Nat
      BY <2>1, LenProperties
    <2>3. Len(u) = Len(s) - 1 /\ \A j \in 1 .. Len(u) : u[j] = s[j + 1]
      <3>1. Tail(s) = SubSeq(s, 2, Len(s)) /\ Len(u) = Len(s) - 1
        BY <2>1, TailIsSubSeq, HeadTailProperties
      <3>2. \A j \in 2 .. Len(s) : s[j] \in Threads
        BY <2>1, <2>2, ElementOfSeq
      <3>3. \A j \in 1 .. Len(s) - 2 + 1 : SubSeq(s, 2, Len(s))[j] = s[2 + j - 1]
        BY <2>2, <3>2, SubSeqProperties
      <3> QED BY <2>2, <3>1, <3>3
    <2>4. NearlySorted(ths, s)
      BY DEF Kept
    <2> HIDE DEF s, u
    <2>5. ASSUME NEW j \in 1 .. Len(u), NEW k \in 1 .. Len(u), j < k
          PROVE  RemainTime(ths[u[k]]) > RemainTime(ths[u[j]]) - Scale
      <3>1. j + 1 \in 1 .. Len(s) /\ k + 1 \in 1 .. Len(s) /\ j + 1 < k + 1
        BY <2>2, <2>3, <2>5
      <3>2. u[j] = s[j + 1] /\ u[k] = s[k + 1]
        BY <2>3
      <3> QED BY <2>4, <3>1, <3>2 DEF NearlySorted
    <2>6. NearlySorted(ths, u)
      BY <2>5 DEF NearlySorted
    <2> QED BY <2>6 DEF u, s
  <1>6. Range(Tail(q[l])) = Range(q[l]) \ {f}
    BY <1>4
  <1>7. f \in R /\ Kept(ths, [q EXCEPT ![l] = Tail(q[l])], R \ {f})
    BY <1>1, <1>4, <1>5, <1>6, TakeOutKeeps
  <1>8. LevelOf(ths[f]) <= l
    BY <1>1, <1>4 DEF Kept, Levels
  <1> QED BY <1>3, <1>4, <1>7, <1>8 DEF f, l

\* PromoteThreads takes a thread out of L3 or L2.
LEMMA RemoveKeeps ==
    ASSUME NEW ths, NEW q, NEW R, Kept(ths, q, R), NEW l \in 2 .. 3, NEW x \in Range(q[l])
    PROVE  x \in R /\ Kept(ths, [q EXCEPT ![l] = RemoveFirst(@, x)], R \ {x})
  <1>1. l \in 1 .. 3 /\ l # 1
    OBVIOUS
  <1>2. q[l] \in Seq(Threads) /\ Distinct(q[l])
    BY <1>1 DEF Kept, Lists
  <1>3. /\ RemoveFirst(q[l], x) \in Seq(Threads)
        /\ Range(RemoveFirst(q[l], x)) = Range(q[l]) \ {x}
        /\ Distinct(RemoveFirst(q[l], x))
    BY <1>2, RemoveFirstRemoves
  <1> QED BY <1>1, <1>3, TakeOutKeeps

\* The lists stay as they should be while the threads on them keep their
\* remaining times and lose no priority.
LEMMA AgreeKeeps ==
    ASSUME NEW ths, NEW new, NEW q, NEW R, Kept(ths, q, R),
           \A t \in R : /\ RemainTime(new[t]) = RemainTime(ths[t])
                        /\ LevelOf(new[t]) <= LevelOf(ths[t])
                        /\ LevelOf(new[t]) \in 1 .. 3 /\ LevelOf(ths[t]) \in 1 .. 3
    PROVE  Kept(new, q, R)
  <1>1. Lists(q, R) /\ Levels(ths, q) /\ NearlySorted(ths, q[1])
    BY DEF Kept
  <1>2. \A l \in 1 .. 3 : Range(q[l]) \subseteq R
    BY <1>1 DEF Lists
  <1>3. Levels(new, q)
    <2> SUFFICES ASSUME NEW l \in 1 .. 3, NEW t \in Range(q[l]) PROVE LevelOf(new[t]) <= l
      BY DEF Levels
    <2>1. LevelOf(ths[t]) <= l
      BY <1>1 DEF Levels
    <2>2. t \in R
      BY <1>2
    <2> QED BY <2>1, <2>2
  <1>4. NearlySorted(new, q[1])
    <2>1. q[1] \in Seq(Threads)
      BY <1>1 DEF Lists
    <2>2. \A i \in 1 .. Len(q[1]) : q[1][i] \in R
      BY <1>2, <2>1, LenProperties DEF Range
    <2> QED BY <1>1, <2>2 DEF NearlySorted
  <1> QED BY <1>1, <1>3, <1>4 DEF Kept

\* In particular while nothing happens to the threads on them.
LEMMA SameKeeps ==
    ASSUME NEW ths \in [Threads -> TCBs], NEW new, NEW q, NEW R, Kept(ths, q, R),
           R \subseteq Threads, \A t \in R : new[t] = ths[t]
    PROVE  Kept(new, q, R)
  <1>1. ASSUME NEW t \in R
        PROVE  /\ RemainTime(new[t]) = RemainTime(ths[t])
               /\ LevelOf(new[t]) <= LevelOf(ths[t])
               /\ LevelOf(new[t]) \in 1 .. 3 /\ LevelOf(ths[t]) \in 1 .. 3
    <2>1. new[t] = ths[t] /\ ths[t] \in TCBs
      OBVIOUS
    <2>2. LevelOf(ths[t]) \in 1 .. 3
      BY <2>1, Numbers
    <2>3. RemainTime(new[t]) = RemainTime(ths[t]) /\ LevelOf(new[t]) = LevelOf(ths[t])
      BY <2>1
    <2> QED BY <2>2, <2>3
  <1> QED BY <1>1, AgreeKeeps

---------------------------------------------------------------------------
(* ThreadStateController: what its functions do to one thread.             *)

\* Whole halves and whole boosts.
LEMMA Divisions ==
    ASSUME NEW a \in Nat, NEW b \in Nat \ {0}
    PROVE  a \div b \in Nat /\ a - (a \div b) * b \in 0 .. b - 1
  OBVIOUS

\* Half of what fits twice fits once.
LEMMA Halves ==
    ASSUME NEW a \in Nat, NEW b \in Nat, NEW m \in Nat, a <= m, b <= m
    PROVE  (a + b) \div 2 \in 0 .. m
  OBVIOUS

\* leaveRun adds the time since the thread got the processor to its burst.
LEMMA LeaveRunIs ==
    ASSUME NEW r \in TCBs
    PROVE  /\ LeaveRun(r) \in TCBs
           /\ LeaveRun(r).status = r.status /\ LeaveRun(r).since = 0
           /\ LeaveRun(r).waits = r.waits
  <1>1. /\ r.burst \in 0 .. MaxBurst /\ r.since \in Nat /\ MaxBurst \in Nat
    BY SchedulerAssumption DEF TCBs
  <1>2. Least(r.burst + r.since, MaxBurst) \in 0 .. MaxBurst
    BY <1>1 DEF Least
  <1> QED BY <1>2 DEF LeaveRun, TCBs

\* toReady starts the waiting time and the priority over.
LEMMA ToReadyIs ==
    ASSUME NEW r \in TCBs, NEW t \in Threads
    PROVE  /\ ToReady(r, t) \in TCBs
           /\ ToReady(r, t).status = "READY" /\ ToReady(r, t).since = 0
  <1>1. InitPriority[t] \in 0 .. 149
    BY SchedulerAssumption
  <1> QED BY <1>1 DEF ToReady, TCBs, Statuses

\* What runToWait writes, whatever the ranges of the fields are.
LEMMA BlockTyped ==
    ASSUME NEW S, NEW P, NEW N, NEW B, NEW M, NEW W,
           NEW b \in [status : S, priority : P, since : N, burst : B, remain : M, waits : W],
           NEW s \in S, NEW w \in W, NEW m \in M, NEW x \in B
    PROVE  [b EXCEPT !.status = s, !.waits = w, !.remain = m, !.burst = x]
              \in [status : S, priority : P, since : N, burst : B, remain : M, waits : W]
  OBVIOUS

\* runToWait averages the burst into the remaining time.
LEMMA RunToWaitIs ==
    ASSUME NEW r \in TCBs, r.waits < MaxWaits
    PROVE  /\ RunToWait(r) \in TCBs
           /\ RunToWait(r).status = "WAITING" /\ RunToWait(r).since = 0
  <1> DEFINE b == LeaveRun(r)
             new == (Scale * b.burst + b.remain) \div 2
  <1>1. b \in TCBs /\ b.waits = r.waits /\ b.since = 0
    BY LeaveRunIs
  <1> HIDE DEF b
  <1>2. /\ Scale \in Nat /\ MaxBurst \in Nat /\ Scale * MaxBurst \in Nat
        /\ b.burst \in 0 .. MaxBurst /\ b.remain \in 0 .. Scale * MaxBurst
        /\ b.waits \in 0 .. MaxWaits /\ MaxWaits \in Nat
    BY <1>1, ScaleAssumption, SchedulerAssumption DEF TCBs
  <1>3. Scale * b.burst \in Nat /\ Scale * b.burst <= Scale * MaxBurst
    BY <1>2
  <1>4. new \in 0 .. Scale * MaxBurst
    <2> DEFINE m == Scale * MaxBurst
               x == Scale * b.burst
    <2>1. m \in Nat /\ x \in Nat /\ x <= m /\ b.remain \in Nat /\ b.remain <= m
      BY <1>2, <1>3
    <2> HIDE DEF m, x
    <2>2. (x + b.remain) \div 2 \in 0 .. m
      BY <2>1, Halves
    <2> QED BY <2>2 DEF m, x
  <1>5. b.waits + 1 \in 0 .. MaxWaits
    BY <1>1, <1>2
  <1> HIDE DEF new
  <1>6. RunToWait(r) = [b EXCEPT !.status = "WAITING", !.waits = b.waits + 1,
                                 !.remain = new, !.burst = 0]
    BY DEF RunToWait, b, new
  <1>7. 0 \in 0 .. MaxBurst /\ "WAITING" \in Statuses
    BY <1>2 DEF Statuses
  <1>8. RunToWait(r) \in TCBs
    <2>1. b \in [status : Statuses, priority : 0 .. 149, since : Nat, burst : 0 .. MaxBurst,
                 remain : 0 .. Scale * MaxBurst, waits : 0 .. MaxWaits]
      BY <1>1 DEF TCBs
    <2>2. [b EXCEPT !.status = "WAITING", !.waits = b.waits + 1, !.remain = new, !.burst = 0]
             \in [status : Statuses, priority : 0 .. 149, since : Nat, burst : 0 .. MaxBurst,
                 remain : 0 .. Scale * MaxBurst, waits : 0 .. MaxWaits]
      BY <2>1, <1>4, <1>5, <1>7, BlockTyped
    <2> QED BY <2>2, <1>6 DEF TCBs
  <1>9. RunToWait(r).status = "WAITING" /\ RunToWait(r).since = 0
    BY <1>1, <1>6 DEF TCBs
  <1> QED BY <1>8, <1>9

\* runToTerminated.
LEMMA RunToTerminatedIs ==
    ASSUME NEW r \in TCBs
    PROVE  /\ RunToTerminated(r) \in TCBs
           /\ RunToTerminated(r).status = "TERMINATED" /\ RunToTerminated(r).since = 0
  BY LeaveRunIs DEF RunToTerminated, TCBs, Statuses

\* readyToRunning.
LEMMA ReadyToRunningIs ==
    ASSUME NEW r \in TCBs
    PROVE  /\ ReadyToRunning(r) \in TCBs
           /\ ReadyToRunning(r).status = "RUNNING" /\ ReadyToRunning(r).since = 0
  BY DEF ReadyToRunning, TCBs, Statuses

\* A tick is charged to the running thread and to the waiting time of the ready ones.
LEMMA TickedIs ==
    ASSUME NEW r \in TCBs
    PROVE  /\ Ticked(r) \in TCBs /\ Ticked(r).status = r.status
           /\ r.status = "READY" =>
                /\ Ticked(r).since = r.since + 1
                /\ RemainTime(Ticked(r)) = RemainTime(r) /\ LevelOf(Ticked(r)) = LevelOf(r)
           /\ r.status # "READY" => Ticked(r).since <= MaxBurst \/ Ticked(r).since = r.since
  <1>1. r.since \in Nat /\ MaxBurst \in Nat
    BY SchedulerAssumption DEF TCBs
  <1>2. CASE r.status = "READY"
    <2>1. Ticked(r) = [r EXCEPT !.since = r.since + 1]
      BY <1>2 DEF Ticked
    <2> QED BY <1>1, <1>2, <2>1 DEF TCBs, RemainTime, LevelOf
  <1>3. CASE r.status = "RUNNING"
    <2>1. Ticked(r) = [r EXCEPT !.since = Least(r.since + 1, MaxBurst)]
      BY <1>3 DEF Ticked
    <2>2. Least(r.since + 1, MaxBurst) \in Nat /\ Least(r.since + 1, MaxBurst) <= MaxBurst
      BY <1>1 DEF Least
    <2> QED BY <1>3, <2>1, <2>2 DEF TCBs
  <1>4. CASE r.status \notin {"READY", "RUNNING"}
    <2>1. Ticked(r) = r
      BY <1>4 DEF Ticked
    <2> QED BY <1>4, <2>1
  <1> QED BY <1>2, <1>3, <1>4

\* aging raises the priority and keeps the rest of the waiting time.
LEMMA AgingIs ==
    ASSUME NEW r \in TCBs, r.status = "READY"
    PROVE  /\ Aging(r) \in TCBs /\ Aging(r).status = "READY"
           /\ Aging(r).since < AGING_TICK
           /\ RemainTime(Aging(r)) = RemainTime(r) /\ LevelOf(Aging(r)) <= LevelOf(r)
  <1> DEFINE age == r.since \div AGING_TICK
             left == r.since - age * AGING_TICK
             p == Least(r.priority + 10 * age, 149)
  <1>1. /\ r.since \in Nat /\ AGING_TICK \in Nat \ {0} /\ r.priority \in 0 .. 149
    BY SchedulerAssumption DEF TCBs
  <1>2. age \in Nat /\ left \in 0 .. AGING_TICK - 1
    BY <1>1, Divisions
  <1>3. Aging(r) = [r EXCEPT !.since = left, !.priority = p]
    BY DEF Aging
  <1> HIDE DEF age, left
  <1>4. p \in 0 .. 149 /\ p >= r.priority
    BY <1>1, <1>2 DEF Least
  <1> HIDE DEF p
  <1>5. /\ Aging(r) \in TCBs /\ Aging(r).status = "READY" /\ Aging(r).since = left
        /\ Aging(r).priority = p
    <2>1. left \in Nat
      BY <1>1, <1>2
    <2> QED BY <1>3, <1>4, <2>1 DEF TCBs
  <1>6. RemainTime(Aging(r)) = RemainTime(r)
    BY <1>3 DEF RemainTime, TCBs
  <1>7. LevelOf(Aging(r)) <= LevelOf(r)
    <2>1. p \in Int /\ r.priority \in Int /\ p >= r.priority
      BY <1>1, <1>4
    <2> QED BY <1>5, <2>1 DEF LevelOf
  <1> QED BY <1>1, <1>2, <1>5, <1>6, <1>7

---------------------------------------------------------------------------
(* The threads, the lists and the processor together.                      *)

\* Threads ths, lists q, current thread c, whether the machine idles and the
\* ticks left to the next timer interrupt, as they should be between actions:
\* the lists hold the READY threads, only c runs, and no ready thread has waited
\* longer than until the timer interrupt after its priority boost was earned.
Sound(ths, q, c, idles, left) ==
    /\ ths \in [Threads -> TCBs]
    /\ c \in Threads /\ left \in 0 .. TimerTicks
    /\ Kept(ths, q, {t \in Threads : ths[t].status = "READY"})
    /\ \A t \in Threads : ths[t].status = "RUNNING" <=> t = c /\ ~idles
    /\ \A t \in Threads :
         IF ths[t].status = "READY" THEN ths[t].since + left < AGING_TICK + TimerTicks
         ELSE ths[t].since <= MaxBurst

\* Levels of typed threads are numbers.
LEMMA LevelsAre ==
    ASSUME NEW ths \in [Threads -> TCBs]
    PROVE  \A t \in Threads : LevelOf(ths[t]) \in 1 .. 3
  BY Numbers

\* A tick.
LEMMA TickSound ==
    ASSUME NEW ths, NEW q, NEW c, NEW idles, NEW left, Sound(ths, q, c, idles, left), left # 0
    PROVE  Sound([t \in Threads |-> Ticked(ths[t])], q, c, idles, left - 1)
  <1> DEFINE new == [t \in Threads |-> Ticked(ths[t])]
             R == {t \in Threads : ths[t].status = "READY"}
             Q == {t \in Threads : new[t].status = "READY"}
  <1>1. ths \in [Threads -> TCBs] /\ left \in 0 .. TimerTicks /\ Kept(ths, q, R)
    BY DEF Sound
  <1>2. /\ TimerTicks \in Nat /\ AGING_TICK \in Nat /\ MaxBurst \in Nat
    BY SchedulerAssumption
  <1>3. \A t \in Threads : /\ ths[t] \in TCBs /\ new[t] = Ticked(ths[t]) /\ ths[t].since \in Nat
    BY <1>1 DEF TCBs
  <1>4. \A t \in Threads :
          /\ new[t] \in TCBs /\ new[t].status = ths[t].status
          /\ ths[t].status = "READY" =>
               /\ new[t].since = ths[t].since + 1
               /\ RemainTime(new[t]) = RemainTime(ths[t]) /\ LevelOf(new[t]) = LevelOf(ths[t])
          /\ ths[t].status # "READY" => new[t].since <= MaxBurst \/ new[t].since = ths[t].since
    BY <1>3, TickedIs
  <1>5. new \in [Threads -> TCBs] /\ Q = R
    BY <1>4
  <1> HIDE DEF new
  <1>6. \A t \in R : LevelOf(ths[t]) \in 1 .. 3 /\ LevelOf(new[t]) \in 1 .. 3
    BY <1>1, <1>5, LevelsAre
  <1>7. \A t \in R : LevelOf(new[t]) <= LevelOf(ths[t])
    BY <1>4, <1>6
  <1>8. Kept(new, q, Q)
    BY <1>1, <1>4, <1>5, <1>6, <1>7, AgreeKeeps
  <1>9. left - 1 \in 0 .. TimerTicks
    BY <1>1, <1>2
  <1>10. ASSUME NEW t \in Threads
         PROVE  IF new[t].status = "READY" THEN new[t].since + (left - 1) < AGING_TICK + TimerTicks
                ELSE new[t].since <= MaxBurst
    <2>1. IF ths[t].status = "READY" THEN ths[t].since + left < AGING_TICK + TimerTicks
          ELSE ths[t].since <= MaxBurst
      BY DEF Sound
    <2> QED BY <1>1, <1>2, <1>3, <1>4, <2>1
  <1>11. c \in Threads /\ \A t \in Threads : new[t].status = "RUNNING" <=> t = c /\ ~idles
    BY <1>4 DEF Sound
  <1> QED BY <1>5, <1>8, <1>9, <1>10, <1>11 DEF Sound, new

\* The timer's handler: Scheduler::aging, and the timer is set again.
LEMMA TimerSound ==
    ASSUME NEW ths, NEW q, NEW c, NEW idles, Sound(ths, q, c, idles, 0)
    PROVE  Sound([t \in Threads |-> IF ths[t].status = "READY" THEN Aging(ths[t]) ELSE ths[t]],
                 q, c, idles, TimerTicks)
  <1> DEFINE new == [t \in Threads |-> IF ths[t].status = "READY" THEN Aging(ths[t]) ELSE ths[t]]
             R == {t \in Threads : ths[t].status = "READY"}
             Q == {t \in Threads : new[t].status = "READY"}
  <1>1. ths \in [Threads -> TCBs] /\ Kept(ths, q, R)
    BY DEF Sound
  <1>2. /\ TimerTicks \in Nat \ {0} /\ AGING_TICK \in Nat /\ MaxBurst \in Nat
    BY SchedulerAssumption
  <1>3. ASSUME NEW t \in Threads
        PROVE  /\ new[t] \in TCBs /\ new[t].status = ths[t].status
               /\ ths[t].status = "READY" =>
                    /\ new[t].since < AGING_TICK
                    /\ RemainTime(new[t]) = RemainTime(ths[t]) /\ LevelOf(new[t]) <= LevelOf(ths[t])
               /\ ths[t].status # "READY" => new[t] = ths[t]
    <2>1. ths[t] \in TCBs
      BY <1>1
    <2>2. new[t] = IF ths[t].status = "READY" THEN Aging(ths[t]) ELSE ths[t]
      OBVIOUS
    <2> HIDE DEF new
    <2>3. CASE ths[t].status = "READY"
      BY <2>1, <2>2, <2>3, AgingIs
    <2>4. CASE ths[t].status # "READY"
      BY <2>1, <2>2, <2>4
    <2> QED BY <2>3, <2>4
  <1>4. DOMAIN new = Threads /\ new = [t \in Threads |-> new[t]]
    OBVIOUS
  <1> HIDE DEF new
  <1>5. new \in [Threads -> TCBs] /\ Q = R
    BY <1>3, <1>4
  <1>6. \A t \in R : LevelOf(ths[t]) \in 1 .. 3 /\ LevelOf(new[t]) \in 1 .. 3
    BY <1>1, <1>5, LevelsAre
  <1>7. Kept(new, q, Q)
    BY <1>1, <1>3, <1>5, <1>6, AgreeKeeps
  <1>8. TimerTicks \in 0 .. TimerTicks
    BY <1>2
  <1>9. ASSUME NEW t \in Threads
        PROVE  IF new[t].status = "READY" THEN new[t].since + TimerTicks < AGING_TICK + TimerTicks
               ELSE new[t].since <= MaxBurst
    <2>1. IF ths[t].status = "READY" THEN ths[t].since + 0 < AGING_TICK + TimerTicks
          ELSE ths[t].since <= MaxBurst
      BY DEF Sound
    <2>2. new[t].since \in Nat
      BY <1>3 DEF TCBs
    <2> QED BY <1>2, <1>3, <2>1, <2>2
  <1>10. c \in Threads /\ \A t \in Threads : new[t].status = "RUNNING" <=> t = c /\ ~idles
    BY <1>3 DEF Sound
  <1> QED BY <1>5, <1>7, <1>8, <1>9, <1>10 DEF Sound, new

\* ReadyToRun, for a thread that is new or was waiting.
LEMMA ReadySound ==
    ASSUME NEW ths, NEW q, NEW c, NEW idles, NEW left, Sound(ths, q, c, idles, left),
           NEW t \in Threads, ths[t].status \notin {"READY", "RUNNING"},
           NEW new, new = [ths EXCEPT ![t] = ToReady(@, t)]
    PROVE  Sound(new, Inserted(new, q, t), c, idles, left)
  <1> DEFINE R == {u \in Threads : ths[u].status = "READY"}
             Q == {u \in Threads : new[u].status = "READY"}
             r == ToReady(ths[t], t)
  <1>1. ths \in [Threads -> TCBs] /\ left \in 0 .. TimerTicks /\ Kept(ths, q, R) /\ c \in Threads
    BY DEF Sound
  <1>2. r \in TCBs /\ r.status = "READY" /\ r.since = 0
    BY <1>1, ToReadyIs
  <1>3. /\ new \in [Threads -> TCBs] /\ new[t] = r
        /\ \A u \in Threads \ {t} : new[u] = ths[u]
    <2> HIDE DEF r
    <2>1. new = [ths EXCEPT ![t] = r]
      BY DEF r
    <2> QED BY <1>1, <1>2, <2>1
  <1>4. t \notin R /\ Q = R \cup {t}
    BY <1>2, <1>3
  <1>5. R \subseteq Threads /\ \A u \in R : new[u] = ths[u]
    BY <1>3, <1>4
  <1>6. Kept(new, q, R)
    <2> HIDE DEF R
    <2> QED BY <1>1, <1>5, SameKeeps
  <1> HIDE DEF R, Q, r
  <1>7. Kept(new, Inserted(new, q, t), Q)
    BY <1>3, <1>4, <1>6, InsertKeeps
  <1>8. \A u \in Threads : new[u].status = "RUNNING" <=> u = c /\ ~idles
    <2>1. \A u \in Threads : ths[u].status = "RUNNING" <=> u = c /\ ~idles
      BY DEF Sound
    <2> QED BY <1>2, <1>3, <2>1
  <1>9. ASSUME NEW u \in Threads
        PROVE  IF new[u].status = "READY" THEN new[u].since + left < AGING_TICK + TimerTicks
               ELSE new[u].since <= MaxBurst
    <2>1. IF ths[u].status = "READY" THEN ths[u].since + left < AGING_TICK + TimerTicks
          ELSE ths[u].since <= MaxBurst
      BY DEF Sound
    <2>2. CASE u = t
      <3>1. 0 + left < AGING_TICK + TimerTicks
        BY <1>1, SchedulerAssumption
      <3> QED BY <1>2, <1>3, <2>2, <3>1
    <2>3. CASE u # t
      BY <1>3, <2>1, <2>3
    <2> QED BY <2>2, <2>3
  <1> QED BY <1>1, <1>3, <1>7, <1>8, <1>9 DEF Sound, Q

\* The current thread blocks or finishes: for a moment nobody runs.
LEMMA LeaveSound ==
    ASSUME NEW ths, NEW q, NEW c, NEW left, Sound(ths, q, c, FALSE, left),
           NEW r \in TCBs, r.status \in {"WAITING", "TERMINATED"}, r.since = 0
    PROVE  Sound([ths EXCEPT ![c] = r], q, c, TRUE, left)
  <1> DEFINE new == [ths EXCEPT ![c] = r]
             R == {u \in Threads : ths[u].status = "READY"}
             Q == {u \in Threads : new[u].status = "READY"}
  <1>1. ths \in [Threads -> TCBs] /\ left \in 0 .. TimerTicks /\ Kept(ths, q, R) /\ c \in Threads
    BY DEF Sound
  <1>2. /\ new \in [Threads -> TCBs] /\ new[c] = r
        /\ \A u \in Threads \ {c} : new[u] = ths[u]
    BY <1>1
  <1> HIDE DEF new
  <1>3. \A u \in Threads : ths[u].status = "RUNNING" <=> u = c
    BY DEF Sound
  <1>4. c \notin R /\ Q = R
    BY <1>1, <1>2, <1>3
  <1>5. R \subseteq Threads /\ \A u \in R : new[u] = ths[u]
    BY <1>2, <1>4
  <1>6. Kept(new, q, Q)
    <2> HIDE DEF R, Q
    <2> QED BY <1>1, <1>4, <1>5, SameKeeps
  <1>7. \A u \in Threads : new[u].status # "RUNNING"
    BY <1>2, <1>3
  <1>8. ASSUME NEW u \in Threads
        PROVE  IF new[u].status = "READY" THEN new[u].since + left < AGING_TICK + TimerTicks
               ELSE new[u].since <= MaxBurst
    <2>1. IF ths[u].status = "READY" THEN ths[u].since + left < AGING_TICK + TimerTicks
          ELSE ths[u].since <= MaxBurst
      BY DEF Sound
    <2>2. CASE u = c
      <3>1. 0 <= MaxBurst
        BY SchedulerAssumption
      <3> QED BY <1>2, <2>2, <3>1
    <2>3. CASE u # c
      BY <1>2, <2>1, <2>3
    <2> QED BY <2>2, <2>3
  <1> QED BY <1>1, <1>2, <1>6, <1>7, <1>8 DEF Sound, new

\* Scheduler::Run once nobody runs: the front thread gets the processor.
LEMMA RunSound ==
    ASSUME NEW ths, NEW q, NEW c, NEW left, Sound(ths, q, c, TRUE, left), ~IsEmpty(q)
    PROVE  /\ Front1(q) \in Threads /\ ths[Front1(q)].status = "READY"
           /\ Sound([ths EXCEPT ![Front1(q)] = ReadyToRunning(@)], WithoutFront(q),
                    Front1(q), FALSE, left)
  <1> DEFINE f == Front1(q)
             r == ReadyToRunning(ths[f])
             new == [ths EXCEPT ![f] = r]
             p == WithoutFront(q)
             R == {u \in Threads : ths[u].status = "READY"}
             Q == {u \in Threads : new[u].status = "READY"}
  <1>1. ths \in [Threads -> TCBs] /\ left \in 0 .. TimerTicks /\ Kept(ths, q, R)
    BY DEF Sound
  <1>2. f \in R /\ f \in Threads /\ Kept(ths, p, R \ {f})
    <2> HIDE DEF R
    <2> QED BY <1>1, FrontKeeps
  <1>3. r \in TCBs /\ r.status = "RUNNING" /\ r.since = 0
    BY <1>1, <1>2, ReadyToRunningIs
  <1> HIDE DEF f, r, p
  <1>4. /\ new \in [Threads -> TCBs] /\ new[f] = r
        /\ \A u \in Threads \ {f} : new[u] = ths[u]
    BY <1>1, <1>2, <1>3
  <1> HIDE DEF new
  <1>5. Q = R \ {f}
    BY <1>3, <1>4
  <1>6. R \ {f} \subseteq Threads /\ \A u \in R \ {f} : new[u] = ths[u]
    BY <1>4
  <1>7. ths[f].status = "READY"
    BY <1>2
  <1>8. \A u \in Threads : ths[u].status # "RUNNING"
    BY DEF Sound
  <1>9. \A u \in Threads : new[u].status = "RUNNING" <=> u = f
    BY <1>3, <1>4, <1>8
  <1> HIDE DEF Q, R
  <1>10. Kept(new, p, Q)
    BY <1>1, <1>2, <1>5, <1>6, SameKeeps
  <1>11. ASSUME NEW u \in Threads
         PROVE  IF new[u].status = "READY" THEN new[u].since + left < AGING_TICK + TimerTicks
                ELSE new[u].since <= MaxBurst
    <2>1. IF ths[u].status = "READY" THEN ths[u].since + left < AGING_TICK + TimerTicks
          ELSE ths[u].since <= MaxBurst
      BY DEF Sound
    <2>2. CASE u = f
      <3>1. 0 <= MaxBurst
        BY SchedulerAssumption
      <3> QED BY <1>3, <1>4, <2>2, <3>1
    <2>3. CASE u # f
      BY <1>4, <2>1, <2>3
    <2> QED BY <2>2, <2>3
  <1>12. Sound(new, p, f, FALSE, left)
    BY <1>1, <1>2, <1>4, <1>9, <1>10, <1>11 DEF Sound, Q
  <1> QED BY <1>2, <1>7, <1>12 DEF new, p, r, f

\* Yield takes the next thread off the lists, puts this one on them and runs the
\* next.
LEMMA YieldSound ==
    ASSUME NEW ths, NEW q, NEW c, NEW left, Sound(ths, q, c, FALSE, left), ~IsEmpty(q),
           NEW mid, mid = [ths EXCEPT ![c] = ToReady(LeaveRun(@), c)]
    PROVE  /\ Front1(q) \in Threads /\ ths[Front1(q)].status = "READY"
           /\ Sound([mid EXCEPT ![Front1(q)] = ReadyToRunning(@)],
                    Inserted(mid, WithoutFront(q), c), Front1(q), FALSE, left)
  <1> DEFINE f == Front1(q)
             y == ToReady(LeaveRun(ths[c]), c)
             r == ReadyToRunning(mid[f])
             new == [mid EXCEPT ![f] = r]
             p == WithoutFront(q)
             o == Inserted(mid, p, c)
             R == {u \in Threads : ths[u].status = "READY"}
             Q == {u \in Threads : new[u].status = "READY"}
  <1>1. ths \in [Threads -> TCBs] /\ left \in 0 .. TimerTicks /\ Kept(ths, q, R) /\ c \in Threads
    BY DEF Sound
  <1>2. f \in R /\ f \in Threads /\ Kept(ths, p, R \ {f})
    <2> HIDE DEF R
    <2> QED BY <1>1, FrontKeeps
  <1>3. \A u \in Threads : ths[u].status = "RUNNING" <=> u = c
    BY DEF Sound
  <1>4. y \in TCBs /\ y.status = "READY" /\ y.since = 0
    BY <1>1, LeaveRunIs, ToReadyIs
  <1>5. mid = [ths EXCEPT ![c] = y]
    OBVIOUS
  <1> HIDE DEF f, y, p, o
  <1>6. /\ mid \in [Threads -> TCBs] /\ mid[c] = y
        /\ \A u \in Threads \ {c} : mid[u] = ths[u]
    BY <1>1, <1>4, <1>5
  <1>7. c \notin R /\ f # c
    BY <1>1, <1>2, <1>3
  <1>8. r \in TCBs /\ r.status = "RUNNING" /\ r.since = 0
    BY <1>2, <1>6, ReadyToRunningIs
  <1> HIDE DEF r
  <1>9. /\ new \in [Threads -> TCBs] /\ new[f] = r
        /\ \A u \in Threads \ {f} : new[u] = mid[u]
    BY <1>2, <1>6, <1>8
  <1> HIDE DEF new
  <1>10. /\ R \ {f} \subseteq Threads /\ \A u \in R \ {f} : mid[u] = ths[u]
         /\ (R \ {f}) \cup {c} \subseteq Threads
         /\ \A u \in (R \ {f}) \cup {c} : new[u] = mid[u]
    BY <1>1, <1>6, <1>7, <1>9
  <1>11. Q = (R \ {f}) \cup {c}
    BY <1>1, <1>4, <1>6, <1>7, <1>8, <1>9
  <1>12. ths[f].status = "READY"
    BY <1>2
  <1>13. \A u \in Threads : new[u].status = "RUNNING" <=> u = f
    BY <1>2, <1>3, <1>4, <1>6, <1>8, <1>9
  <1> HIDE DEF Q, R
  <1>14. Kept(mid, p, R \ {f})
    BY <1>1, <1>2, <1>10, SameKeeps
  <1>15. Kept(mid, o, (R \ {f}) \cup {c})
    BY <1>1, <1>6, <1>7, <1>14, InsertKeeps DEF o
  <1>16. Kept(new, o, Q)
    BY <1>6, <1>10, <1>11, <1>15, SameKeeps
  <1>17. ASSUME NEW u \in Threads
         PROVE  IF new[u].status = "READY" THEN new[u].since + left < AGING_TICK + TimerTicks
                ELSE new[u].since <= MaxBurst
    <2>1. IF ths[u].status = "READY" THEN ths[u].since + left < AGING_TICK + TimerTicks
          ELSE ths[u].since <= MaxBurst
      BY DEF Sound
    <2>2. 0 <= MaxBurst /\ 0 + left < AGING_TICK + TimerTicks
      BY <1>1, SchedulerAssumption
    <2>3. CASE u = f
      BY <1>8, <1>9, <2>2, <2>3
    <2>4. CASE u = c
      BY <1>4, <1>6, <1>7, <1>9, <2>2, <2>4
    <2>5. CASE u # f /\ u # c
      BY <1>6, <1>9, <2>1, <2>5
    <2> QED BY <2>3, <2>4, <2>5
  <1>18. Sound(new, o, f, FALSE, left)
    BY <1>1, <1>2, <1>9, <1>13, <1>16, <1>17 DEF Sound, Q
  <1> QED BY <1>2, <1>12, <1>18 DEF new, o, p, r, f

\* While no thread is ready it does not matter when the timer is due.
LEMMA EmptySound ==
    ASSUME NEW ths, NEW q, NEW c, NEW idles, NEW left, NEW other \in 0 .. TimerTicks,
           Sound(ths, q, c, idles, left), IsEmpty(q)
    PROVE  Sound(ths, q, c, idles, other)
  <1> DEFINE R == {u \in Threads : ths[u].status = "READY"}
  <1>1. Kept(ths, q, R)
    BY DEF Sound
  <1>2. R = {}
    <2> HIDE DEF R
    <2> SUFFICES ASSUME NEW x \in R PROVE FALSE
      OBVIOUS
    <2>1. PICK l \in 1 .. 3 : x \in Range(q[l])
      BY <1>1 DEF Kept, Lists
    <2>2. q[l] = << >>
      BY DEF IsEmpty
    <2>3. Range(<< >>) = {}
      BY DEF Range
    <2> QED BY <2>1, <2>2, <2>3
  <1>3. \A u \in Threads : ths[u].status # "READY"
    BY <1>2
  <1> QED BY <1>3 DEF Sound

---------------------------------------------------------------------------
(* The inductive invariant.                                                *)

\* The threads, the lists and the processor.
Core == Sound(th, ready, current, idle, toTimer)

\* Executables that have been counted by Begin and not yet by Finish.
Alive == {t \in Threads \ {main} : place[t] = "body" /\ th[t].status # "TERMINATED"}

\* execRunningNum counts them until the kernel halts.
Counted == execExit /\ machine # "halted" => execRunningNum = Cardinality(Alive)

\* The walk of PromoteThreads, and what else there is.
Rest ==
    /\ at \in Threads \cup {Nobody} /\ promoting \in 0 .. 3
    /\ idle \in BOOLEAN
    /\ promoting # 0 => ~idle
    /\ place \in [Threads -> {"forked", "begun", "body"}] /\ place[main] = "body"
    /\ execRunningNum \in 0 .. NumExec
    /\ machine \in {"on", "halted", "aborted"}
    /\ Counted

IInv == Core /\ Rest

\* The constants are numbers.
LEMMA Constants ==
    /\ NumExec \in Nat /\ Threads = 0 .. NumExec /\ main = 0 /\ main \in Threads
    /\ TimerTicks \in Nat \ {0} /\ AGING_TICK \in Nat \ {0} /\ MaxBurst \in Nat \ {0}
    /\ MaxWaits \in Nat /\ Scale \in Nat \ {0} /\ Scale * MaxBurst \in Nat
    /\ Nobody \notin Threads
  BY SchedulerAssumption, ScaleAssumption DEF Threads, main

\* At most NumExec executables count.
LEMMA FewExecutables ==
    ASSUME NEW A \in SUBSET (Threads \ {main})
    PROVE  IsFiniteSet(A) /\ Cardinality(A) \in 0 .. NumExec
  <1>1. A \subseteq 1 .. NumExec /\ NumExec \in Nat
    BY Constants
  <1>2. IsFiniteSet(1 .. NumExec) /\ Cardinality(1 .. NumExec) = NumExec
    BY <1>1, FS_Interval
  <1>3. IsFiniteSet(A) /\ Cardinality(A) <= NumExec
    BY <1>1, <1>2, FS_Subset
  <1> QED BY <1>1, <1>3, FS_CardinalityType

\* The iterator's next element is a thread or NULL.
LEMMA WalkTyped ==
    ASSUME NEW s \in Seq(Threads), NEW x
    PROVE  NextIn(s, x) \in Threads \cup {Nobody} /\ First(s) \in Threads \cup {Nobody}
  <1> DEFINE I == {j \in 1 .. Len(s) : s[j] = x}
             i == IF I # {} THEN Min(I) ELSE 0
  <1>1. Len(s) \in Nat
    BY LenProperties
  <1>2. NextIn(s, x) = IF i = Len(s) THEN Nobody ELSE s[i + 1]
    BY DEF NextIn, SelectInSeq
  <1>3. i \in 0 .. Len(s)
    <2>1. CASE I = {}
      BY <1>1, <2>1
    <2>2. CASE I # {}
      <3>1. I \in SUBSET Nat
        BY <1>1
      <3>2. Min(I) \in I
        <4> HIDE DEF I
        <4> QED BY <2>2, <3>1, LeastIndex
      <3> QED BY <1>1, <2>2, <3>2
    <2> QED BY <2>1, <2>2
  <1> HIDE DEF i
  <1>4. NextIn(s, x) \in Threads \cup {Nobody}
    <2>1. CASE i = Len(s)
      BY <1>2, <2>1
    <2>2. CASE i # Len(s)
      <3>1. i + 1 \in 1 .. Len(s)
        BY <1>1, <1>3, <2>2
      <3> QED BY <1>2, <2>2, <3>1, ElementOfSeq
    <2> QED BY <2>1, <2>2
  <1>5. First(s) \in Threads \cup {Nobody}
    <2>1. CASE s = << >>
      BY <2>1 DEF First
    <2>2. CASE s # << >>
      <3>1. 1 \in 1 .. Len(s)
        BY <1>1, <2>2, EmptySeq
      <3> QED BY <2>2, <3>1, ElementOfSeq DEF First
    <2> QED BY <2>1, <2>2
  <1> QED BY <1>4, <1>5

\* The invariant gives the types.
LEMMA Typed ==
    ASSUME IInv, yieldOnReturn \in BOOLEAN PROVE TypeOK
  <1>1. Sound(th, ready, current, idle, toTimer) /\ Rest
    BY DEF IInv, Core
  <1>2. ASSUME NEW t \in Threads
        PROVE  th[t] \in [status : Statuses, priority : 0 .. 149,
                          since : 0 .. MaxBurst + AGING_TICK + TimerTicks,
                          burst : 0 .. MaxBurst, remain : 0 .. Scale * MaxBurst,
                          waits : 0 .. MaxWaits]
    <2>1. th[t] \in TCBs /\ toTimer \in 0 .. TimerTicks
      BY <1>1 DEF Sound
    <2>2. IF th[t].status = "READY" THEN th[t].since + toTimer < AGING_TICK + TimerTicks
          ELSE th[t].since <= MaxBurst
      BY <1>1 DEF Sound
    <2>3. th[t].since \in 0 .. MaxBurst + AGING_TICK + TimerTicks
      <3>1. th[t].since \in Nat
        BY <2>1 DEF TCBs
      <3> QED BY <2>1, <2>2, <3>1, Constants
    <2> QED BY <2>1, <2>3 DEF TCBs
  <1>3. th \in [Threads -> TCBs] /\ ready \in [1 .. 3 -> Seq(Threads)]
    BY <1>1 DEF Sound, Kept, Lists
  <1>4. th \in [Threads -> [status : Statuses, priority : 0 .. 149,
                            since : 0 .. MaxBurst + AGING_TICK + TimerTicks,
                            burst : 0 .. MaxBurst, remain : 0 .. Scale * MaxBurst,
                            waits : 0 .. MaxWaits]]
    BY <1>2, <1>3
  <1> QED BY <1>1, <1>3, <1>4 DEF TypeOK, Sound, Rest

\* main runs and nothing is forked.
LEMMA InitInv ==
    Init => IInv
  <1> SUFFICES ASSUME Init PROVE IInv
    OBVIOUS
  <1>1. \A t \in Threads :
          /\ NewThread(t) \in TCBs /\ NewThread(t).status = "NEW" /\ NewThread(t).since = 0
          /\ [NewThread(t) EXCEPT !.status = "RUNNING"] \in TCBs
          /\ [NewThread(t) EXCEPT !.status = "RUNNING"].status = "RUNNING"
          /\ [NewThread(t) EXCEPT !.status = "RUNNING"].since = 0
    <2> SUFFICES ASSUME NEW t \in Threads
                 PROVE  /\ NewThread(t) \in TCBs /\ NewThread(t).status = "NEW" /\ NewThread(t).since = 0
                        /\ [NewThread(t) EXCEPT !.status = "RUNNING"] \in TCBs
                        /\ [NewThread(t) EXCEPT !.status = "RUNNING"].status = "RUNNING"
                        /\ [NewThread(t) EXCEPT !.status = "RUNNING"].since = 0
      OBVIOUS
    <2>1. InitPriority[t] \in 0 .. 149
      BY SchedulerAssumption
    <2>2. 0 \in 0 .. MaxBurst /\ 0 \in 0 .. Scale * MaxBurst /\ 0 \in 0 .. MaxWaits
      BY Constants
    <2>3. {"NEW", "RUNNING"} \subseteq Statuses
      BY DEF Statuses
    <2> QED BY <2>1, <2>2, <2>3 DEF NewThread, TCBs
  <1>2. /\ th \in [Threads -> TCBs]
        /\ \A t \in Threads : /\ th[t].since = 0
                              /\ th[t].status = IF t = main THEN "RUNNING" ELSE "NEW"
    BY <1>1 DEF Init
  <1>3. {t \in Threads : th[t].status = "READY"} = {}
    BY <1>2
  <1>4. Kept(th, ready, {})
    <2>1. ready = [l \in 1 .. 3 |-> << >>]
      BY DEF Init
    <2>2. ready \in [1 .. 3 -> Seq(Threads)]
      BY <2>1
    <2>3. \A l \in 1 .. 3 : ready[l] = << >>
      BY <2>1
    <2>4. Range(<< >>) = {} /\ Distinct(<< >>) /\ Len(<< >>) = 0
      BY DEF Range, Distinct
    <2>5. Lists(ready, {}) /\ Levels(th, ready)
      BY <2>2, <2>3, <2>4 DEF Lists, Levels
    <2>6. NearlySorted(th, ready[1])
      BY <2>3, <2>4 DEF NearlySorted
    <2> QED BY <2>5, <2>6 DEF Kept
  <1>5. Core
    <2>1. TimerTicks \in 0 .. TimerTicks /\ 0 <= MaxBurst
      BY Constants
    <2>2. current = main /\ main \in Threads /\ idle = FALSE /\ toTimer = TimerTicks
      BY Constants DEF Init
    <2> QED BY <1>2, <1>3, <1>4, <2>1, <2>2 DEF Core, Sound
  <1>6. Alive = {}
    BY DEF Alive, Init
  <1>7. Rest
    <2>1. 0 \in 0 .. NumExec /\ main \in Threads
      BY Constants
    <2>2. Cardinality(Alive) = 0
      BY <1>6, FS_EmptySet
    <2>3. idle = FALSE /\ promoting = 0 /\ promoting \in 0 .. 3
      BY DEF Init
    <2> QED BY <2>1, <2>2, <2>3 DEF Rest, Counted, Init
  <1> QED BY <1>5, <1>7 DEF IInv

\* Steps that neither begin nor finish an executable.
LEMMA RestKept ==
    ASSUME Rest, machine = "on", machine' \in {"on", "aborted"},
           at' \in Threads \cup {Nobody}, promoting' \in 0 .. 3,
           idle' \in BOOLEAN, promoting' # 0 => ~idle',
           place' \in [Threads -> {"forked", "begun", "body"}], place'[main] = "body",
           execRunningNum' = execRunningNum,
           \A t \in Threads \ {main} :
             (place'[t] = "body" /\ th'[t].status # "TERMINATED")
               <=> (place[t] = "body" /\ th[t].status # "TERMINATED")
    PROVE  Rest'
  <1>1. Alive' = Alive
    BY DEF Alive
  <1>2. Counted'
    BY <1>1 DEF Rest, Counted
  <1> QED BY <1>2 DEF Rest

\* OneTick, whatever threads and lists it starts from.
LEMMA OneTickKeeps ==
    ASSUME Rest, NEW ths, NEW q, Sound(ths, q, current, idle, toTimer), OneTick(ths, q),
           ~idle, toTimer # 0
    PROVE  /\ Core'
           /\ at' \in Threads \cup {Nobody} /\ promoting' \in 0 .. 3 /\ ~idle'
           /\ idle' \in BOOLEAN /\ machine' = machine
           /\ \A t \in Threads : th'[t].status = ths[t].status
  <1>1. /\ ready' = q /\ current' = current /\ idle' = idle /\ machine' = machine
        /\ at' = at /\ promoting' = promoting
        /\ toTimer' = toTimer - 1 /\ th' = [t \in Threads |-> Ticked(ths[t])]
    BY DEF OneTick
  <1>2. ths \in [Threads -> TCBs]
    BY DEF Sound
  <1>3. Sound(th', ready', current', idle', toTimer')
    BY <1>1, TickSound
  <1>4. \A t \in Threads : th'[t].status = ths[t].status
    BY <1>1, <1>2, TickedIs
  <1> QED BY <1>1, <1>3, <1>4 DEF Core, Rest

\* ExecAll forks the next executable.
LEMMA ForkStep ==
    ASSUME IInv, NEW t \in Threads \ {main}, Fork(t) PROVE IInv'
  <1>1. /\ Rest /\ Sound(th, ready, current, idle, toTimer) /\ machine = "on"
        /\ toTimer # 0 /\ ~idle /\ th[t].status = "NEW"
        /\ place' = place /\ execRunningNum' = execRunningNum
    BY DEF IInv, Core, Fork, Running
  <1> DEFINE ths == [th EXCEPT ![t] = ToReady(@, t)]
             q == Inserted(ths, ready, t)
  <1>2. OneTick(ths, q)
    BY DEF Fork
  <1>3. th \in [Threads -> TCBs]
    BY <1>1 DEF Sound
  <1>4. \A u \in Threads : u # t => ths[u] = th[u]
    BY <1>3
  <1>5. ths[t].status = "READY"
    <2>1. ths[t] = ToReady(th[t], t)
      BY <1>3
    <2> QED BY <1>3, <2>1, ToReadyIs
  <1>6. Sound(ths, q, current, idle, toTimer)
    <2>1. th[t].status \notin {"READY", "RUNNING"} /\ t \in Threads
      BY <1>1
    <2>2. PICK n : n = ths
      OBVIOUS
    <2>3. n = [th EXCEPT ![t] = ToReady(@, t)]
      BY <2>2
    <2> HIDE DEF ths
    <2>4. Sound(n, Inserted(n, ready, t), current, idle, toTimer)
      BY <1>1, <2>1, <2>3, ReadySound
    <2> QED BY <2>2, <2>4
  <1> HIDE DEF ths, q
  <1>7. /\ Core'
        /\ at' \in Threads \cup {Nobody} /\ promoting' \in 0 .. 3 /\ ~idle'
        /\ idle' \in BOOLEAN /\ machine' = machine
        /\ \A u \in Threads : th'[u].status = ths[u].status
    BY <1>1, <1>2, <1>6, OneTickKeeps
  <1>8. \A u \in Threads : th'[u].status = "TERMINATED" <=> th[u].status = "TERMINATED"
    BY <1>1, <1>4, <1>5, <1>7
  <1>9. Rest'
    BY <1>1, <1>7, <1>8, RestKept DEF Rest
  <1> QED BY <1>7, <1>9 DEF IInv

\* Begin enables interrupts.
LEMMA BeginEnableStep ==
    ASSUME IInv, BeginEnable PROVE IInv'
  <1>1. /\ Rest /\ Sound(th, ready, current, idle, toTimer) /\ machine = "on"
        /\ toTimer # 0 /\ ~idle /\ place[current] = "forked"
        /\ place' = [place EXCEPT ![current] = "begun"] /\ execRunningNum' = execRunningNum
        /\ OneTick(th, ready)
    BY DEF IInv, Core, BeginEnable, Running
  <1>2. /\ Core'
        /\ at' \in Threads \cup {Nobody} /\ promoting' \in 0 .. 3 /\ ~idle'
        /\ idle' \in BOOLEAN /\ machine' = machine
        /\ \A u \in Threads : th'[u].status = th[u].status
    BY <1>1, OneTickKeeps
  <1>3. /\ place' \in [Threads -> {"forked", "begun", "body"}]
        /\ \A u \in Threads : place'[u] = "body" <=> place[u] = "body"
        /\ place'[main] = "body"
    <2>1. place \in [Threads -> {"forked", "begun", "body"}] /\ place[main] = "body"
      BY <1>1 DEF Rest
    <2>2. main \in Threads
      BY Constants
    <2> QED BY <1>1, <2>1, <2>2
  <1>4. Rest'
    BY <1>1, <1>2, <1>3, RestKept
  <1> QED BY <1>2, <1>4 DEF IInv

\* An instruction.
LEMMA TickStep ==
    ASSUME IInv, Tick PROVE IInv'
  <1>1. /\ Rest /\ Sound(th, ready, current, idle, toTimer) /\ machine = "on"
        /\ toTimer # 0 /\ ~idle
        /\ place' = place /\ execRunningNum' = execRunningNum /\ OneTick(th, ready)
    BY DEF IInv, Core, Tick, Running
  <1>2. /\ Core'
        /\ at' \in Threads \cup {Nobody} /\ promoting' \in 0 .. 3 /\ ~idle'
        /\ idle' \in BOOLEAN /\ machine' = machine
        /\ \A u \in Threads : th'[u].status = th[u].status
    BY <1>1, OneTickKeeps
  <1>3. Rest'
    BY <1>1, <1>2, RestKept DEF Rest
  <1> QED BY <1>2, <1>3 DEF IInv

\* Begin counts the executable.
LEMMA BeginCountStep ==
    ASSUME IInv, BeginCount PROVE IInv'
  <1>1. /\ Rest /\ Core /\ machine = "on" /\ place[current] = "begun" /\ ~idle
        /\ place' = [place EXCEPT ![current] = "body"]
        /\ execRunningNum' = IF execExit THEN execRunningNum + 1 ELSE execRunningNum
        /\ th' = th /\ ready' = ready /\ current' = current /\ at' = at
        /\ promoting' = promoting /\ toTimer' = toTimer /\ idle' = idle /\ machine' = machine
    BY DEF IInv, BeginCount, Running
  <1>2. Core'
    BY <1>1 DEF Core
  <1>3. /\ place \in [Threads -> {"forked", "begun", "body"}] /\ place[main] = "body"
        /\ current \in Threads /\ current # main
        /\ th[current].status = "RUNNING"
    BY <1>1 DEF Rest, Core, Sound
  <1>4. /\ place' \in [Threads -> {"forked", "begun", "body"}] /\ place'[main] = "body"
        /\ place'[current] = "body" /\ \A t \in Threads : t # current => place'[t] = place[t]
    BY <1>1, <1>3
  <1> DEFINE B == {t \in Threads \ {main} : place'[t] = "body" /\ th'[t].status # "TERMINATED"}
  <1>5. B = Alive \cup {current} /\ current \notin Alive /\ Alive' = B
    BY <1>1, <1>3, <1>4 DEF Alive
  <1>6. IsFiniteSet(Alive) /\ Cardinality(B) = Cardinality(Alive) + 1
    <2>1. Alive \in SUBSET (Threads \ {main})
      BY DEF Alive
    <2>2. IsFiniteSet(Alive)
      BY <2>1, FewExecutables
    <2> HIDE DEF B
    <2> QED BY <1>5, <2>2, FS_AddElement
  <1>7. Cardinality(B) \in 0 .. NumExec
    <2>1. B \in SUBSET (Threads \ {main})
      OBVIOUS
    <2> HIDE DEF B
    <2> QED BY <2>1, FewExecutables
  <1> HIDE DEF B
  <1>8. Counted'
    BY <1>1, <1>5, <1>6 DEF Rest, Counted
  <1>9. execRunningNum' \in 0 .. NumExec
    <2>1. CASE execExit
      <3>1. execRunningNum = Cardinality(Alive)
        BY <1>1, <2>1 DEF Rest, Counted
      <3> QED BY <1>1, <1>6, <1>7, <2>1, <3>1
    <2>2. CASE ~execExit
      BY <1>1, <2>2 DEF Rest
    <2> QED BY <2>1, <2>2
  <1>10. Rest'
    BY <1>1, <1>4, <1>8, <1>9 DEF Rest
  <1> QED BY <1>2, <1>10 DEF IInv

\* PromoteThreads moves a thread from one list to a better one.
LEMMA PromoteStep ==
    ASSUME IInv, Promote PROVE IInv'
  <1> DEFINE R == {t \in Threads : th[t].status = "READY"}
             p == [ready EXCEPT ![promoting] = RemoveFirst(@, at)]
             q == Inserted(th, p, at)
  <1>1. /\ Rest /\ Sound(th, ready, current, idle, toTimer) /\ machine = "on"
        /\ promoting \in {2, 3} /\ at # Nobody /\ at \in ToSet(ready[promoting])
        /\ ready' = q
        /\ at' \in {NextIn(q[LevelOf(th[at])], at), NextIn(ready[promoting], at)}
        /\ th' = th /\ current' = current /\ promoting' = promoting /\ toTimer' = toTimer
        /\ idle' = idle /\ place' = place /\ execRunningNum' = execRunningNum
        /\ machine' = machine
    BY DEF IInv, Core, Promote
  <1>2. th \in [Threads -> TCBs] /\ Kept(th, ready, R) /\ promoting \in 2 .. 3
        /\ at \in Threads /\ at \in Range(ready[promoting])
    BY <1>1 DEF Sound, Rest, ToSet, Range
  <1> HIDE DEF R
  <1>3. at \in R /\ Kept(th, p, R \ {at})
    BY <1>2, RemoveKeeps
  <1> HIDE DEF p
  <1>4. Kept(th, q, (R \ {at}) \cup {at})
    BY <1>2, <1>3, InsertKeeps
  <1>5. (R \ {at}) \cup {at} = R
    BY <1>3
  <1> HIDE DEF q
  <1>6. Kept(th, q, R)
    BY <1>4, <1>5
  <1>7. Core'
    <2>1. Sound(th, q, current, idle, toTimer)
      BY <1>1, <1>6 DEF Sound, R
    <2> QED BY <1>1, <2>1 DEF Core
  <1>8. at' \in Threads \cup {Nobody}
    <2>1. LevelOf(th[at]) \in 1 .. 3 /\ promoting \in 1 .. 3
      BY <1>2, LevelsAre
    <2>2. q[LevelOf(th[at])] \in Seq(Threads) /\ ready[promoting] \in Seq(Threads)
      BY <1>2, <1>6, <2>1 DEF Kept, Lists
    <2>3. /\ NextIn(q[LevelOf(th[at])], at) \in Threads \cup {Nobody}
          /\ NextIn(ready[promoting], at) \in Threads \cup {Nobody}
      BY <2>2, WalkTyped
    <2> QED BY <1>1, <2>3
  <1>9. Rest'
    BY <1>1, <1>8, RestKept DEF Rest
  <1> QED BY <1>7, <1>9 DEF IInv

\* The other steps of the walk touch no list.
LEMMA WalkStep ==
    ASSUME IInv, PromoteAborts \/ PromoteSkips \/ PromoteL2 PROVE IInv'
  <1>1. /\ Rest /\ Core /\ machine = "on" /\ machine' \in {"on", "aborted"}
        /\ th' = th /\ ready' = ready /\ current' = current /\ toTimer' = toTimer
        /\ idle' = idle /\ place' = place /\ execRunningNum' = execRunningNum
        /\ promoting \in {2, 3}
    BY DEF IInv, PromoteAborts, PromoteSkips, PromoteL2
  <1>2. Core'
    BY <1>1 DEF Core
  <1>3. /\ promoting' \in 0 .. 3 /\ idle \in BOOLEAN /\ ~idle
        /\ \/ at' = at
           \/ at' = NextIn(ready[promoting], at)
           \/ at' = First(ready[2])
    BY <1>1 DEF Rest, PromoteAborts, PromoteSkips, PromoteL2
  <1>4. at' \in Threads \cup {Nobody}
    <2>1. promoting \in 1 .. 3 /\ 2 \in 1 .. 3
      BY <1>1 DEF Rest
    <2>2. ready[promoting] \in Seq(Threads) /\ ready[2] \in Seq(Threads)
      BY <1>1, <2>1 DEF Core, Sound, Kept, Lists
    <2>3. /\ NextIn(ready[promoting], at) \in Threads \cup {Nobody}
          /\ NextIn(ready[2], at) \in Threads \cup {Nobody}
          /\ First(ready[2]) \in Threads \cup {Nobody}
      BY <2>2, WalkTyped
    <2> QED BY <1>1, <1>3, <2>3 DEF Rest
  <1>5. Rest'
    BY <1>1, <1>3, <1>4, RestKept DEF Rest
  <1> QED BY <1>2, <1>5 DEF IInv

\* The timer's handler ages the ready threads and begins the walk.
LEMMA TimerCallBackStep ==
    ASSUME IInv, TimerCallBack PROVE IInv'
  <1>1. /\ Rest /\ Sound(th, ready, current, idle, toTimer) /\ machine = "on"
        /\ toTimer = 0 /\ ~idle /\ toTimer' = TimerTicks
        /\ th' = [t \in Threads |-> IF th[t].status = "READY" THEN Aging(th[t]) ELSE th[t]]
        /\ promoting' = 3 /\ at' = First(ready[3])
        /\ ready' = ready /\ current' = current /\ idle' = idle /\ place' = place
        /\ execRunningNum' = execRunningNum /\ machine' = machine
    BY DEF IInv, Core, TimerCallBack
  <1>2. Core'
    <2>1. Sound(th, ready, current, idle, 0)
      BY <1>1
    <2> QED BY <1>1, <2>1, TimerSound DEF Core
  <1>3. th \in [Threads -> TCBs] /\ ready[3] \in Seq(Threads)
    BY <1>1 DEF Sound, Kept, Lists
  <1>4. ASSUME NEW t \in Threads PROVE th'[t].status = th[t].status
    <2>1. CASE th[t].status = "READY"
      BY <1>1, <1>3, <2>1, AgingIs
    <2>2. CASE th[t].status # "READY"
      BY <1>1, <2>2
    <2> QED BY <2>1, <2>2
  <1>5. at' \in Threads \cup {Nobody}
    <2>1. NextIn(ready[3], at) \in Threads \cup {Nobody} /\ First(ready[3]) \in Threads \cup {Nobody}
      BY <1>3, WalkTyped
    <2> QED BY <1>1, <2>1
  <1>6. Rest'
    BY <1>1, <1>4, <1>5, RestKept DEF Rest
  <1> QED BY <1>2, <1>6 DEF IInv

\* The decision touches no thread.
LEMMA AlarmDecidesStep ==
    ASSUME IInv, AlarmDecides PROVE IInv'
  <1>1. /\ Rest /\ Core /\ machine = "on" /\ promoting = 2 /\ promoting' = 1 /\ ~idle
        /\ th' = th /\ ready' = ready /\ current' = current /\ at' = at /\ toTimer' = toTimer
        /\ idle' = idle /\ place' = place /\ execRunningNum' = execRunningNum
        /\ machine' = machine
    BY DEF IInv, AlarmDecides, Rest
  <1>2. Core'
    BY <1>1 DEF Core
  <1>3. Rest'
    BY <1>1, RestKept DEF Rest
  <1> QED BY <1>2, <1>3 DEF IInv

\* CheckIfDue's loop ends, with or without a Yield.
LEMMA InterruptReturnsStep ==
    ASSUME IInv, InterruptReturns PROVE IInv'
  <1>1. /\ Rest /\ Sound(th, ready, current, idle, toTimer) /\ machine = "on"
        /\ promoting = 1 /\ promoting' = 0 /\ ~idle /\ idle \in BOOLEAN
        /\ at' = at /\ toTimer' = toTimer /\ idle' = idle /\ place' = place
        /\ execRunningNum' = execRunningNum /\ machine' = machine
    BY DEF IInv, Core, InterruptReturns, Rest
  <1>2. th \in [Threads -> TCBs] /\ current \in Threads /\ th[current].status = "RUNNING"
    BY <1>1 DEF Sound
  <1>3. CASE /\ ~IsEmpty(ready)
             /\ LET n   == Front1(ready)
                    ths == [th EXCEPT ![current] = ToReady(LeaveRun(@), current)]
                IN  /\ current' = n
                    /\ ready' = Inserted(ths, WithoutFront(ready), current)
                    /\ th' = [ths EXCEPT ![n] = ReadyToRunning(@)]
    <2> DEFINE n == Front1(ready)
               ths == [th EXCEPT ![current] = ToReady(LeaveRun(@), current)]
    <2>1. /\ ~IsEmpty(ready) /\ current' = n
          /\ ready' = Inserted(ths, WithoutFront(ready), current)
          /\ th' = [ths EXCEPT ![n] = ReadyToRunning(@)]
      BY <1>3
    <2>2. PICK mid : mid = ths
      OBVIOUS
    <2>3. mid = [th EXCEPT ![current] = ToReady(LeaveRun(@), current)]
      BY <2>2
    <2>4. mid[current].status = "READY" /\ \A u \in Threads \ {current} : mid[u] = th[u]
      <3>1. mid[current] = ToReady(LeaveRun(th[current]), current)
        BY <1>2, <2>3
      <3>2. mid[current].status = "READY"
        BY <1>2, <3>1, LeaveRunIs, ToReadyIs
      <3> QED BY <1>2, <2>3, <3>2
    <2>5. mid \in [Threads -> TCBs]
      <3>1. ToReady(LeaveRun(th[current]), current) \in TCBs
        BY <1>2, LeaveRunIs, ToReadyIs
      <3> QED BY <1>2, <2>3, <3>1
    <2> HIDE DEF ths
    <2>6. Sound(th, ready, current, FALSE, toTimer)
      <3>1. idle = FALSE
        BY <1>1
      <3> QED BY <1>1, <3>1
    <2>7. /\ n \in Threads /\ th[n].status = "READY"
          /\ Sound([mid EXCEPT ![n] = ReadyToRunning(@)],
                   Inserted(mid, WithoutFront(ready), current), n, FALSE, toTimer)
      BY <2>1, <2>3, <2>6, YieldSound
    <2> HIDE DEF n
    <2>8. idle' = FALSE /\ th' = [mid EXCEPT ![n] = ReadyToRunning(@)]
      BY <1>1, <2>1, <2>2
    <2>9. Core'
      BY <1>1, <2>1, <2>2, <2>7, <2>8 DEF Core
    <2>10. ASSUME NEW u \in Threads
           PROVE  th'[u].status = "TERMINATED" <=> th[u].status = "TERMINATED"
      <3>1. CASE u = n
        <4>1. th'[n] = ReadyToRunning(mid[n]) /\ mid[n] \in TCBs
          BY <2>5, <2>7, <2>8
        <4>2. th'[n].status = "RUNNING"
          BY <4>1, ReadyToRunningIs
        <4> QED BY <2>7, <3>1, <4>2
      <3>2. CASE u # n
        <4>1. th'[u] = mid[u]
          BY <2>5, <2>8, <3>2
        <4> QED BY <1>2, <2>4, <4>1
      <3> QED BY <3>1, <3>2
    <2>11. Rest'
      BY <1>1, <2>10, RestKept DEF Rest
    <2> QED BY <2>9, <2>11 DEF IInv
  <1>4. CASE UNCHANGED <<th, ready, current>>
    <2>1. Core'
      BY <1>1, <1>4 DEF Core
    <2>2. Rest'
      BY <1>1, <1>4, RestKept DEF Rest
    <2> QED BY <2>1, <2>2 DEF IInv
  <1> QED BY <1>3, <1>4 DEF InterruptReturns

\* Sleep, once the status is set: the next thread runs, or the machine idles.
LEMMA SwitchKeeps ==
    ASSUME NEW ths, Sound(ths, ready, current, TRUE, toTimer), SwitchAway(ths),
           ~idle, idle \in BOOLEAN, toTimer' = toTimer
    PROVE  /\ Core' /\ idle' \in BOOLEAN
           /\ \A u \in Threads : th'[u].status = "TERMINATED" <=> ths[u].status = "TERMINATED"
  <1>1. ths \in [Threads -> TCBs]
    BY DEF Sound
  <1>2. CASE ~IsEmpty(ready) /\ Run(ths, ready) /\ UNCHANGED idle
    <2> DEFINE f == Front1(ready)
    <2>1. /\ current' = f /\ th' = [ths EXCEPT ![f] = ReadyToRunning(@)]
          /\ ready' = WithoutFront(ready) /\ idle' = FALSE
      BY <1>2 DEF Run
    <2>2. /\ f \in Threads /\ ths[f].status = "READY"
          /\ Sound([ths EXCEPT ![f] = ReadyToRunning(@)], WithoutFront(ready), f, FALSE, toTimer)
      BY <1>2, RunSound
    <2> HIDE DEF f
    <2>3. Core'
      BY <2>1, <2>2 DEF Core
    <2>4. ASSUME NEW u \in Threads
          PROVE  th'[u].status = "TERMINATED" <=> ths[u].status = "TERMINATED"
      <3>1. CASE u = f
        <4>1. th'[f] = ReadyToRunning(ths[f]) /\ ths[f] \in TCBs
          BY <1>1, <2>1, <2>2
        <4>2. th'[f].status = "RUNNING"
          BY <4>1, ReadyToRunningIs
        <4> QED BY <2>2, <3>1, <4>2
      <3>2. CASE u # f
        BY <1>1, <2>1, <3>2
      <3> QED BY <3>1, <3>2
    <2> QED BY <2>1, <2>3, <2>4
  <1>3. CASE IsEmpty(ready) /\ idle' = TRUE /\ th' = ths /\ UNCHANGED <<ready, current>>
    BY <1>3 DEF Core
  <1> QED BY <1>2, <1>3 DEF SwitchAway

\* The running thread blocks.
LEMMA SleepStep ==
    ASSUME IInv, Sleep PROVE IInv'
  <1> DEFINE r == RunToWait(th[current])
             ths == [th EXCEPT ![current] = r]
  <1>1. /\ Rest /\ Sound(th, ready, current, FALSE, toTimer) /\ machine = "on"
        /\ promoting = 0 /\ ~idle /\ idle \in BOOLEAN /\ th[current].waits < MaxWaits
        /\ SwitchAway(ths)
        /\ at' = at /\ promoting' = promoting /\ toTimer' = toTimer
        /\ place' = place /\ execRunningNum' = execRunningNum /\ machine' = machine
    <2>1. idle = FALSE
      BY DEF IInv, Rest, Sleep, Running
    <2> QED BY <2>1 DEF IInv, Core, Sleep, Running, Rest
  <1>2. th \in [Threads -> TCBs] /\ current \in Threads /\ th[current].status = "RUNNING"
    BY <1>1 DEF Sound
  <1>3. r \in TCBs /\ r.status = "WAITING" /\ r.since = 0
    BY <1>1, <1>2, RunToWaitIs
  <1> HIDE DEF r
  <1>4. Sound(ths, ready, current, TRUE, toTimer)
    BY <1>1, <1>3, LeaveSound
  <1>5. \A u \in Threads : ths[u].status = "TERMINATED" <=> th[u].status = "TERMINATED"
    BY <1>2, <1>3
  <1> HIDE DEF ths
  <1>6. /\ Core' /\ idle' \in BOOLEAN
        /\ \A u \in Threads : th'[u].status = "TERMINATED" <=> ths[u].status = "TERMINATED"
    BY <1>1, <1>4, SwitchKeeps
  <1>7. Rest'
    BY <1>1, <1>5, <1>6, RestKept DEF Rest
  <1> QED BY <1>6, <1>7 DEF IInv

\* main has forked everything.
LEMMA MainFinishStep ==
    ASSUME IInv, MainFinish PROVE IInv'
  <1> DEFINE r == RunToTerminated(th[main])
             ths == [th EXCEPT ![main] = r]
  <1>1. /\ Rest /\ Sound(th, ready, current, FALSE, toTimer) /\ machine = "on"
        /\ promoting = 0 /\ ~idle /\ idle \in BOOLEAN /\ current = main
        /\ SwitchAway(ths)
        /\ at' = at /\ promoting' = promoting /\ toTimer' = toTimer
        /\ place' = place /\ execRunningNum' = execRunningNum /\ machine' = machine
    <2>1. idle = FALSE
      BY DEF IInv, Rest, MainFinish, Running
    <2> QED BY <2>1 DEF IInv, Core, MainFinish, Running, Rest
  <1>2. th \in [Threads -> TCBs] /\ main \in Threads
    BY <1>1 DEF Sound
  <1>3. r \in TCBs /\ r.status = "TERMINATED" /\ r.since = 0
    BY <1>2, RunToTerminatedIs
  <1> HIDE DEF r
  <1>4. Sound(ths, ready, current, TRUE, toTimer)
    BY <1>1, <1>3, LeaveSound
  <1>5. \A u \in Threads \ {main} : ths[u].status = "TERMINATED" <=> th[u].status = "TERMINATED"
    BY <1>2, <1>3
  <1> HIDE DEF ths
  <1>6. /\ Core' /\ idle' \in BOOLEAN
        /\ \A u \in Threads : th'[u].status = "TERMINATED" <=> ths[u].status = "TERMINATED"
    BY <1>1, <1>4, SwitchKeeps
  <1>7. Rest'
    BY <1>1, <1>5, <1>6, RestKept DEF Rest
  <1> QED BY <1>6, <1>7 DEF IInv

\* An executable finishes; the last one counted halts the machine.
LEMMA FinishStep ==
    ASSUME IInv, Finish PROVE IInv'
  <1> DEFINE r == RunToTerminated(th[current])
             ths == [th EXCEPT ![current] = r]
  <1>1. /\ Rest /\ Sound(th, ready, current, FALSE, toTimer) /\ machine = "on"
        /\ promoting = 0 /\ ~idle /\ idle \in BOOLEAN /\ current # main
        /\ place[current] = "body"
        /\ execRunningNum' = IF execExit THEN execRunningNum - 1 ELSE execRunningNum
        /\ at' = at /\ promoting' = promoting /\ toTimer' = toTimer /\ place' = place
    <2>1. idle = FALSE
      BY DEF IInv, Rest, Finish, Running
    <2> QED BY <2>1 DEF IInv, Core, Finish, Running, Rest
  <1>2. /\ th \in [Threads -> TCBs] /\ current \in Threads /\ th[current].status = "RUNNING"
        /\ execRunningNum \in 0 .. NumExec /\ NumExec \in Nat
    BY <1>1, Constants DEF Sound, Rest
  <1>3. current \in Alive
    BY <1>1, <1>2 DEF Alive
  <1>4. IsFiniteSet(Alive) /\ Cardinality(Alive) \in Nat \ {0}
    <2>1. Alive \in SUBSET (Threads \ {main})
      BY DEF Alive
    <2>2. IsFiniteSet(Alive) /\ Cardinality(Alive) \in Nat
      BY <2>1, FewExecutables, FS_CardinalityType
    <2>3. Cardinality(Alive) # 0
      BY <1>3, <2>2, FS_EmptySet
    <2> QED BY <2>2, <2>3
  <1>5. execRunningNum' \in 0 .. NumExec
    <2>1. CASE execExit
      <3>1. execRunningNum = Cardinality(Alive)
        BY <1>1, <2>1 DEF Rest, Counted
      <3> QED BY <1>1, <1>2, <1>4, <2>1, <3>1
    <2>2. CASE ~execExit
      BY <1>1, <1>2, <2>2
    <2> QED BY <2>1, <2>2
  <1>6. CASE machine' = "halted" /\ UNCHANGED <<th, ready, current, idle>>
    <2>1. Core'
      <3>1. Sound(th, ready, current, idle, toTimer)
        BY DEF IInv, Core
      <3> QED BY <1>1, <1>6, <3>1 DEF Core
    <2>2. Rest'
      BY <1>1, <1>5, <1>6 DEF Rest, Counted
    <2> QED BY <2>1, <2>2 DEF IInv
  <1>7. CASE SwitchAway(ths) /\ machine' = machine
    <2>1. r \in TCBs /\ r.status = "TERMINATED" /\ r.since = 0
      BY <1>2, RunToTerminatedIs
    <2> HIDE DEF r
    <2>2. Sound(ths, ready, current, TRUE, toTimer)
      BY <1>1, <2>1, LeaveSound
    <2>3. /\ ths[current].status = "TERMINATED"
          /\ \A u \in Threads \ {current} : ths[u] = th[u]
      BY <1>2, <2>1
    <2> HIDE DEF ths
    <2>4. /\ Core' /\ idle' \in BOOLEAN
          /\ \A u \in Threads : th'[u].status = "TERMINATED" <=> ths[u].status = "TERMINATED"
      BY <1>1, <1>7, <2>2, SwitchKeeps
    <2>5. /\ th'[current].status = "TERMINATED"
          /\ \A u \in Threads \ {current} :
               th'[u].status = "TERMINATED" <=> th[u].status = "TERMINATED"
      BY <1>2, <2>3, <2>4
    <2> DEFINE B == {t \in Threads \ {main} : place'[t] = "body" /\ th'[t].status # "TERMINATED"}
    <2>6. Alive' = B /\ B = Alive \ {current}
      BY <1>1, <1>2, <2>5 DEF Alive
    <2> HIDE DEF B
    <2>7. Cardinality(B) = Cardinality(Alive) - 1
      BY <1>3, <1>4, <2>6, FS_RemoveElement
    <2>8. Counted'
      <3> SUFFICES ASSUME execExit PROVE execRunningNum' = Cardinality(Alive')
        BY DEF Counted
      <3>1. execRunningNum = Cardinality(Alive)
        BY <1>1 DEF Rest, Counted
      <3> QED BY <1>1, <2>6, <2>7, <3>1
    <2>9. Rest'
      BY <1>1, <1>5, <1>7, <2>4, <2>8 DEF Rest
    <2> QED BY <2>4, <2>9 DEF IInv
  <1> QED BY <1>6, <1>7 DEF Finish

\* V makes a waiting thread ready, out of a thread or out of Idle.
LEMMA WakeupStep ==
    ASSUME IInv, NEW t \in Threads \ {main}, Wakeup(t) \/ IdleWakeup(t) PROVE IInv'
  <1>1. /\ Rest /\ Sound(th, ready, current, idle, toTimer) /\ machine = "on"
        /\ th[t].status = "WAITING" /\ ReadyToRun(t)
        /\ current' = current /\ at' = at /\ promoting' = promoting /\ idle' = idle
        /\ place' = place /\ execRunningNum' = execRunningNum /\ machine' = machine
    BY DEF IInv, Core, Wakeup, IdleWakeup, Running
  <1>2. \/ toTimer' = toTimer
        \/ toTimer' \in 0 .. TimerTicks /\ IsEmpty(ready)
    <2>1. CASE Wakeup(t)
      BY <2>1 DEF Wakeup
    <2>2. CASE IdleWakeup(t)
      BY <2>2 DEF IdleWakeup
    <2> QED BY <2>1, <2>2
  <1>3. Sound(th, ready, current, idle, toTimer')
    <2>1. CASE toTimer' = toTimer
      BY <1>1, <2>1
    <2>2. CASE toTimer' \in 0 .. TimerTicks /\ IsEmpty(ready)
      <3>1. PICK n \in 0 .. TimerTicks : n = toTimer'
        BY <2>2
      <3>2. Sound(th, ready, current, idle, n)
        BY <1>1, <2>2, EmptySound
      <3> QED BY <3>1, <3>2
    <2> QED BY <1>2, <2>1, <2>2
  <1>4. th' = [th EXCEPT ![t] = ToReady(@, t)] /\ ready' = Inserted(th', ready, t)
    BY <1>1 DEF ReadyToRun
  <1>5. Core'
    <2>1. PICK new, n : new = th' /\ n = toTimer'
      OBVIOUS
    <2>2. new = [th EXCEPT ![t] = ToReady(@, t)] /\ ready' = Inserted(new, ready, t)
      BY <1>4, <2>1
    <2>3. Sound(th, ready, current, idle, n)
      BY <1>3, <2>1
    <2>4. Sound(new, Inserted(new, ready, t), current, idle, n)
      BY <1>1, <2>2, <2>3, ReadySound
    <2> QED BY <1>1, <2>1, <2>2, <2>4 DEF Core
  <1>6. \A u \in Threads : th'[u].status = "TERMINATED" <=> th[u].status = "TERMINATED"
    <2>1. th \in [Threads -> TCBs]
      BY <1>1 DEF Sound
    <2>2. ToReady(th[t], t).status = "READY"
      BY <2>1, ToReadyIs
    <2> QED BY <1>1, <1>4, <2>1, <2>2
  <1>7. Rest'
    BY <1>1, <1>6, RestKept DEF Rest
  <1> QED BY <1>5, <1>7 DEF IInv

\* Idle returns and the loop in Sleep runs the front thread.
LEMMA IdleReturnsStep ==
    ASSUME IInv, IdleReturns PROVE IInv'
  <1>1. /\ Rest /\ Sound(th, ready, current, TRUE, toTimer) /\ machine = "on"
        /\ idle /\ idle' = FALSE /\ promoting = 0 /\ ~IsEmpty(ready)
        /\ Run(th, ready)
        /\ at' = at /\ promoting' = promoting /\ toTimer' = toTimer
        /\ place' = place /\ execRunningNum' = execRunningNum /\ machine' = machine
    <2>1. idle = TRUE /\ promoting = 0
      BY DEF IInv, Rest, IdleReturns
    <2> QED BY <2>1 DEF IInv, Core, IdleReturns
  <1> DEFINE f == Front1(ready)
  <1>2. /\ current' = f /\ th' = [th EXCEPT ![f] = ReadyToRunning(@)]
        /\ ready' = WithoutFront(ready)
    BY <1>1 DEF Run
  <1>3. /\ f \in Threads /\ th[f].status = "READY"
        /\ Sound([th EXCEPT ![f] = ReadyToRunning(@)], WithoutFront(ready), f, FALSE, toTimer)
    BY <1>1, RunSound
  <1> HIDE DEF f
  <1>4. Core'
    BY <1>1, <1>2, <1>3 DEF Core
  <1>5. th \in [Threads -> TCBs]
    BY <1>1 DEF Sound
  <1>6. ASSUME NEW u \in Threads
        PROVE  th'[u].status = "TERMINATED" <=> th[u].status = "TERMINATED"
    <2>1. CASE u = f
      <3>1. th'[f] = ReadyToRunning(th[f]) /\ th[f] \in TCBs
        BY <1>2, <1>3, <1>5
      <3>2. th'[f].status = "RUNNING"
        BY <3>1, ReadyToRunningIs
      <3> QED BY <1>3, <2>1, <3>2
    <2>2. CASE u # f
      BY <1>2, <1>5, <2>2
    <2> QED BY <2>1, <2>2
  <1>7. Rest'
    BY <1>1, <1>6, RestKept DEF Rest
  <1> QED BY <1>4, <1>7 DEF IInv

\* The invariant is inductive.
LEMMA NextPreserves ==
    ASSUME IInv, [Next]_vars PROVE IInv'
  <1>1. CASE Interrupts
    BY <1>1, TimerCallBackStep, PromoteStep, WalkStep, AlarmDecidesStep, InterruptReturnsStep
       DEF Interrupts
  <1>2. ASSUME NEW t \in Threads \ {main}, Fork(t) \/ Wakeup(t) \/ IdleWakeup(t) PROVE IInv'
    BY <1>2, ForkStep, WakeupStep
  <1>3. CASE IdleReturns \/ BeginEnable \/ BeginCount \/ Tick
    BY <1>3, IdleReturnsStep, BeginEnableStep, BeginCountStep, TickStep
  <1>4. CASE Sleep \/ Finish \/ MainFinish
    BY <1>4, SleepStep, FinishStep, MainFinishStep
  <1>5. CASE UNCHANGED vars
    <2>1. Core'
      BY <1>5 DEF vars, IInv, Core
    <2>2. Alive' = Alive
      BY <1>5 DEF vars, Alive
    <2>3. Rest'
      BY <1>5, <2>2 DEF vars, IInv, Rest, Counted
    <2> QED BY <2>1, <2>3 DEF IInv
  <1>6. CASE Stopped
    BY <1>5, <1>6 DEF Stopped
  <1> QED BY <1>1, <1>2, <1>3, <1>4, <1>5, <1>6 DEF Next

\* The invariant holds throughout, for any number of executables and priorities.
THEOREM Invariance == Spec => []IInv
  <1>1. Init => IInv
    BY InitInv
  <1>2. IInv /\ [Next]_vars => IInv'
    BY NextPreserves
  <1> QED BY <1>1, <1>2, PTL DEF Spec

---------------------------------------------------------------------------
(* The decision of the timer's handler, carried out later.                 *)

\* YieldOnReturn is in force only from the end of the timer's handler to the
\* yield, and as long as it is there is the reason that it was called for.
Decided ==
    /\ yieldOnReturn \in BOOLEAN
    /\ yieldOnReturn => promoting = 1 /\ ShouldPreempt(th[current])

\* A handler that makes a thread ready after the decision may put it in front of
\* the one the decision was taken for, but only if it has less to run.
LEMMA DecisionStands ==
    ASSUME IInv, NEW t \in Threads \ {main}, Wakeup(t), ~idle, ShouldPreempt(th[current])
    PROVE  ShouldPreempt(th[current])'
  <1> DEFINE from == th[current]
             h == Head(ready[1])
             l == LevelOf(th'[t])
             h2 == Head(ready'[1])
  <1>1. /\ th \in [Threads -> TCBs] /\ current \in Threads /\ ready \in [1 .. 3 -> Seq(Threads)]
        /\ th[current].status = "RUNNING"
        /\ Kept(th, ready, {u \in Threads : th[u].status = "READY"})
    BY DEF IInv, Core, Sound, Kept, Lists
  <1>2. /\ th[t].status = "WAITING" /\ th' = [th EXCEPT ![t] = ToReady(@, t)]
        /\ ready' = Inserted(th', ready, t) /\ current' = current
    BY DEF Wakeup, ReadyToRun
  <1>3. /\ th' \in [Threads -> TCBs] /\ th'[current] = th[current]
        /\ \A u \in Threads \ {t} : th'[u] = th[u]
    BY <1>1, <1>2, ToReadyIs
  <1>4. CASE LevelOf(from) = 3
    BY <1>2, <1>3, <1>4 DEF ShouldPreempt
  <1>5. ASSUME ready[1] # << >>, LevelOf(from) = 2 \/ TimeAfter(from, th[h])
        PROVE  ShouldPreempt(th[current])'
    <2>1. /\ ready[1] \in Seq(Threads) /\ Len(ready[1]) \in Nat /\ Len(ready[1]) # 0
          /\ h = ready[1][1] /\ h \in Range(ready[1]) /\ h \in Threads
      <3>1. ready[1] \in Seq(Threads)
        BY <1>1
      <3>2. Len(ready[1]) \in Nat /\ Len(ready[1]) # 0 /\ DOMAIN ready[1] = 1 .. Len(ready[1])
        BY <3>1, <1>5, EmptySeq, LenProperties
      <3>3. h = ready[1][1] /\ 1 \in 1 .. Len(ready[1])
        BY <3>1, <3>2, <1>5, HeadTailProperties
      <3> QED BY <3>1, <3>2, <3>3, ElementOfSeq DEF Range
    <2>2. h # t /\ th'[h] = th[h]
      <3>1. th[h].status = "READY"
        BY <1>1, <2>1 DEF Kept, Lists
      <3> QED BY <1>2, <1>3, <2>1, <3>1
    <2>3. PICK i \in 1 .. Len(ready[l]) + 1 :
            /\ l \in 1 .. 3 /\ ready' \in [1 .. 3 -> Seq(Threads)]
            /\ \A m \in 1 .. 3 : m # l => ready'[m] = ready[m]
            /\ IsInsertion(ready'[l], ready[l], i, t)
            /\ l = 1 /\ i # Len(ready[1]) + 1 => TimeBefore(th'[t], th'[ready[1][i]])
      <3>1. PICK new : new = th'
        OBVIOUS
      <3> DEFINE k == LevelOf(new[t])
                 r == Inserted(new, ready, t)
      <3>2. new \in [Threads -> TCBs] /\ ready \in [1 .. 3 -> Seq(Threads)] /\ t \in Threads
        BY <1>1, <1>3, <3>1
      <3>3. /\ k \in 1 .. 3 /\ r \in [1 .. 3 -> Seq(Threads)]
            /\ \A m \in 1 .. 3 : m # k => r[m] = ready[m]
            /\ \E i \in 1 .. Len(ready[k]) + 1 :
                 /\ IsInsertion(r[k], ready[k], i, t)
                 /\ k = 1 => /\ \A j \in 1 .. Len(ready[1]) :
                                  j < i => ~TimeBefore(new[t], new[ready[1][j]])
                             /\ i # Len(ready[1]) + 1 => TimeBefore(new[t], new[ready[1][i]])
        BY <3>2, InsertedIs
      <3>4. k = l /\ r = ready'
        BY <1>2, <3>1
      <3> HIDE DEF k, r, l
      <3> QED BY <3>1, <3>3, <3>4
    <2> HIDE DEF l
    <2>4. /\ ready'[1] # << >>
          /\ \/ h2 = h
             \/ h2 = t /\ TimeBefore(th'[t], th[h])
      <3>1. CASE l # 1
        BY <1>5, <2>3, <3>1
      <3>2. CASE l = 1
        <4>1. /\ IsInsertion(ready'[1], ready[1], i, t) /\ i \in 1 .. Len(ready[1]) + 1
              /\ ready'[1] \in Seq(Threads)
              /\ i # Len(ready[1]) + 1 => TimeBefore(th'[t], th'[ready[1][i]])
          BY <2>3, <3>2
        <4>2. /\ Len(ready'[1]) = Len(ready[1]) + 1
              /\ ready'[1][1] = IF 1 < i THEN ready[1][1] ELSE IF 1 = i THEN t ELSE ready[1][0]
          <5>1. 1 \in 1 .. Len(ready[1]) + 1
            BY <2>1
          <5> QED BY <4>1, <5>1 DEF IsInsertion
        <4>3. ready'[1] # << >>
          BY <2>1, <4>1, <4>2, EmptySeq
        <4>4. h2 = ready'[1][1]
          BY <4>1, <4>3, HeadTailProperties
        <4>5. CASE i = 1
          <5>1. TimeBefore(th'[t], th'[ready[1][1]])
            BY <2>1, <4>1, <4>5
          <5> QED BY <2>1, <2>2, <4>2, <4>3, <4>4, <4>5, <5>1
        <4>6. CASE i # 1
          <5>1. 1 < i
            BY <2>1, <4>1, <4>6
          <5> QED BY <2>1, <4>2, <4>3, <4>4, <5>1
        <4> QED BY <4>5, <4>6
      <3> QED BY <3>1, <3>2
    <2>5. LevelOf(from) = 2 \/ TimeAfter(from, th'[h2])
      <3>1. CASE h2 = h
        BY <1>5, <2>2, <3>1
      <3>2. CASE h2 = t /\ TimeBefore(th'[t], th[h]) /\ TimeAfter(from, th[h])
        <4>1. /\ RemainTime(from) \in Int /\ RemainTime(th[h]) \in Int
              /\ RemainTime(th'[t]) \in Int /\ Scale \in Nat \ {0}
          BY <1>1, <1>3, <2>1, Numbers, Constants
        <4>2. RemainTime(from) - RemainTime(th'[t]) >= Scale
          BY <3>2, <4>1 DEF TimeAfter, TimeBefore
        <4> QED BY <3>2, <4>2 DEF TimeAfter, TimeBefore
      <3> QED BY <1>5, <2>4, <3>1, <3>2
    <2> HIDE DEF h2
    <2>6. LevelOf(th'[current']) = 2 \/ TimeAfter(th'[current'], th'[h2])
      BY <1>2, <1>3, <2>5
    <2> QED BY <2>4, <2>6 DEF ShouldPreempt, h2
  <1> QED BY <1>4, <1>5 DEF ShouldPreempt

\* No other step leaves a decision in force that it may falsify.
LEMMA DecidedKept ==
    ASSUME IInv, Decided, [Next]_vars PROVE Decided'
  <1>1. CASE UNCHANGED vars
    BY <1>1 DEF vars, Decided, ShouldPreempt
  <1>2. CASE promoting # 1 /\ yieldOnReturn' = yieldOnReturn
    BY <1>2 DEF Decided
  <1>3. CASE AlarmDecides
    <2>1. /\ yieldOnReturn' = ShouldPreempt(th[current]) /\ promoting' = 1
          /\ th' = th /\ ready' = ready /\ current' = current
      BY <1>3 DEF AlarmDecides
    <2>2. ShouldPreempt(th[current])' = ShouldPreempt(th[current])
      BY <2>1 DEF ShouldPreempt
    <2>3. ShouldPreempt(th[current]) \in BOOLEAN
      BY DEF ShouldPreempt
    <2> QED BY <2>1, <2>2, <2>3, Zenon DEF Decided
  <1>4. CASE InterruptReturns
    BY <1>4 DEF InterruptReturns, Decided
  <1>5. ASSUME NEW t \in Threads \ {main}, Wakeup(t) PROVE Decided'
    <2>1. yieldOnReturn' = yieldOnReturn /\ promoting' = promoting /\ ~idle
      BY <1>5 DEF Wakeup
    <2>2. CASE yieldOnReturn
      <3>1. ShouldPreempt(th[current])'
        BY <1>5, <2>1, <2>2, DecisionStands DEF Decided
      <3> QED BY <2>1, <3>1 DEF Decided
    <2>3. CASE ~yieldOnReturn
      BY <2>1, <2>3 DEF Decided
    <2> QED BY <2>2, <2>3
  <1>6. ASSUME NEW t \in Threads \ {main}, Fork(t) \/ IdleWakeup(t) PROVE Decided'
    BY <1>2, <1>6 DEF Fork, IdleWakeup, Running, OneTick, IInv, Rest
  <1>7. CASE TimerCallBack \/ Promote \/ PromoteAborts \/ PromoteSkips \/ PromoteL2
    BY <1>2, <1>7 DEF TimerCallBack, Promote, PromoteAborts, PromoteSkips, PromoteL2
  <1>8. CASE IdleReturns \/ BeginEnable \/ BeginCount \/ Tick
    BY <1>2, <1>8 DEF IdleReturns, BeginEnable, BeginCount, Tick, Running, OneTick, IInv, Rest
  <1>9. CASE Sleep \/ Finish \/ MainFinish
    BY <1>2, <1>9 DEF Sleep, Finish, MainFinish, Running
  <1> QED BY <1>1, <1>3, <1>4, <1>5, <1>6, <1>7, <1>8, <1>9 DEF Next, Interrupts, Stopped

\* The decision stands until it is carried out.
LEMMA DecidedHolds == Spec => []Decided
  <1>1. Init => Decided
    BY DEF Init, Decided
  <1>2. IInv /\ Decided /\ [Next]_vars => Decided'
    BY DecidedKept
  <1> QED BY <1>1, <1>2, Invariance, PTL DEF Spec

\* Types: no priority leaves 0 .. 149 however long threads age, and Finish never
\* counts more executables down than Begin has counted up.
THEOREM TypeCorrect == Spec => []TypeOK
  <1>1. IInv /\ Decided => TypeOK
    BY Typed DEF Decided
  <1> QED BY <1>1, Invariance, DecidedHolds, PTL

\* Exactly the current thread runs, whatever Yield, Sleep, Finish and Idle do.
THEOREM OneRunningHolds == Spec => []OneRunning
  <1>1. IInv => OneRunning
    BY DEF IInv, Core, Sound, OneRunning
  <1> QED BY <1>1, Invariance, PTL

\* A priority only rises while its thread is listed, and toReady resets it before
\* Append reads it: no thread is on a better list than it has earned.
THEOREM ListsRespectLevelsHolds == Spec => []ListsRespectLevels
  <1>1. IInv => ListsRespectLevels
    <2>1. \A l \in 1 .. 3 : ToSet(ready[l]) = Range(ready[l])
      BY DEF ToSet, Range
    <2> QED BY <2>1 DEF IInv, Core, Sound, Kept, Levels, ListsRespectLevels
  <1> QED BY <1>1, Invariance, PTL

\* compareTime is not transitive, and still SortedList::Insert keeps L1 sorted
\* to within a tick.
THEOREM L1NearlySortedHolds == Spec => []L1NearlySorted
  <1>1. IInv => L1NearlySorted
    BY DEF IInv, Core, Sound, Kept, NearlySorted, L1NearlySorted
  <1> QED BY <1>1, Invariance, PTL

\* Every READY thread is on one list once, and nobody else is on any, however
\* Yield, wake-ups and promotions that lose their way interleave.
THEOREM ReadyListedHolds == Spec => []ReadyListed
  <1>1. ASSUME IInv PROVE ReadyListed
    <2> DEFINE P == (1 .. 3) \X (1 .. NumExec + 1)
               At(t) == {p \in P : p[2] <= Len(ready[p[1]]) /\ ready[p[1]][p[2]] = t}
    <2> SUFFICES ASSUME NEW t \in Threads
                 PROVE  Cardinality(At(t)) = IF th[t].status = "READY" THEN 1 ELSE 0
      BY DEF ReadyListed
    <2>1. Lists(ready, {u \in Threads : th[u].status = "READY"})
      BY <1>1 DEF IInv, Core, Sound, Kept
    <2>2. \A l \in 1 .. 3 : /\ ready[l] \in Seq(Threads) /\ Len(ready[l]) \in Nat
                            /\ DOMAIN ready[l] = 1 .. Len(ready[l]) /\ Distinct(ready[l])
      BY <2>1, LenProperties DEF Lists
    <2>3. \A p \in At(t) : /\ p[1] \in 1 .. 3 /\ p[2] \in 1 .. Len(ready[p[1]])
                           /\ p = <<p[1], p[2]>> /\ ready[p[1]][p[2]] = t
                           /\ t \in Range(ready[p[1]])
      <3> SUFFICES ASSUME NEW p \in At(t)
                   PROVE  /\ p[1] \in 1 .. 3 /\ p[2] \in 1 .. Len(ready[p[1]])
                          /\ p = <<p[1], p[2]>> /\ ready[p[1]][p[2]] = t
                          /\ t \in Range(ready[p[1]])
        OBVIOUS
      <3>1. /\ p[1] \in 1 .. 3 /\ p[2] \in 1 .. NumExec + 1 /\ p = <<p[1], p[2]>>
            /\ p[2] <= Len(ready[p[1]]) /\ ready[p[1]][p[2]] = t
        OBVIOUS
      <3>2. p[2] \in 1 .. Len(ready[p[1]])
        BY <2>2, <3>1, Constants
      <3> QED BY <2>2, <3>1, <3>2 DEF Range
    <2>4. CASE th[t].status # "READY"
      <3>1. \A l \in 1 .. 3 : t \notin Range(ready[l])
        BY <2>1, <2>4 DEF Lists
      <3>2. At(t) = {}
        <4> SUFFICES ASSUME NEW p \in At(t) PROVE FALSE
          OBVIOUS
        <4> HIDE DEF At
        <4> QED BY <2>3, <3>1
      <3> QED BY <2>4, <3>2, FS_EmptySet
    <2>5. CASE th[t].status = "READY"
      <3>1. PICK l \in 1 .. 3 : t \in Range(ready[l])
        BY <2>1, <2>5 DEF Lists
      <3>2. PICK i \in 1 .. Len(ready[l]) : ready[l][i] = t
        BY <2>2, <3>1 DEF Range
      <3>3. Len(ready[l]) <= NumExec + 1
        <4> DEFINE D == 1 .. Len(ready[l])
        <4>1. IsFiniteSet(Threads) /\ Cardinality(Threads) = NumExec + 1
          <5>1. NumExec \in Nat /\ NumExec \in Int /\ 0 \in Int /\ Threads = 0 .. NumExec
            BY Constants
          <5>2. /\ IsFiniteSet(0 .. NumExec)
                /\ Cardinality(0 .. NumExec) = IF 0 > NumExec THEN 0 ELSE NumExec - 0 + 1
            BY <5>1, FS_Interval
          <5> QED BY <5>1, <5>2
        <4>2. IsFiniteSet(D) /\ Cardinality(D) = Len(ready[l])
          <5>1. PICK n \in Nat : n = Len(ready[l])
            BY <2>2
          <5>2. n \in Int /\ 1 \in Int
            BY <5>1
          <5>3. IsFiniteSet(1 .. n) /\ Cardinality(1 .. n) = IF 1 > n THEN 0 ELSE n - 1 + 1
            BY <5>2, FS_Interval
          <5>4. Cardinality(1 .. n) = n
            BY <5>1, <5>3
          <5> QED BY <5>1, <5>3, <5>4
        <4>3. ready[l] \in Injection(D, Threads)
          <5>1. ready[l] \in [D -> Threads]
            BY <2>2, LenProperties
          <5>2. IsInjective(ready[l])
            BY <2>2 DEF IsInjective, Distinct
          <5> QED BY <5>1, <5>2 DEF Injection
        <4> HIDE DEF D
        <4>4. Cardinality(D) <= Cardinality(Threads)
          BY <4>1, <4>2, <4>3, FS_Injection
        <4> QED BY <4>1, <4>2, <4>4
      <3>4. <<l, i>> \in At(t)
        <4>1. i \in 1 .. NumExec + 1 /\ i <= Len(ready[l])
          BY <2>2, <3>3, Constants
        <4> QED BY <3>2, <4>1
      <3> HIDE DEF At
      <3>5. ASSUME NEW p \in At(t) PROVE p = <<l, i>>
        <4>1. p[1] = l
          <5>1. \A m \in 1 .. 3 : m # l => Range(ready[m]) \cap Range(ready[l]) = {}
            BY <2>1 DEF Lists
          <5> QED BY <2>3, <3>1, <5>1
        <4>2. p[2] = i
          BY <2>2, <2>3, <3>2, <4>1 DEF Distinct
        <4> QED BY <2>3, <4>1, <4>2
      <3>6. At(t) = {<<l, i>>}
        BY <3>4, <3>5
      <3> QED BY <2>5, <3>6, FS_Singleton
    <2> QED BY <2>4, <2>5
  <1> QED BY <1>1, Invariance, PTL

\* A tick changes no status.
LEMMA OneTickStatus ==
    ASSUME NEW ths \in [Threads -> TCBs], NEW q, OneTick(ths, q)
    PROVE  \A t \in Threads : th'[t].status = ths[t].status
  BY TickedIs DEF OneTick

\* Only the return from the timer interrupt makes the running thread ready.
LEMMA OthersDoNotPreempt ==
    ASSUME IInv, Next, ~InterruptReturns, th[current].status = "RUNNING"
    PROVE  th'[current].status # "READY"
  <1>1. /\ th \in [Threads -> TCBs] /\ current \in Threads /\ ~idle
        /\ main \in Threads
    BY Constants DEF IInv, Core, Sound
  <1>2. CASE \/ Promote \/ PromoteAborts \/ PromoteSkips \/ PromoteL2 \/ AlarmDecides
             \/ BeginCount \/ Stopped
    BY <1>2 DEF Promote, PromoteAborts, PromoteSkips, PromoteL2, AlarmDecides, BeginCount,
                Stopped, vars
  <1>11. CASE TimerCallBack
    <2>1. th'[current] = IF th[current].status = "READY" THEN Aging(th[current])
                         ELSE th[current]
      BY <1>1, <1>11 DEF TimerCallBack
    <2> QED BY <2>1
  <1>3. CASE BeginEnable \/ Tick
    <2>1. OneTick(th, ready)
      BY <1>3 DEF BeginEnable, Tick
    <2> QED BY <1>1, <2>1, OneTickStatus
  <1>4. ASSUME NEW t \in Threads \ {main}, Fork(t) PROVE th'[current].status # "READY"
    <2> DEFINE ths == [th EXCEPT ![t] = ToReady(@, t)]
               q == Inserted(ths, ready, t)
    <2>1. OneTick(ths, q) /\ current = main
      BY <1>4 DEF Fork
    <2>2. ths \in [Threads -> TCBs] /\ ths[main] = th[main]
      BY <1>1, ToReadyIs
    <2> HIDE DEF ths, q
    <2>3. th'[main].status = ths[main].status
      BY <1>1, <2>1, <2>2, OneTickStatus
    <2> QED BY <2>1, <2>2, <2>3
  <1>5. ASSUME NEW t \in Threads \ {main}, Wakeup(t) \/ IdleWakeup(t)
        PROVE  th'[current].status # "READY"
    <2>1. th[t].status = "WAITING" /\ th' = [th EXCEPT ![t] = ToReady(@, t)]
      BY <1>5 DEF Wakeup, IdleWakeup, ReadyToRun
    <2>2. t # current
      BY <2>1
    <2>3. th'[current] = th[current]
      BY <1>1, <2>1, <2>2
    <2> QED BY <2>3
  <1>6. CASE IdleReturns
    BY <1>1, <1>6 DEF IdleReturns
  <1>7. ASSUME NEW r \in TCBs, r.status \in {"WAITING", "TERMINATED"},
               SwitchAway([th EXCEPT ![current] = r])
        PROVE  th'[current].status # "READY"
    <2> DEFINE ths == [th EXCEPT ![current] = r]
               f == Front1(ready)
    <2>1. ths \in [Threads -> TCBs] /\ ths[current] = r
      BY <1>1
    <2>2. th' = ths \/ th' = [ths EXCEPT ![f] = ReadyToRunning(@)]
      BY <1>7 DEF SwitchAway, Run
    <2> HIDE DEF ths, f
    <2>3. CASE th' = ths
      BY <1>7, <2>1, <2>3
    <2>4. CASE th' = [ths EXCEPT ![f] = ReadyToRunning(@)]
      <3>1. CASE f = current
        <4>1. th'[current] = ReadyToRunning(r)
          BY <1>1, <2>1, <2>4, <3>1
        <4> QED BY <4>1, ReadyToRunningIs
      <3>2. CASE f # current
        BY <1>1, <1>7, <2>1, <2>4, <3>2
      <3> QED BY <3>1, <3>2
    <2> QED BY <2>2, <2>3, <2>4
  <1>8. th[current] \in TCBs
    BY <1>1
  <1>9. CASE Sleep
    <2>1. th[current].waits < MaxWaits /\ SwitchAway([th EXCEPT ![current] = RunToWait(@)])
      BY <1>9 DEF Sleep
    <2>2. RunToWait(th[current]) \in TCBs /\ RunToWait(th[current]).status = "WAITING"
      BY <1>8, <2>1, RunToWaitIs
    <2> QED BY <1>7, <2>1, <2>2
  <1>10. CASE Finish \/ MainFinish
    <2>1. \/ th' = th
          \/ SwitchAway([th EXCEPT ![current] = RunToTerminated(@)])
      BY <1>10 DEF Finish, MainFinish
    <2>2. RunToTerminated(th[current]) \in TCBs /\ RunToTerminated(th[current]).status = "TERMINATED"
      BY <1>8, RunToTerminatedIs
    <2> QED BY <1>7, <2>1, <2>2
  <1> QED BY <1>2, <1>3, <1>4, <1>5, <1>6, <1>9, <1>10, <1>11 DEF Next, Interrupts

\* A thread is taken off the processor for another one only when CheckIfDue has
\* called every handler that was due, and then for one as good as ShouldPreempt
\* demanded when the timer's handler asked it, although handlers called since
\* may have put others in front.
THEOREM PreemptionOrderHolds == Spec => PreemptionOrder
  <1>1. ASSUME IInv, Decided, [Next]_vars PROVE [PreemptionStep]_vars
    <2> DEFINE from == th[current]
               f == Front1(ready)
    <2> SUFFICES ASSUME Next, from.status = "RUNNING", th'[current].status = "READY"
                 PROVE  /\ LevelOf(from) = 2 => LevelOf(th[current']) = 1
                        /\ LevelOf(from) = 1 =>
                             LevelOf(th[current']) = 1 /\ TimeBefore(th[current'], from)
      BY <1>1 DEF PreemptionStep
    <2>1. InterruptReturns
      BY <1>1, OthersDoNotPreempt
    <2>2. /\ ShouldPreempt(from) /\ ~IsEmpty(ready) /\ current' = f
      <3>1. yieldOnReturn /\ ~IsEmpty(ready) /\ current' = f
        BY <2>1 DEF InterruptReturns
      <3> QED BY <1>1, <3>1 DEF Decided
    <2>3. /\ th \in [Threads -> TCBs]
          /\ Kept(th, ready, {t \in Threads : th[t].status = "READY"})
      BY <1>1 DEF IInv, Core, Sound
    <2>4. f \in Threads /\ LevelOf(th[f]) <= FrontLevel(ready)
      BY <2>2, <2>3, FrontKeeps
    <2>5. LevelOf(th[f]) \in 1 .. 3
      BY <2>3, <2>4, LevelsAre
    <2>6. ASSUME LevelOf(from) \in {1, 2}
          PROVE  /\ f = Head(ready[1]) /\ LevelOf(th[f]) = 1
                 /\ LevelOf(from) = 1 => TimeBefore(th[f], from)
      <3>1. /\ ready[1] # << >>
            /\ LevelOf(from) = 2 \/ TimeAfter(from, th[Head(ready[1])])
        BY <2>2, <2>6 DEF ShouldPreempt
      <3>2. FrontLevel(ready) = 1
        BY <3>1 DEF FrontLevel
      <3>3. f = Head(ready[1])
        BY <3>2 DEF Front1
      <3>4. LevelOf(th[f]) = 1
        BY <2>4, <2>5, <3>2
      <3>5. LevelOf(from) = 1 => TimeBefore(th[f], from)
        BY <3>1, <3>3 DEF TimeAfter
      <3> QED BY <3>3, <3>4, <3>5
    <2> QED BY <2>2, <2>6
  <1> QED BY <1>1, Invariance, DecidedHolds, PTL DEF Spec, PreemptionOrder
=============================================================================
