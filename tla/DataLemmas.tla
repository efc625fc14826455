----------------------------- MODULE DataLemmas -----------------------------
(***************************************************************************)
(* Lemmas about the kernel's data.  Sets of natural numbers searched from   *)
(* below, the way its bitmaps and tables are: a set has a least element, a  *)
(* finite set an element of every rank, and some number is missing from    *)
(* it.  Queues of threads, which are appended to at the end and taken from  *)
(* at the front, and hold each thread once.                                *)
(***************************************************************************)
EXTENDS FiniteSetTheorems, SequenceTheorems, TLAPS

\* A non-empty set of natural numbers has a least element: what a search from
\* slot 0 upwards (FileDescriptor of filesys.h, FindAndSet of bitmap.cc) finds.
LEMMA LeastNat ==
    ASSUME NEW S \in SUBSET Nat, S # {}
    PROVE  \E n \in S : \A m \in S : n <= m
  <1> DEFINE Segment(n) == 0 .. n
             T == {Segment(n) : n \in S}
  <1>1. T \subseteq FiniteSubsetsOf(Nat)
    <2> SUFFICES ASSUME NEW n \in S PROVE Segment(n) \in FiniteSubsetsOf(Nat)
      OBVIOUS
    <2>1. n \in Int /\ 0 \in Int /\ Segment(n) \subseteq Nat
      OBVIOUS
    <2>2. IsFiniteSet(Segment(n))
      BY <2>1, FS_Interval
    <2> QED BY <2>1, <2>2 DEF FiniteSubsetsOf
  <1>2. T # {}
    OBVIOUS
  <1>3. PICK x \in T : \A y \in T : <<y, x>> \notin StrictSubsetOrdering(Nat)
    BY <1>1, <1>2, FS_StrictSubsetOrderingWellFounded, WFMin
  <1>4. PICK n \in S : x = Segment(n)
    OBVIOUS
  <1>5. ASSUME NEW m \in S, ~(n <= m) PROVE FALSE
    <2>1. Segment(m) \subseteq Segment(n) /\ n \in Segment(n) /\ n \notin Segment(m)
      BY <1>5
    <2>2. Segment(m) \in SUBSET Nat /\ Segment(n) \in SUBSET Nat
      OBVIOUS
    <2>3. <<Segment(m), x>> \in StrictSubsetOrdering(Nat)
      <3> HIDE DEF Segment
      <3> QED BY <2>1, <2>2, <1>4 DEF StrictSubsetOrdering
    <2> QED BY <2>3, <1>3
  <1> QED BY <1>5

\* A finite set of natural numbers has, for every k below its size, an element
\* with just k smaller ones: the bit that the (k + 1)-th FindAndSet in a row takes.
LEMMA RankExists ==
    ASSUME NEW S \in SUBSET Nat, IsFiniteSet(S),
           NEW k \in Nat, k < Cardinality(S)
    PROVE  \E f \in S : Cardinality({g \in S : g < f}) = k
  <1> DEFINE Below(f) == {g \in S : g < f}
             Missing == {i \in Nat : /\ i < Cardinality(S)
                                     /\ ~\E f \in S : Cardinality(Below(f)) = i}
  <1> SUFFICES ASSUME Missing # {} PROVE FALSE
    OBVIOUS
  <1>1. PICK i \in Missing : \A j \in Missing : i <= j
    <2> HIDE DEF Missing
    <2>1. Missing \in SUBSET Nat
      BY DEF Missing
    <2> QED BY <2>1, LeastNat
  <1>2. Cardinality(S) \in Nat
    BY FS_CardinalityType
  <1>3. CASE i = 0
    <2>1. S # {}
      BY <1>1, <1>2, <1>3, FS_EmptySet
    <2>2. PICK f \in S : \A m \in S : f <= m
      BY <2>1, LeastNat
    <2>3. Below(f) = {}
      <3> SUFFICES ASSUME NEW g \in S, g < f PROVE FALSE
        OBVIOUS
      <3>1. g \in Nat /\ f \in Nat /\ f <= g
        BY <2>2
      <3> QED BY <3>1
    <2>4. Cardinality(Below(f)) = 0
      BY <2>3, FS_EmptySet
    <2> QED BY <2>4, <1>1, <1>3
  <1>4. CASE i # 0
    <2>1. PICK f \in S : Cardinality(Below(f)) = i - 1
      BY <1>1, <1>2, <1>4
    <2>2. IsFiniteSet(Below(f))
      BY FS_Subset
    <2>3. /\ IsFiniteSet(Below(f) \cup {f})
          /\ Cardinality(Below(f) \cup {f}) = i
      <3>1. f \in Nat /\ f \notin Below(f)
        OBVIOUS
      <3>2. i - 1 + 1 = i
        BY <1>1
      <3> HIDE DEF Below
      <3> QED BY <3>1, <3>2, <2>1, <2>2, FS_AddElement
    <2> DEFINE Above == {g \in S : g > f}
    <2>4. Above # {}
      <3>1. SUFFICES ASSUME Above = {} PROVE FALSE
        OBVIOUS
      <3>2. \A g \in S : g \in Nat /\ f \in Nat
        OBVIOUS
      <3>3. \A g \in S : g < f \/ g = f
        BY <3>1, <3>2
      <3>4. S = Below(f) \cup {f}
        BY <3>3
      <3> QED BY <3>4, <2>3, <1>1, <1>2
    <2>5. PICK h \in Above : \A m \in Above : h <= m
      <3>1. Above \in SUBSET Nat
        OBVIOUS
      <3> QED BY <3>1, <2>4, LeastNat
    <2>6. Below(h) = Below(f) \cup {f}
      <3>1. h \in Nat /\ f \in Nat /\ f < h /\ \A g \in S : g \in Nat
        BY <2>5
      <3>2. \A g \in S : g > f => h <= g
        BY <2>5
      <3>3. \A g \in S : g < h <=> g < f \/ g = f
        BY <3>1, <3>2
      <3> QED BY <3>3
    <2> QED BY <2>3, <2>5, <2>6, <1>1
  <1> QED BY <1>3, <1>4

\* Among 0 .. the size of a finite set of natural numbers one is missing, and
\* the least such has all smaller ones in the set: the descriptor open(2) returns.
LEMMA LeastMissing ==
    ASSUME NEW S \in SUBSET Nat, IsFiniteSet(S)
    PROVE  \E d \in 0 .. Cardinality(S) : d \notin S /\ \A e \in 0 .. d - 1 : e \in S
  <1> DEFINE n == Cardinality(S)
             Free == (0 .. n) \ S
  <1>1. n \in Nat
    BY FS_CardinalityType
  <1> HIDE DEF n
  <1>2. Free # {}
    <2>1. SUFFICES ASSUME 0 .. n \subseteq S PROVE FALSE
      OBVIOUS
    <2>2. Cardinality(0 .. n) = n + 1
      BY <1>1, FS_Interval
    <2>3. Cardinality(0 .. n) <= n
      BY <2>1, FS_Subset DEF n
    <2> QED BY <1>1, <2>2, <2>3
  <1>3. PICK d \in Free : \A m \in Free : d <= m
    <2>1. Free \in SUBSET Nat
      BY <1>1
    <2> HIDE DEF Free
    <2> QED BY <2>1, <1>2, LeastNat
  <1>4. \A e \in 0 .. d - 1 : e \in S
    BY <1>1, <1>3
  <1> QED BY <1>3, <1>4 DEF n

---------------------------------------------------------------------------
(* Queues (List of lib/list.h).                                            *)

\* No element is in the queue twice.
Distinct(s) == \A i, j \in DOMAIN s : s[i] = s[j] => i = j

\* List::Append adds one element; a queue without it stays without repetition.
LEMMA AppendQueue ==
    ASSUME NEW S, NEW s \in Seq(S), NEW e \in S
    PROVE  /\ Append(s, e) \in Seq(S)
           /\ Append(s, e) # << >>
           /\ Range(Append(s, e)) = Range(s) \cup {e}
           /\ Distinct(s) /\ e \notin Range(s) => Distinct(Append(s, e))
  <1>1. /\ Append(s, e) \in Seq(S) /\ Append(s, e) # << >>
        /\ Len(s) \in Nat /\ DOMAIN s = 1 .. Len(s)
        /\ DOMAIN Append(s, e) = 1 .. Len(s) + 1
        /\ \A i \in 1 .. Len(s) : Append(s, e)[i] = s[i]
        /\ Append(s, e)[Len(s) + 1] = e
    BY AppendProperties, LenProperties
  <1> DEFINE n == Len(s)
             a == Append(s, e)
  <1> HIDE DEF n, a
  <1>2. /\ n \in Nat /\ DOMAIN s = 1 .. n /\ DOMAIN a = 1 .. n + 1
        /\ \A i \in 1 .. n : a[i] = s[i]
        /\ a[n + 1] = e
    BY <1>1 DEF n, a
  <1>3. Range(a) = Range(s) \cup {e}
    <2>1. \A x : x \in Range(a) <=> \E i \in 1 .. n + 1 : a[i] = x
      BY <1>2 DEF Range
    <2>2. \A x : x \in Range(s) <=> \E i \in 1 .. n : s[i] = x
      BY <1>2 DEF Range
    <2>3. \A i \in 1 .. n + 1 : i \in 1 .. n \/ i = n + 1
      BY <1>2
    <2>4. n + 1 \in 1 .. n + 1 /\ 1 .. n \subseteq 1 .. n + 1
      BY <1>2
    <2> QED BY <2>1, <2>2, <2>3, <2>4, <1>2
  <1>4. ASSUME Distinct(s), e \notin Range(s) PROVE Distinct(a)
    <2>1. \A i \in 1 .. n : s[i] # e
      BY <1>2, <1>4 DEF Range
    <2>2. \A i \in 1 .. n + 1 : i \in 1 .. n \/ i = n + 1
      BY <1>2
    <2> QED BY <1>2, <1>4, <2>1, <2>2 DEF Distinct
  <1> QED BY <1>1, <1>3, <1>4 DEF a

\* List::RemoveFront takes one element; of a queue without repetition it is gone.
LEMMA TakeFront ==
    ASSUME NEW S, NEW s \in Seq(S), s # << >>
    PROVE  /\ Head(s) \in S /\ Tail(s) \in Seq(S)
           /\ Head(s) \in Range(s)
           /\ Range(s) = Range(Tail(s)) \cup {Head(s)}
           /\ Distinct(s) => Distinct(Tail(s)) /\ Head(s) \notin Range(Tail(s))
  <1> DEFINE h == Head(s)
             t == Tail(s)
             n == Len(s)
  <1>1. /\ h \in S /\ t \in Seq(S) /\ h = s[1]
        /\ n \in Nat \ {0} /\ DOMAIN s = 1 .. n /\ DOMAIN t = 1 .. n - 1
        /\ \A i \in 1 .. n - 1 : t[i] = s[i + 1]
    BY HeadTailProperties, LenProperties, EmptySeq
  <1> HIDE DEF h, t, n
  <1>2. \A x : x \in Range(s) <=> \E i \in 1 .. n : s[i] = x
    BY <1>1 DEF Range
  <1>3. \A x : x \in Range(t) <=> \E i \in 1 .. n - 1 : s[i + 1] = x
    BY <1>1 DEF Range
  <1>4. /\ 1 \in 1 .. n
        /\ \A i \in 1 .. n : i = 1 \/ \E j \in 1 .. n - 1 : j + 1 = i
        /\ \A j \in 1 .. n - 1 : j + 1 \in 1 .. n /\ j + 1 # 1
    <2>1. ASSUME NEW i \in 1 .. n, i # 1 PROVE \E j \in 1 .. n - 1 : j + 1 = i
      <3>1. i - 1 \in 1 .. n - 1 /\ (i - 1) + 1 = i
        BY <1>1, <2>1
      <3> QED BY <3>1
    <2> QED BY <1>1, <2>1
  <1>5. h \in Range(s)
    BY <1>1, <1>2, <1>4
  <1>6. Range(s) = Range(t) \cup {h}
    <2>1. \A x : x \in Range(s) => x \in Range(t) \/ x = h
      BY <1>1, <1>2, <1>3, <1>4
    <2>2. \A x : x \in Range(t) => x \in Range(s)
      BY <1>2, <1>3, <1>4
    <2> QED BY <1>5, <2>1, <2>2
  <1>7. ASSUME Distinct(s) PROVE Distinct(t) /\ h \notin Range(t)
    <2>1. \A i, j \in 1 .. n : s[i] = s[j] => i = j
      BY <1>1, <1>7 DEF Distinct
    <2>2. h \notin Range(t)
      BY <1>1, <1>3, <1>4, <2>1
    <2>3. ASSUME NEW i \in 1 .. n - 1, NEW j \in 1 .. n - 1, t[i] = t[j] PROVE i = j
      <3>1. s[i + 1] = s[j + 1]
        BY <1>1, <2>3
      <3>2. i + 1 = j + 1
        BY <3>1, <1>4, <2>1
      <3> QED BY <3>2, <1>1
    <2>4. Distinct(t)
      BY <1>1, <2>3 DEF Distinct
    <2> QED BY <2>2, <2>4
  <1> QED BY <1>1, <1>5, <1>6, <1>7 DEF h, t

\* Joining a sequence and one element appends it.
LEMMA JoinOne ==
    ASSUME NEW S, NEW s \in Seq(S), NEW e \in S
    PROVE  s \o <<e>> = Append(s, e)
  <1>1. <<e>> \in Seq(S) /\ Len(<<e>>) = 1 /\ <<e>>[1] = e
    OBVIOUS
  <1>2. /\ s \o <<e>> \in Seq(S) /\ Len(s \o <<e>>) = Len(s) + 1
        /\ \A i \in 1 .. Len(s) + 1 : (s \o <<e>>)[i] = IF i <= Len(s) THEN s[i] ELSE e
    <2>1. Len(s) \in Nat /\ \A i \in 1 .. Len(s) + 1 : ~(i <= Len(s)) => i - Len(s) = 1
      BY LenProperties
    <2> QED BY <1>1, <2>1, ConcatProperties
  <1>3. /\ Append(s, e) \in Seq(S) /\ Len(Append(s, e)) = Len(s) + 1
        /\ \A i \in 1 .. Len(s) + 1 : Append(s, e)[i] = IF i <= Len(s) THEN s[i] ELSE e
    BY LenProperties
  <1> QED BY <1>2, <1>3, SeqEqual

\* Taking the front off a joined sequence takes it off the first part.
LEMMA TailOfJoin ==
    ASSUME NEW S, NEW s \in Seq(S), NEW t \in Seq(S), s # << >>
    PROVE  s \o t # << >> /\ Tail(s \o t) = Tail(s) \o t
  <1>1. /\ Len(s) \in Nat /\ Len(t) \in Nat /\ Len(s) # 0
    BY EmptySeq, LenProperties
  <1>2. /\ s \o t \in Seq(S) /\ Len(s \o t) = Len(s) + Len(t)
        /\ \A i \in 1 .. Len(s) + Len(t) :
              (s \o t)[i] = IF i <= Len(s) THEN s[i] ELSE t[i - Len(s)]
    BY ConcatProperties
  <1>3. s \o t # << >>
    BY <1>1, <1>2
  <1>4. /\ Tail(s) \in Seq(S) /\ Len(Tail(s)) = Len(s) - 1
        /\ \A i \in 1 .. Len(s) - 1 : Tail(s)[i] = s[i + 1]
    BY HeadTailProperties
  <1>5. /\ Tail(s) \o t \in Seq(S) /\ Len(Tail(s) \o t) = Len(s) - 1 + Len(t)
        /\ \A i \in 1 .. Len(s) - 1 + Len(t) :
              (Tail(s) \o t)[i] = IF i <= Len(s) - 1 THEN Tail(s)[i] ELSE t[i - (Len(s) - 1)]
    BY <1>4, ConcatProperties
  <1>6. /\ Tail(s \o t) \in Seq(S) /\ Len(Tail(s \o t)) = Len(s) + Len(t) - 1
        /\ \A i \in 1 .. Len(s) + Len(t) - 1 : Tail(s \o t)[i] = (s \o t)[i + 1]
    BY <1>2, <1>3, HeadTailProperties
  <1>7. Len(s) - 1 + Len(t) = Len(s) + Len(t) - 1
    BY <1>1
  <1>8. \A i \in 1 .. Len(s) + Len(t) - 1 : Tail(s \o t)[i] = (Tail(s) \o t)[i]
    <2> SUFFICES ASSUME NEW i \in 1 .. Len(s) + Len(t) - 1
                 PROVE  Tail(s \o t)[i] = (Tail(s) \o t)[i]
      OBVIOUS
    <2>1. i \in Nat /\ i >= 1 /\ i + 1 \in 1 .. Len(s) + Len(t)
      BY <1>1
    <2>2. Tail(s \o t)[i] = IF i + 1 <= Len(s) THEN s[i + 1] ELSE t[i + 1 - Len(s)]
      BY <1>2, <1>6, <2>1
    <2>3. (Tail(s) \o t)[i] = IF i <= Len(s) - 1 THEN Tail(s)[i] ELSE t[i - (Len(s) - 1)]
      BY <1>5, <1>7
    <2>4. i <= Len(s) - 1 => Tail(s)[i] = s[i + 1]
      BY <1>1, <1>4, <2>1
    <2>5. i + 1 - Len(s) = i - (Len(s) - 1) /\ (i + 1 <= Len(s) <=> i <= Len(s) - 1)
      BY <1>1, <2>1
    <2> QED BY <2>2, <2>3, <2>4, <2>5
  <1> QED BY <1>3, <1>5, <1>6, <1>7, <1>8, SeqEqual

\* How many members a set has after one of its elements came or went.
LEMMA OneMoves ==
    ASSUME NEW A, NEW B, NEW x, IsFiniteSet(A),
           \A y : y # x => (y \in A <=> y \in B)
    PROVE  /\ IsFiniteSet(B)
           /\ (x \in A <=> x \in B) => Cardinality(B) = Cardinality(A)
           /\ x \in B /\ x \notin A => Cardinality(B) = Cardinality(A) + 1
           /\ x \in A /\ x \notin B => Cardinality(A) = Cardinality(B) + 1
  <1>1. CASE x \in A <=> x \in B
    <2>1. A = B
      BY <1>1
    <2> QED BY <1>1, <2>1
  <1>2. CASE x \in B /\ x \notin A
    <2>1. B = A \cup {x}
      BY <1>2
    <2> QED BY <1>2, <2>1, FS_AddElement
  <1>3. CASE x \in A /\ x \notin B
    <2>1. B = A \ {x}
      BY <1>3
    <2>2. Cardinality(A) \in Nat /\ Cardinality(B) = Cardinality(A) - 1
      BY <1>3, <2>1, FS_CardinalityType, FS_RemoveElement
    <2> QED BY <1>3, <2>1, <2>2, FS_RemoveElement
  <1> QED BY <1>1, <1>2, <1>3
=============================================================================
