--------------------------- MODULE FileSysProofs ---------------------------
(***************************************************************************)
(* The safety invariants of FileSys, for every size of disk, sector,       *)
(* header, map and directory.                                              *)
(*                                                                         *)
(* The first part is about FileHeader::Allocate: on any free map it takes  *)
(* exactly the sectors the file needs, or fails when there are too few,    *)
(* although it looks at one header at a time.  The second part says what   *)
(* the headers, the map and the directory on a disk are, the third what a  *)
(* sequence of sector writes does to them and why it may be cut anywhere,  *)
(* and the fourth is the inductive invariant with one lemma per action.    *)
(***************************************************************************)
EXTENDS FileSys, DataLemmas

---------------------------------------------------------------------------
(* The arithmetic of sizes.                                                *)

\* Division with a remainder has one result.
LEMMA DivUnique ==
    ASSUME NEW a \in Int, NEW b \in Nat \ {0}, NEW q \in Int, NEW r \in 0 .. b - 1,
           a = q * b + r
    PROVE  a \div b = q
  OBVIOUS

\* A multiple of b comes back, and so does what is needed for a rest.
LEMMA RoundUpRest ==
    ASSUME NEW b \in Nat \ {0}, NEW q \in Int, NEW r \in 1 .. b
    PROVE  DivRoundUp(q * b + r, b) = q + 1
  <1>1. (q * b + r) + b - 1 = (q + 1) * b + (r - 1)
    OBVIOUS
  <1>2. r - 1 \in 0 .. b - 1 /\ q + 1 \in Int /\ (q * b + r) + b - 1 \in Int
    OBVIOUS
  <1> QED BY <1>1, <1>2, DivUnique DEF DivRoundUp

\* Whole pieces in front of n add their number.
LEMMA RoundUpAdds ==
    ASSUME NEW b \in Nat \ {0}, NEW q \in Int, NEW n \in Int
    PROVE  /\ DivRoundUp(q * b + n, b) = q + DivRoundUp(n, b)
           /\ DivRoundUp(n, b) \in Int
  <1> DEFINE x == (n + b - 1) \div b
             y == (n + b - 1) % b
  <1>1. x \in Int /\ y \in 0 .. b - 1 /\ n + b - 1 = x * b + y
    OBVIOUS
  <1>2. DivRoundUp(n, b) = x
    BY DEF DivRoundUp
  <1> HIDE DEF x, y
  <1>3. (q * b + n) + b - 1 = (q + x) * b + y
    BY <1>1
  <1>4. (q * b + n) + b - 1 \in Int /\ q + x \in Int
    BY <1>1
  <1>5. ((q * b + n) + b - 1) \div b = q + x
    BY <1>1, <1>3, <1>4, DivUnique
  <1> QED BY <1>1, <1>2, <1>5 DEF DivRoundUp

\* What fits into d pieces needs at most d, and nothing needs none.
LEMMA RoundUpWithin ==
    ASSUME NEW b \in Nat \ {0}, NEW d \in Nat, NEW n \in 0 .. d * b
    PROVE  /\ DivRoundUp(n, b) \in 0 .. d
           /\ DivRoundUp(n, b) = 0 <=> n = 0
  <1> DEFINE x == (n + b - 1) \div b
             y == (n + b - 1) % b
  <1>1. x \in Int /\ y \in 0 .. b - 1 /\ n + b - 1 = x * b + y
    OBVIOUS
  <1>2. DivRoundUp(n, b) = x
    BY DEF DivRoundUp
  <1> HIDE DEF x, y
  <1>3. d * b \in Int /\ x * b \in Int
    BY <1>1
  <1>4. x >= 0
    <2>1. SUFFICES ASSUME x <= -1 PROVE FALSE
      BY <1>1
    <2>2. x * b <= -b
      BY <1>1, <2>1
    <2> QED BY <1>1, <1>3, <2>2
  <1>5. x <= d
    <2>1. SUFFICES ASSUME x >= d + 1 PROVE FALSE
      BY <1>1
    <2>2. x * b >= d * b + b
      BY <1>1, <2>1
    <2> QED BY <1>1, <1>3, <2>2
  <1>6. x = 0 => n = 0
    BY <1>1
  <1>7. n = 0 => x = 0
    BY <1>1, <1>4, DivUnique
  <1> QED BY <1>1, <1>2, <1>4, <1>5, <1>6, <1>7

\* The constants are numbers.
LEMMA Numbers ==
    /\ NumSectors \in Nat /\ SectorSize \in Nat \ {0} /\ NumDirect \in Nat \ {0}
    /\ MaxFileSize \in Nat \ {0} /\ MaxFileSize = NumDirect * SectorSize
  <1>1. NumSectors \in Nat /\ SectorSize \in Nat \ {0} /\ NumDirect \in Nat \ {0}
    BY FileSysAssumption
  <1>2. NumDirect * SectorSize \in Nat \ {0}
    BY <1>1
  <1> QED BY <1>1, <1>2 DEF MaxFileSize

\* The data sectors of one header.
LEMMA OneHeaderFull ==
    /\ DivRoundUp(MaxFileSize, SectorSize) = NumDirect
    /\ \A n \in 0 .. MaxFileSize :
         /\ DivRoundUp(n, SectorSize) \in 0 .. NumDirect
         /\ DivRoundUp(n, SectorSize) = 0 <=> n = 0
  <1>1. DivRoundUp(0, SectorSize) = 0
    BY Numbers, RoundUpWithin
  <1>2. DivRoundUp(NumDirect * SectorSize + 0, SectorSize) = NumDirect + DivRoundUp(0, SectorSize)
    <2>1. SectorSize \in Nat \ {0} /\ NumDirect \in Int /\ 0 \in Int
      BY Numbers
    <2> QED BY <2>1, RoundUpAdds
  <1>3. NumDirect * SectorSize + 0 = MaxFileSize
    BY Numbers
  <1>4. \A n \in 0 .. NumDirect * SectorSize :
          /\ DivRoundUp(n, SectorSize) \in 0 .. NumDirect
          /\ DivRoundUp(n, SectorSize) = 0 <=> n = 0
    BY Numbers, RoundUpWithin
  <1> QED BY <1>1, <1>2, <1>3, <1>4, Numbers

\* A file of m full headers and one with r bytes more: its headers, and all the
\* sectors it takes beside the first of them.
LEMMA SizeInHeaders ==
    ASSUME NEW m \in Nat, NEW r \in 0 .. MaxFileSize, m = 0 \/ r > 0
    PROVE  /\ r > 0 => DivRoundUp(m * MaxFileSize + r, MaxFileSize) = m + 1
           /\ Needed(m * MaxFileSize + r) = m * (NumDirect + 1) + DivRoundUp(r, SectorSize)
  <1> DEFINE size == m * MaxFileSize + r
             d == DivRoundUp(r, SectorSize)
  <1>1. size \in Nat /\ r \in Nat
    BY Numbers
  <1>2. d \in 0 .. NumDirect /\ (d = 0 <=> r = 0)
    BY OneHeaderFull
  <1>3. r > 0 => DivRoundUp(m * MaxFileSize + r, MaxFileSize) = m + 1
    BY Numbers, RoundUpRest
  <1>4. DivRoundUp(size, SectorSize) = m * NumDirect + d
    <2>1. m * MaxFileSize + r = (m * NumDirect) * SectorSize + r
      BY Numbers, <1>1
    <2>2. m * NumDirect \in Int /\ SectorSize \in Nat \ {0} /\ r \in Int
      BY Numbers, <1>1
    <2>3. DivRoundUp((m * NumDirect) * SectorSize + r, SectorSize) = m * NumDirect + d
      BY <2>2, RoundUpAdds
    <2> QED BY <2>1, <2>3
  <1> HIDE DEF d
  <1>5. ~(size < 0)
    BY <1>1
  <1> HIDE DEF size
  <1>6. Needed(size) = IF m * NumDirect + d = 0 THEN m * NumDirect + d + 0
                       ELSE m * NumDirect + d + (DivRoundUp(m * NumDirect + d, NumDirect) - 1)
    BY <1>4, <1>5 DEF Needed
  <1>7. CASE r = 0
    <2>1. m = 0 /\ d = 0
      BY <1>2, <1>7
    <2>2. m * NumDirect = 0 /\ m * (NumDirect + 1) = 0
      BY <2>1, Numbers
    <2>3. Needed(size) = 0
      BY <1>6, <2>1, <2>2
    <2> QED BY <1>3, <2>1, <2>2, <2>3 DEF size, d
  <1>8. CASE r > 0
    <2>1. d \in 1 .. NumDirect
      BY <1>2, <1>8, Numbers
    <2>2. DivRoundUp(m * NumDirect + d, NumDirect) = m + 1
      <3>1. NumDirect \in Nat \ {0} /\ m \in Int
        BY Numbers
      <3> QED BY <2>1, <3>1, RoundUpRest
    <2>3. m * NumDirect \in Nat /\ m * (NumDirect + 1) = m * NumDirect + m
      BY Numbers
    <2>4. Needed(size) = m * NumDirect + d + m
      BY <1>6, <2>1, <2>2, <2>3
    <2> QED BY <1>3, <2>1, <2>3, <2>4 DEF size, d
  <1> QED BY <1>1, <1>7, <1>8

---------------------------------------------------------------------------
(* Bitmap::FindAndSet.                                                     *)

\* The clear sectors can be counted.
LEMMA ClearFinite ==
    ASSUME NEW map
    PROVE  /\ Clear(map) \in SUBSET Sectors /\ Clear(map) \in SUBSET Nat
           /\ IsFiniteSet(Clear(map)) /\ Cardinality(Clear(map)) \in Nat
           /\ Cardinality(Clear(map)) = 0 <=> Clear(map) = {}
  <1>1. IsFiniteSet(Sectors) /\ Sectors \in SUBSET Nat
    <2>1. 0 \in Int /\ NumSectors - 1 \in Int
      BY Numbers
    <2> QED BY <2>1, FS_Interval DEF Sectors
  <1>2. Clear(map) \in SUBSET Sectors
    BY DEF Clear
  <1> QED BY <1>1, <1>2, FS_Subset, FS_CardinalityType, FS_EmptySet

\* A subset taken away.
LEMMA SubsetRemoved ==
    ASSUME NEW C, IsFiniteSet(C), NEW T \in SUBSET C
    PROVE  Cardinality(C \ T) = Cardinality(C) - Cardinality(T)
  <1>1. IsFiniteSet(T) /\ IsFiniteSet(C \ T)
    BY FS_Subset
  <1>2. (C \ T) \cup T = C /\ (C \ T) \cap T = {}
    OBVIOUS
  <1>3. Cardinality((C \ T) \cup T)
          = Cardinality(C \ T) + Cardinality(T) - Cardinality((C \ T) \cap T)
    BY <1>1, FS_Union
  <1>4. Cardinality(C \ T) \in Nat /\ Cardinality(T) \in Nat
    BY <1>1, FS_CardinalityType
  <1>5. Cardinality({}) = 0
    BY FS_EmptySet
  <1>6. /\ Cardinality((C \ T) \cup T) = Cardinality(C)
        /\ Cardinality((C \ T) \cap T) = Cardinality({})
    BY <1>2
  <1> QED
    <2> DEFINE x == Cardinality(C \ T)
               y == Cardinality(T)
               z == Cardinality(C)
    <2>1. z = x + y - 0 /\ x \in Nat /\ y \in Nat
      BY <1>3, <1>4, <1>5, <1>6
    <2> HIDE DEF x, y, z
    <2>2. x = z - y
      BY <2>1
    <2> QED BY <2>2 DEF x, y, z

\* As long as there are enough, k searches find k clear sectors, all different.
LEMMA SectorsFound ==
    ASSUME NEW map, NEW k \in Nat, k <= Cardinality(Clear(map))
    PROVE  /\ FindAndSet(map, k) \in [1 .. k -> Clear(map)]
           /\ IsInjective(FindAndSet(map, k))
  <1> DEFINE C == Clear(map)
             Rank(s) == Cardinality({c \in C : c < s})
             Chosen(i) == CHOOSE s \in C : Rank(s) = i - 1
  <1>1. C \in SUBSET Nat /\ IsFiniteSet(C) /\ Cardinality(C) \in Nat
    BY ClearFinite
  <1>2. FindAndSet(map, k) = [i \in 1 .. k |-> Chosen(i)]
    BY DEF FindAndSet
  <1> HIDE DEF C
  <1>3. ASSUME NEW i \in 1 .. k PROVE Chosen(i) \in C /\ Rank(Chosen(i)) = i - 1
    <2>1. i - 1 \in Nat /\ i - 1 < Cardinality(C)
      BY <1>1 DEF C
    <2>2. \E s \in C : Cardinality({c \in C : c < s}) = i - 1
      BY <1>1, <2>1, RankExists
    <2> QED BY <2>2
  <1>4. ASSUME NEW i \in 1 .. k, NEW j \in 1 .. k, Chosen(i) = Chosen(j)
        PROVE  i = j
    <2>1. i - 1 = j - 1
      BY <1>3, <1>4
    <2> QED BY <2>1
  <1> HIDE DEF Chosen
  <1>5. FindAndSet(map, k) \in [1 .. k -> C]
    BY <1>2, <1>3
  <1>6. IsInjective(FindAndSet(map, k))
    BY <1>2, <1>4 DEF IsInjective
  <1> QED BY <1>5, <1>6 DEF C

\* Marking them leaves as many fewer clear.
LEMMA SectorsMarked ==
    ASSUME NEW map, NEW k \in Nat, k <= Cardinality(Clear(map))
    PROVE  LET secs == FindAndSet(map, k)
           IN  /\ ToSet(secs) \in SUBSET Clear(map)
               /\ secs \in Seq(Sectors) /\ Len(secs) = k
               /\ IsFiniteSet(ToSet(secs)) /\ Cardinality(ToSet(secs)) = k
               /\ Cardinality(Clear(map \cup ToSet(secs))) = Cardinality(Clear(map)) - k
  <1> DEFINE secs == FindAndSet(map, k)
             T == ToSet(secs)
             C == Clear(map)
  <1>1. secs \in [1 .. k -> C] /\ IsInjective(secs)
    BY SectorsFound
  <1>2. C \in SUBSET Sectors /\ IsFiniteSet(C) /\ Cardinality(C) \in Nat
    BY ClearFinite
  <1> HIDE DEF secs, C
  <1>3. T = {secs[i] : i \in 1 .. k} /\ T \in SUBSET C
    BY <1>1 DEF ToSet
  <1>4. secs \in Seq(Sectors) /\ Len(secs) = k
    <2>1. secs \in [1 .. k -> Sectors]
      BY <1>1, <1>2
    <2> QED BY <2>1, LenProperties
  <1>5. IsFiniteSet(T) /\ Cardinality(T) = k
    <2>1. secs \in [1 .. k -> T]
      BY <1>1, <1>3
    <2>2. \A y \in T : \E i \in 1 .. k : secs[i] = y
      BY <1>3
    <2>3. secs \in Bijection(1 .. k, T)
      BY <2>1, <2>2, <1>1 DEF Bijection, Injection, Surjection
    <2>4. IsFiniteSet(1 .. k) /\ Cardinality(1 .. k) = k
      <3>1. 1 \in Int /\ k \in Int
        OBVIOUS
      <3> QED BY <3>1, FS_Interval
    <2> QED BY <2>3, <2>4, FS_Bijection DEF ExistsBijection
  <1>6. Clear(map \cup T) = C \ T
    BY DEF Clear, C
  <1> HIDE DEF T
  <1>7. Cardinality(C \ T) = Cardinality(C) - k
    BY <1>2, <1>3, <1>5, SubsetRemoved
  <1> QED BY <1>3, <1>4, <1>5, <1>6, <1>7 DEF secs, T, C

---------------------------------------------------------------------------
(* One header of Allocate.                                                 *)

\* m is map with n clear sectors marked.
Marked(map, m, n) ==
    \E T \in SUBSET Clear(map) : m = map \cup T /\ IsFiniteSet(T) /\ Cardinality(T) = n

Headers == [kind : {"header"}, numBytes : 0 .. MaxFileSize,
            dataSectors : Seq(Sectors), next : Sectors \cup {NoSector}]

\* The headers of the first k chunks, all linked to a next one, or all but the
\* last of them.
LinkedHeaders(hdrs, chunks, k, linked) ==
    /\ hdrs \in Seq(Headers) /\ Len(hdrs) = k
    /\ \A j \in 1 .. k :
         /\ hdrs[j].numBytes = chunks[j]
         /\ Len(hdrs[j].dataSectors) = DivRoundUp(chunks[j], SectorSize)
         /\ hdrs[j].next # NoSector <=> linked \/ j < k

\* The places of the headers, and that of the one to come.
IsPlace(h, linked, i, j) ==
    \/ i \in 1 .. Len(h) /\ j \in 0 .. Len(h[i].dataSectors)
    \/ linked /\ i = Len(h) + 1 /\ j = 0

\* The places of the file at s hold s and the sectors that m has and map has
\* not, each once.
Held(map, m, h, s, linked) ==
    /\ \A i, j, k, l \in Nat :
         /\ IsPlace(h, linked, i, j) /\ IsPlace(h, linked, k, l)
         /\ SectorAt(h, s, i, j) = SectorAt(h, s, k, l)
         => i = k /\ j = l
    /\ \A i, j \in Nat : IsPlace(h, linked, i, j) => SectorAt(h, s, i, j) \in {s} \cup (m \ map)
    /\ \A x \in {s} \cup (m \ map) :
         \E i, j \in Nat : IsPlace(h, linked, i, j) /\ SectorAt(h, s, i, j) = x

\* Where Allocate is after k chunks that need n sectors: it has failed just when
\* there are fewer, and has taken them otherwise, for a file at any sector that
\* was marked before.
Reached(map, a, chunks, k, n) ==
    /\ "ok" \in DOMAIN a /\ a.ok \in BOOLEAN
    /\ a.ok => a = [ok |-> TRUE, map |-> a.map, hdrs |-> a.hdrs]
    /\ a.ok <=> n <= Cardinality(Clear(map))
    /\ a.ok => Marked(map, a.map, n) /\ LinkedHeaders(a.hdrs, chunks, k, FALSE)
    /\ a.ok /\ k # 0 => \A s \in map : Held(map, a.map, a.hdrs, s, FALSE)
    /\ a.ok /\ k = 0 => a.map = map

\* Marked sectors are not clear.
LEMMA MarkedCount ==
    ASSUME NEW map, NEW m, NEW n \in Nat, Marked(map, m, n)
    PROVE  /\ Cardinality(Clear(m)) = Cardinality(Clear(map)) - n
           /\ map \subseteq m /\ m \ map \in SUBSET Sectors /\ Cardinality(m \ map) = n
           /\ Clear(m) \subseteq Clear(map)
  <1>1. PICK T \in SUBSET Clear(map) : m = map \cup T /\ IsFiniteSet(T) /\ Cardinality(T) = n
    BY DEF Marked
  <1>2. Clear(m) = Clear(map) \ T /\ m \ map = T
    BY <1>1 DEF Clear
  <1> DEFINE C == Clear(map)
  <1>3. C \in SUBSET Sectors /\ IsFiniteSet(C) /\ Cardinality(C) \in Nat
    BY ClearFinite
  <1>4. T \in SUBSET C
    OBVIOUS
  <1> HIDE DEF C
  <1>5. Cardinality(C \ T) = Cardinality(C) - n
    BY <1>1, <1>3, <1>4, SubsetRemoved
  <1>6. Clear(m) = C \ T
    BY <1>2 DEF C
  <1> QED BY <1>1, <1>2, <1>3, <1>4, <1>5, <1>6 DEF C

\* Marking k more.
LEMMA MarkMore ==
    ASSUME NEW map, NEW m, NEW n \in Nat, Marked(map, m, n),
           NEW U \in SUBSET Clear(m), NEW k \in Nat, IsFiniteSet(U), Cardinality(U) = k
    PROVE  Marked(map, m \cup U, n + k)
  <1>1. PICK T \in SUBSET Clear(map) : m = map \cup T /\ IsFiniteSet(T) /\ Cardinality(T) = n
    BY DEF Marked
  <1>2. U \in SUBSET Clear(map) /\ T \cap U = {}
    BY <1>1 DEF Clear
  <1>3. IsFiniteSet(T \cup U) /\ Cardinality(T \cup U) = n + k - Cardinality(T \cap U)
    BY <1>1, FS_Union
  <1>4. Cardinality(T \cap U) = 0
    BY <1>2, FS_EmptySet
  <1>5. Cardinality(T \cup U) = n + k
    BY <1>3, <1>4
  <1>6. m \cup U = map \cup (T \cup U) /\ T \cup U \in SUBSET Clear(map)
    BY <1>1, <1>2
  <1> QED BY <1>3, <1>5, <1>6 DEF Marked

\* The sector of the next header gets the place that it has there.
LEMMA LinkHeld ==
    ASSUME NEW map, NEW m, NEW h, NEW s \in map, Held(map, m, h, s, FALSE), map \subseteq m,
           NEW k \in Nat \ {0}, h \in Seq(Headers), Len(h) = k, NEW x, x \notin m,
           NEW hs, hs \in Seq(Headers), Len(hs) = k,
           \A j \in 1 .. k : hs[j].dataSectors = h[j].dataSectors,
           \A j \in 1 .. k : hs[j].next = IF j = k THEN x ELSE h[j].next
    PROVE  Held(map, m \cup {x}, hs, s, TRUE)
  <1>1. \A i, j \in Nat : IsPlace(hs, TRUE, i, j) <=> IsPlace(h, FALSE, i, j) \/ (i = k + 1 /\ j = 0)
    BY DEF IsPlace
  <1>2. ASSUME NEW i \in Nat, NEW j \in Nat, IsPlace(h, FALSE, i, j)
        PROVE  SectorAt(hs, s, i, j) = SectorAt(h, s, i, j) /\ i # k + 1
    <2>1. i \in 1 .. k
      BY <1>2 DEF IsPlace
    <2>2. CASE j # 0
      BY <2>1, <2>2 DEF SectorAt
    <2>3. CASE j = 0 /\ i # 1
      <3>1. i - 1 \in 1 .. k /\ i - 1 # k
        BY <2>1, <2>3
      <3>2. hs[i - 1].next = h[i - 1].next
        BY <3>1
      <3> QED BY <2>1, <2>3, <3>2 DEF SectorAt
    <2>4. CASE j = 0 /\ i = 1
      BY <2>1, <2>4 DEF SectorAt
    <2> QED BY <2>1, <2>2, <2>3, <2>4
  <1>3. SectorAt(hs, s, k + 1, 0) = x
    <2>1. (k + 1) - 1 = k /\ k + 1 # 1 /\ k \in 1 .. k
      OBVIOUS
    <2> QED BY <2>1 DEF SectorAt
  <1>4. \A i, j \in Nat : IsPlace(h, FALSE, i, j) => SectorAt(h, s, i, j) \in {s} \cup (m \ map)
    BY DEF Held
  <1>5. ASSUME NEW i \in Nat, NEW j \in Nat, IsPlace(h, FALSE, i, j)
        PROVE  SectorAt(hs, s, i, j) # x
    BY <1>2, <1>4, <1>5
  <1>6. ASSUME NEW i \in Nat, NEW j \in Nat, NEW p \in Nat, NEW l \in Nat,
               IsPlace(hs, TRUE, i, j), IsPlace(hs, TRUE, p, l),
               SectorAt(hs, s, i, j) = SectorAt(hs, s, p, l)
        PROVE  i = p /\ j = l
    <2>1. CASE IsPlace(h, FALSE, i, j) /\ IsPlace(h, FALSE, p, l)
      <3>1. SectorAt(h, s, i, j) = SectorAt(h, s, p, l)
        BY <1>2, <1>6, <2>1
      <3> QED BY <2>1, <3>1 DEF Held
    <2>2. CASE IsPlace(h, FALSE, i, j) /\ p = k + 1 /\ l = 0
      BY <1>3, <1>5, <1>6, <2>2
    <2>3. CASE i = k + 1 /\ j = 0 /\ IsPlace(h, FALSE, p, l)
      BY <1>3, <1>5, <1>6, <2>3
    <2> QED BY <1>1, <1>6, <2>1, <2>2, <2>3
  <1>7. ASSUME NEW i \in Nat, NEW j \in Nat, IsPlace(hs, TRUE, i, j)
        PROVE  SectorAt(hs, s, i, j) \in {s} \cup ((m \cup {x}) \ map)
    <2>1. CASE IsPlace(h, FALSE, i, j)
      BY <1>2, <1>4, <2>1
    <2>2. CASE i = k + 1 /\ j = 0
      BY <1>3, <2>2
    <2> QED BY <1>1, <1>7, <2>1, <2>2
  <1>8. ASSUME NEW y \in {s} \cup ((m \cup {x}) \ map)
        PROVE  \E i, j \in Nat : IsPlace(hs, TRUE, i, j) /\ SectorAt(hs, s, i, j) = y
    <2>1. CASE y = x
      <3>1. k + 1 \in Nat /\ 0 \in Nat /\ IsPlace(hs, TRUE, k + 1, 0)
        BY DEF IsPlace
      <3> QED BY <1>3, <2>1, <3>1
    <2>2. CASE y # x
      <3>1. PICK i \in Nat, j \in Nat : IsPlace(h, FALSE, i, j) /\ SectorAt(h, s, i, j) = y
        BY <2>2 DEF Held
      <3> QED BY <1>1, <1>2, <3>1
    <2> QED BY <2>1, <2>2
  <1> QED BY <1>6, <1>7, <1>8 DEF Held

\* The data sectors found get theirs.
LEMMA DataHeld ==
    ASSUME NEW map, NEW m, NEW h, NEW s \in map, Held(map, m, h, s, TRUE), map \subseteq m,
           NEW k \in Nat, h \in Seq(Headers), Len(h) = k,
           NEW d \in Nat, NEW secs, secs \in [1 .. d -> Clear(m)], IsInjective(secs),
           Len(secs) = d,
           NEW new, new \in Seq(Headers), Len(new) = k + 1,
           \A j \in 1 .. k : new[j] = h[j], new[k + 1].dataSectors = secs
    PROVE  Held(map, m \cup ToSet(secs), new, s, FALSE)
  <1>1. \A i, j \in Nat : IsPlace(new, FALSE, i, j) <=>
          IsPlace(h, TRUE, i, j) \/ (i = k + 1 /\ j \in 1 .. d)
    <2> SUFFICES ASSUME NEW i \in Nat, NEW j \in Nat
                 PROVE  IsPlace(new, FALSE, i, j) <=>
                          IsPlace(h, TRUE, i, j) \/ (i = k + 1 /\ j \in 1 .. d)
      OBVIOUS
    <2>1. CASE i \in 1 .. k
      BY <2>1 DEF IsPlace
    <2>2. CASE i = k + 1
      <3>1. Len(new[i].dataSectors) = d /\ i \in 1 .. Len(new) /\ i \notin 1 .. Len(h)
        BY <2>2
      <3> QED BY <2>2, <3>1 DEF IsPlace
    <2>3. CASE i \notin 1 .. k /\ i # k + 1
      <3>1. i \notin 1 .. Len(new) /\ i \notin 1 .. Len(h)
        BY <2>3
      <3> QED BY <2>3, <3>1 DEF IsPlace
    <2> QED BY <2>1, <2>2, <2>3
  <1>2. ASSUME NEW i \in Nat, NEW j \in Nat, IsPlace(h, TRUE, i, j)
        PROVE  SectorAt(new, s, i, j) = SectorAt(h, s, i, j) /\ ~(i = k + 1 /\ j \in 1 .. d)
    <2>1. i \in 1 .. k \/ (i = k + 1 /\ j = 0)
      BY <1>2 DEF IsPlace
    <2>2. CASE j # 0
      BY <2>1, <2>2 DEF SectorAt
    <2>3. CASE j = 0 /\ i # 1
      <3>1. i - 1 \in 1 .. k
        BY <2>1, <2>3
      <3>2. new[i - 1] = h[i - 1]
        BY <3>1
      <3> QED BY <2>3, <3>2 DEF SectorAt
    <2>4. CASE j = 0 /\ i = 1
      BY <2>4 DEF SectorAt
    <2> QED BY <2>1, <2>2, <2>3, <2>4
  <1>3. ASSUME NEW j \in 1 .. d
        PROVE  SectorAt(new, s, k + 1, j) = secs[j] /\ secs[j] \in Clear(m) /\ secs[j] \notin m
    BY DEF SectorAt, Clear
  <1>4. \A i, j \in Nat : IsPlace(h, TRUE, i, j) => SectorAt(h, s, i, j) \in {s} \cup (m \ map)
    BY DEF Held
  <1>5. ASSUME NEW i \in Nat, NEW j \in Nat, IsPlace(h, TRUE, i, j), NEW l \in 1 .. d
        PROVE  SectorAt(new, s, i, j) # secs[l]
    <2>1. PICK x : x = SectorAt(h, s, i, j)
      OBVIOUS
    <2>2. x \in m /\ SectorAt(new, s, i, j) = x
      BY <1>2, <1>4, <1>5, <2>1
    <2>3. PICK y : y = secs[l] /\ y \notin m
      BY <1>3
    <2> QED BY <2>2, <2>3
  <1>6. ASSUME NEW i \in Nat, NEW j \in Nat, NEW p \in Nat, NEW l \in Nat,
               IsPlace(new, FALSE, i, j), IsPlace(new, FALSE, p, l),
               SectorAt(new, s, i, j) = SectorAt(new, s, p, l)
        PROVE  i = p /\ j = l
    <2>1. CASE IsPlace(h, TRUE, i, j) /\ IsPlace(h, TRUE, p, l)
      <3>1. SectorAt(h, s, i, j) = SectorAt(h, s, p, l)
        BY <1>2, <1>6, <2>1
      <3> QED BY <2>1, <3>1 DEF Held
    <2>2. CASE IsPlace(h, TRUE, i, j) /\ p = k + 1 /\ l \in 1 .. d
      <3>1. SectorAt(new, s, p, l) = secs[l]
        BY <1>3, <2>2
      <3>2. SectorAt(new, s, i, j) # secs[l]
        BY <1>5, <2>2
      <3> QED BY <1>6, <3>1, <3>2
    <2>3. CASE i = k + 1 /\ j \in 1 .. d /\ IsPlace(h, TRUE, p, l)
      <3>1. SectorAt(new, s, i, j) = secs[j]
        BY <1>3, <2>3
      <3>2. SectorAt(new, s, p, l) # secs[j]
        BY <1>5, <2>3
      <3> QED BY <1>6, <3>1, <3>2
    <2>4. CASE i = k + 1 /\ j \in 1 .. d /\ p = k + 1 /\ l \in 1 .. d
      <3>1. secs[j] = secs[l]
        BY <1>3, <1>6, <2>4
      <3> QED BY <2>4, <3>1 DEF IsInjective
    <2> QED BY <1>1, <1>6, <2>1, <2>2, <2>3, <2>4
  <1>7. ASSUME NEW i \in Nat, NEW j \in Nat, IsPlace(new, FALSE, i, j)
        PROVE  SectorAt(new, s, i, j) \in {s} \cup ((m \cup ToSet(secs)) \ map)
    <2>1. CASE IsPlace(h, TRUE, i, j)
      BY <1>2, <1>4, <2>1
    <2>2. CASE i = k + 1 /\ j \in 1 .. d
      <3>1. secs[j] \in ToSet(secs)
        BY <2>2 DEF ToSet
      <3> QED BY <1>3, <2>2, <3>1
    <2> QED BY <1>1, <1>7, <2>1, <2>2
  <1>8. ASSUME NEW y \in {s} \cup ((m \cup ToSet(secs)) \ map)
        PROVE  \E i, j \in Nat : IsPlace(new, FALSE, i, j) /\ SectorAt(new, s, i, j) = y
    <2>1. CASE y \in ToSet(secs)
      <3>1. PICK j \in 1 .. d : y = secs[j]
        BY <2>1 DEF ToSet
      <3>2. k + 1 \in Nat /\ j \in Nat
        OBVIOUS
      <3>4. IsPlace(new, FALSE, k + 1, j)
        BY <1>1, <3>2
      <3>3. SectorAt(new, s, k + 1, j) = y
        BY <1>3, <3>1
      <3> QED BY <3>2, <3>3, <3>4
    <2>2. CASE y \notin ToSet(secs)
      <3>1. PICK i \in Nat, j \in Nat : IsPlace(h, TRUE, i, j) /\ SectorAt(h, s, i, j) = y
        BY <2>2 DEF Held
      <3> QED BY <1>1, <1>2, <3>1
    <2> QED BY <2>1, <2>2
  <1> QED BY <1>6, <1>7, <1>8 DEF Held

\* Before the first header its place alone is there.
LEMMA NoneHeld ==
    ASSUME NEW map, NEW h, Len(h) = 0, NEW s \in map
    PROVE  Held(map, map, h, s, TRUE)
  <1>1. \A i, j \in Nat : IsPlace(h, TRUE, i, j) <=> i = 1 /\ j = 0
    BY DEF IsPlace
  <1>2. SectorAt(h, s, 1, 0) = s
    BY DEF SectorAt
  <1>3. \A x \in {s} \cup (map \ map) :
          \E i, j \in Nat : IsPlace(h, TRUE, i, j) /\ SectorAt(h, s, i, j) = x
    <2>1. 1 \in Nat /\ 0 \in Nat
      OBVIOUS
    <2>2. IsPlace(h, TRUE, 1, 0)
      BY <1>1, <2>1
    <2>3. \E i, j \in Nat : IsPlace(h, TRUE, i, j) /\ SectorAt(h, s, i, j) = s
      BY <1>2, <2>1, <2>2
    <2> QED BY <2>3
  <1>4. ASSUME NEW i \in Nat, NEW j \in Nat, IsPlace(h, TRUE, i, j)
        PROVE  SectorAt(h, s, i, j) = s /\ i = 1 /\ j = 0
    BY <1>1, <1>2, <1>4
  <1> QED BY <1>3, <1>4 DEF Held

\* Two fields of an allocation changed.
LEMMA FieldsChanged ==
    ASSUME NEW ok, NEW m, NEW h, NEW new, NEW k, NEW s
    PROVE  LET a == [ok |-> ok, map |-> m, hdrs |-> h]
               c == [a EXCEPT !.map = new, !.hdrs[k].next = s]
           IN  /\ "ok" \in DOMAIN c /\ c.ok = ok /\ c.map = new
               /\ c.hdrs = [h EXCEPT ![k] = [h[k] EXCEPT !.next = s]]
  OBVIOUS

\* A header to come is linked to the last one, in a sector taken for it, if one
\* is clear.
LEMMA HeaderLinked ==
    ASSUME NEW map, NEW a, NEW chunks, NEW k \in Nat \ {0}, NEW n \in Nat,
           Reached(map, a, chunks, k, n), a.ok, Clear(a.map) # {}
    PROVE  LET c == NextHeader(a)
           IN  /\ "ok" \in DOMAIN c /\ c.ok = TRUE
               /\ Marked(map, c.map, n + 1)
               /\ LinkedHeaders(c.hdrs, chunks, k, TRUE)
               /\ \A f \in map : Held(map, c.map, c.hdrs, f, TRUE)
  <1> DEFINE m == a.map
             h == a.hdrs
             s == FindAndSet(m, 1)[1]
             g == [h[k] EXCEPT !.next = s]
             hs == [h EXCEPT ![k] = g]
  <1>1. /\ a = [ok |-> TRUE, map |-> m, hdrs |-> h] /\ a.ok = TRUE
        /\ Marked(map, m, n) /\ LinkedHeaders(h, chunks, k, FALSE)
    BY DEF Reached
  <1>2. h \in Seq(Headers) /\ Len(h) = k /\ k \in 1 .. Len(h) /\ h # << >>
    BY <1>1, EmptySeq DEF LinkedHeaders
  <1>3. s \in Clear(m) /\ s \in Sectors
    <2>1. Cardinality(Clear(m)) \in Nat /\ Cardinality(Clear(m)) # 0
      BY ClearFinite
    <2>2. 1 \in Nat /\ 1 <= Cardinality(Clear(m))
      BY <2>1
    <2>3. FindAndSet(m, 1) \in [1 .. 1 -> Clear(m)]
      BY <2>2, SectorsFound
    <2> QED BY <2>3, ClearFinite
  <1>4. NextHeader(a) = [a EXCEPT !.map = m \cup {s}, !.hdrs[k].next = s]
    BY <1>1, <1>2 DEF NextHeader
  <1> HIDE DEF s
  <1>5. /\ "ok" \in DOMAIN NextHeader(a) /\ NextHeader(a).ok = TRUE
        /\ NextHeader(a).map = m \cup {s} /\ NextHeader(a).hdrs = hs
    <2>1. PICK r : r = [ok |-> TRUE, map |-> m, hdrs |-> h]
      OBVIOUS
    <2>2. a = r
      BY <1>1, <2>1
    <2>3. NextHeader(a) = [r EXCEPT !.map = m \cup {s}, !.hdrs[k].next = s]
      BY <1>4, <2>2
    <2> HIDE DEF m, h
    <2> QED BY <2>1, <2>3, FieldsChanged
  <1>6. h[k] \in Headers
    BY <1>2, ElementOfSeq
  <1>7. /\ g \in Headers /\ g.numBytes = h[k].numBytes /\ g.dataSectors = h[k].dataSectors
        /\ g.next = s
    BY <1>3, <1>6 DEF Headers
  <1>8. /\ hs \in Seq(Headers) /\ Len(hs) = k
        /\ \A j \in 1 .. k : hs[j] = IF j = k THEN g ELSE h[j]
    <2> HIDE DEF g
    <2> QED BY <1>2, <1>7, ExceptSeq
  <1>9. s # NoSector
    BY <1>3, Numbers DEF Sectors, NoSector
  <1> HIDE DEF g, hs, h, m
  <1>10. LinkedHeaders(hs, chunks, k, TRUE)
    <2> SUFFICES ASSUME NEW j \in 1 .. k
                 PROVE  /\ hs[j].numBytes = chunks[j]
                        /\ Len(hs[j].dataSectors) = DivRoundUp(chunks[j], SectorSize)
                        /\ hs[j].next # NoSector
      BY <1>8 DEF LinkedHeaders
    <2>1. /\ h[j].numBytes = chunks[j]
          /\ Len(h[j].dataSectors) = DivRoundUp(chunks[j], SectorSize)
          /\ h[j].next # NoSector <=> j < k
      BY <1>1 DEF LinkedHeaders
    <2>2. CASE j = k
      BY <2>1, <2>2, <1>7, <1>8, <1>9
    <2>3. CASE j # k
      BY <2>1, <2>3, <1>8
    <2> QED BY <2>2, <2>3
  <1>11. Marked(map, m \cup {s}, n + 1)
    <2>1. {s} \in SUBSET Clear(m) /\ IsFiniteSet({s}) /\ Cardinality({s}) = 1
      BY <1>3, FS_Singleton
    <2> QED BY <2>1, <1>1, MarkMore
  <1>12. ASSUME NEW f \in map PROVE Held(map, m \cup {s}, hs, f, TRUE)
    <2>1. Held(map, m, h, f, FALSE)
      <3>1. Held(map, a.map, a.hdrs, f, FALSE)
        BY DEF Reached
      <3> QED BY <3>1 DEF m, h
    <2>2. map \subseteq m
      BY <1>1 DEF Marked
    <2>3. s \notin m
      BY <1>3 DEF Clear
    <2>4. \A j \in 1 .. k : hs[j].dataSectors = h[j].dataSectors
      BY <1>7, <1>8
    <2>5. \A j \in 1 .. k : hs[j].next = IF j = k THEN s ELSE h[j].next
      BY <1>7, <1>8
    <2> QED BY <1>2, <1>8, <2>1, <2>2, <2>3, <2>4, <2>5, LinkHeld
  <1> QED BY <1>5, <1>10, <1>11, <1>12

\* The data sectors of one more header.
LEMMA DataTaken ==
    ASSUME NEW map, NEW m, NEW h, NEW chunks, NEW k \in Nat, NEW n \in Nat,
           Marked(map, m, n), LinkedHeaders(h, chunks, k, TRUE),
           \A f \in map : Held(map, m, h, f, TRUE),
           chunks[k + 1] \in 0 .. MaxFileSize,
           NEW d \in Nat, d = DivRoundUp(chunks[k + 1], SectorSize), d <= Cardinality(Clear(m))
    PROVE  /\ Marked(map, m \cup ToSet(FindAndSet(m, d)), n + d)
           /\ LinkedHeaders(Append(h, Header(chunks[k + 1], FindAndSet(m, d))), chunks, k + 1, FALSE)
           /\ \A f \in map : Held(map, m \cup ToSet(FindAndSet(m, d)),
                                 Append(h, Header(chunks[k + 1], FindAndSet(m, d))), f, FALSE)
  <1> DEFINE secs == FindAndSet(m, d)
             last == Header(chunks[k + 1], secs)
             new  == Append(h, last)
  <1>1. /\ ToSet(secs) \in SUBSET Clear(m) /\ secs \in Seq(Sectors) /\ Len(secs) = d
        /\ IsFiniteSet(ToSet(secs)) /\ Cardinality(ToSet(secs)) = d
        /\ secs \in [1 .. d -> Clear(m)] /\ IsInjective(secs)
    BY SectorsMarked, SectorsFound
  <1> HIDE DEF secs
  <1>2. Marked(map, m \cup ToSet(secs), n + d)
    BY <1>1, MarkMore
  <1>3. /\ last \in Headers /\ last.numBytes = chunks[k + 1] /\ last.dataSectors = secs
        /\ last.next = NoSector
    BY <1>1 DEF Header, Headers
  <1> HIDE DEF last
  <1>4. h \in Seq(Headers) /\ Len(h) = k
    BY DEF LinkedHeaders
  <1>5. /\ new \in Seq(Headers) /\ Len(new) = k + 1
        /\ \A j \in 1 .. k : new[j] = h[j]
        /\ new[k + 1] = last
    BY <1>3, <1>4, AppendProperties
  <1> HIDE DEF new
  <1>6. ASSUME NEW j \in 1 .. k + 1
        PROVE  /\ new[j].numBytes = chunks[j]
               /\ Len(new[j].dataSectors) = DivRoundUp(chunks[j], SectorSize)
               /\ new[j].next # NoSector <=> j < k + 1
    <2>1. CASE j = k + 1
      BY <2>1, <1>1, <1>3, <1>5
    <2>2. CASE j # k + 1
      <3>1. j \in 1 .. k /\ j < k + 1
        BY <2>2
      <3>2. new[j] = h[j]
        BY <3>1, <1>5
      <3>3. /\ h[j].numBytes = chunks[j] /\ h[j].next # NoSector
            /\ Len(h[j].dataSectors) = DivRoundUp(chunks[j], SectorSize)
        BY <3>1 DEF LinkedHeaders
      <3> QED BY <3>1, <3>2, <3>3
    <2> QED BY <2>1, <2>2
  <1>7. LinkedHeaders(new, chunks, k + 1, FALSE)
    BY <1>5, <1>6 DEF LinkedHeaders
  <1>8. ASSUME NEW f \in map PROVE Held(map, m \cup ToSet(secs), new, f, FALSE)
    <2>1. map \subseteq m
      BY DEF Marked
    <2>2. new[k + 1].dataSectors = secs
      BY <1>3, <1>5
    <2> QED BY <1>1, <1>4, <1>5, <2>1, <2>2, DataHeld
  <1> QED BY <1>2, <1>7, <1>8 DEF secs, last, new

\* The sectors of header k + 1 beside what the first k took: one for itself,
\* unless it is the first, and its data's.
More(chunks, k) ==
    (IF k = 0 THEN 0 ELSE 1) + DivRoundUp(chunks[k + 1], SectorSize)

\* One call of Allocate in the chain of calls.
LEMMA OneMore ==
    ASSUME NEW map, NEW a, NEW chunks, NEW k \in Nat, NEW n \in Nat,
           Reached(map, a, chunks, k, n), chunks[k + 1] \in 0 .. MaxFileSize
    PROVE  Reached(map, AllocateOne(a, chunks[k + 1]), chunks, k + 1, n + More(chunks, k))
  <1> DEFINE C == Cardinality(Clear(map))
             c == NextHeader(a)
             d == DivRoundUp(chunks[k + 1], SectorSize)
             b == AllocateOne(a, chunks[k + 1])
  <1>1. C \in Nat
    BY ClearFinite
  <1>2. d \in Nat
    BY OneHeaderFull, Numbers
  <1>3. "ok" \in DOMAIN a /\ a.ok \in BOOLEAN /\ (a.ok <=> n <= C)
    BY DEF Reached
  <1>4. b = IF ~a.ok \/ ~c.ok \/ Cardinality(Clear(c.map)) < d
            THEN [c EXCEPT !.ok = FALSE]
            ELSE [ok |-> TRUE, map |-> c.map \cup ToSet(FindAndSet(c.map, d)),
                  hdrs |-> Append(c.hdrs, Header(chunks[k + 1], FindAndSet(c.map, d)))]
    BY DEF AllocateOne
  <1>5. "ok" \in DOMAIN c
    BY <1>3 DEF NextHeader
  <1> HIDE DEF C, d, b
  \* It fails: there is no room for what is needed so far.
  <1>6. ASSUME b = [c EXCEPT !.ok = FALSE], ~(n + More(chunks, k) <= C)
        PROVE  Reached(map, b, chunks, k + 1, n + More(chunks, k))
    <2>1. "ok" \in DOMAIN b /\ b.ok = FALSE
      BY <1>5, <1>6
    <2> QED BY <2>1, <1>6 DEF Reached, C
  \* It finds what it needs, in the map that NextHeader leaves.
  <1>7. ASSUME NEW o \in {0, 1}, More(chunks, k) = o + d, a.ok, c.ok = TRUE,
               Marked(map, c.map, n + o), LinkedHeaders(c.hdrs, chunks, k, TRUE),
               \A f \in map : Held(map, c.map, c.hdrs, f, TRUE)
        PROVE  Reached(map, b, chunks, k + 1, n + More(chunks, k))
    <2>1. n + o \in Nat
      OBVIOUS
    <2>2. Cardinality(Clear(c.map)) = C - (n + o)
      BY <1>7, <2>1, MarkedCount DEF C
    <2>3. CASE C - (n + o) < d
      <3>1. b = [c EXCEPT !.ok = FALSE]
        BY <1>4, <2>2, <2>3
      <3>2. ~(n + More(chunks, k) <= C)
        BY <1>1, <1>2, <1>7, <2>3
      <3> QED BY <3>1, <3>2, <1>6
    <2>4. CASE ~(C - (n + o) < d)
      <3>1. d <= Cardinality(Clear(c.map)) /\ n + More(chunks, k) <= C
        BY <1>1, <1>2, <1>7, <2>2, <2>4
      <3>2. b = [ok |-> TRUE, map |-> c.map \cup ToSet(FindAndSet(c.map, d)),
                 hdrs |-> Append(c.hdrs, Header(chunks[k + 1], FindAndSet(c.map, d)))]
        BY <1>4, <1>7, <2>2, <2>4
      <3>3. /\ Marked(map, b.map, (n + o) + d)
            /\ LinkedHeaders(b.hdrs, chunks, k + 1, FALSE)
            /\ \A f \in map : Held(map, b.map, b.hdrs, f, FALSE)
        <4>1. /\ b.map = c.map \cup ToSet(FindAndSet(c.map, d))
              /\ b.hdrs = Append(c.hdrs, Header(chunks[k + 1], FindAndSet(c.map, d)))
          BY <3>2
        <4>2. d = DivRoundUp(chunks[k + 1], SectorSize)
          BY DEF d
        <4>0. PICK p \in Nat : p = n + o
          BY <2>1
        <4>3. PICK m, h : m = c.map /\ h = c.hdrs
          OBVIOUS
        <4>4. /\ Marked(map, m, p) /\ LinkedHeaders(h, chunks, k, TRUE)
              /\ \A f \in map : Held(map, m, h, f, TRUE)
              /\ d <= Cardinality(Clear(m))
          BY <4>0, <4>3, <3>1, <1>7
        <4>5. /\ b.map = m \cup ToSet(FindAndSet(m, d))
              /\ b.hdrs = Append(h, Header(chunks[k + 1], FindAndSet(m, d)))
          BY <4>1, <4>3
        <4>6. /\ Marked(map, m \cup ToSet(FindAndSet(m, d)), p + d)
              /\ LinkedHeaders(Append(h, Header(chunks[k + 1], FindAndSet(m, d))),
                               chunks, k + 1, FALSE)
              /\ \A f \in map : Held(map, m \cup ToSet(FindAndSet(m, d)),
                                    Append(h, Header(chunks[k + 1], FindAndSet(m, d))), f, FALSE)
          BY <4>2, <4>4, <1>2, DataTaken
        <4> QED BY <4>0, <4>3, <4>5, <4>6
      <3>4. (n + o) + d = n + More(chunks, k)
        BY <1>2, <1>7
      <3>5. /\ "ok" \in DOMAIN b /\ b.ok = TRUE /\ b = [ok |-> TRUE, map |-> b.map, hdrs |-> b.hdrs]
            /\ k + 1 # 0
        BY <3>2
      <3> QED BY <3>1, <3>3, <3>4, <3>5 DEF Reached, C
    <2> QED BY <2>3, <2>4
  <1>8. CASE ~a.ok
    <2>1. ~(n + More(chunks, k) <= C)
      BY <1>1, <1>2, <1>3, <1>8 DEF More, d
    <2> QED BY <1>4, <1>6, <1>8, <2>1 DEF b
  <1>9. CASE a.ok /\ k = 0
    <2>1. a.hdrs = << >> /\ Marked(map, a.map, n)
      BY <1>9, EmptySeq DEF Reached, LinkedHeaders
    <2>2. c = a
      BY <2>1 DEF NextHeader
    <2>3. LinkedHeaders(c.hdrs, chunks, k, TRUE)
      BY <1>9, <2>2 DEF Reached, LinkedHeaders
    <2>4. More(chunks, k) = 0 + d /\ n + 0 = n
      BY <1>9, <1>2 DEF More, d
    <2>5. \A f \in map : Held(map, c.map, c.hdrs, f, TRUE)
      <3>1. PICK h : h = c.hdrs
        OBVIOUS
      <3>2. Len(h) = 0 /\ c.map = map
        BY <1>9, <2>1, <2>2, <3>1, EmptySeq DEF Reached
      <3> QED BY <3>1, <3>2, NoneHeld
    <2> QED BY <1>3, <1>7, <1>9, <2>1, <2>2, <2>3, <2>4, <2>5 DEF b
  <1>10. CASE a.ok /\ k # 0
    <2>1. More(chunks, k) = 1 + d
      BY <1>10 DEF More, d
    <2>2. CASE Clear(a.map) = {}
      <3>1. Cardinality(Clear(a.map)) = C - n /\ Cardinality(Clear(a.map)) = 0
        <4>1. Marked(map, a.map, n)
          BY <1>10 DEF Reached
        <4>2. PICK m : m = a.map
          OBVIOUS
        <4>3. Cardinality(Clear(m)) = C - n
          BY <4>1, <4>2, MarkedCount DEF C
        <4>4. Cardinality(Clear(m)) = 0
          BY <2>2, <4>2, FS_EmptySet
        <4> QED BY <4>2, <4>3, <4>4
      <3>2. ~(n + More(chunks, k) <= C)
        BY <1>1, <1>2, <2>1, <3>1
      <3>3. a.hdrs # << >>
        BY <1>10, EmptySeq DEF Reached, LinkedHeaders
      <3>4. ~c.ok
        BY <1>3, <2>2, <3>3 DEF NextHeader
      <3> QED BY <1>4, <1>6, <3>2, <3>4 DEF b
    <2>3. CASE Clear(a.map) # {}
      <3>1. /\ c.ok = TRUE /\ Marked(map, c.map, n + 1)
            /\ LinkedHeaders(c.hdrs, chunks, k, TRUE)
            /\ \A f \in map : Held(map, c.map, c.hdrs, f, TRUE)
        BY <1>10, <2>3, HeaderLinked
      <3> QED BY <1>7, <1>10, <2>1, <3>1 DEF b
    <2> QED BY <2>2, <2>3
  <1> QED BY <1>3, <1>8, <1>9, <1>10

---------------------------------------------------------------------------
(* The chain of calls.                                                     *)

\* The headers of a file: m full ones and one with r bytes more, and what they
\* need.  A negative size makes one full header.
LEMMA ChunksAre ==
    ASSUME NEW size \in Int
    PROVE  \E m \in Nat, r \in 0 .. MaxFileSize :
             /\ Chunks(size) \in Seq(0 .. MaxFileSize) /\ Len(Chunks(size)) = m + 1
             /\ \A j \in 1 .. m : Chunks(size)[j] = MaxFileSize
             /\ Chunks(size)[m + 1] = r
             /\ (IF size < 0 THEN MaxFileSize ELSE size) = m * MaxFileSize + r
             /\ Needed(size) = m * (NumDirect + 1) + DivRoundUp(r, SectorSize)
  <1>1. MaxFileSize \in Nat \ {0}
    BY Numbers
  <1>2. ASSUME NEW r \in 0 .. MaxFileSize, Chunks(size) = <<r>>,
               (IF size < 0 THEN MaxFileSize ELSE size) = r
        PROVE  /\ Chunks(size) \in Seq(0 .. MaxFileSize) /\ Len(Chunks(size)) = 0 + 1
               /\ \A j \in 1 .. 0 : Chunks(size)[j] = MaxFileSize
               /\ Chunks(size)[0 + 1] = r
               /\ (IF size < 0 THEN MaxFileSize ELSE size) = 0 * MaxFileSize + r
               /\ Needed(size) = 0 * (NumDirect + 1) + DivRoundUp(r, SectorSize)
    <2>1. 0 * MaxFileSize + r = r
      BY <1>1
    <2>2. Needed(0 * MaxFileSize + r) = 0 * (NumDirect + 1) + DivRoundUp(r, SectorSize)
      <3>1. 0 \in Nat
        OBVIOUS
      <3> QED BY <3>1, SizeInHeaders
    <2>3. Needed(size) = Needed(r)
      <3>1. ~(r < 0)
        BY <1>1
      <3> QED BY <1>2, <3>1 DEF Needed
    <2> QED BY <1>2, <2>1, <2>2, <2>3
  <1>3. CASE size < 0
    <2>1. Chunks(size) = <<MaxFileSize>> /\ MaxFileSize \in 0 .. MaxFileSize
      BY <1>1, <1>3 DEF Chunks
    <2> QED BY <1>2, <1>3, <2>1
  <1>4. CASE size \in 0 .. MaxFileSize
    <2>1. Chunks(size) = <<size>> /\ ~(size < 0)
      BY <1>1, <1>4 DEF Chunks
    <2> QED BY <1>2, <1>4, <2>1
  <1>5. CASE size > MaxFileSize
    <2> DEFINE M == MaxFileSize
               m == (size - 1) \div M
               r == ((size - 1) % M) + 1
    <2>1. m \in Int /\ r \in 1 .. M /\ size = m * M + r
      BY <1>1
    <2> HIDE DEF m, r
    <2>2. m \in Nat
      <3>1. SUFFICES ASSUME m <= -1 PROVE FALSE
        BY <2>1
      <3>2. m * M <= -M /\ m * M \in Int
        BY <1>1, <2>1, <3>1
      <3> QED BY <1>1, <1>5, <2>1, <3>2
    <2>3. DivRoundUp(size, M) = m + 1
      BY <1>1, <2>1, RoundUpRest
    <2>4. Needed(size) = m * (NumDirect + 1) + DivRoundUp(r, SectorSize)
      <3>1. r \in 0 .. M /\ r > 0
        BY <1>1, <2>1
      <3> QED BY <2>1, <2>2, <3>1, SizeInHeaders
    <2>5. Chunks(size) = [i \in 1 .. m + 1 |-> IF i < m + 1 THEN M ELSE size - ((m + 1) - 1) * M]
      BY <1>1, <1>5, <2>3 DEF Chunks
    <2>6. size - ((m + 1) - 1) * M = r
      <3>1. (m + 1) - 1 = m /\ m * M \in Int
        BY <1>1, <2>2
      <3> QED BY <2>1, <3>1
    <2>7. Chunks(size) = [i \in 1 .. m + 1 |-> IF i < m + 1 THEN M ELSE r]
      BY <2>5, <2>6
    <2>8. M \in 0 .. M /\ r \in 0 .. M
      BY <1>1, <2>1
    <2> HIDE DEF M
    <2>9. Chunks(size) \in Seq(0 .. M) /\ Len(Chunks(size)) = m + 1
      BY <2>2, <2>7, <2>8
    <2>10. (\A j \in 1 .. m : Chunks(size)[j] = M) /\ Chunks(size)[m + 1] = r
      BY <2>2, <2>7
    <2>11. ~(size < 0)
      BY <1>1, <1>5 DEF M
    <2> QED BY <2>1, <2>2, <2>4, <2>8, <2>9, <2>10, <2>11 DEF M
  <1> QED BY <1>1, <1>3, <1>4, <1>5

\* f holds what the first k calls leave, for all k up to n.
IsCalls(f, map, chunks, n) ==
    f = [k \in 0 .. n |-> IF k = 0 THEN [ok |-> TRUE, map |-> map, hdrs |-> << >>]
                          ELSE AllocateOne(f[k - 1], chunks[k])]

\* The calls one after another define a function on the chunks.
LEMMA CallsDefined ==
    ASSUME NEW map, NEW chunks, NEW n \in Nat
    PROVE  \E f : IsCalls(f, map, chunks, n)
  <1> DEFINE First == [ok |-> TRUE, map |-> map, hdrs |-> << >>]
             Is(f, j) == f = [k \in 0 .. j |-> IF k = 0 THEN First
                                               ELSE AllocateOne(f[k - 1], chunks[k])]
             Bad == {j \in Nat : ~\E f : Is(f, j)}
  <1> HIDE DEF First
  <1> SUFFICES ASSUME Bad # {} PROVE FALSE
    BY DEF First, IsCalls
  <1>1. PICK j \in Bad : \A i \in Bad : j <= i
    <2>1. Bad \in SUBSET Nat
      OBVIOUS
    <2> HIDE DEF Bad
    <2> QED BY <2>1, LeastNat
  <1>2. j # 0
    <2>1. SUFFICES Is([k \in 0 .. 0 |-> First], 0)
      OBVIOUS
    <2> QED OBVIOUS
  <1>3. PICK f : Is(f, j - 1)
    <2>1. j - 1 \in Nat /\ ~(j <= j - 1)
      BY <1>2
    <2>2. j - 1 \notin Bad
      BY <1>1, <2>1
    <2> QED BY <2>1, <2>2
  <1> DEFINE g == [k \in 0 .. j |-> IF k = j THEN AllocateOne(f[j - 1], chunks[j]) ELSE f[k]]
  <1>4. Is(g, j)
    <2>1. ASSUME NEW k \in 0 .. j
          PROVE  g[k] = IF k = 0 THEN First ELSE AllocateOne(g[k - 1], chunks[k])
      <3>1. CASE k = j
        <4>1. j - 1 \in 0 .. j /\ j - 1 # j
          BY <1>2
        <4>2. g[j - 1] = f[j - 1]
          BY <4>1
        <4> QED BY <3>1, <4>2, <1>2
      <3>2. CASE k # j /\ k # 0
        <4>1. k \in 0 .. j - 1 /\ k - 1 \in 0 .. j /\ k - 1 # j
          BY <3>2
        <4>2. g[k - 1] = f[k - 1] /\ g[k] = f[k]
          BY <3>2, <4>1
        <4>3. f[k] = AllocateOne(f[k - 1], chunks[k])
          BY <1>3, <3>2, <4>1
        <4> QED BY <3>2, <4>2, <4>3
      <3>3. CASE k # j /\ k = 0
        <4>1. 0 \in 0 .. j - 1
          BY <1>2
        <4>2. f[0] = First
          BY <1>3, <4>1
        <4> QED BY <3>3, <4>2
      <3> QED BY <3>1, <3>2, <3>3
    <2>2. g = [k \in 0 .. j |-> g[k]]
      OBVIOUS
    <2> HIDE DEF g
    <2> QED BY <2>1, <2>2
  <1>5. \E h : Is(h, j)
    BY <1>4
  <1> QED BY <1>5

\* Allocate is the last of the calls that AllocateOne makes of the one before.
LEMMA AllocateIsLast ==
    ASSUME NEW map, NEW size, Len(Chunks(size)) \in Nat
    PROVE  \E f : /\ IsCalls(f, map, Chunks(size), Len(Chunks(size)))
                  /\ Allocate(map, size) = f[Len(Chunks(size))]
  <1> DEFINE chunks == Chunks(size)
             f == CHOOSE g : IsCalls(g, map, chunks, Len(chunks))
  <1>1. Allocate(map, size) = f[Len(chunks)]
    BY DEF Allocate, IsCalls
  <1> HIDE DEF chunks
  <1>2. \E g : IsCalls(g, map, chunks, Len(chunks))
    BY CallsDefined DEF chunks
  <1>3. IsCalls(f, map, chunks, Len(chunks))
    BY <1>2
  <1> HIDE DEF f
  <1> QED BY <1>1, <1>3 DEF chunks

\* What all calls together reach.
LEMMA AllocateReaches ==
    ASSUME NEW map, NEW chunks, NEW m \in Nat, NEW f, NEW k \in 1 .. m + 1,
           chunks \in Seq(0 .. MaxFileSize), Len(chunks) = m + 1,
           \A j \in 1 .. m : chunks[j] = MaxFileSize,
           IsCalls(f, map, chunks, m + 1)
    PROVE  Reached(map, f[k], chunks, k, (k - 1) * (NumDirect + 1) + DivRoundUp(chunks[k], SectorSize))
  <1> DEFINE Need(j) == (j - 1) * (NumDirect + 1) + DivRoundUp(chunks[j], SectorSize)
             Bad == {j \in 1 .. m + 1 : ~Reached(map, f[j], chunks, j, Need(j))}
  <1> SUFFICES ASSUME Bad # {} PROVE FALSE
    OBVIOUS
  <1>1. PICK j \in Bad : \A i \in Bad : j <= i
    <2>1. Bad \in SUBSET Nat
      OBVIOUS
    <2> HIDE DEF Bad
    <2> QED BY <2>1, LeastNat
  <1>2. \A i \in 1 .. m + 1 : /\ chunks[i] \in 0 .. MaxFileSize
                              /\ DivRoundUp(chunks[i], SectorSize) \in Nat
    <2> SUFFICES ASSUME NEW i \in 1 .. m + 1
                 PROVE  /\ chunks[i] \in 0 .. MaxFileSize
                        /\ DivRoundUp(chunks[i], SectorSize) \in Nat
      OBVIOUS
    <2>1. chunks[i] \in 0 .. MaxFileSize
      BY ElementOfSeq
    <2>2. DivRoundUp(chunks[i], SectorSize) \in 0 .. NumDirect
      BY <2>1, OneHeaderFull
    <2> QED BY <2>1, <2>2, Numbers
  <1>3. j \in 1 .. m + 1 /\ ~Reached(map, f[j], chunks, j, Need(j))
    OBVIOUS
  <1>4. ASSUME NEW i \in Nat, NEW n \in Nat, j = i + 1, Reached(map, f[i], chunks, i, n),
               n + More(chunks, i) = Need(j)
        PROVE  FALSE
    <2>1. f[j] = AllocateOne(f[i], chunks[i + 1])
      <3>1. j \in 0 .. m + 1 /\ j # 0 /\ j - 1 = i
        BY <1>3, <1>4
      <3> QED BY <3>1, <1>4 DEF IsCalls
    <2>2. chunks[i + 1] \in 0 .. MaxFileSize
      BY <1>2, <1>3, <1>4
    <2>3. Reached(map, AllocateOne(f[i], chunks[i + 1]), chunks, i + 1, n + More(chunks, i))
      BY <1>4, <2>2, OneMore
    <2> HIDE DEF Need
    <2> QED BY <1>3, <1>4, <2>1, <2>3
  <1>5. CASE j = 1
    <2>1. f[0] = [ok |-> TRUE, map |-> map, hdrs |-> << >>]
      <3>1. 0 \in 0 .. m + 1
        OBVIOUS
      <3> QED BY <3>1 DEF IsCalls
    <2>2. Marked(map, map, 0)
      <3>1. {} \in SUBSET Clear(map) /\ map = map \cup {}
        OBVIOUS
      <3>2. IsFiniteSet({}) /\ Cardinality({}) = 0
        BY FS_EmptySet
      <3> QED BY <3>1, <3>2 DEF Marked
    <2>3. LinkedHeaders(<< >>, chunks, 0, FALSE)
      BY EmptySeq DEF LinkedHeaders
    <2>4. 0 <= Cardinality(Clear(map))
      BY ClearFinite
    <2>5. Reached(map, f[0], chunks, 0, 0)
      <3>1. PICK a : a = f[0]
        OBVIOUS
      <3>2. /\ a = [ok |-> TRUE, map |-> map, hdrs |-> << >>] /\ "ok" \in DOMAIN a
            /\ a.ok = TRUE /\ a.map = map /\ a.hdrs = << >>
        BY <2>1, <3>1
      <3>3. Reached(map, a, chunks, 0, 0)
        BY <2>2, <2>3, <2>4, <3>2 DEF Reached
      <3> QED BY <3>1, <3>3
    <2>6. 0 + More(chunks, 0) = Need(1)
      <3>1. (1 - 1) * (NumDirect + 1) = 0 /\ DivRoundUp(chunks[1], SectorSize) \in Nat
        BY <1>2, Numbers
      <3> QED BY <3>1 DEF More
    <2> HIDE DEF Need
    <2>7. 0 \in Nat /\ j = 0 + 1
      BY <1>5
    <2> QED BY <1>4, <1>5, <2>5, <2>6, <2>7
  <1>6. CASE j # 1
    <2>1. PICK i \in 1 .. m : j = i + 1
      <3>1. j - 1 \in 1 .. m /\ j = (j - 1) + 1
        BY <1>3, <1>6
      <3> QED BY <3>1
    <2>2. i \notin Bad
      BY <1>1, <2>1
    <2>3. Reached(map, f[i], chunks, i, Need(i))
      BY <2>2
    <2>4. Need(i) = (i - 1) * (NumDirect + 1) + NumDirect
      BY OneHeaderFull
    <2>5. Need(i) \in Nat /\ Need(i) + 1 = i * (NumDirect + 1)
      <3>1. (i - 1) * (NumDirect + 1) \in Nat /\ i * (NumDirect + 1) \in Nat
        BY Numbers
      <3>2. (i - 1) * (NumDirect + 1) = i * (NumDirect + 1) - (NumDirect + 1)
        BY Numbers
      <3> HIDE DEF Need
      <3> QED BY <2>4, <3>1, <3>2, Numbers
    <2>6. Need(j) = i * (NumDirect + 1) + DivRoundUp(chunks[i + 1], SectorSize)
      <3>1. j - 1 = i /\ j = i + 1
        BY <2>1
      <3> QED BY <3>1
    <2>7. More(chunks, i) = 1 + DivRoundUp(chunks[i + 1], SectorSize)
      BY DEF More
    <2>8. DivRoundUp(chunks[i + 1], SectorSize) \in Nat /\ i \in Nat
      BY <1>2, <2>1
    <2> HIDE DEF Need, Bad
    <2>9. Need(i) + More(chunks, i) = Need(j)
      <3>1. i * (NumDirect + 1) \in Nat
        BY <2>8, Numbers
      <3> QED BY <2>5, <2>6, <2>7, <2>8, <3>1
    <2> QED BY <1>4, <2>1, <2>3, <2>5, <2>8, <2>9
  <1> QED BY <1>5, <1>6

\* f holds the bytes of the first k headers, for all k up to n.
IsSum(f, hdrs, n) ==
    f = [k \in 0 .. n |-> IF k = 0 THEN 0 ELSE f[k - 1] + hdrs[k].numBytes]

\* The length of m full headers and one more.
LEMMA LengthOf ==
    ASSUME NEW hdrs, NEW m \in Nat, NEW r \in Nat, Len(hdrs) = m + 1,
           \A j \in 1 .. m : hdrs[j].numBytes = MaxFileSize, hdrs[m + 1].numBytes = r
    PROVE  FileLength(hdrs) = m * MaxFileSize + r
  <1> DEFINE Total(k) == IF k = m + 1 THEN m * MaxFileSize + r ELSE k * MaxFileSize
             f == CHOOSE g : IsSum(g, hdrs, Len(hdrs))
             Bad == {k \in 0 .. m + 1 : f[k] # Total(k)}
  <1>1. \A k \in 0 .. m + 1 : Total(k) \in Nat
    BY Numbers
  <1>2. \A k \in 1 .. m + 1 : Total(k) = Total(k - 1) + hdrs[k].numBytes
    <2> SUFFICES ASSUME NEW k \in 1 .. m + 1
                 PROVE  Total(k) = Total(k - 1) + hdrs[k].numBytes
      OBVIOUS
    <2>1. CASE k = m + 1
      <3>1. k - 1 = m /\ k - 1 # m + 1
        BY <2>1
      <3> QED BY <2>1, <3>1
    <2>2. CASE k # m + 1
      <3>1. k \in 1 .. m /\ k - 1 # m + 1 /\ k - 1 \in Nat
        BY <2>2
      <3>2. k * MaxFileSize = (k - 1) * MaxFileSize + MaxFileSize
        BY <3>1, Numbers
      <3> QED BY <2>2, <3>1, <3>2
    <2> QED BY <2>1, <2>2
  <1>3. Total(0) = 0
    BY Numbers
  <1> HIDE DEF Total
  <1>4. \E g : IsSum(g, hdrs, Len(hdrs))
    <2> DEFINE g == [k \in 0 .. m + 1 |-> Total(k)]
    <2>1. \A k \in 0 .. m + 1 :
            Total(k) = IF k = 0 THEN 0 ELSE g[k - 1] + hdrs[k].numBytes
      <3> SUFFICES ASSUME NEW k \in 0 .. m + 1, k # 0
                   PROVE  Total(k) = g[k - 1] + hdrs[k].numBytes
        BY <1>3
      <3>1. k \in 1 .. m + 1 /\ k - 1 \in 0 .. m + 1
        OBVIOUS
      <3> QED BY <1>2, <3>1
    <2>2. IsSum(g, hdrs, m + 1)
      <3> DEFINE h == [k \in 0 .. m + 1 |-> IF k = 0 THEN 0 ELSE g[k - 1] + hdrs[k].numBytes]
      <3>1. g = h
        BY <2>1
      <3> QED BY <3>1 DEF IsSum
    <2> QED BY <2>2
  <1>5. IsSum(f, hdrs, m + 1)
    BY <1>4
  <1>6. FileLength(hdrs) = f[m + 1]
    BY DEF FileLength, IsSum
  <1> HIDE DEF f
  <1>7. ASSUME Bad # {} PROVE FALSE
    <2>1. PICK k \in Bad : \A i \in Bad : k <= i
      <3>1. Bad \in SUBSET Nat
        OBVIOUS
      <3> HIDE DEF Bad
      <3> QED BY <1>7, <3>1, LeastNat
    <2>2. k \in 0 .. m + 1 /\ f[k] # Total(k)
      OBVIOUS
    <2>3. k # 0
      BY <1>3, <1>5, <2>2 DEF IsSum
    <2>4. k - 1 \in 0 .. m + 1 /\ k - 1 \notin Bad /\ k \in 1 .. m + 1
      BY <2>1, <2>2, <2>3
    <2>5. f[k - 1] = Total(k - 1)
      BY <2>4
    <2>6. f[k] = f[k - 1] + hdrs[k].numBytes
      BY <1>5, <2>2, <2>3 DEF IsSum
    <2> QED BY <1>2, <2>2, <2>4, <2>5, <2>6
  <1>8. m + 1 \in 0 .. m + 1 /\ m + 1 \notin Bad
    BY <1>7
  <1>9. f[m + 1] = Total(m + 1)
    BY <1>8
  <1> QED BY <1>6, <1>9 DEF Total

\* After all chunks of a size it needs that many sectors.
LEMMA AllocateAll ==
    ASSUME NEW map, NEW size \in Int
    PROVE  \E m \in Nat, r \in 0 .. MaxFileSize, chunks \in Seq(0 .. MaxFileSize) :
             /\ Len(chunks) = m + 1 /\ \A j \in 1 .. m : chunks[j] = MaxFileSize
             /\ chunks[m + 1] = r
             /\ (IF size < 0 THEN MaxFileSize ELSE size) = m * MaxFileSize + r
             /\ Needed(size) = m * (NumDirect + 1) + DivRoundUp(r, SectorSize)
             /\ Reached(map, Allocate(map, size), chunks, m + 1, Needed(size))
  <1>1. PICK m \in Nat, r \in 0 .. MaxFileSize :
          /\ Chunks(size) \in Seq(0 .. MaxFileSize) /\ Len(Chunks(size)) = m + 1
          /\ \A j \in 1 .. m : Chunks(size)[j] = MaxFileSize
          /\ Chunks(size)[m + 1] = r
          /\ (IF size < 0 THEN MaxFileSize ELSE size) = m * MaxFileSize + r
          /\ Needed(size) = m * (NumDirect + 1) + DivRoundUp(r, SectorSize)
    BY ChunksAre
  <1>2. PICK f : IsCalls(f, map, Chunks(size), m + 1) /\ Allocate(map, size) = f[m + 1]
    BY <1>1, AllocateIsLast
  <1>3. PICK chunks : chunks = Chunks(size)
    OBVIOUS
  <1>4. PICK a : a = Allocate(map, size)
    OBVIOUS
  <1>5. Reached(map, a, chunks, m + 1, Needed(size))
    <2>1. m + 1 \in 1 .. m + 1
      OBVIOUS
    <2>2. Reached(map, f[m + 1], chunks, m + 1,
                  ((m + 1) - 1) * (NumDirect + 1) + DivRoundUp(chunks[m + 1], SectorSize))
      BY <1>1, <1>2, <1>3, <2>1, AllocateReaches
    <2>3. (m + 1) - 1 = m
      OBVIOUS
    <2> QED BY <1>1, <1>2, <1>3, <1>4, <2>2, <2>3
  <1> QED BY <1>1, <1>3, <1>4, <1>5

\* Allocate for any free map and any size: it fails just when there are fewer
\* clear sectors than the whole file needs, and otherwise marks that many and
\* leaves headers for all its bytes.
LEMMA AllocateTakes ==
    ASSUME NEW map, NEW size \in Int
    PROVE  LET a == Allocate(map, size)
           IN  /\ a.ok <=> Needed(size) <= Cardinality(Clear(map))
               /\ a.ok => /\ map \subseteq a.map
                          /\ Cardinality(a.map \ map) = Needed(size)
                          /\ FileLength(a.hdrs) = IF size < 0 THEN MaxFileSize ELSE size
  <1>1. PICK a : a = Allocate(map, size)
    OBVIOUS
  <1>2. PICK m \in Nat, r \in 0 .. MaxFileSize, chunks \in Seq(0 .. MaxFileSize) :
          /\ Len(chunks) = m + 1 /\ \A j \in 1 .. m : chunks[j] = MaxFileSize
          /\ chunks[m + 1] = r
          /\ (IF size < 0 THEN MaxFileSize ELSE size) = m * MaxFileSize + r
          /\ Needed(size) = m * (NumDirect + 1) + DivRoundUp(r, SectorSize)
          /\ Reached(map, a, chunks, m + 1, Needed(size))
    BY <1>1, AllocateAll
  <1>3. Reached(map, a, chunks, m + 1, Needed(size))
    BY <1>2
  <1>4. PICK n \in Nat : n = Needed(size)
    <2>1. DivRoundUp(r, SectorSize) \in 0 .. NumDirect
      BY OneHeaderFull
    <2>2. m * (NumDirect + 1) \in Nat
      BY Numbers
    <2> QED BY <1>2, <2>1, <2>2, Numbers
  <1>5. a.ok <=> n <= Cardinality(Clear(map))
    BY <1>3, <1>4 DEF Reached
  <1>6. ASSUME a.ok
        PROVE  /\ map \subseteq a.map /\ Cardinality(a.map \ map) = n
               /\ FileLength(a.hdrs) = m * MaxFileSize + r
    <2>1. PICK u, h : u = a.map /\ h = a.hdrs
      OBVIOUS
    <2>2. Marked(map, u, n) /\ LinkedHeaders(h, chunks, m + 1, FALSE)
      BY <1>3, <1>4, <1>6, <2>1 DEF Reached
    <2>3. map \subseteq u /\ Cardinality(u \ map) = n
      BY <2>2, MarkedCount
    <2>4. FileLength(h) = m * MaxFileSize + r
      <3>1. Len(h) = m + 1 /\ \A j \in 1 .. m + 1 : h[j].numBytes = chunks[j]
        BY <2>2 DEF LinkedHeaders
      <3>2. \A j \in 1 .. m : h[j].numBytes = MaxFileSize
        BY <1>2, <3>1
      <3>3. h[m + 1].numBytes = r /\ r \in Nat
        BY <1>2, <3>1, Numbers
      <3> QED BY <3>1, <3>2, <3>3, LengthOf
    <2> QED BY <2>1, <2>3, <2>4
  <1> QED BY <1>2, <1>1, <1>4, <1>5, <1>6

\* Allocate looks at the room for one header at a time, and yet gets a file of
\* any size whole and with no sector too many, or not at all, whatever the free
\* map is, fragmented or not, and however few sectors are left at whichever
\* header (filehdr.cc:72-106).
THEOREM AllocateExactHolds == Spec => []AllocateExact
  <1>1. AllocateExact
    <2> SUFFICES ASSUME NEW size \in {-1} \cup 0 .. 5 * MaxFileSize
                 PROVE  LET map == FetchMap(disk)
                            a   == Allocate(map, size)
                        IN  /\ a.ok <=> Needed(size) <= Cardinality(Clear(map))
                            /\ a.ok => /\ map \subseteq a.map
                                       /\ Cardinality(a.map \ map) = Needed(size)
                                       /\ FileLength(a.hdrs) = IF size < 0 THEN MaxFileSize ELSE size
      BY DEF AllocateExact
    <2>1. size \in Int
      BY Numbers
    <2> QED BY <2>1, AllocateTakes
  <1> QED BY <1>1, PTL

---------------------------------------------------------------------------
(* Files on a disk.                                                        *)

\* The headers of a file whose first one is in sector s: full but for the last,
\* linked, and no sector twice.
FileHeaders(h, s) ==
    /\ h \in Seq(Headers) /\ Len(h) >= 1
    /\ \A i \in 1 .. Len(h) :
         /\ i < Len(h) => h[i].numBytes = MaxFileSize
         /\ h[i].next # NoSector <=> i < Len(h)
         /\ Len(h[i].dataSectors) = DivRoundUp(h[i].numBytes, SectorSize)
    /\ \A i, j \in Nat : IsPlace(h, FALSE, i, j) => SectorAt(h, s, i, j) \in Sectors
    /\ \A i, j, k, l \in Nat :
         /\ IsPlace(h, FALSE, i, j) /\ IsPlace(h, FALSE, k, l)
         /\ SectorAt(h, s, i, j) = SectorAt(h, s, k, l)
         => i = k /\ j = l

OnDisk(d, s, h) == \A i \in 1 .. Len(h) : d[SectorAt(h, s, i, 0)] = h[i]

\* All sectors of a file.
SectorsOf(h, s) ==
    {x \in Sectors : \E i, j \in Nat : IsPlace(h, FALSE, i, j) /\ SectorAt(h, s, i, j) = x}

\* There are no more headers than sectors.
LEMMA HeadersFit ==
    ASSUME NEW h, NEW s, FileHeaders(h, s)
    PROVE  Len(h) \in 1 .. NumSectors
  <1> DEFINE f == [i \in 1 .. Len(h) |-> SectorAt(h, s, i, 0)]
  <1>1. h \in Seq(Headers) /\ Len(h) \in Nat /\ Len(h) >= 1
    BY DEF FileHeaders
  <1>2. ASSUME NEW i \in 1 .. Len(h) PROVE i \in Nat /\ 0 \in Nat /\ IsPlace(h, FALSE, i, 0)
    <2>1. h[i] \in Headers
      BY <1>1, ElementOfSeq
    <2>2. Len(h[i].dataSectors) \in Nat
      BY <2>1 DEF Headers
    <2> QED BY <2>2, <1>1 DEF IsPlace
  <1>3. f \in [1 .. Len(h) -> Sectors]
    BY <1>2 DEF FileHeaders
  <1>4. ASSUME NEW i \in 1 .. Len(h), NEW j \in 1 .. Len(h), f[i] = f[j] PROVE i = j
    <2>1. SectorAt(h, s, i, 0) = SectorAt(h, s, j, 0)
      BY <1>4
    <2> QED BY <1>2, <2>1 DEF FileHeaders
  <1> HIDE DEF f
  <1>5. f \in Injection(1 .. Len(h), Sectors)
    BY <1>3, <1>4 DEF Injection, IsInjective
  <1>6. IsFiniteSet(Sectors) /\ Cardinality(Sectors) = NumSectors
    <2>1. 0 \in Int /\ NumSectors - 1 \in Int
      BY Numbers
    <2>2. IsFiniteSet(Sectors) /\ Cardinality(Sectors) = IF 0 > NumSectors - 1 THEN 0
                                                          ELSE NumSectors - 1 - 0 + 1
      BY <2>1, FS_Interval DEF Sectors
    <2> QED BY <2>2, Numbers
  <1>7. Cardinality(1 .. Len(h)) = Len(h)
    <2>1. 1 \in Int /\ Len(h) \in Int
      BY <1>1
    <2>2. Cardinality(1 .. Len(h)) = IF 1 > Len(h) THEN 0 ELSE Len(h) - 1 + 1
      BY <2>1, FS_Interval
    <2> QED BY <1>1, <2>2
  <1>8. Cardinality(1 .. Len(h)) <= Cardinality(Sectors)
    BY <1>5, <1>6, FS_Injection
  <1> QED BY <1>1, <1>6, <1>7, <1>8

IsHeader(d, x) == x # NoSector /\ d[x].kind = "header"

\* f holds the sectors FetchFrom looks at.
IsFetch(f, d, s) ==
    f = [k \in 1 .. NumSectors |->
           IF k = 1 THEN s ELSE IF IsHeader(d, f[k - 1]) THEN d[f[k - 1]].next ELSE NoSector]

\* Two such functions are the same.
LEMMA FetchUnique ==
    ASSUME NEW d, NEW s, NEW f, NEW g, IsFetch(f, d, s), IsFetch(g, d, s)
    PROVE  \A k \in 1 .. NumSectors : f[k] = g[k]
  <1> DEFINE Bad == {k \in 1 .. NumSectors : f[k] # g[k]}
  <1> SUFFICES ASSUME Bad # {} PROVE FALSE
    OBVIOUS
  <1>1. PICK k \in Bad : \A i \in Bad : k <= i
    <2>1. Bad \in SUBSET Nat
      BY Numbers
    <2> HIDE DEF Bad
    <2> QED BY <2>1, LeastNat
  <1>2. k \in 1 .. NumSectors /\ f[k] # g[k]
    OBVIOUS
  <1>3. k # 1
    BY <1>2 DEF IsFetch
  <1>4. k - 1 \in 1 .. NumSectors /\ ~(k <= k - 1)
    BY <1>2, <1>3, Numbers
  <1>5. f[k - 1] = g[k - 1]
    BY <1>1, <1>4
  <1>6. /\ f[k] = IF IsHeader(d, f[k - 1]) THEN d[f[k - 1]].next ELSE NoSector
        /\ g[k] = IF IsHeader(d, g[k - 1]) THEN d[g[k - 1]].next ELSE NoSector
    BY <1>2, <1>3 DEF IsFetch
  <1> QED BY <1>2, <1>5, <1>6

\* FetchFrom reads the headers of a file, all of them and no more.
LEMMA FetchReads ==
    ASSUME NEW d, NEW h, NEW s, FileHeaders(h, s), OnDisk(d, s, h)
    PROVE  FetchFrom(d, s) = h
  <1> DEFINE n == Len(h)
             At(k) == IF k <= n THEN SectorAt(h, s, k, 0) ELSE NoSector
             g == [k \in 1 .. NumSectors |-> At(k)]
             f == CHOOSE c : IsFetch(c, d, s)
  <1>1. n \in 1 .. NumSectors /\ h \in Seq(Headers) /\ n \in Nat /\ n >= 1
    <2>1. Len(h) \in 1 .. NumSectors
      BY HeadersFit
    <2> QED BY <2>1, Numbers DEF FileHeaders
  <1>2. ASSUME NEW i \in 1 .. n
        PROVE  /\ IsHeader(d, At(i)) /\ d[At(i)] = h[i]
               /\ h[i].next = At(i + 1)
    <2>1. h[i] \in Headers
      BY <1>1, ElementOfSeq
    <2>2. IsPlace(h, FALSE, i, 0)
      <3>1. Len(h[i].dataSectors) \in Nat
        BY <2>1 DEF Headers
      <3> QED BY <3>1, <1>1 DEF IsPlace
    <2>3. SectorAt(h, s, i, 0) \in Sectors
      <3>1. i \in Nat /\ 0 \in Nat
        BY <1>1
      <3> QED BY <2>2, <3>1 DEF FileHeaders
    <2>4. At(i) = SectorAt(h, s, i, 0)
      BY <1>1
    <2>5. At(i) # NoSector /\ d[At(i)] = h[i]
      BY <2>3, <2>4, Numbers DEF OnDisk, Sectors, NoSector
    <2>6. h[i].kind = "header"
      BY <2>1 DEF Headers
    <2>7. h[i].next # NoSector <=> i < n
      BY DEF FileHeaders
    <2>8. i < n => At(i + 1) = h[i].next
      <3> SUFFICES ASSUME i < n PROVE At(i + 1) = h[i].next
        OBVIOUS
      <3>1. i + 1 <= n /\ i + 1 # 1 /\ (i + 1) - 1 = i
        BY <1>1
      <3> QED BY <3>1 DEF SectorAt
    <2>9. ~(i < n) => At(i + 1) = NoSector
      BY <1>1
    <2> QED BY <2>5, <2>6, <2>7, <2>8, <2>9 DEF IsHeader
  <1>3. ASSUME NEW k \in 1 .. NumSectors, k > n PROVE At(k) = NoSector /\ ~IsHeader(d, At(k))
    BY <1>1, <1>3 DEF IsHeader
  <1>4. At(1) = s
    BY <1>1 DEF SectorAt
  <1> HIDE DEF At
  <1>5. IsFetch(g, d, s)
    <2>1. ASSUME NEW k \in 1 .. NumSectors
          PROVE  g[k] = IF k = 1 THEN s
                        ELSE IF IsHeader(d, g[k - 1]) THEN d[g[k - 1]].next ELSE NoSector
      <3>1. CASE k = 1
        BY <3>1, <1>4
      <3>2. CASE k # 1
        <4>1. PICK i \in 1 .. NumSectors : k = i + 1
          <5>1. k - 1 \in 1 .. NumSectors /\ k = (k - 1) + 1
            BY <3>2, Numbers
          <5> QED BY <5>1
        <4>2. k - 1 = i /\ g[k - 1] = At(i) /\ g[k] = At(i + 1)
          BY <4>1
        <4>3. CASE i <= n
          <5>1. i \in 1 .. n
            BY <4>3, <1>1
          <5> QED BY <3>2, <4>2, <5>1, <1>2
        <4>4. CASE ~(i <= n)
          <5>1. i > n /\ k > n
            BY <4>1, <4>4, <1>1
          <5>2. ~IsHeader(d, At(i)) /\ At(k) = NoSector
            BY <5>1, <1>3
          <5> QED BY <3>2, <4>1, <4>2, <5>2
        <4> QED BY <4>3, <4>4
      <3> QED BY <3>1, <3>2
    <2> HIDE DEF g
    <2>2. g = [k \in 1 .. NumSectors |-> g[k]]
      BY DEF g
    <2> QED BY <2>1, <2>2 DEF IsFetch
  <1>6. FetchFrom(d, s) = [k \in 1 .. Cardinality({k \in 1 .. NumSectors : IsHeader(d, f[k])}) |-> d[f[k]]]
    BY DEF FetchFrom, IsFetch, IsHeader
  <1>7. \A k \in 1 .. NumSectors : f[k] = At(k)
    <2>1. IsFetch(f, d, s)
      BY <1>5
    <2> HIDE DEF f, g
    <2>2. \A k \in 1 .. NumSectors : f[k] = g[k]
      BY <1>5, <2>1, FetchUnique
    <2> QED BY <2>2 DEF g
  <1> HIDE DEF f, g
  <1>8. {k \in 1 .. NumSectors : IsHeader(d, f[k])} = 1 .. n
    <2>1. ASSUME NEW k \in 1 .. NumSectors PROVE IsHeader(d, f[k]) <=> k <= n
      <3>1. CASE k <= n
        <4>1. k \in 1 .. n
          BY <3>1, <1>1
        <4> QED BY <3>1, <4>1, <1>2, <1>7
      <3>2. CASE ~(k <= n)
        <4>1. k > n
          BY <3>2, <1>1
        <4> QED BY <3>2, <4>1, <1>3, <1>7
      <3> QED BY <3>1, <3>2
    <2>2. \A k \in 1 .. n : k \in 1 .. NumSectors
      BY <1>1, Numbers
    <2>3. \A k \in 1 .. NumSectors : k <= n => k \in 1 .. n
      BY <1>1
    <2> HIDE DEF n
    <2> QED BY <2>1, <2>2, <2>3
  <1>9. Cardinality(1 .. n) = n
    <2>1. 1 \in Int /\ n \in Int
      BY <1>1
    <2>2. Cardinality(1 .. n) = IF 1 > n THEN 0 ELSE n - 1 + 1
      BY <2>1, FS_Interval
    <2> QED BY <1>1, <2>2
  <1>10. FetchFrom(d, s) = [k \in 1 .. n |-> d[f[k]]]
    BY <1>6, <1>8, <1>9
  <1>11. ASSUME NEW k \in 1 .. n PROVE d[f[k]] = h[k]
    <2>1. k \in 1 .. NumSectors
      BY <1>1, Numbers
    <2>2. f[k] = At(k)
      BY <1>7, <2>1
    <2>3. d[At(k)] = h[k]
      BY <1>2
    <2> QED BY <2>2, <2>3
  <1>12. [k \in 1 .. n |-> d[f[k]]] = [k \in 1 .. n |-> h[k]]
    BY <1>11
  <1>13. h = [k \in 1 .. n |-> h[k]]
    <2>1. h \in [1 .. Len(h) -> Headers]
      BY <1>1, LenProperties
    <2> QED BY <2>1 DEF n
  <1> QED BY <1>10, <1>12, <1>13

\* What a file takes on the disk.
LEMMA SectorsHeld ==
    ASSUME NEW map, NEW m, m \ map \in SUBSET Sectors, NEW h, NEW s \in Sectors,
           Held(map, m, h, s, FALSE)
    PROVE  SectorsOf(h, s) = {s} \cup (m \ map)
  <1>1. ASSUME NEW x \in SectorsOf(h, s) PROVE x \in {s} \cup (m \ map)
    <2>1. PICK i \in Nat, j \in Nat : IsPlace(h, FALSE, i, j) /\ SectorAt(h, s, i, j) = x
      BY DEF SectorsOf
    <2>2. SectorAt(h, s, i, j) \in {s} \cup (m \ map)
      BY <2>1 DEF Held
    <2> QED BY <2>1, <2>2
  <1>2. ASSUME NEW x \in {s} \cup (m \ map) PROVE x \in SectorsOf(h, s)
    <2>1. \E i, j \in Nat : IsPlace(h, FALSE, i, j) /\ SectorAt(h, s, i, j) = x
      BY DEF Held
    <2> QED BY <2>1 DEF SectorsOf
  <1> QED BY <1>1, <1>2

\* Allocate's headers make a file at any sector that was marked before, of that
\* sector and of those that Allocate marks.
LEMMA AllocatedFile ==
    ASSUME NEW map, NEW size \in Int, NEW a, a = Allocate(map, size), a.ok,
           NEW s \in Sectors, s \in map
    PROVE  /\ FileHeaders(a.hdrs, s)
           /\ SectorsOf(a.hdrs, s) = {s} \cup (a.map \ map)
           /\ map \subseteq a.map /\ a.map \ map \in SUBSET Sectors
  <1>1. PICK m \in Nat, r \in 0 .. MaxFileSize, chunks \in Seq(0 .. MaxFileSize) :
          /\ Len(chunks) = m + 1 /\ \A j \in 1 .. m : chunks[j] = MaxFileSize
          /\ Reached(map, a, chunks, m + 1, Needed(size))
          /\ Needed(size) = m * (NumDirect + 1) + DivRoundUp(r, SectorSize)
    BY AllocateAll
  <1>2. PICK n \in Nat : n = Needed(size)
    <2>1. DivRoundUp(r, SectorSize) \in 0 .. NumDirect
      BY OneHeaderFull
    <2>2. m * (NumDirect + 1) \in Nat
      BY Numbers
    <2> QED BY <1>1, <2>1, <2>2, Numbers
  <1>3. PICK u, h : u = a.map /\ h = a.hdrs
    OBVIOUS
  <1>4. Marked(map, u, n) /\ LinkedHeaders(h, chunks, m + 1, FALSE) /\ Held(map, u, h, s, FALSE)
    <2>1. m + 1 # 0
      OBVIOUS
    <2> QED BY <1>1, <1>2, <1>3, <2>1 DEF Reached
  <1>5. map \subseteq u /\ u \ map \in SUBSET Sectors
    BY <1>4, MarkedCount
  <1>6. SectorsOf(h, s) = {s} \cup (u \ map)
    BY <1>4, <1>5, SectorsHeld
  <1>7. h \in Seq(Headers) /\ Len(h) = m + 1
    BY <1>4 DEF LinkedHeaders
  <1>8. ASSUME NEW i \in 1 .. Len(h)
        PROVE  /\ i < Len(h) => h[i].numBytes = MaxFileSize
               /\ h[i].next # NoSector <=> i < Len(h)
               /\ Len(h[i].dataSectors) = DivRoundUp(h[i].numBytes, SectorSize)
    <2>1. i \in 1 .. m + 1
      BY <1>7
    <2>2. /\ h[i].numBytes = chunks[i]
          /\ Len(h[i].dataSectors) = DivRoundUp(chunks[i], SectorSize)
          /\ h[i].next # NoSector <=> i < m + 1
      BY <1>4, <2>1 DEF LinkedHeaders
    <2>3. i < m + 1 => chunks[i] = MaxFileSize
      BY <1>1, <2>1
    <2> QED BY <1>7, <2>2, <2>3
  <1>9. \A i, j \in Nat : IsPlace(h, FALSE, i, j) => SectorAt(h, s, i, j) \in Sectors
    BY <1>4, <1>5 DEF Held
  <1>10. \A i, j, k, l \in Nat :
           /\ IsPlace(h, FALSE, i, j) /\ IsPlace(h, FALSE, k, l)
           /\ SectorAt(h, s, i, j) = SectorAt(h, s, k, l)
           => i = k /\ j = l
    BY <1>4 DEF Held
  <1>11. FileHeaders(h, s)
    <2>1. h \in Seq(Headers) /\ Len(h) >= 1
      BY <1>7
    <2> QED BY <1>8, <1>9, <1>10, <2>1 DEF FileHeaders
  <1> QED BY <1>3, <1>5, <1>6, <1>11

\* The places of a file that the properties speak of.
LEMMA PlacesAre ==
    ASSUME NEW h, h \in Seq(Headers)
    PROVE  \A p : p \in Places(h) <=> \E i, j \in Nat : IsPlace(h, FALSE, i, j) /\ p = <<i, j>>
  <1>1. DOMAIN h = 1 .. Len(h) /\ Len(h) \in Nat
    BY LenProperties
  <1>2. ASSUME NEW p \in Places(h)
        PROVE  \E i, j \in Nat : IsPlace(h, FALSE, i, j) /\ p = <<i, j>>
    <2>1. PICK i \in 1 .. Len(h) : p \in {i} \X (0 .. Len(h[i].dataSectors))
      BY <1>1 DEF Places
    <2>2. PICK j \in 0 .. Len(h[i].dataSectors) : p = <<i, j>>
      BY <2>1
    <2>3. i \in Nat /\ j \in Nat /\ IsPlace(h, FALSE, i, j)
      BY <1>1, <2>1, <2>2 DEF IsPlace
    <2> QED BY <2>2, <2>3
  <1>3. ASSUME NEW i \in Nat, NEW j \in Nat, IsPlace(h, FALSE, i, j)
        PROVE  <<i, j>> \in Places(h)
    <2>1. i \in 1 .. Len(h) /\ j \in 0 .. Len(h[i].dataSectors)
      BY <1>3 DEF IsPlace
    <2> QED BY <1>1, <2>1 DEF Places
  <1> QED BY <1>2, <1>3

\* FileSectors and WholeChain of a file on the disk.
LEMMA FileOnDisk ==
    ASSUME NEW d, NEW h, NEW s, FileHeaders(h, s), OnDisk(d, s, h)
    PROVE  /\ FetchFrom(d, s) = h
           /\ ToSet(FileSectors(d, s)) = SectorsOf(h, s)
           /\ IsInjective(FileSectors(d, s))
           /\ WholeChain(d, s)
  <1>1. FetchFrom(d, s) = h
    BY FetchReads
  <1> DEFINE f == [p \in Places(h) |-> SectorAt(h, s, p[1], p[2])]
  <1>2. FileSectors(d, s) = f
    BY <1>1 DEF FileSectors
  <1>3. h \in Seq(Headers) /\ Len(h) \in Nat /\ Len(h) >= 1 /\ DOMAIN h = 1 .. Len(h)
    <2>1. h \in Seq(Headers) /\ Len(h) >= 1
      BY DEF FileHeaders
    <2> QED BY <2>1, LenProperties
  <1>4. \A p : p \in Places(h) <=> \E i, j \in Nat : IsPlace(h, FALSE, i, j) /\ p = <<i, j>>
    BY <1>3, PlacesAre
  <1>5. ASSUME NEW p \in Places(h)
        PROVE  /\ p = <<p[1], p[2]>> /\ p[1] \in Nat /\ p[2] \in Nat
               /\ IsPlace(h, FALSE, p[1], p[2])
    <2>1. PICK i \in Nat, j \in Nat : IsPlace(h, FALSE, i, j) /\ p = <<i, j>>
      BY <1>4
    <2>2. p[1] = i /\ p[2] = j
      BY <2>1
    <2> QED BY <2>1, <2>2
  <1>6. ToSet(f) = SectorsOf(h, s)
    <2>1. ASSUME NEW x \in ToSet(f) PROVE x \in SectorsOf(h, s)
      <3>1. PICK p \in Places(h) : x = SectorAt(h, s, p[1], p[2])
        BY DEF ToSet
      <3>2. PICK i \in Nat, j \in Nat : i = p[1] /\ j = p[2]
        BY <1>5
      <3>3. IsPlace(h, FALSE, i, j) /\ SectorAt(h, s, i, j) = x
        BY <1>5, <3>1, <3>2
      <3>4. x \in Sectors
        BY <3>3 DEF FileHeaders
      <3> QED BY <3>3, <3>4 DEF SectorsOf
    <2>2. ASSUME NEW x \in SectorsOf(h, s) PROVE x \in ToSet(f)
      <3>1. PICK i \in Nat, j \in Nat : IsPlace(h, FALSE, i, j) /\ SectorAt(h, s, i, j) = x
        BY DEF SectorsOf
      <3>2. <<i, j>> \in Places(h)
        BY <1>4, <3>1
      <3>3. f[<<i, j>>] = x
        BY <3>1, <3>2
      <3> QED BY <3>2, <3>3 DEF ToSet
    <2> QED BY <2>1, <2>2
  <1>7. IsInjective(f)
    <2> SUFFICES ASSUME NEW p \in Places(h), NEW q \in Places(h), f[p] = f[q] PROVE p = q
      BY DEF IsInjective
    <2>1. PICK i \in Nat, j \in Nat : i = p[1] /\ j = p[2] /\ IsPlace(h, FALSE, i, j) /\ p = <<i, j>>
      BY <1>5
    <2>2. PICK k \in Nat, l \in Nat : k = q[1] /\ l = q[2] /\ IsPlace(h, FALSE, k, l) /\ q = <<k, l>>
      BY <1>5
    <2>3. SectorAt(h, s, i, j) = SectorAt(h, s, k, l)
      BY <2>1, <2>2
    <2>4. i = k /\ j = l
      BY <2>1, <2>2, <2>3 DEF FileHeaders
    <2> QED BY <2>1, <2>2, <2>4
  <1>8. WholeChain(d, s)
    <2>1. h # << >>
      BY <1>3, EmptySeq
    <2>2. ASSUME NEW i \in 1 .. Len(h) PROVE h[i].numBytes \in 0 .. MaxFileSize
      <3>1. h[i] \in Headers
        BY <1>3, ElementOfSeq
      <3> QED BY <3>1 DEF Headers
    <2>3. \A i \in 1 .. Len(h) :
            /\ i < Len(h) => h[i].numBytes = MaxFileSize
            /\ h[i].next # NoSector <=> i < Len(h)
            /\ Len(h[i].dataSectors) = DivRoundUp(h[i].numBytes, SectorSize)
      BY DEF FileHeaders
    <2> QED BY <1>1, <1>3, <2>1, <2>2, <2>3 DEF WholeChain
  <1> HIDE DEF f
  <1> QED BY <1>1, <1>2, <1>6, <1>7, <1>8

\* The length of a file, from its last header.
LEMMA FileLengthIs ==
    ASSUME NEW h, NEW s, FileHeaders(h, s)
    PROVE  \E m \in Nat, r \in 0 .. MaxFileSize :
             /\ Len(h) = m + 1 /\ h[m + 1].numBytes = r
             /\ FileLength(h) = m * MaxFileSize + r /\ FileLength(h) \in Nat
  <1>1. h \in Seq(Headers) /\ Len(h) >= 1 /\ Len(h) \in Nat
    BY LenProperties DEF FileHeaders
  <1>2. PICK m \in Nat : Len(h) = m + 1
    <2>1. Len(h) - 1 \in Nat /\ Len(h) = (Len(h) - 1) + 1
      BY <1>1
    <2> QED BY <2>1
  <1>3. m + 1 \in 1 .. Len(h) /\ h[m + 1] \in Headers
    <2>1. m + 1 \in 1 .. Len(h)
      BY <1>2
    <2> QED BY <1>1, <2>1, ElementOfSeq
  <1>4. PICK r \in 0 .. MaxFileSize : r = h[m + 1].numBytes
    BY <1>3 DEF Headers
  <1>5. \A j \in 1 .. m : h[j].numBytes = MaxFileSize
    <2> SUFFICES ASSUME NEW j \in 1 .. m PROVE h[j].numBytes = MaxFileSize
      OBVIOUS
    <2>1. j \in 1 .. Len(h) /\ j < Len(h)
      BY <1>2
    <2> QED BY <2>1 DEF FileHeaders
  <1>6. r \in Nat
    BY Numbers
  <1>7. FileLength(h) = m * MaxFileSize + r
    BY <1>2, <1>4, <1>5, <1>6, LengthOf
  <1>8. m * MaxFileSize + r \in Nat
    BY <1>6, Numbers
  <1> QED BY <1>2, <1>4, <1>7, <1>8

\* The arithmetic of ByteToSector: o is in the piece jj of header q.
LEMMA PieceOfByte ==
    ASSUME NEW ss \in Nat \ {0}, NEW nd \in Nat \ {0}, NEW m \in Nat, NEW r \in 0 .. nd * ss,
           NEW o \in Nat, o < m * (nd * ss) + r
    PROVE  LET k  == o \div ss
               q  == k \div nd
               jj == k % nd
           IN  /\ k \in Nat /\ q \in 0 .. m /\ jj \in 0 .. nd - 1 /\ k = q * nd + jj
               /\ q = m => jj < DivRoundUp(r, ss)
  <1> DEFINE k  == o \div ss
             b  == o % ss
             q  == k \div nd
             jj == k % nd
  <1>1. k \in Nat /\ b \in 0 .. ss - 1 /\ o = k * ss + b
    OBVIOUS
  <1> HIDE DEF k, b
  <1>2. q \in Nat /\ jj \in 0 .. nd - 1 /\ k = q * nd + jj
    BY <1>1
  <1> HIDE DEF q, jj
  <1>3. o = q * (nd * ss) + jj * ss + b
    <2>1. k * ss = (q * nd) * ss + jj * ss
      BY <1>1, <1>2
    <2>2. (q * nd) * ss = q * (nd * ss)
      BY <1>2
    <2> QED BY <1>1, <2>1, <2>2
  <1>4. jj * ss \in Nat /\ q * (nd * ss) \in Nat /\ m * (nd * ss) \in Nat
    BY <1>2
  <1>5. q <= m
    <2>1. SUFFICES ASSUME q >= m + 1 PROVE FALSE
      BY <1>2
    <2>2. q * (nd * ss) >= m * (nd * ss) + nd * ss
      <3>1. PICK M \in Nat : M = nd * ss
        OBVIOUS
      <3>2. q * M >= (m + 1) * M
        BY <1>2, <2>1
      <3> QED BY <3>1, <3>2
    <2> QED BY <1>1, <1>3, <1>4, <2>2
  <1>6. ASSUME q = m PROVE jj < DivRoundUp(r, ss)
    <2>1. jj * ss < r
      BY <1>1, <1>3, <1>4, <1>6
    <2> DEFINE D == (r + ss - 1) \div ss
               e == (r + ss - 1) % ss
    <2>2. D \in Int /\ e \in 0 .. ss - 1 /\ r + ss - 1 = D * ss + e
      OBVIOUS
    <2>3. DivRoundUp(r, ss) = D
      BY DEF DivRoundUp
    <2> HIDE DEF D, e
    <2>4. D * ss \in Int /\ jj * ss < D * ss
      BY <1>4, <2>1, <2>2
    <2>5. jj < D
      <3>1. SUFFICES ASSUME jj >= D PROVE FALSE
        BY <1>2, <2>2
      <3>2. jj * ss >= D * ss
        BY <1>2, <2>2, <3>1
      <3> QED BY <2>4, <3>2, <1>4
    <2> QED BY <2>3, <2>5
  <1> QED BY <1>1, <1>2, <1>5, <1>6 DEF k, q, jj

\* Byte o of a file is at the place of the j-th data sector of its i-th header.
ByteIsAt(h, s, o, i, j) ==
    /\ j # 0 /\ IsPlace(h, FALSE, i, j) /\ ByteToSector(h, o) = SectorAt(h, s, i, j)
    /\ o \div SectorSize = (i - 1) * NumDirect + (j - 1)

\* Where ByteToSector finds a byte of a file.
LEMMA ByteToSectorFinds ==
    ASSUME NEW h, NEW s, FileHeaders(h, s), NEW o \in Nat, o < FileLength(h)
    PROVE  \E i, j \in Nat : ByteIsAt(h, s, o, i, j)
  <1>1. PICK m \in Nat, r \in 0 .. MaxFileSize :
             /\ Len(h) = m + 1 /\ h[m + 1].numBytes = r
             /\ FileLength(h) = m * MaxFileSize + r
    BY FileLengthIs
  <1> DEFINE k  == o \div SectorSize
             q  == k \div NumDirect
             jj == k % NumDirect
  <1>2. /\ k \in Nat /\ q \in 0 .. m /\ jj \in 0 .. NumDirect - 1 /\ k = q * NumDirect + jj
        /\ q = m => jj < DivRoundUp(r, SectorSize)
    <2>1. o < m * (NumDirect * SectorSize) + r /\ r \in 0 .. NumDirect * SectorSize
      BY <1>1, Numbers
    <2>2. SectorSize \in Nat \ {0} /\ NumDirect \in Nat \ {0}
      BY Numbers
    <2> HIDE DEF k, q, jj
    <2> QED BY <2>1, <2>2, PieceOfByte DEF k, q, jj
  <1>3. ByteToSector(h, o) = h[q + 1].dataSectors[jj + 1]
    BY DEF ByteToSector
  <1> HIDE DEF k, q, jj
  <1>4. q + 1 \in 1 .. Len(h) /\ q + 1 \in Nat /\ jj + 1 \in Nat /\ jj + 1 # 0
    BY <1>1, <1>2, Numbers
  <1>5. jj + 1 \in 0 .. Len(h[q + 1].dataSectors)
    <2>1. Len(h[q + 1].dataSectors) = DivRoundUp(h[q + 1].numBytes, SectorSize)
      BY <1>4 DEF FileHeaders
    <2>2. CASE q = m
      <3>1. Len(h[q + 1].dataSectors) = DivRoundUp(r, SectorSize)
        BY <1>1, <2>1, <2>2
      <3>2. DivRoundUp(r, SectorSize) \in 0 .. NumDirect
        BY OneHeaderFull
      <3> QED BY <1>2, <2>2, <3>1, <3>2, Numbers
    <2>3. CASE q # m
      <3>1. q + 1 < Len(h)
        BY <1>1, <1>2, <2>3
      <3>2. h[q + 1].numBytes = MaxFileSize
        BY <1>4, <3>1 DEF FileHeaders
      <3>3. Len(h[q + 1].dataSectors) = NumDirect
        BY <2>1, <3>2, OneHeaderFull
      <3> QED BY <1>2, <3>3, Numbers
    <2> QED BY <2>2, <2>3
  <1>6. IsPlace(h, FALSE, q + 1, jj + 1)
    BY <1>4, <1>5 DEF IsPlace
  <1>7. ByteToSector(h, o) = SectorAt(h, s, q + 1, jj + 1)
    BY <1>3, <1>4 DEF SectorAt
  <1>8. k = ((q + 1) - 1) * NumDirect + ((jj + 1) - 1)
    <2>1. (q + 1) - 1 = q /\ (jj + 1) - 1 = jj
      BY <1>2, Numbers
    <2> QED BY <1>2, <2>1
  <1>9. ByteIsAt(h, s, o, q + 1, jj + 1)
    BY <1>4, <1>6, <1>7, <1>8 DEF ByteIsAt, k
  <1> QED BY <1>4, <1>9

\* The sectors of a file's headers.
HeadersOf(h, s) == {SectorAt(h, s, i, 0) : i \in 1 .. Len(h)}

\* A file has its headers and its data, apart.
LEMMA FileParts ==
    ASSUME NEW h, NEW s, FileHeaders(h, s)
    PROVE  /\ SectorsOf(h, s) = DataSectors(h) \cup HeadersOf(h, s)
           /\ DataSectors(h) \cap HeadersOf(h, s) = {}
           /\ s \in HeadersOf(h, s)
           /\ SectorsOf(h, s) \subseteq Sectors
           /\ \A i, j \in Nat : j # 0 /\ IsPlace(h, FALSE, i, j)
                                => SectorAt(h, s, i, j) \in DataSectors(h)
  <1>1. h \in Seq(Headers) /\ Len(h) >= 1 /\ Len(h) \in Nat /\ DOMAIN h = 1 .. Len(h)
    BY LenProperties DEF FileHeaders
  <1>2. ASSUME NEW i \in 1 .. Len(h)
        PROVE  /\ h[i].dataSectors \in Seq(Sectors) /\ Len(h[i].dataSectors) \in Nat
               /\ DOMAIN h[i].dataSectors = 1 .. Len(h[i].dataSectors)
    <2>1. h[i] \in Headers
      BY <1>1, ElementOfSeq
    <2>2. h[i].dataSectors \in Seq(Sectors)
      BY <2>1 DEF Headers
    <2> QED BY <2>2, LenProperties
  <1>3. ASSUME NEW i \in Nat, NEW j \in Nat, IsPlace(h, FALSE, i, j), j # 0
        PROVE  SectorAt(h, s, i, j) \in DataSectors(h)
    <2>1. i \in 1 .. Len(h) /\ j \in 1 .. Len(h[i].dataSectors)
      BY <1>2, <1>3 DEF IsPlace
    <2>2. SectorAt(h, s, i, j) = h[i].dataSectors[j]
      BY <1>3 DEF SectorAt
    <2>3. h[i].dataSectors[j] \in ToSet(h[i].dataSectors)
      BY <1>2, <2>1 DEF ToSet
    <2> QED BY <1>1, <2>1, <2>2, <2>3 DEF DataSectors
  <1>4. ASSUME NEW x \in DataSectors(h)
        PROVE  \E i, j \in Nat : j # 0 /\ IsPlace(h, FALSE, i, j) /\ SectorAt(h, s, i, j) = x
    <2>1. PICK i \in 1 .. Len(h) : x \in ToSet(h[i].dataSectors)
      BY <1>1 DEF DataSectors
    <2>2. PICK j \in 1 .. Len(h[i].dataSectors) : x = h[i].dataSectors[j]
      BY <1>2, <2>1 DEF ToSet
    <2>3. i \in Nat /\ j \in Nat /\ j # 0 /\ IsPlace(h, FALSE, i, j)
      BY <1>1, <1>2, <2>1, <2>2 DEF IsPlace
    <2>4. SectorAt(h, s, i, j) = x
      BY <2>2, <2>3 DEF SectorAt
    <2> QED BY <2>3, <2>4
  <1>5. ASSUME NEW i \in 1 .. Len(h) PROVE i \in Nat /\ 0 \in Nat /\ IsPlace(h, FALSE, i, 0)
    BY <1>1, <1>2 DEF IsPlace
  <1>6. \A i, j \in Nat : IsPlace(h, FALSE, i, j) => SectorAt(h, s, i, j) \in Sectors
    BY DEF FileHeaders
  <1>7. ASSUME NEW x \in SectorsOf(h, s) PROVE x \in DataSectors(h) \cup HeadersOf(h, s)
    <2>1. PICK i \in Nat, j \in Nat : IsPlace(h, FALSE, i, j) /\ SectorAt(h, s, i, j) = x
      BY DEF SectorsOf
    <2>2. CASE j # 0
      BY <1>3, <2>1, <2>2
    <2>3. CASE j = 0
      <3>1. i \in 1 .. Len(h)
        BY <2>1 DEF IsPlace
      <3> QED BY <2>1, <2>3, <3>1 DEF HeadersOf
    <2> QED BY <2>2, <2>3
  <1>8. ASSUME NEW x \in DataSectors(h) PROVE x \in SectorsOf(h, s)
    <2>1. PICK i \in Nat, j \in Nat : j # 0 /\ IsPlace(h, FALSE, i, j) /\ SectorAt(h, s, i, j) = x
      BY <1>4
    <2> QED BY <1>6, <2>1 DEF SectorsOf
  <1>9. ASSUME NEW x \in HeadersOf(h, s) PROVE x \in SectorsOf(h, s)
    <2>1. PICK i \in 1 .. Len(h) : x = SectorAt(h, s, i, 0)
      BY DEF HeadersOf
    <2> QED BY <1>5, <1>6, <2>1 DEF SectorsOf
  <1>10. ASSUME NEW x \in DataSectors(h), x \in HeadersOf(h, s) PROVE FALSE
    <2>1. PICK i \in Nat, j \in Nat : j # 0 /\ IsPlace(h, FALSE, i, j) /\ SectorAt(h, s, i, j) = x
      BY <1>4
    <2>2. PICK k \in 1 .. Len(h) : x = SectorAt(h, s, k, 0)
      BY <1>10 DEF HeadersOf
    <2>3. k \in Nat /\ 0 \in Nat /\ IsPlace(h, FALSE, k, 0)
      BY <1>5
    <2>4. SectorAt(h, s, i, j) = SectorAt(h, s, k, 0)
      BY <2>1, <2>2
    <2>5. j = 0
      BY <2>1, <2>3, <2>4 DEF FileHeaders
    <2> QED BY <2>1, <2>5
  <1>11. s \in HeadersOf(h, s)
    <2>1. 1 \in 1 .. Len(h) /\ SectorAt(h, s, 1, 0) = s
      BY <1>1 DEF SectorAt
    <2> QED BY <2>1 DEF HeadersOf
  <1>12. SectorsOf(h, s) \subseteq Sectors
    BY DEF SectorsOf
  <1> QED BY <1>3, <1>7, <1>8, <1>9, <1>10, <1>11, <1>12

\* ByteToSector takes a data sector, and the same one for the bytes of one piece only.
LEMMA ByteToSectorApart ==
    ASSUME NEW h, NEW s, FileHeaders(h, s), NEW o \in Nat, o < FileLength(h)
    PROVE  /\ ByteToSector(h, o) \in DataSectors(h)
           /\ \A p \in Nat : p < FileLength(h) /\ ByteToSector(h, p) = ByteToSector(h, o)
                             => p \div SectorSize = o \div SectorSize
  <1>1. PICK i \in Nat, j \in Nat : ByteIsAt(h, s, o, i, j)
    BY ByteToSectorFinds
  <1>2. /\ j # 0 /\ IsPlace(h, FALSE, i, j) /\ ByteToSector(h, o) = SectorAt(h, s, i, j)
        /\ o \div SectorSize = (i - 1) * NumDirect + (j - 1)
    BY <1>1 DEF ByteIsAt
  <1>3. ByteToSector(h, o) \in DataSectors(h)
    <2>1. SectorAt(h, s, i, j) \in DataSectors(h)
      BY <1>2, FileParts
    <2> QED BY <1>2, <2>1
  <1>4. ASSUME NEW p \in Nat, p < FileLength(h), ByteToSector(h, p) = ByteToSector(h, o)
        PROVE  p \div SectorSize = o \div SectorSize
    <2>0. PICK k \in Nat, l \in Nat : ByteIsAt(h, s, p, k, l)
      BY <1>4, ByteToSectorFinds
    <2>1. /\ l # 0 /\ IsPlace(h, FALSE, k, l) /\ ByteToSector(h, p) = SectorAt(h, s, k, l)
          /\ p \div SectorSize = (k - 1) * NumDirect + (l - 1)
      BY <2>0 DEF ByteIsAt
    <2>2. SectorAt(h, s, k, l) = SectorAt(h, s, i, j)
      BY <1>2, <1>4, <2>1
    <2>3. k = i /\ l = j
      BY <1>2, <2>1, <2>2 DEF FileHeaders
    <2> QED BY <1>2, <2>1, <2>3
  <1> QED BY <1>3, <1>4

---------------------------------------------------------------------------
(* The free map and the directory on the disk.                             *)

\* What Allocate marks is on the disk.
LEMMA AllocateMarks ==
    ASSUME NEW map, NEW size \in Nat, NEW a, a = Allocate(map, size), a.ok
    PROVE  /\ map \subseteq a.map /\ a.map \ map \in SUBSET Sectors
           /\ size # 0 => a.map \ map # {}
           /\ FileLength(a.hdrs) = size
  <1>1. PICK m \in Nat, r \in 0 .. MaxFileSize, chunks \in Seq(0 .. MaxFileSize) :
          /\ (IF size < 0 THEN MaxFileSize ELSE size) = m * MaxFileSize + r
          /\ Reached(map, a, chunks, m + 1, Needed(size))
          /\ Needed(size) = m * (NumDirect + 1) + DivRoundUp(r, SectorSize)
    BY AllocateAll
  <1>2. PICK n \in Nat : n = Needed(size) /\ (n = 0 => size = 0)
    <2>1. DivRoundUp(r, SectorSize) \in 0 .. NumDirect /\ (DivRoundUp(r, SectorSize) = 0 => r = 0)
      BY OneHeaderFull
    <2>2. m * (NumDirect + 1) \in Nat /\ (m * (NumDirect + 1) = 0 => m = 0)
      BY Numbers
    <2>3. m = 0 /\ r = 0 => size = 0
      BY <1>1, Numbers
    <2>4. Needed(size) \in Nat /\ (Needed(size) = 0 => size = 0)
      BY <1>1, <2>1, <2>2, <2>3, Numbers
    <2> QED BY <2>4
  <1>3. PICK u : u = a.map
    OBVIOUS
  <1>4. Marked(map, u, n)
    BY <1>1, <1>2, <1>3 DEF Reached
  <1>5. map \subseteq u /\ u \ map \in SUBSET Sectors /\ Cardinality(u \ map) = n
    BY <1>4, MarkedCount
  <1>6. size # 0 => u \ map # {}
    BY <1>2, <1>5, FS_EmptySet
  <1>7. FileLength(a.hdrs) = size
    <2>1. size \in Int /\ ~(size < 0)
      OBVIOUS
    <2> QED BY <2>1, AllocateTakes
  <1> QED BY <1>3, <1>5, <1>6, <1>7

\* The sectors of the free map: one for each part.
LEMMA MapPartsNat ==
    /\ MapParts \in Nat
    /\ \A s \in Sectors : (s \div BitsPerSector) \in Nat /\ (s \div BitsPerSector) + 1 \in 1 .. MapParts
  <1> DEFINE B == BitsPerSector
  <1>1. B \in Nat \ {0} /\ NumSectors \in Nat
    BY FileSysAssumption
  <1> DEFINE P == (NumSectors + B - 1) \div B
             R == (NumSectors + B - 1) % B
  <1>2. P \in Int /\ R \in 0 .. B - 1 /\ NumSectors + B - 1 = P * B + R
    BY <1>1
  <1>3. MapParts = P
    BY DEF MapParts, DivRoundUp
  <1> HIDE DEF P, R
  <1>4. P >= 0
    <2>1. SUFFICES ASSUME P <= -1 PROVE FALSE
      BY <1>2
    <2>2. P * B <= -B /\ P * B \in Int
      BY <1>1, <1>2, <2>1
    <2> QED BY <1>1, <1>2, <2>2
  <1>5. ASSUME NEW s \in Sectors PROVE (s \div B) \in Nat /\ (s \div B) + 1 \in 1 .. P
    <2> DEFINE q == s \div B
               e == s % B
    <2>1. s \in Nat /\ s < NumSectors
      BY <1>1 DEF Sectors
    <2>2. q \in Nat /\ e \in 0 .. B - 1 /\ s = q * B + e
      BY <1>1, <2>1
    <2> HIDE DEF q, e
    <2>3. q < P
      <3>1. SUFFICES ASSUME q >= P PROVE FALSE
        BY <1>2, <2>2
      <3>2. q * B >= P * B /\ q * B \in Int /\ P * B \in Int
        BY <1>1, <1>2, <2>2, <3>1
      <3> QED BY <1>1, <1>2, <2>1, <2>2, <3>2
    <2> QED BY <1>2, <2>2, <2>3 DEF q
  <1> QED BY <1>2, <1>3, <1>4, <1>5

\* What formatting sets aside: the two system files, apart from each other.
LEMMA SystemFiles ==
    /\ FreeMapSector \in Sectors /\ DirectorySector \in Sectors
    /\ FileHeaders(MapAlloc.hdrs, FreeMapSector) /\ FileHeaders(DirAlloc.hdrs, DirectorySector)
    /\ SectorsOf(MapAlloc.hdrs, FreeMapSector)
         \cap SectorsOf(DirAlloc.hdrs, DirectorySector) = {}
    /\ SectorsOf(MapAlloc.hdrs, FreeMapSector)
         \cup SectorsOf(DirAlloc.hdrs, DirectorySector) = DirAlloc.map
    /\ DirAlloc.map \subseteq Sectors
    /\ FileLength(MapAlloc.hdrs) = MapParts * SectorSize
    /\ FileLength(DirAlloc.hdrs) = 2 * SectorSize
  <1>1. PICK a, b : a = MapAlloc /\ b = DirAlloc
    OBVIOUS
  <1>2. /\ a = Allocate({FreeMapSector, DirectorySector}, MapParts * SectorSize) /\ a.ok
        /\ b = Allocate(a.map, 2 * SectorSize) /\ b.ok
    BY <1>1, FormatAssumption DEF MapAlloc, DirAlloc
  <1>3. PICK x, y : x = a.map /\ y = b.map
    OBVIOUS
  <1>4. /\ MapParts * SectorSize \in Nat /\ MapParts * SectorSize \in Int
        /\ 2 * SectorSize \in Nat /\ 2 * SectorSize \in Int /\ 2 * SectorSize # 0
    BY Numbers, MapPartsNat
  <1>5. /\ {FreeMapSector, DirectorySector} \subseteq x
        /\ x \ {FreeMapSector, DirectorySector} \in SUBSET Sectors
        /\ FileLength(a.hdrs) = MapParts * SectorSize
    BY <1>2, <1>3, <1>4, AllocateMarks
  <1>6. /\ x \subseteq y /\ y \ x \in SUBSET Sectors /\ y \ x # {}
        /\ FileLength(b.hdrs) = 2 * SectorSize
    <2>1. PICK z \in Nat : z = 2 * SectorSize /\ z # 0
      BY <1>4
    <2>2. b = Allocate(x, z) /\ b.ok
      BY <1>2, <1>3, <2>1
    <2>3. /\ x \subseteq b.map /\ b.map \ x \in SUBSET Sectors /\ b.map \ x # {}
          /\ FileLength(b.hdrs) = z
      BY <2>1, <2>2, AllocateMarks
    <2> QED BY <1>3, <2>1, <2>3
  <1>7. FreeMapSector \in Sectors /\ DirectorySector \in Sectors
    <2>1. PICK z \in Sectors : z # FreeMapSector /\ z # DirectorySector
      BY <1>5, <1>6
    <2> QED BY <2>1, Numbers DEF Sectors, FreeMapSector, DirectorySector
  <1>8. /\ FileHeaders(a.hdrs, FreeMapSector)
        /\ SectorsOf(a.hdrs, FreeMapSector)
             = {FreeMapSector} \cup (x \ {FreeMapSector, DirectorySector})
    <2>1. PICK w : w = {FreeMapSector, DirectorySector}
      OBVIOUS
    <2>2. a = Allocate(w, MapParts * SectorSize) /\ FreeMapSector \in w
      BY <1>2, <2>1
    <2>3. /\ FileHeaders(a.hdrs, FreeMapSector)
          /\ SectorsOf(a.hdrs, FreeMapSector) = {FreeMapSector} \cup (a.map \ w)
      BY <1>2, <1>4, <1>7, <2>2, AllocatedFile
    <2> QED BY <1>3, <2>1, <2>3
  <1>9. /\ FileHeaders(b.hdrs, DirectorySector)
        /\ SectorsOf(b.hdrs, DirectorySector) = {DirectorySector} \cup (y \ x)
    <2>1. b = Allocate(x, 2 * SectorSize) /\ DirectorySector \in x
      BY <1>2, <1>3, <1>5
    <2> QED BY <1>2, <1>3, <1>4, <1>7, <2>1, AllocatedFile
  <1>10. FreeMapSector # DirectorySector
    BY DEF FreeMapSector, DirectorySector
  <1>11. SectorsOf(a.hdrs, FreeMapSector) \cap SectorsOf(b.hdrs, DirectorySector) = {}
    BY <1>5, <1>8, <1>9, <1>10
  <1>12. SectorsOf(a.hdrs, FreeMapSector) \cup SectorsOf(b.hdrs, DirectorySector) = y
    BY <1>5, <1>6, <1>8, <1>9
  <1>13. y \subseteq Sectors
    BY <1>5, <1>6, <1>7
  <1> QED BY <1>1, <1>3, <1>5, <1>6, <1>7, <1>8, <1>9, <1>11, <1>12, <1>13

\* Pieces of a file of n sectors.
LEMMA PiecesApart ==
    ASSUME NEW h, NEW s, FileHeaders(h, s), NEW n \in Nat, FileLength(h) = n * SectorSize
    PROVE  /\ \A i \in 1 .. n : ByteToSector(h, (i - 1) * SectorSize) \in DataSectors(h)
           /\ \A i, j \in 1 .. n :
                ByteToSector(h, (i - 1) * SectorSize) = ByteToSector(h, (j - 1) * SectorSize) => i = j
  <1> DEFINE At(i) == (i - 1) * SectorSize
  <1>1. ASSUME NEW i \in 1 .. n
        PROVE  At(i) \in Nat /\ At(i) < FileLength(h) /\ At(i) \div SectorSize = i - 1
    <2>1. At(i) \in Nat /\ n * SectorSize = At(i) + (n + 1 - i) * SectorSize
      BY Numbers
    <2>2. (n + 1 - i) * SectorSize > 0
      <3>1. n + 1 - i \in Nat \ {0}
        OBVIOUS
      <3> QED BY <3>1, Numbers
    <2>3. At(i) \div SectorSize = i - 1
      <3>1. At(i) = (i - 1) * SectorSize + 0 /\ At(i) \in Int /\ i - 1 \in Int
            /\ 0 \in 0 .. SectorSize - 1 /\ SectorSize \in Nat \ {0}
        BY <2>1, Numbers
      <3> HIDE DEF At
      <3> QED BY <3>1, DivUnique
    <2> HIDE DEF At
    <2>4. (n + 1 - i) * SectorSize \in Int
      BY Numbers
    <2> QED BY <2>1, <2>2, <2>3, <2>4
  <1>2. ASSUME NEW i \in 1 .. n PROVE ByteToSector(h, At(i)) \in DataSectors(h)
    <2> HIDE DEF At
    <2> QED BY <1>1, ByteToSectorApart
  <1>3. ASSUME NEW i \in 1 .. n, NEW j \in 1 .. n, ByteToSector(h, At(i)) = ByteToSector(h, At(j))
        PROVE  i = j
    <2> HIDE DEF At
    <2>1. At(i) \div SectorSize = At(j) \div SectorSize
      BY <1>1, <1>3, ByteToSectorApart
    <2>2. i - 1 = j - 1
      BY <1>1, <2>1
    <2> QED BY <2>2
  <1> QED BY <1>2, <1>3

\* Where the free map and the directory are.
LEMMA SystemSectors ==
    /\ \A i \in 1 .. MapParts : MapSector(i) \in DataSectors(MapAlloc.hdrs)
    /\ \A i, j \in 1 .. MapParts : MapSector(i) = MapSector(j) => i = j
    /\ \A p \in 1 .. 2 : DirSector(p) \in DataSectors(DirAlloc.hdrs)
    /\ \A p, q \in 1 .. 2 : DirSector(p) = DirSector(q) => p = q
    /\ \A i \in 1 .. MapParts, p \in 1 .. 2 : MapSector(i) # DirSector(p)
    /\ \A i \in 1 .. MapParts : MapSector(i) \in Sectors
    /\ \A p \in 1 .. 2 : DirSector(p) \in Sectors
  <1>1. PICK a, b : a = MapAlloc.hdrs /\ b = DirAlloc.hdrs
    OBVIOUS
  <1>2. FileHeaders(a, FreeMapSector) /\ FileHeaders(b, DirectorySector)
    BY <1>1, SystemFiles
  <1>3. FileLength(a) = MapParts * SectorSize /\ FileLength(b) = 2 * SectorSize
    BY <1>1, SystemFiles
  <1>4. /\ \A i : MapSector(i) = ByteToSector(a, (i - 1) * SectorSize)
        /\ \A p : DirSector(p) = ByteToSector(b, (p - 1) * SectorSize)
    BY <1>1 DEF MapSector, DirSector
  <1>5. /\ \A i \in 1 .. MapParts : ByteToSector(a, (i - 1) * SectorSize) \in DataSectors(a)
        /\ \A i, j \in 1 .. MapParts :
             ByteToSector(a, (i - 1) * SectorSize) = ByteToSector(a, (j - 1) * SectorSize) => i = j
    BY <1>2, <1>3, MapPartsNat, PiecesApart
  <1>6. /\ \A i \in 1 .. 2 : ByteToSector(b, (i - 1) * SectorSize) \in DataSectors(b)
        /\ \A i, j \in 1 .. 2 :
             ByteToSector(b, (i - 1) * SectorSize) = ByteToSector(b, (j - 1) * SectorSize) => i = j
    <2>1. 2 \in Nat
      OBVIOUS
    <2> QED BY <1>2, <1>3, <2>1, PiecesApart
  <1>7. /\ DataSectors(a) \subseteq SectorsOf(a, FreeMapSector)
        /\ DataSectors(b) \subseteq SectorsOf(b, DirectorySector)
        /\ SectorsOf(a, FreeMapSector) \subseteq Sectors
        /\ SectorsOf(b, DirectorySector) \subseteq Sectors
    BY <1>2, FileParts
  <1>8. SectorsOf(a, FreeMapSector) \cap SectorsOf(b, DirectorySector) = {}
    BY <1>1, SystemFiles
  <1>9. /\ \A i \in 1 .. MapParts : MapSector(i) \in DataSectors(a)
        /\ \A i, j \in 1 .. MapParts : MapSector(i) = MapSector(j) => i = j
    BY <1>4, <1>5
  <1>10. /\ \A p \in 1 .. 2 : DirSector(p) \in DataSectors(b)
         /\ \A p, q \in 1 .. 2 : DirSector(p) = DirSector(q) => p = q
    BY <1>4, <1>6
  <1>11. \A i \in 1 .. MapParts, p \in 1 .. 2 : MapSector(i) # DirSector(p)
    BY <1>7, <1>8, <1>9, <1>10
  <1> QED BY <1>1, <1>7, <1>9, <1>10, <1>11

Dirs == [use : [Entries -> Sectors \cup {NoSector}], name : [Entries -> Names \cup {NoName}]]

IsMapPart(c, i) == \E M \in SUBSET Sectors : c = MapPart(M, i)
IsDirPart(c, p) == \E dir \in Dirs : c = DirPart(dir, p)

\* The sectors of the free map and of the directory hold parts of a free map
\* and a directory.
SystemParts(d) ==
    /\ \A i \in 1 .. MapParts : IsMapPart(d[MapSector(i)], i)
    /\ \A p \in 1 .. 2 : IsDirPart(d[DirSector(p)], p)

\* A free map written is read back.
LEMMA FetchMapReads ==
    ASSUME NEW d, NEW M \in SUBSET Sectors,
           \A i \in 1 .. MapParts : d[MapSector(i)] = MapPart(M, i)
    PROVE  FetchMap(d) = M
  <1>1. ASSUME NEW i \in 1 .. MapParts
        PROVE  d[MapSector(i)].marked = {s \in M : s \div BitsPerSector = i - 1}
    <2>1. d[MapSector(i)] = MapPart(M, i)
      OBVIOUS
    <2>2. MapPart(M, i).marked = {s \in M : s \div BitsPerSector = i - 1}
      BY DEF MapPart
    <2> QED BY <2>1, <2>2
  <1>2. ASSUME NEW s \in FetchMap(d) PROVE s \in M
    <2>1. PICK i \in 1 .. MapParts : s \in d[MapSector(i)].marked
      BY DEF FetchMap
    <2>2. s \in {x \in M : x \div BitsPerSector = i - 1}
      BY <1>1, <2>1
    <2> QED BY <2>2
  <1>3. ASSUME NEW s \in M PROVE s \in FetchMap(d)
    <2>1. PICK i \in 1 .. MapParts : i = (s \div BitsPerSector) + 1
      BY MapPartsNat
    <2>2. (s \div BitsPerSector) \in Nat
      BY MapPartsNat
    <2>3. s \div BitsPerSector = i - 1
      BY <2>1, <2>2
    <2> QED BY <1>1, <2>3 DEF FetchMap
  <1> QED BY <1>2, <1>3

\* Parts of free maps make a free map, whatever maps they are of.
LEMMA FetchedMap ==
    ASSUME NEW d, SystemParts(d)
    PROVE  /\ FetchMap(d) \in SUBSET Sectors
           /\ \A i \in 1 .. MapParts : d[MapSector(i)].marked = {s \in FetchMap(d) : s \div BitsPerSector = i - 1}
  <1>1. ASSUME NEW i \in 1 .. MapParts
        PROVE  \E M \in SUBSET Sectors :
                 d[MapSector(i)].marked = {s \in M : s \div BitsPerSector = i - 1}
    <2>1. PICK M \in SUBSET Sectors : d[MapSector(i)] = MapPart(M, i)
      BY DEF SystemParts, IsMapPart
    <2>2. d[MapSector(i)].marked = {s \in M : s \div BitsPerSector = i - 1}
      BY <2>1 DEF MapPart
    <2> QED BY <2>2
  <1>2. FetchMap(d) \in SUBSET Sectors
    <2>1. ASSUME NEW s \in FetchMap(d) PROVE s \in Sectors
      <3>1. PICK i \in 1 .. MapParts : s \in d[MapSector(i)].marked
        BY DEF FetchMap
      <3> QED BY <1>1, <3>1
    <2> QED BY <2>1
  <1>3. ASSUME NEW i \in 1 .. MapParts
        PROVE  d[MapSector(i)].marked = {s \in FetchMap(d) : s \div BitsPerSector = i - 1}
    <2>1. ASSUME NEW s \in d[MapSector(i)].marked
          PROVE  s \in FetchMap(d) /\ s \div BitsPerSector = i - 1
      BY <1>1 DEF FetchMap
    <2>2. ASSUME NEW s \in FetchMap(d), s \div BitsPerSector = i - 1
          PROVE  s \in d[MapSector(i)].marked
      <3>1. PICK j \in 1 .. MapParts : s \in d[MapSector(j)].marked
        BY DEF FetchMap
      <3>2. s \div BitsPerSector = j - 1
        BY <1>1, <3>1
      <3>3. j - 1 = i - 1
        BY <2>2, <3>2
      <3>4. j = i
        BY <3>3
      <3> QED BY <3>1, <3>4
    <2> QED BY <2>1, <2>2
  <1> QED BY <1>2, <1>3

\* The parts of two entries' fields.
LEMMA DirPartAt ==
    ASSUME NEW dir \in Dirs, NEW i \in Entries
    PROVE  /\ HeadPart(i) \in 1 .. 2 /\ NamePart(i) \in 1 .. 2
           /\ DirPart(dir, HeadPart(i)).use[i] = dir.use[i]
           /\ DirPart(dir, NamePart(i)).name[i] = dir.name[i]
  <1>1. HeadPart(i) \in 1 .. 2 /\ NamePart(i) \in 1 .. 2
    BY DEF HeadPart, NamePart
  <1>2. i \in {j \in Entries : HeadPart(j) = HeadPart(i)}
    OBVIOUS
  <1>3. i \in {j \in Entries : NamePart(j) = NamePart(i)}
    OBVIOUS
  <1> QED BY <1>1, <1>2, <1>3 DEF DirPart

\* A directory written is read back.
LEMMA FetchDirReads ==
    ASSUME NEW d, NEW dir \in Dirs, \A p \in 1 .. 2 : d[DirSector(p)] = DirPart(dir, p)
    PROVE  FetchDir(d) = dir
  <1>1. \A i \in Entries : /\ d[DirSector(HeadPart(i))].use[i] = dir.use[i]
                           /\ d[DirSector(NamePart(i))].name[i] = dir.name[i]
    BY DirPartAt
  <1>2. PICK u \in [Entries -> Sectors \cup {NoSector}], n \in [Entries -> Names \cup {NoName}] :
          dir = [use |-> u, name |-> n]
    BY DEF Dirs
  <1>3. [i \in Entries |-> d[DirSector(HeadPart(i))].use[i]] = u
    BY <1>1, <1>2
  <1>4. [i \in Entries |-> d[DirSector(NamePart(i))].name[i]] = n
    BY <1>1, <1>2
  <1> QED BY <1>2, <1>3, <1>4 DEF FetchDir

\* Parts of directories make a directory.
LEMMA FetchedDir ==
    ASSUME NEW d, SystemParts(d)
    PROVE  FetchDir(d) \in Dirs
  <1>1. ASSUME NEW i \in Entries
        PROVE  d[DirSector(HeadPart(i))].use[i] \in Sectors \cup {NoSector}
    <2>1. HeadPart(i) \in 1 .. 2
      BY DEF HeadPart
    <2>2. PICK dir \in Dirs : d[DirSector(HeadPart(i))] = DirPart(dir, HeadPart(i))
      BY <2>1 DEF SystemParts, IsDirPart
    <2>3. DirPart(dir, HeadPart(i)).use[i] = dir.use[i]
      BY DirPartAt
    <2>4. dir.use[i] \in Sectors \cup {NoSector}
      BY DEF Dirs
    <2> QED BY <2>2, <2>3, <2>4
  <1>2. ASSUME NEW i \in Entries
        PROVE  d[DirSector(NamePart(i))].name[i] \in Names \cup {NoName}
    <2>1. NamePart(i) \in 1 .. 2
      BY DEF NamePart
    <2>2. PICK dir \in Dirs : d[DirSector(NamePart(i))] = DirPart(dir, NamePart(i))
      BY <2>1 DEF SystemParts, IsDirPart
    <2>3. DirPart(dir, NamePart(i)).name[i] = dir.name[i]
      BY DirPartAt
    <2>4. dir.name[i] \in Names \cup {NoName}
      BY DEF Dirs
    <2> QED BY <2>2, <2>3, <2>4
  <1> QED BY <1>1, <1>2 DEF FetchDir, Dirs

---------------------------------------------------------------------------
(* A disk with whole files.                                                *)

\* There is a file at s, and these are its sectors.
HasFile(d, s) == FileHeaders(FetchFrom(d, s), s) /\ OnDisk(d, s, FetchFrom(d, s))
FileOf(d, s)  == SectorsOf(FetchFrom(d, s), s)

\* There is one at each of R, and no sector is in two of them.
HasFiles(d, R) ==
    /\ \A s \in R : HasFile(d, s)
    /\ \A s, t \in R : s # t => FileOf(d, s) \cap FileOf(d, t) = {}

\* The sectors that the entries name.
Use(d) == FetchDir(d).use
RootsOf(u) == {FreeMapSector, DirectorySector} \cup {u[i] : i \in {j \in Entries : u[j] # NoSector}}
OwnedBy(d, R) == UNION {FileOf(d, s) : s \in R}

\* The system files are where formatting puts them, every entry of the
\* directory leads to a file, and no two entries to the same one.
Good(d) ==
    /\ SystemParts(d)
    /\ FetchFrom(d, FreeMapSector) = MapAlloc.hdrs
    /\ FetchFrom(d, DirectorySector) = DirAlloc.hdrs
    /\ HasFiles(d, RootsOf(Use(d)))
    /\ \A i, j \in Entries : Use(d)[i] # NoSector /\ Use(d)[i] = Use(d)[j] => i = j
    /\ \A i \in Entries : Use(d)[i] \notin {FreeMapSector, DirectorySector}

\* The free map and the files agree.
Agreed(d) ==
    /\ OwnedBy(d, RootsOf(Use(d))) \subseteq FetchMap(d)
    /\ \A x \in FetchMap(d) \ OwnedBy(d, RootsOf(Use(d))) : d[x].kind = "header"

\* The roots that the properties speak of are those of the use of the entries.
LEMMA RootsAre == \A d : Roots(d) = RootsOf(Use(d))
  BY DEF Roots, RootsOf, Use, InUse

\* A file is still there as long as its headers are.
LEMMA FileKept ==
    ASSUME NEW d, NEW e, NEW s, HasFile(d, s),
           \A x \in HeadersOf(FetchFrom(d, s), s) : e[x] = d[x]
    PROVE  HasFile(e, s) /\ FetchFrom(e, s) = FetchFrom(d, s) /\ FileOf(e, s) = FileOf(d, s)
  <1>1. PICK h : h = FetchFrom(d, s)
    OBVIOUS
  <1>2. FileHeaders(h, s) /\ OnDisk(d, s, h)
    BY <1>1 DEF HasFile
  <1>3. OnDisk(e, s, h)
    <2> SUFFICES ASSUME NEW i \in 1 .. Len(h) PROVE e[SectorAt(h, s, i, 0)] = h[i]
      BY DEF OnDisk
    <2>1. SectorAt(h, s, i, 0) \in HeadersOf(h, s)
      BY DEF HeadersOf
    <2>2. e[SectorAt(h, s, i, 0)] = d[SectorAt(h, s, i, 0)]
      BY <1>1, <2>1
    <2> QED BY <1>2, <2>2 DEF OnDisk
  <1>4. FetchFrom(e, s) = h
    BY <1>2, <1>3, FetchReads
  <1> QED BY <1>1, <1>2, <1>3, <1>4 DEF HasFile, FileOf

\* The header sectors of a file hold headers, and are among its sectors.
LEMMA HeadersThere ==
    ASSUME NEW d, NEW s, HasFile(d, s), NEW x \in HeadersOf(FetchFrom(d, s), s)
    PROVE  d[x] \in Headers /\ d[x].kind = "header" /\ x \in FileOf(d, s) /\ x \in Sectors
  <1>1. PICK h : h = FetchFrom(d, s)
    OBVIOUS
  <1>2. FileHeaders(h, s) /\ OnDisk(d, s, h) /\ x \in HeadersOf(h, s)
    BY <1>1 DEF HasFile
  <1>3. PICK i \in 1 .. Len(h) : x = SectorAt(h, s, i, 0)
    BY <1>2 DEF HeadersOf
  <1>4. d[x] = h[i]
    BY <1>2, <1>3 DEF OnDisk
  <1>5. h[i] \in Headers
    <2>1. h \in Seq(Headers)
      BY <1>2 DEF FileHeaders
    <2> QED BY <2>1, ElementOfSeq
  <1>6. h[i].kind = "header"
    BY <1>5 DEF Headers
  <1>7. x \in SectorsOf(h, s) /\ SectorsOf(h, s) \subseteq Sectors
    BY <1>2, FileParts
  <1> QED BY <1>1, <1>4, <1>5, <1>6, <1>7 DEF FileOf

\* The same for some files.
LEMMA FilesKept ==
    ASSUME NEW d, NEW e, NEW R, HasFiles(d, R),
           \A s \in R : \A x \in HeadersOf(FetchFrom(d, s), s) : e[x] = d[x]
    PROVE  /\ HasFiles(e, R)
           /\ \A s \in R : FetchFrom(e, s) = FetchFrom(d, s) /\ FileOf(e, s) = FileOf(d, s)
           /\ OwnedBy(e, R) = OwnedBy(d, R)
  <1>1. ASSUME NEW s \in R
        PROVE  HasFile(e, s) /\ FetchFrom(e, s) = FetchFrom(d, s) /\ FileOf(e, s) = FileOf(d, s)
    <2>1. HasFile(d, s)
      BY DEF HasFiles
    <2> QED BY <2>1, FileKept
  <1>2. HasFiles(e, R)
    BY <1>1 DEF HasFiles
  <1>3. OwnedBy(e, R) = OwnedBy(d, R)
    BY <1>1 DEF OwnedBy
  <1> QED BY <1>1, <1>2, <1>3

\* They are as long as nothing but other contents change.
LEMMA HeadersKept ==
    ASSUME NEW d, NEW e, NEW R, HasFiles(d, R),
           \A x \in Sectors : d[x].kind = "header" => e[x] = d[x]
    PROVE  /\ HasFiles(e, R)
           /\ \A s \in R : FetchFrom(e, s) = FetchFrom(d, s) /\ FileOf(e, s) = FileOf(d, s)
           /\ OwnedBy(e, R) = OwnedBy(d, R)
  <1>1. ASSUME NEW s \in R, NEW x \in HeadersOf(FetchFrom(d, s), s) PROVE e[x] = d[x]
    <2>1. HasFile(d, s)
      BY DEF HasFiles
    <2> QED BY <2>1, HeadersThere
  <1>2. \A s \in R : \A x \in HeadersOf(FetchFrom(d, s), s) : e[x] = d[x]
    BY <1>1
  <1> QED BY <1>2, FilesKept

\* The system files' sectors are owned; the free map's and the directory's are
\* no headers.
LEMMA SystemOwned ==
    ASSUME NEW d, Good(d)
    PROVE  /\ DirAlloc.map \subseteq OwnedBy(d, RootsOf(Use(d)))
           /\ \A i \in 1 .. MapParts : /\ d[MapSector(i)].kind = "map"
                                       /\ MapSector(i) \in DirAlloc.map
           /\ \A p \in 1 .. 2 : d[DirSector(p)].kind = "dir" /\ DirSector(p) \in DirAlloc.map
  <1>1. PICK a, b : a = MapAlloc.hdrs /\ b = DirAlloc.hdrs
    OBVIOUS
  <1>2. FileOf(d, FreeMapSector) = SectorsOf(a, FreeMapSector)
        /\ FileOf(d, DirectorySector) = SectorsOf(b, DirectorySector)
    BY <1>1 DEF Good, FileOf
  <1>3. FreeMapSector \in RootsOf(Use(d)) /\ DirectorySector \in RootsOf(Use(d))
    BY DEF RootsOf
  <1>4. SectorsOf(a, FreeMapSector) \cup SectorsOf(b, DirectorySector) = DirAlloc.map
    BY <1>1, SystemFiles
  <1>5. DirAlloc.map \subseteq OwnedBy(d, RootsOf(Use(d)))
    BY <1>2, <1>3, <1>4 DEF OwnedBy
  <1>6. /\ DataSectors(a) \subseteq SectorsOf(a, FreeMapSector)
        /\ DataSectors(b) \subseteq SectorsOf(b, DirectorySector)
    <2>1. FileHeaders(a, FreeMapSector) /\ FileHeaders(b, DirectorySector)
      BY <1>1, SystemFiles
    <2> QED BY <2>1, FileParts
  <1>7. ASSUME NEW i \in 1 .. MapParts
        PROVE  d[MapSector(i)].kind = "map" /\ MapSector(i) \in DirAlloc.map
    <2>1. MapSector(i) \in DataSectors(a)
      BY <1>1, SystemSectors
    <2>2. PICK M \in SUBSET Sectors : d[MapSector(i)] = MapPart(M, i)
      BY DEF Good, SystemParts, IsMapPart
    <2>3. MapPart(M, i).kind = "map"
      BY DEF MapPart
    <2> QED BY <1>4, <1>6, <2>1, <2>2, <2>3
  <1>8. ASSUME NEW p \in 1 .. 2
        PROVE  d[DirSector(p)].kind = "dir" /\ DirSector(p) \in DirAlloc.map
    <2>1. DirSector(p) \in DataSectors(b)
      BY <1>1, SystemSectors
    <2>2. PICK dir \in Dirs : d[DirSector(p)] = DirPart(dir, p)
      BY DEF Good, SystemParts, IsDirPart
    <2>3. DirPart(dir, p).kind = "dir"
      BY DEF DirPart
    <2> QED BY <1>4, <1>6, <2>1, <2>2, <2>3
  <1> QED BY <1>5, <1>7, <1>8

\* e has the files, the free map and the directory of d.
SameFiles(d, e) ==
    /\ FetchDir(e) = FetchDir(d) /\ Use(e) = Use(d) /\ FetchMap(e) = FetchMap(d)
    /\ \A s \in RootsOf(Use(d)) : FetchFrom(e, s) = FetchFrom(d, s)
    /\ OwnedBy(e, RootsOf(Use(d))) = OwnedBy(d, RootsOf(Use(d)))

\* The free map and the directory are read from their sectors.
LEMMA SystemSame ==
    ASSUME NEW d, NEW e, \A i \in 1 .. MapParts : e[MapSector(i)] = d[MapSector(i)],
           \A p \in 1 .. 2 : e[DirSector(p)] = d[DirSector(p)]
    PROVE  /\ SystemParts(d) => SystemParts(e)
           /\ FetchMap(e) = FetchMap(d) /\ FetchDir(e) = FetchDir(d) /\ Use(e) = Use(d)
  <1>1. FetchMap(e) = FetchMap(d)
    BY DEF FetchMap
  <1>2. \A i \in Entries : HeadPart(i) \in 1 .. 2 /\ NamePart(i) \in 1 .. 2
    BY DEF HeadPart, NamePart
  <1>3. FetchDir(e) = FetchDir(d)
    BY <1>2 DEF FetchDir
  <1>4. SystemParts(d) => SystemParts(e)
    BY DEF SystemParts
  <1> QED BY <1>1, <1>3, <1>4 DEF Use

\* What keeps them and the headers of the files keeps the files.
LEMMA GoodKept ==
    ASSUME NEW d, NEW e, Good(d), \A i \in 1 .. MapParts : e[MapSector(i)] = d[MapSector(i)],
           \A p \in 1 .. 2 : e[DirSector(p)] = d[DirSector(p)],
           \A s \in RootsOf(Use(d)) : \A x \in HeadersOf(FetchFrom(d, s), s) : e[x] = d[x]
    PROVE  Good(e) /\ SameFiles(d, e)
  <1>1. PICK u : u = Use(d)
    OBVIOUS
  <1>2. HasFiles(d, RootsOf(u))
    BY <1>1 DEF Good
  <1>3. /\ HasFiles(e, RootsOf(u))
        /\ \A s \in RootsOf(u) : FetchFrom(e, s) = FetchFrom(d, s)
        /\ OwnedBy(e, RootsOf(u)) = OwnedBy(d, RootsOf(u))
    <2>1. \A s \in RootsOf(u) : \A x \in HeadersOf(FetchFrom(d, s), s) : e[x] = d[x]
      BY <1>1
    <2> QED BY <1>2, <2>1, FilesKept
  <1>4. SystemParts(e) /\ FetchMap(e) = FetchMap(d) /\ FetchDir(e) = FetchDir(d) /\ Use(e) = u
    <2>1. SystemParts(d)
      BY DEF Good
    <2> QED BY <1>1, <2>1, SystemSame
  <1>5. FreeMapSector \in RootsOf(u) /\ DirectorySector \in RootsOf(u)
    BY DEF RootsOf
  <1>6. FetchFrom(e, FreeMapSector) = MapAlloc.hdrs /\ FetchFrom(e, DirectorySector) = DirAlloc.hdrs
    BY <1>3, <1>5 DEF Good
  <1>7. /\ \A i, j \in Entries : u[i] # NoSector /\ u[i] = u[j] => i = j
        /\ \A i \in Entries : u[i] \notin {FreeMapSector, DirectorySector}
    BY <1>1 DEF Good
  <1>8. Good(e)
    BY <1>3, <1>4, <1>6, <1>7 DEF Good
  <1> QED BY <1>1, <1>3, <1>4, <1>8 DEF SameFiles

\* New contents of sectors that hold data change no file.
LEMMA DataFrame ==
    ASSUME NEW d, NEW e, Good(d), \A x \in Sectors : d[x].kind # "data" => e[x] = d[x]
    PROVE  Good(e) /\ SameFiles(d, e) /\ (Agreed(d) => Agreed(e))
  <1>1. PICK u : u = Use(d)
    OBVIOUS
  <1>2. /\ \A i \in 1 .. MapParts : d[MapSector(i)].kind = "map" /\ MapSector(i) \in Sectors
        /\ \A p \in 1 .. 2 : d[DirSector(p)].kind = "dir" /\ DirSector(p) \in Sectors
    BY SystemOwned, SystemSectors
  <1>3. /\ \A i \in 1 .. MapParts : e[MapSector(i)] = d[MapSector(i)]
        /\ \A p \in 1 .. 2 : e[DirSector(p)] = d[DirSector(p)]
    BY <1>2
  <1>4. ASSUME NEW s \in RootsOf(u), NEW x \in HeadersOf(FetchFrom(d, s), s) PROVE e[x] = d[x]
    <2>1. HasFile(d, s)
      BY <1>1 DEF Good, HasFiles
    <2>2. d[x].kind = "header" /\ x \in Sectors
      BY <2>1, HeadersThere
    <2> QED BY <2>2
  <1>5. Good(e) /\ SameFiles(d, e)
    BY <1>1, <1>3, <1>4, GoodKept
  <1>6. ASSUME Agreed(d) PROVE Agreed(e)
    <2>1. /\ Use(e) = u /\ FetchMap(e) = FetchMap(d)
          /\ OwnedBy(e, RootsOf(u)) = OwnedBy(d, RootsOf(u))
      BY <1>1, <1>5 DEF SameFiles
    <2>2. FetchMap(d) \in SUBSET Sectors
      BY FetchedMap DEF Good
    <2>3. ASSUME NEW x \in FetchMap(d) \ OwnedBy(d, RootsOf(u)) PROVE e[x].kind = "header"
      <3>1. d[x].kind = "header"
        BY <1>1, <1>6 DEF Agreed
      <3> QED BY <2>2, <3>1
    <2>4. OwnedBy(d, RootsOf(u)) \subseteq FetchMap(d)
      BY <1>1, <1>6 DEF Agreed
    <2> QED BY <2>1, <2>3, <2>4 DEF Agreed
  <1> QED BY <1>5, <1>6

\* Nor does a header written to a sector that no file owns.
LEMMA HeaderFrame ==
    ASSUME NEW d, NEW e, Good(d), NEW x, x \notin OwnedBy(d, RootsOf(Use(d))),
           \A y \in Sectors \ {x} : e[y] = d[y], e[x].kind = "header"
    PROVE  Good(e) /\ SameFiles(d, e) /\ (Agreed(d) => Agreed(e))
  <1>1. PICK u : u = Use(d)
    OBVIOUS
  <1>2. /\ \A i \in 1 .. MapParts : MapSector(i) # x /\ MapSector(i) \in Sectors
        /\ \A p \in 1 .. 2 : DirSector(p) # x /\ DirSector(p) \in Sectors
    BY SystemOwned, SystemSectors
  <1>3. /\ \A i \in 1 .. MapParts : e[MapSector(i)] = d[MapSector(i)]
        /\ \A p \in 1 .. 2 : e[DirSector(p)] = d[DirSector(p)]
    BY <1>2
  <1>4. ASSUME NEW s \in RootsOf(u), NEW y \in HeadersOf(FetchFrom(d, s), s) PROVE e[y] = d[y]
    <2>1. HasFile(d, s)
      BY <1>1 DEF Good, HasFiles
    <2>2. y \in FileOf(d, s) /\ y \in Sectors
      BY <2>1, HeadersThere
    <2>3. y # x
      BY <1>1, <2>2 DEF OwnedBy
    <2> QED BY <2>2, <2>3
  <1>5. Good(e) /\ SameFiles(d, e)
    BY <1>1, <1>3, <1>4, GoodKept
  <1>6. ASSUME Agreed(d) PROVE Agreed(e)
    <2>1. /\ Use(e) = u /\ FetchMap(e) = FetchMap(d)
          /\ OwnedBy(e, RootsOf(u)) = OwnedBy(d, RootsOf(u))
      BY <1>1, <1>5 DEF SameFiles
    <2>2. FetchMap(d) \in SUBSET Sectors
      BY FetchedMap DEF Good
    <2>3. ASSUME NEW y \in FetchMap(d) \ OwnedBy(d, RootsOf(u)) PROVE e[y].kind = "header"
      <3>1. d[y].kind = "header"
        BY <1>1, <1>6 DEF Agreed
      <3> QED BY <2>2, <3>1
    <2>4. OwnedBy(d, RootsOf(u)) \subseteq FetchMap(d)
      BY <1>1, <1>6 DEF Agreed
    <2> QED BY <2>1, <2>3, <2>4 DEF Agreed
  <1> QED BY <1>5, <1>6

\* Two directories that differ in one entry.
OneEntry(u, v) == \E i \in Entries : \A j \in Entries \ {i} : u[j] = v[j]

\* In the middle of writing the free map and the directory every one of their
\* sectors is as before or as after the operation d and o are the disk before
\* and after.  What both directories name is still there.
LEMMA MixedDisk ==
    ASSUME NEW d, NEW o, NEW e, Good(d), Good(o),
           HasFiles(o, RootsOf(Use(d)) \cup RootsOf(Use(o))), OneEntry(Use(d), Use(o)),
           \A x \in Sectors : o[x].kind = "header" => e[x] = o[x],
           \A i \in 1 .. MapParts : e[MapSector(i)] \in {d[MapSector(i)], o[MapSector(i)]},
           \A p \in 1 .. 2 : e[DirSector(p)] \in {d[DirSector(p)], o[DirSector(p)]}
    PROVE  /\ Good(e) /\ Use(e) \in {Use(d), Use(o)}
           /\ \A s \in RootsOf(Use(d)) \cup RootsOf(Use(o)) : FetchFrom(e, s) = FetchFrom(o, s)
  <1>1. PICK u, v : u = Use(d) /\ v = Use(o)
    OBVIOUS
  <1>2. HasFiles(o, RootsOf(u) \cup RootsOf(v))
    BY <1>1
  <1>3. /\ HasFiles(e, RootsOf(u) \cup RootsOf(v))
        /\ \A s \in RootsOf(u) \cup RootsOf(v) : FetchFrom(e, s) = FetchFrom(o, s)
    BY <1>2, HeadersKept
  <1>4. SystemParts(e)
    <2>1. \A i \in 1 .. MapParts : IsMapPart(d[MapSector(i)], i) /\ IsMapPart(o[MapSector(i)], i)
      BY DEF Good, SystemParts
    <2>2. \A p \in 1 .. 2 : IsDirPart(d[DirSector(p)], p) /\ IsDirPart(o[DirSector(p)], p)
      BY DEF Good, SystemParts
    <2> QED BY <2>1, <2>2 DEF SystemParts
  <1>5. \A i \in Entries : Use(e)[i] \in {u[i], v[i]}
    <2> SUFFICES ASSUME NEW i \in Entries PROVE Use(e)[i] \in {u[i], v[i]}
      OBVIOUS
    <2>1. HeadPart(i) \in 1 .. 2
      BY DEF HeadPart
    <2>2. /\ Use(e)[i] = e[DirSector(HeadPart(i))].use[i]
          /\ u[i] = d[DirSector(HeadPart(i))].use[i]
          /\ v[i] = o[DirSector(HeadPart(i))].use[i]
      BY <1>1 DEF Use, FetchDir
    <2> QED BY <2>1, <2>2
  <1>6. FetchDir(d) \in Dirs /\ FetchDir(o) \in Dirs /\ FetchDir(e) \in Dirs
    BY <1>4, FetchedDir DEF Good
  <1>7. PICK w : w = Use(e)
    OBVIOUS
  <1>8. /\ u \in [Entries -> Sectors \cup {NoSector}] /\ v \in [Entries -> Sectors \cup {NoSector}]
        /\ w \in [Entries -> Sectors \cup {NoSector}]
    BY <1>1, <1>6, <1>7 DEF Use, Dirs
  <1>9. w = u \/ w = v
    <2>1. PICK i \in Entries : \A j \in Entries \ {i} : u[j] = v[j]
      BY <1>1 DEF OneEntry
    <2>2. \A j \in Entries : w[j] \in {u[j], v[j]}
      BY <1>5, <1>7
    <2>3. CASE w[i] = u[i]
      <3>1. \A j \in Entries : w[j] = u[j]
        BY <2>1, <2>2, <2>3
      <3> QED BY <1>8, <3>1
    <2>4. CASE w[i] = v[i]
      <3>1. \A j \in Entries : w[j] = v[j]
        BY <2>1, <2>2, <2>4
      <3> QED BY <1>8, <3>1
    <2> QED BY <2>2, <2>3, <2>4
  <1>10. HasFiles(e, RootsOf(w))
    <2>1. RootsOf(w) \subseteq RootsOf(u) \cup RootsOf(v)
      BY <1>9
    <2> QED BY <1>3, <2>1 DEF HasFiles
  <1>11. FreeMapSector \in RootsOf(u) /\ DirectorySector \in RootsOf(u)
    BY DEF RootsOf
  <1>12. FetchFrom(e, FreeMapSector) = MapAlloc.hdrs /\ FetchFrom(e, DirectorySector) = DirAlloc.hdrs
    <2>1. FetchFrom(o, FreeMapSector) = MapAlloc.hdrs /\ FetchFrom(o, DirectorySector) = DirAlloc.hdrs
      BY DEF Good
    <2> QED BY <1>3, <1>11, <2>1
  <1>13. /\ \A i, j \in Entries : w[i] # NoSector /\ w[i] = w[j] => i = j
         /\ \A i \in Entries : w[i] \notin {FreeMapSector, DirectorySector}
    <2>1. /\ \A i, j \in Entries : u[i] # NoSector /\ u[i] = u[j] => i = j
          /\ \A i \in Entries : u[i] \notin {FreeMapSector, DirectorySector}
      BY <1>1 DEF Good
    <2>2. /\ \A i, j \in Entries : v[i] # NoSector /\ v[i] = v[j] => i = j
          /\ \A i \in Entries : v[i] \notin {FreeMapSector, DirectorySector}
      BY <1>1 DEF Good
    <2> QED BY <1>9, <2>1, <2>2
  <1>14. Good(e)
    BY <1>4, <1>7, <1>10, <1>12, <1>13 DEF Good
  <1> QED BY <1>1, <1>3, <1>7, <1>9, <1>14

---------------------------------------------------------------------------
(* The writes of an operation.                                             *)

MapContents == {MapPart(M, i) : M \in SUBSET Sectors, i \in 1 .. MapParts}
DirContents == {DirPart(dir, p) : dir \in Dirs, p \in 1 .. 2}
DataContents == [kind : {"data"}, bytes : [1 .. SectorSize -> Bytes \cup {Junk}]]
SectorContents == Headers \cup MapContents \cup DirContents \cup DataContents
Writes == [sector : Sectors, contents : SectorContents]

\* The disk after all of them.
After(d, p) ==
    [x \in Sectors |-> IF \E i \in DOMAIN p : p[i].sector = x
                       THEN p[CHOOSE i \in DOMAIN p : p[i].sector = x].contents ELSE d[x]]

\* No two of them are to one sector, headers come before all else, and data
\* goes with data only.
WritesApart(p) ==
    /\ \A i, j \in DOMAIN p : p[i].sector = p[j].sector => i = j
    /\ \A i, j \in DOMAIN p :
         i < j /\ p[j].contents.kind = "header" => p[i].contents.kind = "header"
    /\ \A i, j \in DOMAIN p : p[i].contents.kind = "data" => p[j].contents.kind = "data"

\* The kinds of contents.
LEMMA Kinds ==
    /\ \A c \in SectorContents : c.kind \in {"header", "map", "dir", "data"}
    /\ \A c \in SectorContents : c.kind = "header" => c \in Headers
    /\ NoData \in DataContents /\ NoData.kind = "data"
  <1>1. ASSUME NEW c \in Headers PROVE c.kind = "header"
    BY DEF Headers
  <1>2. ASSUME NEW c \in MapContents PROVE c.kind = "map"
    <2>1. PICK M \in SUBSET Sectors, i \in 1 .. MapParts : c = MapPart(M, i)
      BY DEF MapContents
    <2>2. MapPart(M, i).kind = "map"
      BY DEF MapPart
    <2> QED BY <2>1, <2>2
  <1>3. ASSUME NEW c \in DirContents PROVE c.kind = "dir"
    <2>1. PICK dir \in Dirs, p \in 1 .. 2 : c = DirPart(dir, p)
      BY DEF DirContents
    <2>2. DirPart(dir, p).kind = "dir"
      BY DEF DirPart
    <2> QED BY <2>1, <2>2
  <1>4. ASSUME NEW c \in DataContents PROVE c.kind = "data"
    BY DEF DataContents
  <1>5. NoData \in DataContents
    BY DEF NoData, DataContents
  <1>6. ASSUME NEW c \in SectorContents PROVE c.kind \in {"header", "map", "dir", "data"}
    BY <1>1, <1>2, <1>3, <1>4 DEF SectorContents
  <1>7. ASSUME NEW c \in SectorContents, c.kind = "header" PROVE c \in Headers
    BY <1>2, <1>3, <1>4, <1>7 DEF SectorContents
  <1> QED BY <1>4, <1>5, <1>6, <1>7

\* The sectors of the disk after the writes.
LEMMA AfterAt ==
    ASSUME NEW d, NEW p, WritesApart(p), NEW x \in Sectors
    PROVE  /\ \A i \in DOMAIN p : p[i].sector = x => After(d, p)[x] = p[i].contents
           /\ (\A i \in DOMAIN p : p[i].sector # x) => After(d, p)[x] = d[x]
  <1>1. ASSUME NEW i \in DOMAIN p, p[i].sector = x
        PROVE  After(d, p)[x] = p[i].contents
    <2> DEFINE k == CHOOSE j \in DOMAIN p : p[j].sector = x
    <2>1. k \in DOMAIN p /\ p[k].sector = x
      BY <1>1
    <2>2. k = i
      BY <1>1, <2>1 DEF WritesApart
    <2>3. After(d, p)[x] = p[k].contents
      BY <1>1 DEF After
    <2> QED BY <2>2, <2>3
  <1>2. ASSUME \A i \in DOMAIN p : p[i].sector # x
        PROVE  After(d, p)[x] = d[x]
    BY <1>2 DEF After
  <1> QED BY <1>1, <1>2

\* What a write to come puts into its sector.
LEMMA AfterWritten ==
    ASSUME NEW d, NEW p, WritesApart(p), NEW i, i \in DOMAIN p, p[i].sector \in Sectors
    PROVE  After(d, p)[p[i].sector] = p[i].contents
  BY AfterAt

\* With no writes left it is the disk.
LEMMA NothingLeft ==
    ASSUME NEW d \in [Sectors -> SectorContents], NEW p, p = << >>
    PROVE  After(d, p) = d
  <1>1. DOMAIN p = {}
    BY EmptySeq
  <1> QED BY <1>1 DEF After

\* One sector written.
LEMMA WrittenAt ==
    ASSUME NEW d \in [Sectors -> SectorContents], NEW s \in Sectors, NEW c \in SectorContents
    PROVE  LET e == Written(d, s, c)
           IN  /\ e \in [Sectors -> SectorContents] /\ e[s] = c
               /\ \A x \in Sectors \ {s} : e[x] = d[x] \/ (d[x].kind = "data" /\ e[x] = NoData)
               /\ c.kind # "map" => \A x \in Sectors \ {s} : e[x] = d[x]
  <1> DEFINE F == IF c.kind = "map" /\ d[s].kind = "map" THEN d[s].marked \ c.marked ELSE {}
             e == Written(d, s, c)
  <1>1. e = [x \in Sectors |-> IF x = s THEN c
                               ELSE IF x \in F /\ d[x].kind = "data" THEN NoData ELSE d[x]]
    BY DEF Written
  <1>2. NoData \in SectorContents
    BY Kinds DEF SectorContents
  <1>3. c.kind # "map" => F = {}
    OBVIOUS
  <1> HIDE DEF F, e
  <1>4. e \in [Sectors -> SectorContents]
    BY <1>1, <1>2
  <1>5. e[s] = c
    BY <1>1
  <1>6. \A x \in Sectors \ {s} : e[x] = d[x] \/ (d[x].kind = "data" /\ e[x] = NoData)
    BY <1>1
  <1>7. c.kind # "map" => \A x \in Sectors \ {s} : e[x] = d[x]
    BY <1>1, <1>3
  <1> QED BY <1>4, <1>5, <1>6, <1>7 DEF e

\* The first of the writes of an operation.
LEMMA FirstWrite ==
    ASSUME NEW p \in Seq(Writes), p # << >>, WritesApart(p)
    PROVE  LET w == Head(p)
               q == Tail(p)
           IN  /\ w \in Writes /\ w = p[1] /\ 1 \in DOMAIN p
               /\ q \in Seq(Writes) /\ WritesApart(q)
               /\ \A i \in DOMAIN q : /\ i + 1 \in DOMAIN p /\ q[i] = p[i + 1]
                                      /\ q[i].sector # w.sector
               /\ \A i \in DOMAIN p : i = 1 \/ \E j \in DOMAIN q : p[i] = q[j]
               /\ w.contents.kind # "header" => \A i \in DOMAIN p : p[i].contents.kind # "header"
  <1> DEFINE w == Head(p)
             q == Tail(p)
             n == Len(p)
  <1>1. n \in Nat /\ n # 0 /\ DOMAIN p = 1 .. n
    BY EmptySeq, LenProperties
  <1>2. /\ w = p[1] /\ q \in Seq(Writes) /\ Len(q) = n - 1
        /\ \A i \in 1 .. n - 1 : q[i] = p[i + 1]
    BY <1>1, HeadTailProperties
  <1> HIDE DEF w, q, n
  <1>3. DOMAIN q = 1 .. n - 1
    BY <1>2, LenProperties
  <1>4. 1 \in DOMAIN p /\ w \in Writes
    <2>1. 1 \in 1 .. n
      BY <1>1
    <2>2. 1 \in 1 .. Len(p)
      BY <2>1 DEF n
    <2>3. p[1] \in Writes
      BY <2>2, ElementOfSeq
    <2> QED BY <1>1, <1>2, <2>1, <2>3
  <1>5. ASSUME NEW i \in DOMAIN q
        PROVE  /\ i + 1 \in DOMAIN p /\ q[i] = p[i + 1] /\ i + 1 # 1 /\ i \in Nat
    BY <1>1, <1>2, <1>3
  <1>6. ASSUME NEW i \in DOMAIN q PROVE q[i].sector # w.sector
    BY <1>2, <1>4, <1>5 DEF WritesApart
  <1>7. WritesApart(q)
    <2>1. ASSUME NEW i \in DOMAIN q, NEW j \in DOMAIN q, q[i].sector = q[j].sector
          PROVE  i = j
      <3>1. i + 1 = j + 1
        BY <1>5, <2>1 DEF WritesApart
      <3> QED BY <1>5, <3>1
    <2>2. ASSUME NEW i \in DOMAIN q, NEW j \in DOMAIN q, i < j, q[j].contents.kind = "header"
          PROVE  q[i].contents.kind = "header"
      <3>1. i + 1 < j + 1
        BY <1>5, <2>2
      <3> QED BY <1>5, <2>2, <3>1 DEF WritesApart
    <2>3. ASSUME NEW i \in DOMAIN q, NEW j \in DOMAIN q, q[i].contents.kind = "data"
          PROVE  q[j].contents.kind = "data"
      BY <1>5, <2>3 DEF WritesApart
    <2> QED BY <2>1, <2>2, <2>3 DEF WritesApart
  <1>8. ASSUME NEW i \in DOMAIN p, i # 1 PROVE \E j \in DOMAIN q : p[i] = q[j]
    <2>1. i - 1 \in DOMAIN q /\ (i - 1) + 1 = i
      BY <1>1, <1>3, <1>8
    <2> QED BY <1>5, <2>1
  <1>9. ASSUME w.contents.kind # "header", NEW i \in DOMAIN p
        PROVE  p[i].contents.kind # "header"
    <2>1. i = 1 \/ 1 < i
      BY <1>1
    <2> QED BY <1>2, <1>4, <1>9, <2>1 DEF WritesApart
  <1> QED BY <1>2, <1>4, <1>5, <1>6, <1>7, <1>8, <1>9 DEF w, q

---------------------------------------------------------------------------
(* A write.                                                                *)

\* In the middle of an operation: what either directory names has its sectors,
\* and no header goes to a sector that is owned.
Midway(d, p) ==
    /\ Good(d)
    /\ HasFiles(After(d, p), RootsOf(Use(d)) \cup RootsOf(Use(After(d, p))))
    /\ OneEntry(Use(d), Use(After(d, p)))
    /\ \A i \in DOMAIN p : p[i].contents.kind = "header"
                           => p[i].sector \notin OwnedBy(d, RootsOf(Use(d)))

\* The files of both directories are the same before and after.
BothKeep(d, o, e) ==
    \A s \in RootsOf(Use(d)) \cap RootsOf(Use(o)) :
       FetchFrom(d, s) = FetchFrom(o, s)
       => s \in RootsOf(Use(e)) /\ FetchFrom(e, s) = FetchFrom(o, s)

SameButData(o, e) == \A x \in Sectors : o[x].kind # "data" => e[x] = o[x]

\* A write changes the disk to come in data only.
LEMMA AfterWrite ==
    ASSUME NEW d \in [Sectors -> SectorContents], NEW p \in Seq(Writes), p # << >>, WritesApart(p),
           NEW w, NEW q, NEW e, w = Head(p), q = Tail(p), e = Written(d, w.sector, w.contents)
    PROVE  /\ e \in [Sectors -> SectorContents] /\ q \in Seq(Writes) /\ WritesApart(q)
           /\ SameButData(After(d, p), After(e, q))
  <1>1. /\ w \in Writes /\ w = p[1] /\ 1 \in DOMAIN p
        /\ q \in Seq(Writes) /\ WritesApart(q)
        /\ \A i \in DOMAIN q : i + 1 \in DOMAIN p /\ q[i] = p[i + 1] /\ q[i].sector # w.sector
        /\ \A i \in DOMAIN p : i = 1 \/ \E j \in DOMAIN q : p[i] = q[j]
    BY FirstWrite
  <1>2. w.sector \in Sectors /\ w.contents \in SectorContents
    BY <1>1 DEF Writes
  <1>3. /\ e \in [Sectors -> SectorContents] /\ e[w.sector] = w.contents
        /\ \A x \in Sectors \ {w.sector} : e[x] = d[x] \/ (d[x].kind = "data" /\ e[x] = NoData)
    BY <1>2, WrittenAt
  <1>4. \A i \in DOMAIN q : q[i].sector \in Sectors => After(e, q)[q[i].sector] = q[i].contents
    <2>1. PICK q1, e1 : q1 = q /\ e1 = e /\ WritesApart(q1)
      BY <1>1
    <2>2. ASSUME NEW i \in DOMAIN q1, q1[i].sector \in Sectors
          PROVE  After(e1, q1)[q1[i].sector] = q1[i].contents
      <3> HIDE <2>1
      <3>1. WritesApart(q1)
        BY <2>1
      <3> QED BY <2>2, <3>1, AfterWritten
    <2> QED BY <2>1, <2>2
  <1>5. ASSUME NEW x \in Sectors, NEW i \in DOMAIN q, q[i].sector = x
        PROVE  After(e, q)[x] = q[i].contents
    BY <1>5, <1>4
  <1>6. ASSUME NEW x \in Sectors, \A i \in DOMAIN q : q[i].sector # x
        PROVE  After(e, q)[x] = e[x]
    BY <1>6 DEF After
  <1>7. ASSUME NEW x \in Sectors, After(d, p)[x].kind # "data"
        PROVE  After(e, q)[x] = After(d, p)[x]
    <2>1. CASE \E i \in DOMAIN q : q[i].sector = x
      <3>1. PICK i \in DOMAIN q : q[i].sector = x
        BY <2>1
      <3>2. After(e, q)[x] = q[i].contents
        BY <1>5, <3>1
      <3>3. i + 1 \in DOMAIN p /\ p[i + 1].sector = x /\ p[i + 1] = q[i]
        BY <1>1, <3>1
      <3>4. After(d, p)[x] = p[i + 1].contents
        BY <3>3, AfterAt
      <3> QED BY <3>2, <3>3, <3>4
    <2>2. CASE x = w.sector /\ \A i \in DOMAIN q : q[i].sector # x
      <3>1. After(e, q)[x] = e[x]
        BY <1>6, <2>2
      <3>2. After(d, p)[x] = p[1].contents
        BY <1>1, <2>2, AfterAt
      <3> QED BY <1>3, <2>2, <3>1, <3>2
    <2>3. CASE x # w.sector /\ \A i \in DOMAIN q : q[i].sector # x
      <3>1. After(e, q)[x] = e[x]
        BY <1>6, <2>3
      <3>2. \A i \in DOMAIN p : p[i].sector # x
        BY <1>1, <2>3
      <3>3. After(d, p)[x] = d[x]
        BY <3>2, AfterAt
      <3> QED BY <1>3, <1>7, <2>3, <3>1, <3>3
    <2> QED BY <2>1, <2>2, <2>3
  <1> QED BY <1>1, <1>3, <1>7 DEF SameButData

\* A header.
LEMMA HeaderStep ==
    ASSUME NEW d, NEW p, NEW o, o = After(d, p), Midway(d, p),
           NEW e, NEW q, NEW o2, o2 = After(e, q), NEW x, x \notin OwnedBy(d, RootsOf(Use(d))),
           \A y \in Sectors \ {x} : e[y] = d[y], e[x].kind = "header",
           \A i \in DOMAIN q : \E j \in DOMAIN p : q[i] = p[j],
           SameFiles(o, o2), \A y \in Sectors : o[y].kind # "data" => o2[y] = o[y]
    PROVE  Midway(e, q) /\ (Agreed(d) => Agreed(e)) /\ BothKeep(d, o, e)
  <1>1. PICK u, v : u = Use(d) /\ v = Use(o)
    OBVIOUS
  <1>2. Good(e) /\ SameFiles(d, e) /\ (Agreed(d) => Agreed(e))
    BY HeaderFrame DEF Midway
  <1>3. /\ Use(e) = u /\ Use(o2) = v /\ OwnedBy(e, RootsOf(u)) = OwnedBy(d, RootsOf(u))
        /\ \A s \in RootsOf(u) : FetchFrom(e, s) = FetchFrom(d, s)
    BY <1>1, <1>2 DEF SameFiles
  <1>4. HasFiles(o, RootsOf(u) \cup RootsOf(v)) /\ OneEntry(u, v)
    BY <1>1 DEF Midway
  <1>5. HasFiles(o2, RootsOf(u) \cup RootsOf(v))
    <2>1. \A y \in Sectors : o[y].kind = "header" => o2[y] = o[y]
      OBVIOUS
    <2> QED BY <1>4, <2>1, HeadersKept
  <1>6. \A i \in DOMAIN q : q[i].contents.kind = "header" => q[i].sector \notin OwnedBy(e, RootsOf(u))
    BY <1>1, <1>3 DEF Midway
  <1>7. Midway(e, q)
    BY <1>2, <1>3, <1>4, <1>5, <1>6 DEF Midway
  <1>8. BothKeep(d, o, e)
    BY <1>1, <1>3 DEF BothKeep
  <1> QED BY <1>2, <1>7, <1>8

\* The same files as after the operation, when only data is to be written.
LEMMA DataStep ==
    ASSUME NEW o, NEW o2, SameFiles(o, o2), Good(o2), NEW e, NEW q, o2 = After(e, q),
           \A x \in Sectors : o2[x].kind # "data" => e[x] = o2[x],
           \A i \in DOMAIN q : q[i].contents.kind = "data", Entries # {}, NEW d
    PROVE  Midway(e, q) /\ (Agreed(o2) => Agreed(e)) /\ BothKeep(d, o, e)
  <1>1. PICK u : u = Use(o2)
    OBVIOUS
  <1>2. Good(e) /\ SameFiles(o2, e) /\ (Agreed(o2) => Agreed(e))
    BY DataFrame
  <1>3. Use(e) = u /\ Use(o) = u
    BY <1>1, <1>2 DEF SameFiles
  <1>4. HasFiles(o2, RootsOf(u) \cup RootsOf(u))
    BY <1>1 DEF Good
  <1>5. OneEntry(u, u)
    BY DEF OneEntry
  <1>6. \A i \in DOMAIN q : q[i].contents.kind # "header"
    OBVIOUS
  <1>7. Midway(e, q)
    BY <1>1, <1>2, <1>3, <1>4, <1>5, <1>6 DEF Midway
  <1>8. \A s \in RootsOf(u) : FetchFrom(e, s) = FetchFrom(o, s)
    BY <1>1, <1>2, <1>3 DEF SameFiles
  <1>9. BothKeep(d, o, e)
    BY <1>3, <1>8 DEF BothKeep
  <1> QED BY <1>2, <1>7, <1>9

\* A part of the free map or of the directory.
LEMMA SystemStep ==
    ASSUME NEW d, NEW p, NEW o, o = After(d, p), Midway(d, p), Good(o),
           NEW e, NEW q, NEW o2, o2 = After(e, q),
           \A x \in Sectors : o[x].kind = "header" => e[x] = o[x],
           \A i \in 1 .. MapParts : e[MapSector(i)] \in {d[MapSector(i)], o[MapSector(i)]},
           \A m \in 1 .. 2 : e[DirSector(m)] \in {d[DirSector(m)], o[DirSector(m)]},
           \A i \in DOMAIN q : q[i].contents.kind # "header",
           SameFiles(o, o2), \A y \in Sectors : o[y].kind # "data" => o2[y] = o[y]
    PROVE  Midway(e, q) /\ BothKeep(d, o, e)
  <1>1. PICK u, v, w : u = Use(d) /\ v = Use(o) /\ w = Use(e)
    OBVIOUS
  <1>2. Good(d) /\ HasFiles(o, RootsOf(u) \cup RootsOf(v)) /\ OneEntry(u, v)
    BY <1>1 DEF Midway
  <1>3. /\ Good(e) /\ w \in {u, v}
        /\ \A s \in RootsOf(u) \cup RootsOf(v) : FetchFrom(e, s) = FetchFrom(o, s)
    BY <1>1, <1>2, MixedDisk
  <1>4. Use(o2) = v
    BY <1>1 DEF SameFiles
  <1>5. HasFiles(o2, RootsOf(u) \cup RootsOf(v))
    <2>1. \A y \in Sectors : o[y].kind = "header" => o2[y] = o[y]
      OBVIOUS
    <2> QED BY <1>2, <2>1, HeadersKept
  <1>6. RootsOf(w) \cup RootsOf(v) \subseteq RootsOf(u) \cup RootsOf(v)
    BY <1>3
  <1>7. HasFiles(o2, RootsOf(w) \cup RootsOf(v))
    BY <1>5, <1>6 DEF HasFiles
  <1>8. OneEntry(w, v)
    <2>1. OneEntry(u, v) /\ OneEntry(v, v)
      BY <1>2 DEF OneEntry
    <2> QED BY <1>3, <2>1
  <1>9. Midway(e, q)
    BY <1>1, <1>3, <1>4, <1>7, <1>8 DEF Midway
  <1>10. BothKeep(d, o, e)
    BY <1>1, <1>3 DEF BothKeep
  <1> QED BY <1>9, <1>10

\* The write of c to s takes d to e and leaves the writes q of p; o and o2 are
\* the disks at the end of p and q.
Writing(d, p, e, q, o, o2, s, c) ==
    /\ o = After(d, p) /\ o2 = After(e, q)
    /\ WritesApart(p) /\ WritesApart(q)
    /\ \A i \in DOMAIN q : i + 1 \in DOMAIN p /\ q[i] = p[i + 1]
    /\ p[1].sector = s /\ p[1].contents = c /\ 1 \in DOMAIN p /\ s \in Sectors
    /\ c.kind # "header" => \A i \in DOMAIN p : p[i].contents.kind # "header"
    /\ e[s] = c
    /\ \A x \in Sectors \ {s} : e[x] = d[x] \/ (d[x].kind = "data" /\ e[x] = NoData)
    /\ c.kind # "map" => \A x \in Sectors \ {s} : e[x] = d[x]
    /\ SameFiles(o, o2) /\ \A x \in Sectors : o[x].kind # "data" => o2[x] = o[x]
    /\ Good(o) /\ Good(o2) /\ (Agreed(o) => Agreed(o2))

\* A header goes to a sector of no file that the directory names.
LEMMA WritingHeader ==
    ASSUME NEW d, NEW p, NEW e, NEW q, NEW o, NEW o2, NEW s, NEW c,
           Writing(d, p, e, q, o, o2, s, c), Midway(d, p), c.kind = "header"
    PROVE  Midway(e, q) /\ (Agreed(d) => Agreed(e)) /\ BothKeep(d, o, e)
  <1>1. s \notin OwnedBy(d, RootsOf(Use(d)))
    BY DEF Midway, Writing
  <1>2. /\ \A y \in Sectors \ {s} : e[y] = d[y]
        /\ e[s].kind = "header"
    BY DEF Writing
  <1>3. \A i \in DOMAIN q : \E j \in DOMAIN p : q[i] = p[j]
    BY DEF Writing
  <1>4. o = After(d, p) /\ o2 = After(e, q)
    BY DEF Writing
  <1>5. SameFiles(o, o2) /\ \A x \in Sectors : o[x].kind # "data" => o2[x] = o[x]
    BY DEF Writing
  <1> QED BY <1>1, <1>2, <1>3, <1>4, <1>5, HeaderStep

\* Data changes no file but in its bytes.
LEMMA WritingData ==
    ASSUME NEW d, NEW p, NEW e, NEW q, NEW o, NEW o2, NEW s, NEW c,
           Writing(d, p, e, q, o, o2, s, c), c.kind = "data"
    PROVE  Midway(e, q) /\ (Agreed(o) => Agreed(e)) /\ BothKeep(d, o, e)
  <1>1. \A i \in DOMAIN q : q[i].contents.kind = "data"
    BY DEF Writing, WritesApart
  <1>2. WritesApart(q) /\ o2 = After(e, q)
    BY DEF Writing
  <1>3. \A x \in Sectors : o2[x].kind # "data" => e[x] = o2[x]
    <2>1. \A x \in Sectors : /\ \A i \in DOMAIN q : q[i].sector = x => o2[x] = q[i].contents
                             /\ (\A i \in DOMAIN q : q[i].sector # x) => o2[x] = e[x]
      BY <1>2, AfterAt
    <2> QED BY <1>1, <2>1
  <1>4. Entries # {}
    BY FileSysAssumption
  <1>5. SameFiles(o, o2) /\ Good(o2) /\ (Agreed(o) => Agreed(o2))
    BY DEF Writing
  <1> QED BY <1>1, <1>2, <1>3, <1>4, <1>5, DataStep

\* A part of the map or of the directory is the old or the new one.
LEMMA WritingSystem ==
    ASSUME NEW d, NEW p, NEW e, NEW q, NEW o, NEW o2, NEW s, NEW c,
           Writing(d, p, e, q, o, o2, s, c), Midway(d, p), c.kind \in {"map", "dir"}
    PROVE  Midway(e, q) /\ BothKeep(d, o, e)
  <1>1. o = After(d, p) /\ WritesApart(p) /\ o2 = After(e, q)
    BY DEF Writing
  <1>2. \A x \in Sectors : /\ \A i \in DOMAIN p : p[i].sector = x => o[x] = p[i].contents
                           /\ (\A i \in DOMAIN p : p[i].sector # x) => o[x] = d[x]
    BY <1>1, AfterAt
  <1>3. /\ \A i \in DOMAIN p : p[i].contents.kind # "header"
        /\ o[s] = c
    BY <1>2 DEF Writing
  <1>4. \A x \in Sectors : o[x].kind = "header" => e[x] = o[x]
    BY <1>2, <1>3 DEF Writing
  <1>5. \A x \in Sectors : d[x].kind # "data" => e[x] \in {d[x], o[x]}
    BY <1>3 DEF Writing
  <1>6. /\ \A i \in 1 .. MapParts : d[MapSector(i)].kind = "map" /\ MapSector(i) \in Sectors
        /\ \A m \in 1 .. 2 : d[DirSector(m)].kind = "dir" /\ DirSector(m) \in Sectors
    BY SystemOwned, SystemSectors DEF Midway
  <1>7. /\ \A i \in 1 .. MapParts : e[MapSector(i)] \in {d[MapSector(i)], o[MapSector(i)]}
        /\ \A m \in 1 .. 2 : e[DirSector(m)] \in {d[DirSector(m)], o[DirSector(m)]}
    BY <1>5, <1>6
  <1>8. \A i \in DOMAIN q : q[i].contents.kind # "header"
    BY <1>3 DEF Writing
  <1>9. SameFiles(o, o2) /\ \A x \in Sectors : o[x].kind # "data" => o2[x] = o[x]
    BY DEF Writing
  <1>10. Good(o)
    BY DEF Writing
  <1> QED BY <1>1, <1>4, <1>7, <1>8, <1>9, <1>10, SystemStep

\* The disk that p is to end with keeps its files, and until then the disk is
\* in the middle of the operation.
Wrote(d, p, kind, e, q) ==
    /\ e \in [Sectors -> SectorContents] /\ q \in Seq(Writes) /\ WritesApart(q)
    /\ Good(After(e, q)) /\ SameFiles(After(d, p), After(e, q))
    /\ Agreed(After(d, p)) => Agreed(After(e, q))
    /\ q = << >> => e = After(e, q)
    /\ Midway(d, p) => BothKeep(d, After(d, p), e) /\ Midway(e, q)
    /\ Midway(d, p) /\ kind \notin {"dir", "map"} /\ Agreed(d) /\ Agreed(After(d, p)) => Agreed(e)

\* The next write of a running operation.
LEMMA WriteStep ==
    ASSUME NEW d \in [Sectors -> SectorContents], NEW p \in Seq(Writes), p # << >>, WritesApart(p),
           Good(After(d, p)),
           NEW w, NEW q, NEW e, w = Head(p), q = Tail(p), e = Written(d, w.sector, w.contents)
    PROVE  Wrote(d, p, w.contents.kind, e, q)
  <1>1. /\ e \in [Sectors -> SectorContents] /\ q \in Seq(Writes) /\ WritesApart(q)
        /\ \A x \in Sectors : After(d, p)[x].kind # "data" => After(e, q)[x] = After(d, p)[x]
    <2>1. e \in [Sectors -> SectorContents]
      BY AfterWrite
    <2>2. q \in Seq(Writes)
      BY AfterWrite
    <2>3. WritesApart(q)
      BY AfterWrite
    <2>4. SameButData(After(d, p), After(e, q))
      BY AfterWrite
    <2> QED BY <2>1, <2>2, <2>3, <2>4 DEF SameButData
  <1>2. PICK o, o2 : o = After(d, p) /\ o2 = After(e, q)
    OBVIOUS
  <1>3. Good(o2) /\ (Agreed(o) => Agreed(o2)) /\ SameFiles(o, o2)
    BY <1>1, <1>2, DataFrame
  <1>4. q = << >> => e = o2
    BY <1>1, <1>2, NothingLeft
  <1>5. /\ w \in Writes /\ w = p[1] /\ 1 \in DOMAIN p
        /\ \A i \in DOMAIN q : i + 1 \in DOMAIN p /\ q[i] = p[i + 1]
        /\ w.contents.kind # "header" => \A i \in DOMAIN p : p[i].contents.kind # "header"
    BY FirstWrite
  <1>6. PICK s, c : s = w.sector /\ c = w.contents
    OBVIOUS
  <1>7. s \in Sectors /\ c \in SectorContents /\ c.kind \in {"header", "map", "dir", "data"}
    BY <1>5, <1>6, Kinds DEF Writes
  <1>8. /\ e[s] = c
        /\ \A x \in Sectors \ {s} : e[x] = d[x] \/ (d[x].kind = "data" /\ e[x] = NoData)
        /\ c.kind # "map" => \A x \in Sectors \ {s} : e[x] = d[x]
    BY <1>6, <1>7, WrittenAt
  <1>9. Writing(d, p, e, q, o, o2, s, c)
    BY <1>1, <1>2, <1>3, <1>5, <1>6, <1>7, <1>8 DEF Writing
  <1>10. Midway(d, p) => BothKeep(d, o, e) /\ Midway(e, q)
    BY <1>7, <1>9, WritingHeader, WritingData, WritingSystem
  <1>11. Midway(d, p) /\ c.kind \notin {"dir", "map"} /\ Agreed(d) /\ Agreed(o) => Agreed(e)
    BY <1>7, <1>9, WritingHeader, WritingData
  <1> QED BY <1>1, <1>2, <1>3, <1>4, <1>6, <1>10, <1>11 DEF Wrote

---------------------------------------------------------------------------
(* The sequences of writes of the operations.                              *)

\* p does not write sector x.
Untouched(p, x) == \A w \in ToSet(p) : w.sector # x

\* The disk after the writes of p, whatever their order.
LEMMA AfterOf ==
    ASSUME NEW d, NEW p, WritesApart(p)
    PROVE  /\ \A w \in ToSet(p) : w.sector \in Sectors => After(d, p)[w.sector] = w.contents
           /\ \A x \in Sectors : Untouched(p, x) => After(d, p)[x] = d[x]
  <1>1. ASSUME NEW w \in ToSet(p), w.sector \in Sectors
        PROVE  After(d, p)[w.sector] = w.contents
    <2>1. PICK i \in DOMAIN p : p[i] = w
      BY DEF ToSet
    <2> QED BY <1>1, <2>1, AfterWritten
  <1>2. ASSUME NEW x \in Sectors, Untouched(p, x)
        PROVE  After(d, p)[x] = d[x]
    <2>1. \A i \in DOMAIN p : p[i] \in ToSet(p)
      BY DEF ToSet
    <2>2. \A i \in DOMAIN p : p[i].sector # x
      BY <1>2, <2>1 DEF Untouched
    <2> QED BY <2>2, AfterAt
  <1> QED BY <1>1, <1>2

\* Some writes after others, to other sectors; headers only before the others.
LEMMA JoinApart ==
    ASSUME NEW p \in Seq(Writes), NEW q \in Seq(Writes), WritesApart(p), WritesApart(q),
           \A v \in ToSet(p), w \in ToSet(q) : v.sector # w.sector,
           \A v \in ToSet(p) \cup ToSet(q) : v.contents.kind # "data",
           \/ \A v \in ToSet(p) : v.contents.kind = "header"
           \/ \A w \in ToSet(q) : w.contents.kind # "header"
    PROVE  /\ p \o q \in Seq(Writes) /\ WritesApart(p \o q)
           /\ ToSet(p \o q) = ToSet(p) \cup ToSet(q)
           /\ q # << >> => p \o q # << >>
  <1> DEFINE r == p \o q
             m == Len(p)
             n == Len(q)
  <1>1. /\ m \in Nat /\ n \in Nat /\ r \in Seq(Writes) /\ Len(r) = m + n
        /\ DOMAIN p = 1 .. m /\ DOMAIN q = 1 .. n /\ DOMAIN r = 1 .. m + n
        /\ \A i \in 1 .. m + n : r[i] = IF i <= m THEN p[i] ELSE q[i - m]
    <2>1. m \in Nat /\ n \in Nat /\ DOMAIN p = 1 .. m /\ DOMAIN q = 1 .. n
      BY LenProperties
    <2>2. /\ r \in Seq(Writes) /\ Len(r) = m + n
          /\ \A i \in 1 .. m + n : r[i] = IF i <= m THEN p[i] ELSE q[i - m]
      BY ConcatProperties
    <2>3. DOMAIN r = 1 .. m + n
      BY <2>2, LenProperties
    <2> QED BY <2>1, <2>2, <2>3
  <1> HIDE DEF r, m, n
  <1>2. /\ \A i \in 1 .. m : i \in 1 .. m + n /\ r[i] = p[i] /\ p[i] \in ToSet(p)
        /\ \A j \in 1 .. n : m + j \in 1 .. m + n /\ r[m + j] = q[j] /\ q[j] \in ToSet(q)
    <2>1. \A i \in 1 .. m : p[i] \in ToSet(p)
      BY <1>1 DEF ToSet
    <2>2. \A j \in 1 .. n : q[j] \in ToSet(q)
      BY <1>1 DEF ToSet
    <2>3. ASSUME NEW j \in 1 .. n
          PROVE  m + j \in 1 .. m + n /\ r[m + j] = q[j]
      <3>1. m + j \in 1 .. m + n /\ ~(m + j <= m) /\ (m + j) - m = j
        BY <1>1
      <3>2. r[m + j] = q[(m + j) - m]
        BY <1>1, <3>1
      <3> QED BY <3>1, <3>2
    <2> QED BY <1>1, <2>1, <2>2, <2>3
  <1>3. ASSUME NEW k \in 1 .. m + n
        PROVE  k \in 1 .. m \/ \E j \in 1 .. n : k = m + j
    <2>1. k \in 1 .. m \/ k - m \in 1 .. n
      BY <1>1
    <2> QED BY <1>1, <2>1
  <1>4. ToSet(r) = ToSet(p) \cup ToSet(q)
    <2>1. /\ ToSet(r) = {r[k] : k \in 1 .. m + n}
          /\ ToSet(p) = {p[k] : k \in 1 .. m}
          /\ ToSet(q) = {q[k] : k \in 1 .. n}
      BY <1>1 DEF ToSet
    <2>2. \A k \in 1 .. m + n : r[k] \in ToSet(p) \cup ToSet(q)
      BY <1>2, <1>3
    <2>3. \A k \in 1 .. m : p[k] \in ToSet(r)
      BY <1>2, <2>1
    <2>4. \A k \in 1 .. n : q[k] \in ToSet(r)
      BY <1>2, <2>1
    <2> QED BY <2>1, <2>2, <2>3, <2>4
  <1>5. ASSUME NEW i \in 1 .. m + n, NEW j \in 1 .. m + n, r[i].sector = r[j].sector
        PROVE  i = j
    <2>1. CASE i \in 1 .. m /\ j \in 1 .. m
      BY <1>1, <1>2, <1>5, <2>1 DEF WritesApart
    <2>2. CASE i \in 1 .. m /\ \E l \in 1 .. n : j = m + l
      BY <1>2, <1>5, <2>2
    <2>3. CASE j \in 1 .. m /\ \E l \in 1 .. n : i = m + l
      BY <1>2, <1>5, <2>3
    <2>4. ASSUME NEW k \in 1 .. n, i = m + k, NEW l \in 1 .. n, j = m + l
          PROVE  i = j
      <3>1. q[k].sector = q[l].sector
        BY <1>2, <1>5, <2>4
      <3> QED BY <1>1, <2>4, <3>1 DEF WritesApart
    <2> QED BY <1>3, <2>1, <2>2, <2>3, <2>4
  <1>6. ASSUME NEW i \in 1 .. m + n, NEW j \in 1 .. m + n, i < j, r[j].contents.kind = "header"
        PROVE  r[i].contents.kind = "header"
    <2>1. CASE j \in 1 .. m
      <3>1. i \in 1 .. m
        BY <1>1, <1>6, <2>1
      <3> QED BY <1>1, <1>2, <1>6, <2>1, <3>1 DEF WritesApart
    <2>2. ASSUME NEW l \in 1 .. n, j = m + l
          PROVE  r[i].contents.kind = "header"
      <3>1. \A v \in ToSet(p) : v.contents.kind = "header"
        BY <1>2, <1>6, <2>2
      <3>2. CASE i \in 1 .. m
        BY <1>2, <3>1, <3>2
      <3>3. ASSUME NEW k \in 1 .. n, i = m + k
            PROVE  r[i].contents.kind = "header"
        <4>1. k < l /\ q[l].contents.kind = "header"
          BY <1>1, <1>2, <1>6, <2>2, <3>3
        <4>2. q[k].contents.kind = "header"
          BY <1>1, <4>1 DEF WritesApart
        <4> QED BY <1>2, <3>3, <4>2
      <3> QED BY <1>3, <3>2, <3>3
    <2> QED BY <1>3, <2>1, <2>2
  <1>7. \A i \in 1 .. m + n : r[i].contents.kind # "data"
    BY <1>2, <1>3
  <1>8. WritesApart(r)
    BY <1>1, <1>5, <1>6, <1>7 DEF WritesApart
  <1>9. q # << >> => r # << >>
    <2>1. q # << >> => n # 0
      BY EmptySeq DEF n
    <2>2. r = << >> => Len(r) = 0
      BY <1>1, EmptySeq
    <2> QED BY <1>1, <2>1, <2>2
  <1> QED BY <1>1, <1>4, <1>8, <1>9 DEF r

\* n writes of one kind to sectors of their own.
LEMMA WritesOfKind ==
    ASSUME NEW n \in Nat, NEW p, p = [i \in 1 .. n |-> p[i]], \A i \in 1 .. n : p[i] \in Writes,
           \A i, j \in 1 .. n : p[i].sector = p[j].sector => i = j,
           NEW kind, \A i \in 1 .. n : p[i].contents.kind = kind
    PROVE  /\ p \in Seq(Writes) /\ WritesApart(p) /\ (n # 0 => p # << >>)
           /\ ToSet(p) = {p[i] : i \in 1 .. n}
           /\ \A w \in ToSet(p) : w.contents.kind = kind
  <1>1. p \in Seq(Writes) /\ DOMAIN p = 1 .. n
    <2>1. p \in [1 .. n -> Writes]
      OBVIOUS
    <2> QED BY <2>1, SeqDef
  <1>2. WritesApart(p)
    BY <1>1 DEF WritesApart
  <1>3. n # 0 => p # << >>
    <2>1. p = << >> => DOMAIN p = {}
      OBVIOUS
    <2>2. n # 0 => 1 \in 1 .. n
      OBVIOUS
    <2> QED BY <1>1, <2>1, <2>2
  <1>4. ToSet(p) = {p[i] : i \in 1 .. n}
    BY <1>1 DEF ToSet
  <1> QED BY <1>1, <1>2, <1>3, <1>4

\* FileHeader::WriteBack writes every header of a file where the file has it.
LEMMA HeaderWritesAre ==
    ASSUME NEW h, NEW s, FileHeaders(h, s)
    PROVE  /\ HeaderWrites(s, h) \in Seq(Writes) /\ WritesApart(HeaderWrites(s, h))
           /\ HeaderWrites(s, h) # << >>
           /\ ToSet(HeaderWrites(s, h)) = {Write1(SectorAt(h, s, i, 0), h[i]) : i \in 1 .. Len(h)}
           /\ \A w \in ToSet(HeaderWrites(s, h)) :
                w.contents.kind = "header" /\ w.sector \in HeadersOf(h, s)
  <1> DEFINE p == HeaderWrites(s, h)
             n == Len(h)
  <1>1. h \in Seq(Headers) /\ n \in Nat /\ n # 0 /\ DOMAIN h = 1 .. n
    <2>1. h \in Seq(Headers) /\ Len(h) >= 1
      BY DEF FileHeaders
    <2> QED BY <2>1, LenProperties
  <1>2. /\ p = [i \in 1 .. n |-> p[i]]
        /\ \A i \in 1 .. n : p[i] = Write1(SectorAt(h, s, i, 0), h[i])
    BY <1>1 DEF HeaderWrites, SectorAt
  <1> HIDE DEF p, n
  <1>3. \A i \in 1 .. n : /\ p[i].sector = SectorAt(h, s, i, 0) /\ p[i].contents = h[i]
                          /\ h[i] \in Headers /\ h[i].kind = "header"
    <2>1. \A i \in 1 .. n : h[i] \in Headers
      BY <1>1, ElementOfSeq DEF n
    <2> QED BY <1>2, <2>1 DEF Write1, Headers
  <1>4. \A i \in 1 .. n : IsPlace(h, FALSE, i, 0) /\ i \in Nat /\ 0 \in Nat
    <2>1. \A i \in 1 .. n : h[i].dataSectors \in Seq(Sectors)
      BY <1>3 DEF Headers
    <2>2. \A i \in 1 .. n : Len(h[i].dataSectors) \in Nat
      BY <2>1, LenProperties
    <2> QED BY <1>1, <2>2 DEF IsPlace, n
  <1>5. /\ \A i \in 1 .. n : SectorAt(h, s, i, 0) \in Sectors
        /\ \A i, j \in 1 .. n : SectorAt(h, s, i, 0) = SectorAt(h, s, j, 0) => i = j
    BY <1>4 DEF FileHeaders
  <1>6. \A i \in 1 .. n : p[i] \in Writes
    <2>1. \A i \in 1 .. n : h[i] \in SectorContents
      BY <1>3 DEF SectorContents
    <2> QED BY <1>2, <1>5, <2>1 DEF Writes, Write1
  <1>7. /\ p \in Seq(Writes) /\ WritesApart(p) /\ p # << >>
        /\ ToSet(p) = {p[i] : i \in 1 .. n}
        /\ \A w \in ToSet(p) : w.contents.kind = "header"
    <2>1. \A i, j \in 1 .. n : p[i].sector = p[j].sector => i = j
      BY <1>3, <1>5
    <2>2. \A i \in 1 .. n : p[i].contents.kind = "header"
      BY <1>3
    <2> QED BY <1>1, <1>2, <1>6, <2>1, <2>2, WritesOfKind
  <1>8. ToSet(p) = {Write1(SectorAt(h, s, i, 0), h[i]) : i \in 1 .. n}
    BY <1>2, <1>7
  <1>9. \A w \in ToSet(p) : w.sector \in HeadersOf(h, s)
    BY <1>3, <1>7 DEF HeadersOf, n
  <1> QED BY <1>7, <1>8, <1>9 DEF p, n

\* PersistentBitmap::WriteBack writes every part of the map.
LEMMA MapWritesAre ==
    ASSUME NEW M \in SUBSET Sectors
    PROVE  /\ MapWrites(M) \in Seq(Writes) /\ WritesApart(MapWrites(M))
           /\ ToSet(MapWrites(M)) = {Write1(MapSector(i), MapPart(M, i)) : i \in 1 .. MapParts}
           /\ \A w \in ToSet(MapWrites(M)) :
                w.contents.kind = "map" /\ \E i \in 1 .. MapParts : w.sector = MapSector(i)
  <1> DEFINE p == MapWrites(M)
  <1>1. /\ p = [i \in 1 .. MapParts |-> p[i]]
        /\ \A i \in 1 .. MapParts : p[i] = Write1(MapSector(i), MapPart(M, i))
    BY DEF MapWrites
  <1> HIDE DEF p
  <1>2. \A i \in 1 .. MapParts : p[i].sector = MapSector(i) /\ p[i].contents = MapPart(M, i)
    BY <1>1 DEF Write1
  <1>3. MapParts \in Nat
    BY MapPartsNat
  <1>4. \A i \in 1 .. MapParts : p[i] \in Writes /\ p[i].contents.kind = "map"
    <2>1. \A i \in 1 .. MapParts : MapPart(M, i) \in SectorContents
      BY DEF MapContents, SectorContents
    <2>2. \A i \in 1 .. MapParts : MapPart(M, i).kind = "map"
      BY DEF MapPart
    <2>3. \A i \in 1 .. MapParts : MapSector(i) \in Sectors
      BY SystemSectors
    <2>4. \A i \in 1 .. MapParts : p[i] \in Writes
      BY <1>1, <2>1, <2>3 DEF Writes, Write1
    <2>5. ASSUME NEW i \in 1 .. MapParts
          PROVE  p[i].contents.kind = "map"
      BY <1>2, <2>2
    <2> QED BY <2>4, <2>5
  <1>5. /\ p \in Seq(Writes) /\ WritesApart(p)
        /\ ToSet(p) = {p[i] : i \in 1 .. MapParts}
        /\ \A w \in ToSet(p) : w.contents.kind = "map"
    <2>1. \A i, j \in 1 .. MapParts : p[i].sector = p[j].sector => i = j
      BY <1>2, SystemSectors
    <2>2. \A i \in 1 .. MapParts : p[i] \in Writes
      BY <1>4
    <2>3. \A i \in 1 .. MapParts : p[i].contents.kind = "map"
      BY <1>4
    <2> QED BY <1>1, <1>3, <2>1, <2>2, <2>3, WritesOfKind
  <1>6. ToSet(p) = {Write1(MapSector(i), MapPart(M, i)) : i \in 1 .. MapParts}
    BY <1>1, <1>5
  <1>7. \A w \in ToSet(p) : \E i \in 1 .. MapParts : w.sector = MapSector(i)
    BY <1>2, <1>5
  <1> QED BY <1>5, <1>6, <1>7 DEF p

\* Directory::WriteBack writes both of its parts.
LEMMA DirWritesAre ==
    ASSUME NEW dir \in Dirs
    PROVE  /\ DirWrites(dir) \in Seq(Writes) /\ WritesApart(DirWrites(dir))
           /\ DirWrites(dir) # << >>
           /\ ToSet(DirWrites(dir)) = {Write1(DirSector(i), DirPart(dir, i)) : i \in 1 .. 2}
           /\ \A w \in ToSet(DirWrites(dir)) :
                w.contents.kind = "dir" /\ \E i \in 1 .. 2 : w.sector = DirSector(i)
  <1> DEFINE p == DirWrites(dir)
  <1>1. /\ p = [i \in 1 .. 2 |-> p[i]]
        /\ \A i \in 1 .. 2 : p[i] = Write1(DirSector(i), DirPart(dir, i))
    BY DEF DirWrites
  <1> HIDE DEF p
  <1>2. \A i \in 1 .. 2 : p[i].sector = DirSector(i) /\ p[i].contents = DirPart(dir, i)
    BY <1>1 DEF Write1
  <1>3. \A i \in 1 .. 2 : p[i] \in Writes /\ p[i].contents.kind = "dir"
    <2>1. \A i \in 1 .. 2 : DirPart(dir, i) \in SectorContents
      BY DEF DirContents, SectorContents
    <2>2. \A i \in 1 .. 2 : DirPart(dir, i).kind = "dir"
      BY DEF DirPart
    <2>3. \A i \in 1 .. 2 : DirSector(i) \in Sectors
      BY SystemSectors
    <2>4. \A i \in 1 .. 2 : p[i] \in Writes
      BY <1>1, <2>1, <2>3 DEF Writes, Write1
    <2>5. ASSUME NEW i \in 1 .. 2
          PROVE  p[i].contents.kind = "dir"
      BY <1>2, <2>2
    <2> QED BY <2>4, <2>5
  <1>4. /\ p \in Seq(Writes) /\ WritesApart(p) /\ p # << >>
        /\ ToSet(p) = {p[i] : i \in 1 .. 2}
        /\ \A w \in ToSet(p) : w.contents.kind = "dir"
    <2>1. \A i, j \in 1 .. 2 : p[i].sector = p[j].sector => i = j
      BY <1>2, SystemSectors
    <2>2. \A i \in 1 .. 2 : p[i] \in Writes
      BY <1>3
    <2>3. \A i \in 1 .. 2 : p[i].contents.kind = "dir"
      BY <1>3
    <2>4. 2 \in Nat /\ 2 # 0
      OBVIOUS
    <2> QED BY <1>1, <2>1, <2>2, <2>3, <2>4, WritesOfKind
  <1>5. ToSet(p) = {Write1(DirSector(i), DirPart(dir, i)) : i \in 1 .. 2}
    BY <1>1, <1>4
  <1>6. \A w \in ToSet(p) : \E i \in 1 .. 2 : w.sector = DirSector(i)
    BY <1>2, <1>4
  <1> QED BY <1>4, <1>5, <1>6 DEF p

\* What has been written is there.
LEMMA AfterWrite1 ==
    ASSUME NEW d, NEW p, WritesApart(p), NEW x \in Sectors, NEW c, Write1(x, c) \in ToSet(p)
    PROVE  After(d, p)[x] = c
  <1>1. PICK w : w = Write1(x, c)
    OBVIOUS
  <1>2. w.sector = x /\ w.contents = c
    BY <1>1 DEF Write1
  <1>3. w \in ToSet(p)
    BY <1>1
  <1> QED BY <1>2, <1>3, AfterOf

\* The map and the directory are read back as they were written.
LEMMA SystemWritten ==
    ASSUME NEW o, NEW M \in SUBSET Sectors, NEW dir \in Dirs,
           \A i \in 1 .. MapParts : o[MapSector(i)] = MapPart(M, i),
           \A p \in 1 .. 2 : o[DirSector(p)] = DirPart(dir, p)
    PROVE  SystemParts(o) /\ FetchMap(o) = M /\ FetchDir(o) = dir /\ Use(o) = dir.use
  <1>1. SystemParts(o)
    BY DEF SystemParts, IsMapPart, IsDirPart
  <1>2. FetchMap(o) = M
    BY FetchMapReads
  <1>3. FetchDir(o) = dir
    BY FetchDirReads
  <1> QED BY <1>1, <1>2, <1>3 DEF Use

\* A file whose headers are on the disk to come is there.
LEMMA FileWritten ==
    ASSUME NEW o, NEW h, NEW s, FileHeaders(h, s), \A i \in 1 .. Len(h) : o[SectorAt(h, s, i, 0)] = h[i]
    PROVE  HasFile(o, s) /\ FetchFrom(o, s) = h /\ FileOf(o, s) = SectorsOf(h, s)
  <1>1. OnDisk(o, s, h)
    BY DEF OnDisk
  <1>2. FetchFrom(o, s) = h
    BY <1>1, FetchReads
  <1> QED BY <1>1, <1>2 DEF HasFile, FileOf

\* A header sector of a file is on the disk.
LEMMA HeaderSector ==
    ASSUME NEW h, NEW s, FileHeaders(h, s), NEW i \in 1 .. Len(h)
    PROVE  SectorAt(h, s, i, 0) \in HeadersOf(h, s) /\ SectorAt(h, s, i, 0) \in Sectors
  <1>1. SectorAt(h, s, i, 0) \in HeadersOf(h, s)
    BY DEF HeadersOf
  <1> QED BY <1>1, FileParts

\* The directory that formatting writes.
LEMMA EmptyDirIs ==
    EmptyDir \in Dirs /\ RootsOf(EmptyDir.use) = {FreeMapSector, DirectorySector}
  <1>1. EmptyDir \in Dirs
    BY DEF EmptyDir, Dirs
  <1>2. \A i \in Entries : EmptyDir.use[i] = NoSector
    BY DEF EmptyDir
  <1> QED BY <1>1, <1>2 DEF RootsOf

\* Formatting leaves the two system files and an empty directory.
LEMMA FormatReady ==
    ASSUME NEW d
    PROVE  /\ FormatWrites \in Seq(Writes) /\ FormatWrites # << >> /\ WritesApart(FormatWrites)
           /\ Good(After(d, FormatWrites)) /\ Agreed(After(d, FormatWrites))
  <1>1. PICK a, b : a = MapAlloc.hdrs /\ b = DirAlloc.hdrs
    OBVIOUS
  <1>2. PICK M : M = DirAlloc.map
    OBVIOUS
  <1> DEFINE A == HeaderWrites(FreeMapSector, a)
             B == HeaderWrites(DirectorySector, b)
             C == MapWrites(M)
             D == DirWrites(EmptyDir)
  <1>3. /\ FileHeaders(a, FreeMapSector) /\ FileHeaders(b, DirectorySector)
        /\ SectorsOf(a, FreeMapSector) \cap SectorsOf(b, DirectorySector) = {}
        /\ SectorsOf(a, FreeMapSector) \cup SectorsOf(b, DirectorySector) = M
        /\ M \in SUBSET Sectors
    BY <1>1, <1>2, SystemFiles
  <1>4. /\ \A i \in 1 .. MapParts : MapSector(i) \in DataSectors(a)
        /\ \A i \in 1 .. 2 : DirSector(i) \in DataSectors(b)
        /\ \A i \in 1 .. MapParts, j \in 1 .. 2 : MapSector(i) # DirSector(j)
        /\ \A i \in 1 .. MapParts : MapSector(i) \in Sectors
        /\ \A i \in 1 .. 2 : DirSector(i) \in Sectors
    BY <1>1, SystemSectors
  <1>5. /\ SectorsOf(a, FreeMapSector) = DataSectors(a) \cup HeadersOf(a, FreeMapSector)
        /\ DataSectors(a) \cap HeadersOf(a, FreeMapSector) = {}
        /\ SectorsOf(b, DirectorySector) = DataSectors(b) \cup HeadersOf(b, DirectorySector)
        /\ DataSectors(b) \cap HeadersOf(b, DirectorySector) = {}
    BY <1>3, FileParts
  <1>6. /\ A \in Seq(Writes) /\ WritesApart(A)
        /\ ToSet(A) = {Write1(SectorAt(a, FreeMapSector, i, 0), a[i]) : i \in 1 .. Len(a)}
        /\ \A w \in ToSet(A) :
             w.contents.kind = "header" /\ w.sector \in HeadersOf(a, FreeMapSector)
    BY <1>3, HeaderWritesAre
  <1>7. /\ B \in Seq(Writes) /\ WritesApart(B)
        /\ ToSet(B) = {Write1(SectorAt(b, DirectorySector, i, 0), b[i]) : i \in 1 .. Len(b)}
        /\ \A w \in ToSet(B) :
             w.contents.kind = "header" /\ w.sector \in HeadersOf(b, DirectorySector)
    BY <1>3, HeaderWritesAre
  <1>8. /\ C \in Seq(Writes) /\ WritesApart(C)
        /\ ToSet(C) = {Write1(MapSector(i), MapPart(M, i)) : i \in 1 .. MapParts}
        /\ \A w \in ToSet(C) :
             w.contents.kind = "map" /\ \E i \in 1 .. MapParts : w.sector = MapSector(i)
    BY <1>3, MapWritesAre
  <1>9. /\ D \in Seq(Writes) /\ WritesApart(D) /\ D # << >>
        /\ ToSet(D) = {Write1(DirSector(i), DirPart(EmptyDir, i)) : i \in 1 .. 2}
        /\ \A w \in ToSet(D) :
             w.contents.kind = "dir" /\ \E i \in 1 .. 2 : w.sector = DirSector(i)
    BY EmptyDirIs, DirWritesAre
  <1> HIDE DEF A, B, C, D
  <1>10. /\ A \o B \in Seq(Writes) /\ WritesApart(A \o B)
         /\ ToSet(A \o B) = ToSet(A) \cup ToSet(B)
    <2>1. \A v \in ToSet(A), w \in ToSet(B) : v.sector # w.sector
      BY <1>3, <1>5, <1>6, <1>7
    <2>2. \A v \in ToSet(A) \cup ToSet(B) : v.contents.kind # "data"
      BY <1>6, <1>7
    <2>3. \A v \in ToSet(A) : v.contents.kind = "header"
      BY <1>6
    <2> QED BY <1>6, <1>7, <2>1, <2>2, <2>3, JoinApart
  <1>11. PICK P : P = A \o B
    OBVIOUS
  <1>12. /\ P \o C \in Seq(Writes) /\ WritesApart(P \o C)
         /\ ToSet(P \o C) = ToSet(P) \cup ToSet(C)
    <2>1. \A v \in ToSet(P), w \in ToSet(C) : v.sector # w.sector
      BY <1>3, <1>4, <1>5, <1>6, <1>7, <1>8, <1>10, <1>11
    <2>2. \A v \in ToSet(P) \cup ToSet(C) : v.contents.kind # "data"
      BY <1>6, <1>7, <1>8, <1>10, <1>11
    <2>3. \A w \in ToSet(C) : w.contents.kind # "header"
      BY <1>8
    <2> QED BY <1>8, <1>10, <1>11, <2>1, <2>2, <2>3, JoinApart
  <1>13. PICK Q : Q = P \o C
    OBVIOUS
  <1>14. /\ Q \o D \in Seq(Writes) /\ WritesApart(Q \o D) /\ Q \o D # << >>
         /\ ToSet(Q \o D) = ToSet(Q) \cup ToSet(D)
    <2>1. ASSUME NEW v \in ToSet(Q), NEW w \in ToSet(D)
          PROVE  v.sector # w.sector
      <3>1. PICK j \in 1 .. 2 : w.sector = DirSector(j)
        BY <1>9
      <3>2. v \in ToSet(A) \/ v \in ToSet(B) \/ v \in ToSet(C)
        BY <1>10, <1>11, <1>12, <1>13
      <3>3. CASE v \in ToSet(A)
        BY <1>3, <1>4, <1>5, <1>6, <3>1, <3>3
      <3>4. CASE v \in ToSet(B)
        BY <1>4, <1>5, <1>7, <3>1, <3>4
      <3>5. CASE v \in ToSet(C)
        BY <1>4, <1>8, <3>1, <3>5
      <3> QED BY <3>2, <3>3, <3>4, <3>5
    <2>2. \A v \in ToSet(Q) \cup ToSet(D) : v.contents.kind # "data"
      BY <1>6, <1>7, <1>8, <1>9, <1>10, <1>11, <1>12, <1>13
    <2>3. \A w \in ToSet(D) : w.contents.kind # "header"
      BY <1>9
    <2> QED BY <1>9, <1>12, <1>13, <2>1, <2>2, <2>3, JoinApart
  <1>15. FormatWrites = Q \o D
    BY <1>1, <1>2, <1>11, <1>13 DEF FormatWrites, A, B, C, D
  <1>16. PICK p, o : p = FormatWrites /\ o = After(d, p)
    OBVIOUS
  <1>17. /\ WritesApart(p) /\ ToSet(A) \subseteq ToSet(p) /\ ToSet(B) \subseteq ToSet(p)
         /\ ToSet(C) \subseteq ToSet(p) /\ ToSet(D) \subseteq ToSet(p)
    BY <1>10, <1>11, <1>12, <1>13, <1>14, <1>15, <1>16
  <1>18. /\ HasFile(o, FreeMapSector) /\ FetchFrom(o, FreeMapSector) = a
         /\ FileOf(o, FreeMapSector) = SectorsOf(a, FreeMapSector)
    <2>1. ASSUME NEW i \in 1 .. Len(a)
          PROVE  o[SectorAt(a, FreeMapSector, i, 0)] = a[i]
      <3>1. Write1(SectorAt(a, FreeMapSector, i, 0), a[i]) \in ToSet(p)
        BY <1>6, <1>17
      <3>2. SectorAt(a, FreeMapSector, i, 0) \in Sectors
        BY <1>3, HeaderSector
      <3> QED BY <1>16, <1>17, <3>1, <3>2, AfterWrite1
    <2> QED BY <1>3, <2>1, FileWritten
  <1>19. /\ HasFile(o, DirectorySector) /\ FetchFrom(o, DirectorySector) = b
         /\ FileOf(o, DirectorySector) = SectorsOf(b, DirectorySector)
    <2>1. ASSUME NEW i \in 1 .. Len(b)
          PROVE  o[SectorAt(b, DirectorySector, i, 0)] = b[i]
      <3>1. Write1(SectorAt(b, DirectorySector, i, 0), b[i]) \in ToSet(p)
        BY <1>7, <1>17
      <3>2. SectorAt(b, DirectorySector, i, 0) \in Sectors
        BY <1>3, HeaderSector
      <3> QED BY <1>16, <1>17, <3>1, <3>2, AfterWrite1
    <2> QED BY <1>3, <2>1, FileWritten
  <1>20. SystemParts(o) /\ FetchMap(o) = M /\ Use(o) = EmptyDir.use
    <2>1. ASSUME NEW i \in 1 .. MapParts
          PROVE  o[MapSector(i)] = MapPart(M, i)
      <3>1. Write1(MapSector(i), MapPart(M, i)) \in ToSet(p)
        BY <1>8, <1>17
      <3> QED BY <1>4, <1>16, <1>17, <3>1, AfterWrite1
    <2>2. ASSUME NEW i \in 1 .. 2
          PROVE  o[DirSector(i)] = DirPart(EmptyDir, i)
      <3>1. Write1(DirSector(i), DirPart(EmptyDir, i)) \in ToSet(p)
        BY <1>9, <1>17
      <3> QED BY <1>4, <1>16, <1>17, <3>1, AfterWrite1
    <2> QED BY <1>3, <2>1, <2>2, EmptyDirIs, SystemWritten
  <1>21. RootsOf(Use(o)) = {FreeMapSector, DirectorySector}
    BY <1>20, EmptyDirIs
  <1>22. HasFiles(o, RootsOf(Use(o)))
    BY <1>3, <1>18, <1>19, <1>21 DEF HasFiles
  <1>23. \A i \in Entries : Use(o)[i] = NoSector
    BY <1>20 DEF EmptyDir
  <1>24. FreeMapSector # NoSector /\ DirectorySector # NoSector
    BY DEF FreeMapSector, DirectorySector, NoSector
  <1>25. Good(o)
    BY <1>1, <1>18, <1>19, <1>20, <1>22, <1>23, <1>24 DEF Good
  <1>26. OwnedBy(o, RootsOf(Use(o))) = M
    BY <1>3, <1>18, <1>19, <1>21 DEF OwnedBy
  <1>27. Agreed(o)
    BY <1>20, <1>26 DEF Agreed
  <1> QED BY <1>14, <1>15, <1>16, <1>25, <1>27

\* The search from entry 0 upwards finds the first one.
LEMMA LowestIs ==
    ASSUME NEW S \in SUBSET Entries, S # {}
    PROVE  Lowest(S) \in S
  <1>1. S \in SUBSET Nat
    BY FileSysAssumption DEF Entries
  <1>2. \E i \in S : \A j \in S : i <= j
    BY <1>1, LeastNat
  <1> QED BY <1>2 DEF Lowest

\* Find returns what an entry names.
LEMMA FindIs ==
    ASSUME NEW dir \in Dirs, NEW n, Find(dir, n) # NoSector
    PROVE  /\ Lowest(Found(dir, n)) \in Entries
           /\ dir.use[Lowest(Found(dir, n))] = Find(dir, n)
           /\ Find(dir, n) \in RootsOf(dir.use)
  <1>1. Found(dir, n) # {} /\ Found(dir, n) \in SUBSET Entries
    BY DEF Find, Found, InUse
  <1>2. Lowest(Found(dir, n)) \in Entries
    BY <1>1, LowestIs
  <1>3. dir.use[Lowest(Found(dir, n))] = Find(dir, n)
    BY <1>1 DEF Find
  <1> QED BY <1>2, <1>3 DEF RootsOf

\* The entry taken out of the directory.
LEMMA RemoveEntryIs ==
    ASSUME NEW dir \in Dirs, NEW n, NEW i \in Entries, i = Lowest(Found(dir, n))
    PROVE  /\ RemoveEntry(dir, n) \in Dirs
           /\ RemoveEntry(dir, n).use[i] = NoSector
           /\ \A j \in Entries \ {i} : RemoveEntry(dir, n).use[j] = dir.use[j]
  <1>1. PICK u, m : u = dir.use /\ m = dir.name
    OBVIOUS
  <1>2. /\ dir = [use |-> u, name |-> m] /\ u \in [Entries -> Sectors \cup {NoSector}]
        /\ m \in [Entries -> Names \cup {NoName}]
    BY <1>1 DEF Dirs
  <1>3. RemoveEntry(dir, n) = [use |-> [u EXCEPT ![i] = NoSector], name |-> m]
    BY <1>2 DEF RemoveEntry
  <1>4. [u EXCEPT ![i] = NoSector] \in [Entries -> Sectors \cup {NoSector}]
    BY <1>2
  <1>5. RemoveEntry(dir, n) \in Dirs
    BY <1>2, <1>3, <1>4 DEF Dirs
  <1>6. RemoveEntry(dir, n).use = [u EXCEPT ![i] = NoSector]
    BY <1>3
  <1> QED BY <1>1, <1>2, <1>5, <1>6

\* Remove leaves the other files, and marks the rest of what it had.
LEMMA RemoveReady ==
    ASSUME NEW d, Good(d), Agreed(d), NEW n, NEW s, s = Find(FetchDir(d), n), s # NoSector,
           NEW h, h = FetchFrom(d, s), NEW p,
           p = RemoveWrites(s, h, RemoveEntry(FetchDir(d), n), FetchMap(d))
    PROVE  /\ DataSectors(h) \subseteq FetchMap(d)
           /\ p \in Seq(Writes) /\ p # << >> /\ WritesApart(p)
           /\ Good(After(d, p)) /\ Agreed(After(d, p)) /\ Midway(d, p)
  <1>1. PICK dir, map, u : dir = FetchDir(d) /\ map = FetchMap(d) /\ u = dir.use
    OBVIOUS
  <1>2. PICK i, new, v : i = Lowest(Found(dir, n)) /\ new = RemoveEntry(dir, n) /\ v = new.use
    OBVIOUS
  <1>3. PICK M : M = Deallocate(map, h) \ {s}
    OBVIOUS
  <1>4. PICK o : o = After(d, p)
    OBVIOUS
  <1>5. dir \in Dirs /\ map \in SUBSET Sectors /\ u = Use(d) /\ i \in Entries /\ u[i] = s
    BY <1>1, <1>2, FetchedMap, FetchedDir, FindIs DEF Good, Use
  <1>6. new \in Dirs /\ v[i] = NoSector /\ \A j \in Entries \ {i} : v[j] = u[j]
    <2>1. dir \in Dirs /\ i \in Entries /\ i = Lowest(Found(dir, n))
      BY <1>2, <1>5
    <2>2. /\ RemoveEntry(dir, n) \in Dirs /\ RemoveEntry(dir, n).use[i] = NoSector
          /\ \A j \in Entries \ {i} : RemoveEntry(dir, n).use[j] = dir.use[j]
      BY <2>1, RemoveEntryIs
    <2> QED BY <1>1, <1>2, <2>2
  <1>7. /\ \A j \in Entries : u[j] = s => j = i
        /\ \A j \in Entries : u[j] \notin {FreeMapSector, DirectorySector}
        /\ \A j, k \in Entries : u[j] # NoSector /\ u[j] = u[k] => j = k
    <2>1. /\ \A j, k \in Entries : u[j] # NoSector /\ u[j] = u[k] => j = k
          /\ \A j \in Entries : u[j] \notin {FreeMapSector, DirectorySector}
      BY <1>5 DEF Good
    <2>2. \A j \in Entries : u[j] = s => j = i
      BY <1>5, <2>1
    <2> QED BY <2>1, <2>2
  <1>8. /\ s \in RootsOf(u) /\ RootsOf(v) \subseteq RootsOf(u) \ {s}
        /\ RootsOf(u) \subseteq RootsOf(v) \cup {s}
    BY <1>5, <1>6, <1>7 DEF RootsOf
  <1>9. HasFiles(d, RootsOf(u)) /\ HasFile(d, s) /\ FileHeaders(h, s)
    BY <1>5, <1>8 DEF Good, HasFiles, HasFile
  <1>10. /\ FileOf(d, s) = DataSectors(h) \cup HeadersOf(h, s)
         /\ DataSectors(h) \cap HeadersOf(h, s) = {} /\ s \in HeadersOf(h, s)
    BY <1>9, FileParts DEF FileOf
  <1>11. OwnedBy(d, RootsOf(u)) \subseteq map /\ FileOf(d, s) \subseteq OwnedBy(d, RootsOf(u))
    BY <1>1, <1>5, <1>8 DEF Agreed, OwnedBy
  <1>12. DataSectors(h) \subseteq FetchMap(d)
    BY <1>1, <1>10, <1>11
  <1>13. M = map \ (DataSectors(h) \cup {s}) /\ M \in SUBSET Sectors
    BY <1>3, <1>5 DEF Deallocate
  <1> DEFINE C == MapWrites(M)
             D == DirWrites(new)
  <1>14. /\ C \in Seq(Writes) /\ WritesApart(C)
         /\ ToSet(C) = {Write1(MapSector(k), MapPart(M, k)) : k \in 1 .. MapParts}
         /\ \A w \in ToSet(C) :
              w.contents.kind = "map" /\ \E k \in 1 .. MapParts : w.sector = MapSector(k)
    BY <1>13, MapWritesAre
  <1>15. /\ D \in Seq(Writes) /\ WritesApart(D) /\ D # << >>
         /\ ToSet(D) = {Write1(DirSector(k), DirPart(new, k)) : k \in 1 .. 2}
         /\ \A w \in ToSet(D) :
              w.contents.kind = "dir" /\ \E k \in 1 .. 2 : w.sector = DirSector(k)
    BY <1>6, DirWritesAre
  <1>16. p = C \o D
    BY <1>1, <1>2, <1>3 DEF RemoveWrites
  <1> HIDE DEF C, D
  <1>17. p \in Seq(Writes) /\ WritesApart(p) /\ p # << >> /\ ToSet(p) = ToSet(C) \cup ToSet(D)
    <2>1. \A a \in ToSet(C), b \in ToSet(D) : a.sector # b.sector
      BY <1>14, <1>15, SystemSectors
    <2>2. \A a \in ToSet(C) \cup ToSet(D) : a.contents.kind # "data"
      BY <1>14, <1>15
    <2>3. \A b \in ToSet(D) : b.contents.kind # "header"
      BY <1>15
    <2> QED BY <1>14, <1>15, <1>16, <2>1, <2>2, <2>3, JoinApart
  <1>18. SystemParts(o) /\ FetchMap(o) = M /\ Use(o) = v
    <2>1. ASSUME NEW k \in 1 .. MapParts
          PROVE  o[MapSector(k)] = MapPart(M, k)
      <3>1. Write1(MapSector(k), MapPart(M, k)) \in ToSet(p)
        BY <1>14, <1>17
      <3>2. MapSector(k) \in Sectors
        BY SystemSectors
      <3> QED BY <1>4, <1>17, <3>1, <3>2, AfterWrite1
    <2>2. ASSUME NEW k \in 1 .. 2
          PROVE  o[DirSector(k)] = DirPart(new, k)
      <3>1. Write1(DirSector(k), DirPart(new, k)) \in ToSet(p)
        BY <1>15, <1>17
      <3>2. DirSector(k) \in Sectors
        BY SystemSectors
      <3> QED BY <1>4, <1>17, <3>1, <3>2, AfterWrite1
    <2> QED BY <1>2, <1>6, <1>13, <2>1, <2>2, SystemWritten
  <1>19. ASSUME NEW x \in Sectors, d[x].kind = "header"
         PROVE  o[x] = d[x]
    <2>1. /\ \A k \in 1 .. MapParts : MapSector(k) # x
          /\ \A k \in 1 .. 2 : DirSector(k) # x
      BY <1>19, SystemOwned
    <2>2. Untouched(p, x)
      BY <1>14, <1>15, <1>17, <2>1 DEF Untouched
    <2> QED BY <1>4, <1>17, <2>2, AfterOf
  <1>20. /\ HasFiles(o, RootsOf(u))
         /\ \A t \in RootsOf(u) : FetchFrom(o, t) = FetchFrom(d, t) /\ FileOf(o, t) = FileOf(d, t)
    BY <1>9, <1>19, HeadersKept
  <1>21. HasFiles(o, RootsOf(v))
    BY <1>8, <1>20 DEF HasFiles
  <1>22. Good(o)
    <2>1. FetchFrom(o, FreeMapSector) = MapAlloc.hdrs /\ FetchFrom(o, DirectorySector) = DirAlloc.hdrs
      BY <1>20 DEF Good, RootsOf
    <2>2. \A j, k \in Entries : v[j] # NoSector /\ v[j] = v[k] => j = k
      BY <1>6, <1>7
    <2>3. \A j \in Entries : v[j] \notin {FreeMapSector, DirectorySector}
      BY <1>6, <1>7 DEF NoSector, FreeMapSector, DirectorySector
    <2> QED BY <1>18, <1>21, <2>1, <2>2, <2>3 DEF Good
  <1>23. Agreed(o)
    <2>1. ASSUME NEW t \in RootsOf(v)
          PROVE  FileOf(o, t) \subseteq M
      <3>1. t \in RootsOf(u) /\ t # s
        BY <1>8
      <3>2. FileOf(o, t) = FileOf(d, t) /\ FileOf(d, t) \cap FileOf(d, s) = {}
        BY <1>8, <1>9, <1>20, <3>1 DEF HasFiles
      <3>3. FileOf(d, t) \subseteq map
        BY <1>11, <3>1 DEF OwnedBy
      <3> QED BY <1>10, <1>13, <3>2, <3>3
    <2>2. OwnedBy(o, RootsOf(v)) \subseteq M
      BY <2>1 DEF OwnedBy
    <2>3. ASSUME NEW x \in M \ OwnedBy(o, RootsOf(v))
          PROVE  o[x].kind = "header"
      <3>1. x \in Sectors /\ x \in map /\ x \notin DataSectors(h)
        BY <1>13
      <3>2. CASE x \notin OwnedBy(d, RootsOf(u))
        <4>1. d[x].kind = "header"
          BY <1>1, <1>5, <3>1, <3>2 DEF Agreed
        <4> QED BY <1>19, <3>1, <4>1
      <3>3. CASE x \in OwnedBy(d, RootsOf(u))
        <4>1. PICK t \in RootsOf(u) : x \in FileOf(d, t)
          BY <3>3 DEF OwnedBy
        <4>2. t = s
          BY <1>8, <1>20, <2>3, <4>1 DEF OwnedBy
        <4>3. x \in HeadersOf(h, s)
          BY <1>10, <3>1, <4>1, <4>2
        <4>4. d[x].kind = "header"
          BY <1>9, <4>3, HeadersThere
        <4> QED BY <1>19, <3>1, <4>4
      <3> QED BY <3>2, <3>3
    <2> QED BY <1>18, <2>2, <2>3 DEF Agreed
  <1>24. Midway(d, p)
    <2>1. HasFiles(o, RootsOf(u) \cup RootsOf(v))
      <3>1. RootsOf(u) \cup RootsOf(v) = RootsOf(u)
        BY <1>8
      <3> QED BY <1>20, <3>1
    <2>2. OneEntry(u, v)
      BY <1>5, <1>6 DEF OneEntry
    <2>3. \A k \in DOMAIN p : p[k].contents.kind # "header"
      <3>1. \A k \in DOMAIN p : p[k] \in ToSet(p)
        BY DEF ToSet
      <3> QED BY <1>14, <1>15, <1>17, <3>1
    <2> QED BY <1>4, <1>5, <1>18, <2>1, <2>2, <2>3 DEF Midway
  <1> QED BY <1>4, <1>12, <1>17, <1>22, <1>23, <1>24

\* v has s in an entry that is free in u.
OneTaken(u, v, s) ==
    \E i \in Entries : /\ u[i] = NoSector /\ v[i] = s
                       /\ \A j \in Entries \ {i} : v[j] = u[j]

\* A name that Find does not find gets a free entry, and is found.
LEMMA AddIs ==
    ASSUME NEW dir \in Dirs, NEW n \in Names, NEW s \in Sectors, Find(dir, n) = NoSector,
           InUse(dir) # Entries
    PROVE  /\ Add(dir, n, s) \in Dirs /\ Find(Add(dir, n, s), n) = s
           /\ OneTaken(dir.use, Add(dir, n, s).use, s)
  <1>1. PICK u, m : u = dir.use /\ m = dir.name
    OBVIOUS
  <1>2. /\ dir = [use |-> u, name |-> m] /\ u \in [Entries -> Sectors \cup {NoSector}]
        /\ m \in [Entries -> Names \cup {NoName}]
    BY <1>1 DEF Dirs
  <1>3. PICK i : i = Lowest(Entries \ InUse(dir))
    OBVIOUS
  <1>4. i \in Entries /\ u[i] = NoSector
    <2>1. Entries \ InUse(dir) # {} /\ Entries \ InUse(dir) \in SUBSET Entries
      BY DEF InUse
    <2>2. i \in Entries \ InUse(dir)
      BY <1>3, <2>1, LowestIs
    <2> QED BY <1>1, <2>2 DEF InUse
  <1>5. PICK v, l : v = [u EXCEPT ![i] = s] /\ l = [m EXCEPT ![i] = n]
    OBVIOUS
  <1>6. Add(dir, n, s) = [use |-> v, name |-> l]
    BY <1>1, <1>3, <1>5 DEF Add
  <1>7. /\ v \in [Entries -> Sectors \cup {NoSector}] /\ l \in [Entries -> Names \cup {NoName}]
        /\ v[i] = s /\ l[i] = n
        /\ \A j \in Entries \ {i} : v[j] = u[j] /\ l[j] = m[j]
    BY <1>2, <1>4, <1>5
  <1>8. PICK new : new = Add(dir, n, s)
    OBVIOUS
  <1>9. new \in Dirs /\ new.use = v /\ new.name = l
    BY <1>6, <1>7, <1>8 DEF Dirs
  <1>10. s # NoSector
    BY FileSysAssumption DEF Sectors, NoSector
  <1>11. Found(dir, n) = {}
    <2>1. SUFFICES ASSUME Found(dir, n) # {} PROVE FALSE
      OBVIOUS
    <2>2. Found(dir, n) \in SUBSET Entries
      BY DEF Found, InUse
    <2>3. Lowest(Found(dir, n)) \in Found(dir, n)
      BY <2>1, <2>2, LowestIs
    <2>4. Find(dir, n) # NoSector
      BY <2>1, <2>3 DEF Find, Found, InUse
    <2> QED BY <2>4
  <1>12. Found(new, n) = {i}
    <2>1. i \in Found(new, n)
      BY <1>4, <1>7, <1>9, <1>10 DEF Found, InUse
    <2>2. ASSUME NEW j \in Found(new, n), j # i
          PROVE  FALSE
      <3>1. j \in Entries /\ v[j] # NoSector /\ l[j] = n
        BY <1>9 DEF Found, InUse
      <3>2. u[j] # NoSector /\ m[j] = n
        BY <1>7, <2>2, <3>1
      <3>3. j \in Found(dir, n)
        BY <1>1, <3>1, <3>2 DEF Found, InUse
      <3> QED BY <1>11, <3>3
    <2> QED BY <2>1, <2>2
  <1>13. Find(new, n) = s
    <2>1. Lowest(Found(new, n)) = i
      <3>1. Lowest(Found(new, n)) \in Found(new, n)
        BY <1>4, <1>12, LowestIs
      <3> QED BY <1>12, <3>1
    <2> QED BY <1>7, <1>9, <1>12, <2>1 DEF Find
  <1>14. OneTaken(u, v, s)
    BY <1>4, <1>7 DEF OneTaken
  <1> QED BY <1>1, <1>8, <1>9, <1>13, <1>14

\* o has the files of d, and one with the headers h in sector s, named n.
HasNew(d, o, n, s, h) ==
    /\ \A t \in RootsOf(Use(d)) : t \in RootsOf(Use(o)) /\ FetchFrom(o, t) = FetchFrom(d, t)
    /\ Find(FetchDir(o), n) = s /\ s # NoSector /\ FetchFrom(o, s) = h

\* Create leaves the other files, and takes the sectors of the new one from
\* those that were not marked.
LEMMA CreateReady ==
    ASSUME NEW d, Good(d), Agreed(d), NEW n \in Names, NEW size \in Int,
           NEW dir, dir = FetchDir(d), NEW map, map = FetchMap(d), Find(dir, n) = NoSector,
           Clear(map) # {}, InUse(dir) # Entries, NEW s, s = FindAndSet(map, 1)[1],
           NEW a, a = Allocate(map \cup {s}, size), a.ok,
           NEW p, p = CreateWrites(s, a.hdrs, Add(dir, n, s), a.map)
    PROVE  /\ p \in Seq(Writes) /\ p # << >> /\ WritesApart(p)
           /\ Good(After(d, p)) /\ Agreed(After(d, p)) /\ Midway(d, p)
           /\ HasNew(d, After(d, p), n, s, a.hdrs)
  <1>1. PICK u, new, v : u = dir.use /\ new = Add(dir, n, s) /\ v = new.use
    OBVIOUS
  <1>2. PICK h, N : h = a.hdrs /\ N = a.map
    OBVIOUS
  <1>3. PICK o : o = After(d, p)
    OBVIOUS
  <1>4. dir \in Dirs /\ map \in SUBSET Sectors /\ u = Use(d)
    BY <1>1, FetchedMap, FetchedDir DEF Good, Use
  <1>5. s \in Sectors /\ s \notin map /\ s # NoSector
    <2>1. 1 \in Nat /\ 1 <= Cardinality(Clear(map))
      BY ClearFinite
    <2>2. FindAndSet(map, 1) \in [1 .. 1 -> Clear(map)]
      BY <2>1, SectorsFound
    <2>3. s \in Clear(map)
      BY <2>2
    <2> QED BY <2>3, FileSysAssumption DEF Clear, Sectors, NoSector
  <1>6. new \in Dirs /\ Find(new, n) = s
    BY <1>1, <1>4, <1>5, AddIs
  <1>7. PICK i \in Entries : u[i] = NoSector /\ v[i] = s /\ \A j \in Entries \ {i} : v[j] = u[j]
    <2>1. OneTaken(dir.use, Add(dir, n, s).use, s)
      BY <1>4, <1>5, AddIs
    <2>2. OneTaken(u, v, s)
      BY <1>1, <2>1
    <2> QED BY <2>2 DEF OneTaken
  <1>8. PICK F : F = SectorsOf(h, s)
    OBVIOUS
  <1>9. /\ FileHeaders(h, s) /\ F \cap map = {} /\ F \cup map = N /\ s \in F /\ N \in SUBSET Sectors
    <2>1. PICK m : m = map \cup {s}
      OBVIOUS
    <2>2. s \in m /\ a = Allocate(m, size) /\ a.ok /\ s \in Sectors
      BY <1>5, <2>1
    <2>3. /\ FileHeaders(a.hdrs, s)
          /\ SectorsOf(a.hdrs, s) = {s} \cup (a.map \ m)
          /\ m \subseteq a.map /\ a.map \ m \in SUBSET Sectors
      <3>1. PICK z : z = size /\ z \in Int
        OBVIOUS
      <3>2. PICK c : c = a /\ c = Allocate(m, z) /\ c.ok
        BY <2>2, <3>1
      <3>3. /\ FileHeaders(c.hdrs, s)
            /\ SectorsOf(c.hdrs, s) = {s} \cup (c.map \ m)
            /\ m \subseteq c.map /\ c.map \ m \in SUBSET Sectors
        BY <2>2, <3>1, <3>2, AllocatedFile
      <3> QED BY <3>2, <3>3
    <2> QED BY <1>2, <1>4, <1>5, <1>8, <2>1, <2>3
  <1>10. F = DataSectors(h) \cup HeadersOf(h, s) /\ s \in HeadersOf(h, s)
    BY <1>8, <1>9, FileParts
  <1>11. /\ OwnedBy(d, RootsOf(u)) \subseteq map
         /\ \A t \in RootsOf(u) : FileOf(d, t) \subseteq map
    BY <1>4 DEF Agreed, OwnedBy
  <1>12. /\ \A k \in 1 .. MapParts : MapSector(k) \in Sectors /\ MapSector(k) \in map
         /\ \A k \in 1 .. 2 : DirSector(k) \in Sectors /\ DirSector(k) \in map
    BY <1>4, <1>11, SystemOwned, SystemSectors
  <1> DEFINE H == HeaderWrites(s, h)
             D == DirWrites(new)
             C == MapWrites(N)
  <1>13. /\ H \in Seq(Writes) /\ WritesApart(H)
         /\ ToSet(H) = {Write1(SectorAt(h, s, k, 0), h[k]) : k \in 1 .. Len(h)}
         /\ \A w \in ToSet(H) : w.contents.kind = "header" /\ w.sector \in HeadersOf(h, s)
    BY <1>9, HeaderWritesAre
  <1>14. /\ D \in Seq(Writes) /\ WritesApart(D) /\ D # << >>
         /\ ToSet(D) = {Write1(DirSector(k), DirPart(new, k)) : k \in 1 .. 2}
         /\ \A w \in ToSet(D) :
              w.contents.kind = "dir" /\ \E k \in 1 .. 2 : w.sector = DirSector(k)
    BY <1>6, DirWritesAre
  <1>15. /\ C \in Seq(Writes) /\ WritesApart(C)
         /\ ToSet(C) = {Write1(MapSector(k), MapPart(N, k)) : k \in 1 .. MapParts}
         /\ \A w \in ToSet(C) :
              w.contents.kind = "map" /\ \E k \in 1 .. MapParts : w.sector = MapSector(k)
    BY <1>9, MapWritesAre
  <1> HIDE DEF H, D, C
  <1>16. PICK P : P = H \o D
    OBVIOUS
  <1>17. p = P \o C
    BY <1>1, <1>2, <1>16 DEF CreateWrites, H, D, C
  <1>18. P \in Seq(Writes) /\ WritesApart(P) /\ P # << >> /\ ToSet(P) = ToSet(H) \cup ToSet(D)
    <2>1. \A w \in ToSet(H), x \in ToSet(D) : w.sector # x.sector
      BY <1>9, <1>10, <1>12, <1>13, <1>14
    <2>2. \A w \in ToSet(H) \cup ToSet(D) : w.contents.kind # "data"
      BY <1>13, <1>14
    <2>3. \A w \in ToSet(H) : w.contents.kind = "header"
      BY <1>13
    <2> QED BY <1>13, <1>14, <1>16, <2>1, <2>2, <2>3, JoinApart
  <1>19. p \in Seq(Writes) /\ WritesApart(p) /\ ToSet(p) = ToSet(H) \cup ToSet(D) \cup ToSet(C)
    <2>1. ASSUME NEW w \in ToSet(P), NEW x \in ToSet(C)
          PROVE  w.sector # x.sector
      <3>1. PICK k \in 1 .. MapParts : x.sector = MapSector(k)
        BY <1>15
      <3>2. CASE w \in ToSet(H)
        BY <1>9, <1>10, <1>12, <1>13, <3>1, <3>2
      <3>3. CASE w \in ToSet(D)
        BY <1>14, <3>1, <3>3, SystemSectors
      <3> QED BY <1>18, <3>2, <3>3
    <2>2. \A w \in ToSet(P) \cup ToSet(C) : w.contents.kind # "data"
      BY <1>13, <1>14, <1>15, <1>18
    <2>3. \A x \in ToSet(C) : x.contents.kind # "header"
      BY <1>15
    <2>4. p \in Seq(Writes) /\ WritesApart(p) /\ ToSet(p) = ToSet(P) \cup ToSet(C)
      BY <1>15, <1>17, <1>18, <2>1, <2>2, <2>3, JoinApart
    <2> QED BY <1>18, <2>4
  <1>20. p # << >>
    <2>1. \E w : w \in ToSet(D)
      BY <1>14
    <2>2. \E w : w \in ToSet(p)
      BY <1>19, <2>1
    <2>3. p = << >> => ToSet(p) = {}
      BY DEF ToSet
    <2> QED BY <2>2, <2>3
  <1>21. SystemParts(o) /\ FetchMap(o) = N /\ FetchDir(o) = new /\ Use(o) = v
    <2>1. ASSUME NEW k \in 1 .. MapParts
          PROVE  o[MapSector(k)] = MapPart(N, k)
      <3>1. Write1(MapSector(k), MapPart(N, k)) \in ToSet(p)
        BY <1>15, <1>19
      <3> QED BY <1>3, <1>12, <1>19, <3>1, AfterWrite1
    <2>2. ASSUME NEW k \in 1 .. 2
          PROVE  o[DirSector(k)] = DirPart(new, k)
      <3>1. Write1(DirSector(k), DirPart(new, k)) \in ToSet(p)
        BY <1>14, <1>19
      <3> QED BY <1>3, <1>12, <1>19, <3>1, AfterWrite1
    <2> QED BY <1>1, <1>6, <1>9, <2>1, <2>2, SystemWritten
  <1>22. HasFile(o, s) /\ FetchFrom(o, s) = h /\ FileOf(o, s) = F
    <2>1. ASSUME NEW k \in 1 .. Len(h)
          PROVE  o[SectorAt(h, s, k, 0)] = h[k]
      <3>1. Write1(SectorAt(h, s, k, 0), h[k]) \in ToSet(p)
        BY <1>13, <1>19
      <3>2. SectorAt(h, s, k, 0) \in Sectors
        BY <1>9, HeaderSector
      <3> QED BY <1>3, <1>19, <3>1, <3>2, AfterWrite1
    <2> QED BY <1>8, <1>9, <2>1, FileWritten
  <1>23. ASSUME NEW x \in Sectors, d[x].kind = "header", x \in map
         PROVE  o[x] = d[x]
    <2>1. /\ \A k \in 1 .. MapParts : MapSector(k) # x
          /\ \A k \in 1 .. 2 : DirSector(k) # x
      BY <1>23, SystemOwned
    <2>2. \A w \in ToSet(H) : w.sector # x
      BY <1>9, <1>10, <1>13, <1>23
    <2>3. \A w \in ToSet(D) : w.sector # x
      BY <1>14, <2>1
    <2>4. \A w \in ToSet(C) : w.sector # x
      BY <1>15, <2>1
    <2>5. Untouched(p, x)
      BY <1>19, <2>2, <2>3, <2>4 DEF Untouched
    <2>6. WritesApart(p)
      BY <1>19
    <2> QED BY <1>3, <2>5, <2>6, AfterOf
  <1>24. /\ HasFiles(o, RootsOf(u))
         /\ \A t \in RootsOf(u) : FetchFrom(o, t) = FetchFrom(d, t) /\ FileOf(o, t) = FileOf(d, t)
         /\ OwnedBy(o, RootsOf(u)) = OwnedBy(d, RootsOf(u))
    <2>1. HasFiles(d, RootsOf(u))
      BY <1>4 DEF Good
    <2>2. ASSUME NEW t \in RootsOf(u), NEW x \in HeadersOf(FetchFrom(d, t), t)
          PROVE  o[x] = d[x]
      <3>1. HasFile(d, t)
        BY <2>1 DEF HasFiles
      <3>2. d[x].kind = "header" /\ x \in FileOf(d, t) /\ x \in Sectors
        BY <3>1, HeadersThere
      <3> QED BY <1>11, <1>23, <3>2
    <2> QED BY <2>1, <2>2, FilesKept
  <1>25. RootsOf(v) = RootsOf(u) \cup {s}
    BY <1>5, <1>7 DEF RootsOf
  <1>26. HasFiles(o, RootsOf(u) \cup {s})
    <2>1. \A t \in RootsOf(u) : FileOf(o, t) \cap FileOf(o, s) = {}
      BY <1>9, <1>11, <1>22, <1>24
    <2> QED BY <1>22, <1>24, <2>1 DEF HasFiles
  <1>27. s \notin RootsOf(u)
    <2>1. SUFFICES ASSUME s \in RootsOf(u) PROVE FALSE
      OBVIOUS
    <2>2. FileOf(o, s) \subseteq map
      BY <1>11, <1>24, <2>1
    <2> QED BY <1>5, <1>9, <1>22, <2>2
  <1>28. Good(o)
    <2>1. FetchFrom(o, FreeMapSector) = MapAlloc.hdrs /\ FetchFrom(o, DirectorySector) = DirAlloc.hdrs
      BY <1>24 DEF Good, RootsOf
    <2>2. /\ \A j, k \in Entries : u[j] # NoSector /\ u[j] = u[k] => j = k
          /\ \A j \in Entries : u[j] \notin {FreeMapSector, DirectorySector}
      BY <1>4 DEF Good
    <2>3. s \notin {FreeMapSector, DirectorySector} /\ \A j \in Entries : u[j] # s
      BY <1>5, <1>27 DEF RootsOf
    <2>4. \A j, k \in Entries : v[j] # NoSector /\ v[j] = v[k] => j = k
      BY <1>7, <2>2, <2>3
    <2>5. \A j \in Entries : v[j] \notin {FreeMapSector, DirectorySector}
      BY <1>7, <2>2, <2>3
    <2> QED BY <1>21, <1>25, <1>26, <2>1, <2>4, <2>5 DEF Good
  <1>29. OwnedBy(o, RootsOf(v)) = OwnedBy(d, RootsOf(u)) \cup F
    <2>1. OwnedBy(o, RootsOf(u) \cup {s}) = OwnedBy(o, RootsOf(u)) \cup FileOf(o, s)
      BY DEF OwnedBy
    <2> QED BY <1>22, <1>24, <1>25, <2>1
  <1>30. Agreed(o)
    <2>1. OwnedBy(o, RootsOf(v)) \subseteq N
      BY <1>9, <1>11, <1>29
    <2>2. ASSUME NEW x \in N \ OwnedBy(o, RootsOf(v))
          PROVE  o[x].kind = "header"
      <3>1. x \in map \ OwnedBy(d, RootsOf(u)) /\ x \in Sectors
        BY <1>9, <1>29
      <3>2. d[x].kind = "header"
        BY <1>4, <3>1 DEF Agreed
      <3> QED BY <1>23, <3>1, <3>2
    <2> QED BY <1>21, <2>1, <2>2 DEF Agreed
  <1>31. Midway(d, p)
    <2>1. HasFiles(o, RootsOf(u) \cup RootsOf(v))
      <3>1. RootsOf(u) \cup RootsOf(v) = RootsOf(u) \cup {s}
        BY <1>25
      <3> QED BY <1>26, <3>1
    <2>2. OneEntry(u, v)
      BY <1>7 DEF OneEntry
    <2>3. ASSUME NEW k \in DOMAIN p, p[k].contents.kind = "header"
          PROVE  p[k].sector \notin OwnedBy(d, RootsOf(Use(d)))
      <3>1. p[k] \in ToSet(p)
        BY DEF ToSet
      <3>2. p[k] \in ToSet(H)
        BY <1>14, <1>15, <1>19, <2>3, <3>1
      <3>3. p[k].sector \notin OwnedBy(d, RootsOf(u))
        BY <1>9, <1>10, <1>11, <1>13, <3>2
      <3> QED BY <1>4, <3>3
    <2>4. Use(d) = u /\ Use(o) = v
      BY <1>4, <1>21
    <2>5. HasFiles(o, RootsOf(Use(d)) \cup RootsOf(Use(o))) /\ OneEntry(Use(d), Use(o))
      BY <2>1, <2>2, <2>4
    <2> QED BY <1>3, <2>3, <2>5 DEF Midway
  <1>32. \A t \in RootsOf(Use(d)) : t \in RootsOf(Use(o)) /\ FetchFrom(o, t) = FetchFrom(d, t)
    BY <1>4, <1>21, <1>24, <1>25
  <1>33. Find(FetchDir(o), n) = s /\ FetchFrom(o, s) = a.hdrs
    BY <1>2, <1>6, <1>21, <1>22
  <1>34. HasNew(d, o, n, s, a.hdrs)
    BY <1>5, <1>32, <1>33 DEF HasNew
  <1> QED BY <1>3, <1>19, <1>20, <1>28, <1>30, <1>31, <1>34

\* The bytes of a sector of data.
LEMMA DataBytesIs ==
    ASSUME NEW c \in SectorContents
    PROVE  DataBytes(c) \in [1 .. SectorSize -> Bytes \cup {Junk}]
  <1>1. ASSUME c.kind = "data"
        PROVE  c \in DataContents
    <2>1. c \notin Headers
      BY <1>1 DEF Headers
    <2>2. c \notin MapContents
      <3>1. \A M \in SUBSET Sectors, i \in 1 .. MapParts : MapPart(M, i).kind = "map"
        BY DEF MapPart
      <3> QED BY <1>1, <3>1 DEF MapContents
    <2>3. c \notin DirContents
      <3>1. \A dir \in Dirs, p \in 1 .. 2 : DirPart(dir, p).kind = "dir"
        BY DEF DirPart
      <3> QED BY <1>1, <3>1 DEF DirContents
    <2> QED BY <2>1, <2>2, <2>3 DEF SectorContents
  <1>2. CASE c.kind = "data"
    <2>1. c.bytes \in [1 .. SectorSize -> Bytes \cup {Junk}]
      BY <1>1, <1>2 DEF DataContents
    <2> QED BY <1>2, <2>1 DEF DataBytes
  <1>3. CASE c.kind # "data"
    BY <1>3 DEF DataBytes
  <1> QED BY <1>2, <1>3

\* The sectors from that of byte at to that of byte at + k - 1.
IsSpan(ss, at, k, first, last) ==
    /\ first \in Nat /\ last \in Nat /\ first <= last
    /\ \A i \in 1 .. 1 + last - first :
         /\ first + i - 1 \in Nat /\ (first + i - 1) * ss \in Nat
         /\ (first + i - 1) * ss < at + k
         /\ ((first + i - 1) * ss) \div ss = first + i - 1

\* The sectors that WriteAt writes are those its bytes lie in.
LEMMA SpanIs ==
    ASSUME NEW ss \in Nat \ {0}, NEW at \in Nat, NEW k \in Nat \ {0},
           NEW first, NEW last, at \div ss = first, (at + k - 1) \div ss = last
    PROVE  IsSpan(ss, at, k, first, last)
  <1> DEFINE b == at % ss
             c == (at + k - 1) % ss
  <1>1. /\ first \in Int /\ b \in 0 .. ss - 1 /\ at = first * ss + b
    <2>1. at \div ss \in Int /\ at % ss \in 0 .. ss - 1 /\ at = (at \div ss) * ss + (at % ss)
      OBVIOUS
    <2> QED BY <2>1
  <1>2. /\ last \in Int /\ c \in 0 .. ss - 1 /\ at + k - 1 = last * ss + c
    <2>1. PICK e \in Nat : e = at + k - 1
      OBVIOUS
    <2>2. e \div ss \in Int /\ e % ss \in 0 .. ss - 1 /\ e = (e \div ss) * ss + (e % ss)
      OBVIOUS
    <2> QED BY <2>1, <2>2
  <1> HIDE DEF b, c
  <1>3. first \in Nat
    <2>1. SUFFICES ASSUME first < 0 PROVE FALSE
      BY <1>1
    <2>2. first + 1 <= 0 /\ (first + 1) * ss = first * ss + ss
      BY <1>1, <2>1
    <2>3. (first + 1) * ss <= 0
      BY <1>1, <2>2
    <2> QED BY <1>1, <2>2, <2>3
  <1>4. first <= last
    <2>1. SUFFICES ASSUME last < first PROVE FALSE
      BY <1>1, <1>2
    <2>2. last + 1 <= first /\ (last + 1) * ss = last * ss + ss
      BY <1>1, <1>2, <2>1
    <2>3. (last + 1) * ss <= first * ss
      BY <1>1, <1>2, <2>2
    <2> QED BY <1>1, <1>2, <2>2, <2>3
  <1>5. last \in Nat
    BY <1>2, <1>3, <1>4
  <1>6. ASSUME NEW i \in 1 .. 1 + last - first
        PROVE  /\ first + i - 1 \in Nat /\ (first + i - 1) * ss \in Nat
               /\ (first + i - 1) * ss < at + k
               /\ ((first + i - 1) * ss) \div ss = first + i - 1
    <2>1. PICK j : j = first + i - 1
      OBVIOUS
    <2>2. j \in Nat /\ j <= last
      BY <1>3, <1>5, <2>1
    <2>3. j * ss \in Nat /\ j * ss <= last * ss
      BY <1>5, <2>2
    <2>4. j * ss < at + k
      <3>1. last * ss \in Int /\ last * ss + c = at + k - 1 /\ c >= 0
        BY <1>2
      <3> QED BY <1>2, <2>3, <3>1
    <2>5. (j * ss) \div ss = j
      <3>1. j * ss \in Int /\ 0 \in 0 .. ss - 1 /\ j * ss = j * ss + 0
        BY <2>3
      <3> QED BY <2>2, <3>1, DivUnique
    <2> QED BY <2>1, <2>2, <2>3, <2>4, <2>5
  <1> QED BY <1>3, <1>4, <1>5, <1>6 DEF IsSpan

\* New contents of a file's sectors.
LEMMA SectorAfterIs ==
    ASSUME NEW d \in [Sectors -> SectorContents], NEW h, NEW s, FileHeaders(h, s),
           NEW buf \in Seq(Bytes), NEW at \in Nat, NEW i \in Nat
    PROVE  SectorAfter(d, h, buf, at, i) \in DataContents
  <1>1. PICK n : n = Len(buf)
    OBVIOUS
  <1>2. n \in Nat /\ \A j \in 1 .. n : buf[j] \in Bytes
    BY <1>1, LenProperties, ElementOfSeq
  <1>3. SectorSize \in Nat \ {0}
    BY Numbers
  <1> DEFINE B(o) == IF o \in at .. at + n - 1 THEN buf[o - at + 1]
                     ELSE IF o < FileLength(h) THEN ByteAt(d, h, o) ELSE Junk
  <1>4. ASSUME NEW o \in Nat
        PROVE  B(o) \in Bytes \cup {Junk}
    <2>1. CASE o \in at .. at + n - 1
      <3>1. o - at + 1 \in 1 .. n
        BY <1>2, <2>1
      <3> QED BY <1>2, <2>1, <3>1
    <2>2. ASSUME o < FileLength(h)
          PROVE  ByteAt(d, h, o) \in Bytes \cup {Junk}
      <3>1. ByteToSector(h, o) \in Sectors
        BY <2>2, ByteToSectorApart, FileParts
      <3>2. DataBytes(d[ByteToSector(h, o)]) \in [1 .. SectorSize -> Bytes \cup {Junk}]
        BY <3>1, DataBytesIs
      <3>3. (o % SectorSize) + 1 \in 1 .. SectorSize
        BY <1>3
      <3> QED BY <3>2, <3>3 DEF ByteAt
    <2> QED BY <2>1, <2>2
  <1>5. \A j \in 1 .. SectorSize : i * SectorSize + j - 1 \in Nat
    <2>1. i * SectorSize \in Nat
      BY <1>3
    <2> QED BY <1>3, <2>1
  <1>6. SectorAfter(d, h, buf, at, i)
          = [kind |-> "data", bytes |-> [j \in 1 .. SectorSize |-> B(i * SectorSize + j - 1)]]
    BY <1>1 DEF SectorAfter
  <1> HIDE DEF B
  <1>7. [j \in 1 .. SectorSize |-> B(i * SectorSize + j - 1)] \in [1 .. SectorSize -> Bytes \cup {Junk}]
    BY <1>4, <1>5
  <1> QED BY <1>6, <1>7 DEF DataContents

\* WriteAt's writes go to data sectors of the file.
LEMMA DataWritesAre ==
    ASSUME NEW d \in [Sectors -> SectorContents], NEW h, NEW s, FileHeaders(h, s),
           NEW buf \in Seq(Bytes), Len(buf) # 0, NEW at \in Nat, at + Len(buf) <= FileLength(h)
    PROVE  /\ DataWrites(d, h, buf, at) \in Seq(Writes) /\ WritesApart(DataWrites(d, h, buf, at))
           /\ DataWrites(d, h, buf, at) # << >>
           /\ \A w \in ToSet(DataWrites(d, h, buf, at)) :
                w.contents.kind = "data" /\ w.sector \in DataSectors(h)
  <1>1. PICK k : k = Len(buf) /\ k \in Nat \ {0}
    BY LenProperties
  <1>2. PICK first, last : at \div SectorSize = first /\ (at + k - 1) \div SectorSize = last
    OBVIOUS
  <1>3. SectorSize \in Nat \ {0} /\ FileLength(h) \in Nat
    BY Numbers, FileLengthIs
  <1>4. PICK n : n = 1 + last - first
    OBVIOUS
  <1>5. /\ first \in Nat /\ last \in Nat /\ first <= last
        /\ \A i \in 1 .. n :
             /\ first + i - 1 \in Nat /\ (first + i - 1) * SectorSize \in Nat
             /\ (first + i - 1) * SectorSize < at + k
             /\ ((first + i - 1) * SectorSize) \div SectorSize = first + i - 1
    <2>1. IsSpan(SectorSize, at, k, first, last)
      BY <1>1, <1>2, <1>3, SpanIs
    <2> QED BY <1>4, <2>1 DEF IsSpan
  <1>6. n \in Nat /\ n # 0
    BY <1>4, <1>5
  <1> DEFINE p == DataWrites(d, h, buf, at)
             At(i) == (first + i - 1) * SectorSize
  <1>7. /\ p = [i \in 1 .. n |-> p[i]]
        /\ \A i \in 1 .. n : p[i] = Write1(ByteToSector(h, At(i)),
                                           SectorAfter(d, h, buf, at, first + i - 1))
    <2>1. p = [i \in 1 .. n |-> Write1(ByteToSector(h, At(i)),
                                       SectorAfter(d, h, buf, at, first + i - 1))]
      BY <1>1, <1>2, <1>4 DEF DataWrites
    <2> HIDE DEF p, At
    <2> QED BY <2>1
  <1>8. \A i \in 1 .. n : /\ At(i) \in Nat /\ At(i) < FileLength(h)
                          /\ At(i) \div SectorSize = first + i - 1 /\ first + i - 1 \in Nat
    BY <1>1, <1>3, <1>5
  <1> HIDE DEF p, At
  <1>9. ASSUME NEW i \in 1 .. n
        PROVE  /\ p[i].sector = ByteToSector(h, At(i)) /\ p[i].contents.kind = "data"
               /\ p[i].sector \in DataSectors(h) /\ p[i] \in Writes
    <2>1. PICK c : c = SectorAfter(d, h, buf, at, first + i - 1)
      OBVIOUS
    <2>2. PICK x : x = ByteToSector(h, At(i))
      OBVIOUS
    <2>3. c \in DataContents
      BY <1>8, <2>1, SectorAfterIs
    <2>4. c.kind = "data" /\ c \in SectorContents
      BY <2>3 DEF DataContents, SectorContents
    <2>5. x \in DataSectors(h) /\ x \in Sectors
      BY <1>8, <2>2, ByteToSectorApart, FileParts
    <2>6. p[i] = [sector |-> x, contents |-> c]
      BY <1>7, <2>1, <2>2 DEF Write1
    <2> QED BY <2>2, <2>4, <2>5, <2>6 DEF Writes
  <1>10. ASSUME NEW i \in 1 .. n, NEW j \in 1 .. n, p[i].sector = p[j].sector
         PROVE  i = j
    <2>1. At(i) \div SectorSize = At(j) \div SectorSize
      BY <1>8, <1>9, <1>10, ByteToSectorApart
    <2>2. first + i - 1 = first + j - 1
      BY <1>8, <2>1
    <2> QED BY <1>5, <2>2
  <1>11. /\ p \in Seq(Writes) /\ WritesApart(p) /\ p # << >>
         /\ ToSet(p) = {p[i] : i \in 1 .. n}
         /\ \A w \in ToSet(p) : w.contents.kind = "data"
    <2>1. \A i \in 1 .. n : p[i] \in Writes
      BY <1>9
    <2>2. \A i \in 1 .. n : p[i].contents.kind = "data"
      BY <1>9
    <2> QED BY <1>6, <1>7, <1>10, <2>1, <2>2, WritesOfKind
  <1> QED BY <1>9, <1>11 DEF p

\* WriteAt changes no other file and no header.
LEMMA WriteReady ==
    ASSUME NEW d \in [Sectors -> SectorContents], Good(d), NEW s \in RootsOf(Use(d)),
           s \notin {FreeMapSector, DirectorySector}, NEW h, h = FetchFrom(d, s),
           NEW buf \in Seq(Bytes), Len(buf) # 0, NEW at \in Nat, at + Len(buf) <= FileLength(h),
           NEW p, p = DataWrites(d, h, buf, at)
    PROVE  /\ p \in Seq(Writes) /\ p # << >> /\ WritesApart(p)
           /\ Good(After(d, p)) /\ SameFiles(d, After(d, p)) /\ Midway(d, p)
           /\ Agreed(d) => Agreed(After(d, p))
  <1>1. PICK o, u : o = After(d, p) /\ u = Use(d)
    OBVIOUS
  <1>2. HasFiles(d, RootsOf(u)) /\ HasFile(d, s) /\ FileHeaders(h, s)
    BY <1>1 DEF Good, HasFiles, HasFile
  <1>3. /\ FileOf(d, s) = DataSectors(h) \cup HeadersOf(h, s)
        /\ DataSectors(h) \cap HeadersOf(h, s) = {}
    BY <1>2, FileParts DEF FileOf
  <1>4. /\ p \in Seq(Writes) /\ WritesApart(p) /\ p # << >>
        /\ \A w \in ToSet(p) : w.contents.kind = "data" /\ w.sector \in DataSectors(h)
    BY <1>2, DataWritesAre
  <1>5. ASSUME NEW x \in Sectors, x \notin DataSectors(h)
        PROVE  o[x] = d[x]
    <2>1. Untouched(p, x)
      BY <1>4, <1>5 DEF Untouched
    <2> QED BY <1>1, <1>4, <2>1, AfterOf
  <1>6. \A t \in RootsOf(u) : t # s => FileOf(d, t) \cap FileOf(d, s) = {}
    BY <1>1, <1>2 DEF HasFiles
  <1>7. /\ \A i \in 1 .. MapParts : o[MapSector(i)] = d[MapSector(i)]
        /\ \A i \in 1 .. 2 : o[DirSector(i)] = d[DirSector(i)]
    <2>1. /\ FreeMapSector \in RootsOf(u) /\ DirectorySector \in RootsOf(u)
          /\ FetchFrom(d, FreeMapSector) = MapAlloc.hdrs
          /\ FetchFrom(d, DirectorySector) = DirAlloc.hdrs
      BY DEF RootsOf, Good
    <2>2. /\ FileOf(d, FreeMapSector) = SectorsOf(MapAlloc.hdrs, FreeMapSector)
          /\ FileOf(d, DirectorySector) = SectorsOf(DirAlloc.hdrs, DirectorySector)
      BY <2>1 DEF FileOf
    <2>3. /\ DataSectors(MapAlloc.hdrs) \subseteq FileOf(d, FreeMapSector)
          /\ DataSectors(DirAlloc.hdrs) \subseteq FileOf(d, DirectorySector)
      <3>1. /\ FileHeaders(MapAlloc.hdrs, FreeMapSector)
            /\ FileHeaders(DirAlloc.hdrs, DirectorySector)
        BY SystemFiles
      <3>2. DataSectors(MapAlloc.hdrs) \subseteq SectorsOf(MapAlloc.hdrs, FreeMapSector)
        BY <3>1, FileParts
      <3>3. DataSectors(DirAlloc.hdrs) \subseteq SectorsOf(DirAlloc.hdrs, DirectorySector)
        BY <3>1, FileParts
      <3> QED BY <2>2, <3>2, <3>3
    <2>4. /\ DataSectors(MapAlloc.hdrs) \cap DataSectors(h) = {}
          /\ DataSectors(DirAlloc.hdrs) \cap DataSectors(h) = {}
      BY <1>3, <1>6, <2>1, <2>3
    <2> QED BY <1>5, <2>4, SystemSectors
  <1>8. ASSUME NEW t \in RootsOf(u), NEW x \in HeadersOf(FetchFrom(d, t), t)
        PROVE  o[x] = d[x]
    <2>1. HasFile(d, t)
      BY <1>2 DEF HasFiles
    <2>2. x \in FileOf(d, t) /\ x \in Sectors
      BY <2>1, HeadersThere
    <2>3. x \notin DataSectors(h)
      BY <1>3, <1>6, <2>2
    <2> QED BY <1>5, <2>2, <2>3
  <1>9. Good(o) /\ SameFiles(d, o)
    BY <1>1, <1>7, <1>8, GoodKept
  <1>10. Use(o) = u /\ FetchMap(o) = FetchMap(d) /\ OwnedBy(o, RootsOf(u)) = OwnedBy(d, RootsOf(u))
    BY <1>1, <1>9 DEF SameFiles
  <1>11. ASSUME Agreed(d) PROVE Agreed(o)
    <2>1. DataSectors(h) \subseteq OwnedBy(d, RootsOf(u))
      BY <1>1, <1>3 DEF OwnedBy
    <2>2. FetchMap(d) \in SUBSET Sectors
      BY FetchedMap DEF Good
    <2>3. ASSUME NEW x \in FetchMap(d) \ OwnedBy(d, RootsOf(u))
          PROVE  o[x].kind = "header"
      <3>1. d[x].kind = "header"
        BY <1>1, <1>11 DEF Agreed
      <3> QED BY <1>5, <2>1, <2>2, <3>1
    <2>4. OwnedBy(d, RootsOf(u)) \subseteq FetchMap(d)
      BY <1>1, <1>11 DEF Agreed
    <2> QED BY <1>10, <2>3, <2>4 DEF Agreed
  <1>12. Midway(d, p)
    <2>1. HasFiles(o, RootsOf(u) \cup RootsOf(u))
      BY <1>9, <1>10 DEF Good
    <2>2. OneEntry(u, u)
      <3>1. Entries # {}
        BY FileSysAssumption
      <3> QED BY <3>1 DEF OneEntry
    <2>3. \A k \in DOMAIN p : p[k].contents.kind # "header"
      <3>1. \A k \in DOMAIN p : p[k] \in ToSet(p)
        BY DEF ToSet
      <3> QED BY <1>4, <3>1
    <2> QED BY <1>1, <1>10, <2>1, <2>2, <2>3 DEF Midway
  <1> QED BY <1>1, <1>4, <1>9, <1>11, <1>12

---------------------------------------------------------------------------
(* The inductive invariant.                                                *)

\* The kernel has formatted the disk, and the model follows it.
Followed == sound \in {"sound", "torn"}

\* The disk is what sound says; the writes to come end an operation, and in
\* the middle of it what either directory names is whole.
DiskOK ==
    /\ disk \in [Sectors -> SectorContents]
    /\ pending \in Seq(Writes) /\ WritesApart(pending)
    /\ Followed => Good(disk)
    /\ Followed \/ pending # << >> => Good(After(disk, pending))
    /\ sound = "sound" \/ (sound = "blank" /\ pending # << >>) => Agreed(After(disk, pending))
    /\ Followed /\ pending # << >> => Midway(disk, pending)
    /\ sound = "sound" /\ ~committed => Agreed(disk)

\* h are the headers of a file of the directory, before and after the operation.
OpenAtRoot(d, o, h) ==
    \E s \in RootsOf(Use(d)) \cap RootsOf(Use(o)) :
       /\ s \notin {FreeMapSector, DirectorySector}
       /\ h = FetchFrom(d, s) /\ h = FetchFrom(o, s)

OpenedOK ==
    /\ openedFile \in [state : {"open", "null", "closed"}, name : Names \cup {NoName},
                       hdrs : Seq(Headers), seek : Nat]
    /\ openedFile.seek \in 0 .. FileLength(openedFile.hdrs)
    /\ openedFile.state = "open" => OpenAtRoot(disk, After(disk, pending), openedFile.hdrs)
    /\ machine \in {"off", "main", "removed", "astray"} => openedFile = Closed

\* The directory leads from the name to a file of k bytes.
Named(d, n, k) ==
    /\ Find(FetchDir(d), n) # NoSector
    /\ FileLength(FetchFrom(d, Find(FetchDir(d), n))) = k

\* Copy's file is there, as long as its data.
CopyingOK ==
    copying # NoCopy =>
      /\ machine = "user" /\ sound = "sound" /\ copying.data \in Buffers
      /\ Named(After(disk, pending), copying.name, Len(copying.data))

\* An assertion fails on a torn disk only.
PhaseOK ==
    /\ sound \in {"blank", "sound", "torn", "lost"} /\ committed \in BOOLEAN
    /\ machine \in {"off", "main", "removed", "user", "failed", "aborted", "astray"}
    /\ machine \in {"off", "failed", "aborted", "astray"} => pending = << >>
    /\ pending = << >> => ~committed /\ (machine # "off" => sound # "blank")
    /\ sound = "blank" => machine \in {"off", "main"}
    /\ sound = "lost" => machine \in {"off", "astray"}
    /\ machine = "failed" => sound = "torn"

IInv == DiskOK /\ OpenedOK /\ CopyingOK /\ PhaseOK

\* An operation that may start.
Operation(d, p) ==
    /\ p \in Seq(Writes) /\ WritesApart(p) /\ p # << >>
    /\ Good(After(d, p)) /\ (Agreed(d) => Agreed(After(d, p))) /\ Midway(d, p)

\* Where main can start an operation.
Running == machine \in {"main", "removed", "user"}

\* Between operations there is only the disk.
LEMMA Between ==
    ASSUME DiskOK, PhaseOK, Running, pending = << >>
    PROVE  /\ sound \in {"sound", "torn"} /\ ~committed /\ After(disk, pending) = disk
           /\ Good(disk) /\ (sound = "sound" => Agreed(disk))
           /\ disk \in [Sectors -> SectorContents]
  <1>1. sound \in {"sound", "torn"} /\ ~committed
    BY DEF PhaseOK, Running
  <1>2. After(disk, pending) = disk
    BY NothingLeft DEF DiskOK
  <1> QED BY <1>1, <1>2 DEF DiskOK, Followed

\* An operation starts, or does nothing.
LEMMA Starts ==
    ASSUME DiskOK, PhaseOK, Running, pending = << >>,
           disk' = disk, sound' = sound, committed' = committed,
           pending' = << >> \/ Operation(disk, pending')
    PROVE  DiskOK'
  <1>1. /\ sound \in {"sound", "torn"} /\ ~committed /\ After(disk, pending) = disk
        /\ Good(disk) /\ (sound = "sound" => Agreed(disk))
    BY Between
  <1>2. CASE pending' = << >>
    BY <1>1, <1>2 DEF DiskOK, Followed
  <1>3. CASE Operation(disk, pending')
    BY <1>1, <1>3 DEF DiskOK, Operation, Followed
  <1> QED BY <1>2, <1>3

\* Nothing of the disk changes.
LEMMA DiskUnchanged ==
    ASSUME DiskOK, disk' = disk, sound' = sound, committed' = committed, pending' = pending
    PROVE  DiskOK'
  BY DEF DiskOK, Followed

\* No file is open.
LEMMA ClosedOK ==
    /\ Closed \in [state : {"open", "null", "closed"}, name : Names \cup {NoName},
                   hdrs : Seq(Headers), seek : Nat]
    /\ Closed.seek \in 0 .. FileLength(Closed.hdrs) /\ Closed.state = "closed"
    /\ Null \in [state : {"open", "null", "closed"}, name : Names \cup {NoName},
                 hdrs : Seq(Headers), seek : Nat]
    /\ Null.seek \in 0 .. FileLength(Null.hdrs) /\ Null.state = "null"
  <1>1. Closed = [state |-> "closed", name |-> NoName, hdrs |-> << >>, seek |-> 0]
    BY DEF Closed, Null
  <1>2. Null = [state |-> "null", name |-> NoName, hdrs |-> << >>, seek |-> 0]
    BY DEF Null
  <1>3. << >> \in Seq(Headers)
    BY EmptySeq
  <1>4. FileLength(<< >>) = 0
    <2> SUFFICES ASSUME NEW h, h = << >> PROVE FileLength(h) = 0
      OBVIOUS
    <2> DEFINE f == CHOOSE g : IsSum(g, h, Len(h))
    <2>1. Len(h) = 0
      BY EmptySeq
    <2>2. \E g : IsSum(g, h, Len(h))
      <3> DEFINE g == [k \in 0 .. 0 |-> 0]
      <3>1. g = [k \in 0 .. 0 |-> IF k = 0 THEN 0 ELSE g[k - 1] + h[k].numBytes]
        OBVIOUS
      <3>2. IsSum(g, h, 0)
        BY <3>1 DEF IsSum
      <3> QED BY <2>1, <3>2
    <2>3. IsSum(f, h, Len(h))
      BY <2>2
    <2>4. FileLength(h) = f[Len(h)]
      BY DEF FileLength, IsSum
    <2> HIDE DEF f
    <2>5. f[0] = 0
      BY <2>1, <2>3 DEF IsSum
    <2> QED BY <2>1, <2>4, <2>5
  <1> QED BY <1>1, <1>2, <1>3, <1>4

\* The files that an operation keeps, and the file Copy creates, are still
\* there after a write.
LEMMA OpenStays ==
    ASSUME NEW d, NEW o, NEW e, NEW o2, NEW h, OpenAtRoot(d, o, h), SameFiles(o, o2),
           BothKeep(d, o, e)
    PROVE  OpenAtRoot(e, o2, h)
  <1>1. PICK s : /\ s \in RootsOf(Use(d)) /\ s \in RootsOf(Use(o))
                 /\ s \notin {FreeMapSector, DirectorySector}
                 /\ h = FetchFrom(d, s) /\ h = FetchFrom(o, s)
    BY DEF OpenAtRoot
  <1>2. s \in RootsOf(Use(e)) /\ FetchFrom(e, s) = FetchFrom(o, s)
    BY <1>1 DEF BothKeep
  <1>3. s \in RootsOf(Use(o2)) /\ FetchFrom(o2, s) = FetchFrom(o, s)
    BY <1>1 DEF SameFiles
  <1> QED BY <1>1, <1>2, <1>3 DEF OpenAtRoot

\* The file that Copy created keeps its name and its length.
LEMMA NamedStays ==
    ASSUME NEW o, NEW o2, NEW n, NEW k, Named(o, n, k), SameFiles(o, o2), Good(o)
    PROVE  Named(o2, n, k)
  <1>1. FetchDir(o2) = FetchDir(o)
    BY DEF SameFiles
  <1>2. Find(FetchDir(o), n) \in RootsOf(Use(o))
    BY FetchedDir, FindIs DEF Named, Good, Use
  <1>3. FetchFrom(o2, Find(FetchDir(o), n)) = FetchFrom(o, Find(FetchDir(o), n))
    BY <1>2 DEF SameFiles
  <1> QED BY <1>1, <1>3 DEF Named

---------------------------------------------------------------------------
(* The actions.                                                            *)

\* Nothing is known of a disk that is not followed.
LEMMA AstrayKeeps ==
    ASSUME Astray, copying' = NoCopy
    PROVE  IInv'
  <1>1. /\ machine' = "astray" /\ sound' = "lost" /\ disk' = [s \in Sectors |-> NoData]
        /\ pending' = << >> /\ committed' = FALSE /\ openedFile' = Closed
    BY DEF Astray
  <1>2. DiskOK'
    <2>1. NoData \in SectorContents
      BY Kinds DEF SectorContents
    <2>2. disk' \in [Sectors -> SectorContents]
      BY <1>1, <2>1
    <2>3. pending' \in Seq(Writes) /\ DOMAIN pending' = {}
      BY <1>1, EmptySeq
    <2>4. WritesApart(pending')
      BY <2>3 DEF WritesApart
    <2> QED BY <1>1, <2>2, <2>3, <2>4 DEF DiskOK, Followed
  <1>3. OpenedOK'
    BY <1>1, ClosedOK DEF OpenedOK
  <1>4. CopyingOK'
    BY DEF CopyingOK
  <1>5. PhaseOK'
    BY <1>1 DEF PhaseOK
  <1> QED BY <1>2, <1>3, <1>4, <1>5 DEF IInv

\* An operation that changes the directory starts, or the disk was torn.
LEMMA UpdateIs ==
    ASSUME NEW w, NEW m, Update(w, m)
    PROVE  \/ sound = "torn" /\ Astray
           \/ /\ sound = "torn" => w = << >>
              /\ pending' = w /\ machine' = m
              /\ disk' = disk /\ sound' = sound /\ committed' = committed
              /\ openedFile' = openedFile
  BY DEF Update

\* The constructor starts formatting, or trusts the disk.
LEMMA BootKeeps ==
    ASSUME IInv, NEW format \in BOOLEAN, Boot(format)
    PROVE  IInv'
  <1>1. /\ machine = "off" /\ copying' = copying
        /\ \/ Astray
           \/ /\ format \/ sound \in {"sound", "torn"}
              /\ machine' = "main"
              /\ pending' = IF format THEN FormatWrites ELSE << >>
              /\ sound' = IF format THEN "blank" ELSE sound
              /\ disk' = disk /\ committed' = committed /\ openedFile' = openedFile
    BY DEF Boot
  <1>2. pending = << >> /\ ~committed /\ committed \in BOOLEAN /\ openedFile = Closed /\ copying = NoCopy
    BY <1>1 DEF IInv, PhaseOK, OpenedOK, CopyingOK
  <1>3. CASE Astray
    BY <1>1, <1>2, <1>3, AstrayKeeps
  <1>4. CASE ~Astray
    <2>1. /\ format \/ sound \in {"sound", "torn"}
          /\ machine' = "main"
          /\ pending' = IF format THEN FormatWrites ELSE << >>
          /\ sound' = IF format THEN "blank" ELSE sound
          /\ disk' = disk /\ committed' = committed /\ openedFile' = openedFile
      BY <1>1, <1>4
    <2>2. DiskOK'
      <3>1. CASE format
        <4>1. pending' = FormatWrites /\ sound' = "blank"
          BY <2>1, <3>1
        <4>2. /\ FormatWrites \in Seq(Writes) /\ WritesApart(FormatWrites)
              /\ Good(After(disk, FormatWrites)) /\ Agreed(After(disk, FormatWrites))
          BY FormatReady
        <4> QED BY <2>1, <4>1, <4>2 DEF IInv, DiskOK, Followed
      <3>2. CASE ~format
        <4>1. pending' = pending /\ sound' = sound
          BY <1>2, <2>1, <3>2
        <4> QED BY <2>1, <4>1, DiskUnchanged DEF IInv
      <3> QED BY <3>1, <3>2
    <2>3. PhaseOK'
      <3>1. FormatWrites # << >>
        BY FormatReady
      <3> QED BY <1>2, <2>1, <3>1 DEF IInv, PhaseOK
    <2>4. OpenedOK'
      BY <1>2, <2>1, ClosedOK DEF OpenedOK
    <2>5. CopyingOK'
      BY <1>1, <1>2 DEF CopyingOK
    <2> QED BY <2>2, <2>3, <2>4, <2>5 DEF IInv
  <1> QED BY <1>3, <1>4

\* A stop leaves a whole disk, whichever write came last; one that stops
\* between the directory and the map is torn.
LEMMA StopKeeps ==
    ASSUME IInv, Stop
    PROVE  IInv'
  <1>1. /\ machine' = "off" /\ pending' = << >> /\ committed' = FALSE
        /\ sound' = IF committed /\ sound = "sound" THEN "torn" ELSE sound
        /\ copying' = NoCopy /\ openedFile' = Closed /\ disk' = disk
    BY DEF Stop
  <1>2. DiskOK'
    <2>1. disk \in [Sectors -> SectorContents] /\ (Followed => Good(disk))
      BY DEF IInv, DiskOK
    <2>2. pending' \in Seq(Writes) /\ WritesApart(pending')
      BY <1>1, EmptySeq DEF WritesApart
    <2>3. After(disk, pending') = disk
      BY <1>1, <2>1, NothingLeft
    <2>4. sound' = "sound" => sound = "sound" /\ ~committed
      BY <1>1
    <2>5. sound' = "sound" => Agreed(disk)
      BY <2>4 DEF IInv, DiskOK
    <2>6. Followed' => Good(disk)
      BY <1>1, <2>1 DEF Followed
    <2> QED BY <1>1, <2>1, <2>2, <2>3, <2>5, <2>6 DEF DiskOK, Followed
  <1>3. PhaseOK'
    BY <1>1 DEF IInv, PhaseOK
  <1>4. OpenedOK'
    BY <1>1, ClosedOK DEF OpenedOK
  <1>5. CopyingOK'
    BY <1>1 DEF CopyingOK
  <1> QED BY <1>2, <1>3, <1>4, <1>5 DEF IInv

\* One sector is written, the last of the operation or one before.
LEMMA DiskWriteKeeps ==
    ASSUME IInv, DiskWrite
    PROVE  IInv'
  <1>1. PICK w, q, e : w = Head(pending) /\ q = Tail(pending) /\ e = Written(disk, w.sector, w.contents)
    OBVIOUS
  <1>2. /\ machine # "off" /\ pending # << >> /\ disk' = e /\ pending' = q
        /\ committed' = (q # << >> /\ (committed \/ w.contents.kind \in {"dir", "map"}))
        /\ sound' = IF q = << >> /\ sound = "blank" THEN "sound" ELSE sound
        /\ copying' = copying \/ copying' = NoCopy
        /\ machine' = machine /\ openedFile' = openedFile
    BY <1>1 DEF DiskWrite
  <1>3. PICK d, p, o, o2 : d = disk /\ p = pending /\ o = After(d, p) /\ o2 = After(e, q)
    OBVIOUS
  <1>4. /\ d \in [Sectors -> SectorContents] /\ p \in Seq(Writes) /\ p # << >> /\ WritesApart(p)
        /\ Good(o)
        /\ sound \in {"blank", "sound"} => Agreed(o)
        /\ sound \in {"sound", "torn"} => Midway(d, p)
        /\ sound = "sound" /\ ~committed => Agreed(d)
    BY <1>2, <1>3 DEF IInv, DiskOK, Followed
  <1>5. sound \in {"blank", "sound", "torn"} /\ committed \in BOOLEAN
    BY <1>2 DEF IInv, PhaseOK
  <1>6. /\ e \in [Sectors -> SectorContents] /\ q \in Seq(Writes) /\ WritesApart(q)
        /\ Good(o2) /\ (Agreed(o) => Agreed(o2)) /\ SameFiles(o, o2)
        /\ q = << >> => e = o2
        /\ Midway(d, p) => BothKeep(d, o, e) /\ Midway(e, q)
        /\ Midway(d, p) /\ w.contents.kind \notin {"dir", "map"} /\ Agreed(d) /\ Agreed(o) => Agreed(e)
    <2>1. Good(After(d, p))
      BY <1>3, <1>4
    <2>2. w = Head(p) /\ q = Tail(p) /\ e = Written(d, w.sector, w.contents)
      BY <1>1, <1>3
    <2>3. Wrote(d, p, w.contents.kind, e, q)
      BY <1>4, <2>1, <2>2, WriteStep
    <2> QED BY <1>3, <2>3 DEF Wrote
  <1>7. DiskOK'
    <2>1. sound' \in {"sound", "blank"} => Agreed(o2)
      BY <1>2, <1>4, <1>5, <1>6
    <2>2. CASE q = << >>
      BY <1>2, <1>3, <1>6, <2>1, <2>2 DEF DiskOK
    <2>3. CASE q # << >> /\ sound \in {"sound", "torn"}
      <3>1. Midway(e, q) /\ Good(e)
        BY <1>4, <1>6, <2>3 DEF Midway
      <3>2. sound' = "sound" /\ ~committed' => Agreed(e)
        BY <1>2, <1>4, <1>5, <1>6, <2>3
      <3> QED BY <1>2, <1>3, <1>6, <2>1, <2>3, <3>1, <3>2 DEF DiskOK, Followed
    <2>4. CASE q # << >> /\ sound = "blank"
      BY <1>2, <1>3, <1>6, <2>1, <2>4 DEF DiskOK, Followed
    <2> QED BY <1>5, <2>2, <2>3, <2>4
  <1>8. PhaseOK'
    BY <1>2, <1>5 DEF IInv, PhaseOK
  <1>9. OpenedOK'
    <2>1. CASE openedFile.state = "open"
      <3>1. machine = "user"
        BY <1>2, <2>1, ClosedOK DEF IInv, OpenedOK, PhaseOK
      <3>2. sound \in {"sound", "torn"}
        BY <1>5, <3>1 DEF IInv, PhaseOK
      <3>3. OpenAtRoot(d, o, openedFile.hdrs)
        BY <1>3, <2>1 DEF IInv, OpenedOK
      <3>4. OpenAtRoot(e, o2, openedFile.hdrs)
        BY <1>4, <1>6, <3>2, <3>3, OpenStays
      <3> QED BY <1>2, <1>3, <3>4 DEF IInv, OpenedOK
    <2>2. CASE openedFile.state # "open"
      BY <1>2, <2>2 DEF IInv, OpenedOK
    <2> QED BY <2>1, <2>2
  <1>10. CopyingOK'
    <2>1. CASE copying' = NoCopy
      BY <2>1 DEF CopyingOK
    <2>2. CASE copying' = copying /\ copying # NoCopy
      <3>1. /\ machine = "user" /\ sound = "sound" /\ copying.data \in Buffers
            /\ Named(o, copying.name, Len(copying.data))
        BY <1>3, <2>2 DEF IInv, CopyingOK
      <3>2. Named(o2, copying.name, Len(copying.data))
        BY <1>4, <1>6, <3>1, NamedStays
      <3> QED BY <1>2, <1>3, <2>2, <3>1, <3>2 DEF CopyingOK
    <2> QED BY <1>2, <2>1, <2>2
  <1> QED BY <1>7, <1>8, <1>9, <1>10 DEF IInv

\* The files of d are in o as well.
Keeps(d, o) ==
    \A t \in RootsOf(Use(d)) : t \in RootsOf(Use(o)) /\ FetchFrom(o, t) = FetchFrom(d, t)

\* An operation that keeps the files of the directory keeps the open one.
LEMMA OpenKept ==
    ASSUME NEW d, NEW o, NEW h, OpenAtRoot(d, d, h), Keeps(d, o)
    PROVE  OpenAtRoot(d, o, h)
  BY DEF OpenAtRoot, Keeps

\* An operation that changes no file keeps them all.
LEMMA SameKeeps ==
    ASSUME NEW d, NEW o, SameFiles(d, o)
    PROVE  Keeps(d, o)
  BY DEF SameFiles, Keeps

\* p creates a file of this size.
Created(d, p, n, size) ==
    /\ Operation(d, p) /\ Keeps(d, After(d, p))
    /\ size \in Nat => Named(After(d, p), n, size)

\* The writes of a Create that succeeds are an operation that may start.
LEMMA CreateCreates ==
    ASSUME NEW d, Good(d), Agreed(d), NEW n \in Names, NEW size \in Int,
           NEW dir, dir = FetchDir(d), NEW map, map = FetchMap(d), Find(dir, n) = NoSector,
           Clear(map) # {}, InUse(dir) # Entries, NEW s, s = FindAndSet(map, 1)[1],
           NEW a, a = Allocate(map \cup {s}, size), a.ok,
           NEW p, p = CreateWrites(s, a.hdrs, Add(dir, n, s), a.map)
    PROVE  Created(d, p, n, size)
  <1>1. /\ p \in Seq(Writes) /\ p # << >> /\ WritesApart(p)
        /\ Good(After(d, p)) /\ Agreed(After(d, p)) /\ Midway(d, p)
        /\ HasNew(d, After(d, p), n, s, a.hdrs)
    BY CreateReady
  <1>2. ASSUME size \in Nat
        PROVE  FileLength(a.hdrs) = size
    BY <1>2, AllocateMarks
  <1>3. Operation(d, p)
    BY <1>1 DEF Operation
  <1>4. Keeps(d, After(d, p))
    BY <1>1 DEF Keeps, HasNew
  <1>5. size \in Nat => Named(After(d, p), n, size)
    BY <1>1, <1>2 DEF Named, HasNew
  <1> QED BY <1>3, <1>4, <1>5 DEF Created

\* Create does nothing, or creates the file.
LEMMA CreationIs ==
    ASSUME Good(disk), Agreed(disk), NEW n \in Names, NEW size \in Int
    PROVE  \/ Creation(n, size).writes = << >> /\ Creation(n, size).ok = FALSE
           \/ Created(disk, Creation(n, size).writes, n, size)
  <1>1. PICK dir, map : dir = FetchDir(disk) /\ map = FetchMap(disk)
    OBVIOUS
  <1>2. PICK s : s = FindAndSet(map, 1)[1]
    OBVIOUS
  <1>3. PICK a : a = Allocate(map \cup {s}, size)
    OBVIOUS
  <1> DEFINE ok == /\ Find(dir, n) = NoSector /\ Clear(map) # {}
                   /\ InUse(dir) # Entries /\ a.ok
             p  == CreateWrites(s, a.hdrs, Add(dir, n, s), a.map)
  <1>4. Creation(n, size) = [ok |-> ok, writes |-> IF ok THEN p ELSE << >>]
    BY <1>1, <1>2, <1>3 DEF Creation
  <1>5. CASE ok
    <2>1. Creation(n, size).writes = p
      BY <1>4, <1>5
    <2>2. Created(disk, p, n, size)
      BY <1>1, <1>2, <1>3, <1>5, CreateCreates
    <2> QED BY <2>1, <2>2
  <1>6. CASE ~ok
    <2>1. ok = FALSE
      BY <1>6
    <2> HIDE DEF ok
    <2> QED BY <1>4, <2>1
  <1> QED BY <1>5, <1>6

\* SC_Create.
LEMMA CreateKeeps ==
    ASSUME IInv, NEW n \in Names, NEW size \in Sizes, Create(n, size)
    PROVE  IInv'
  <1>1. PICK w : w = Creation(n, size).writes
    OBVIOUS
  <1>2. /\ Running /\ pending = << >> /\ copying = NoCopy /\ copying' = copying
        /\ Update(w, "user")
    BY <1>1 DEF Create, Idle, Running
  <1>3. CASE sound = "torn" /\ Astray
    BY <1>2, <1>3, AstrayKeeps
  <1>4. CASE ~(sound = "torn" /\ Astray)
    <2>1. /\ sound = "torn" => w = << >>
          /\ pending' = w /\ machine' = "user"
          /\ disk' = disk /\ sound' = sound /\ committed' = committed /\ openedFile' = openedFile
      BY <1>2, <1>4, UpdateIs
    <2>2. DiskOK /\ PhaseOK /\ OpenedOK
      BY DEF IInv
    <2>3. /\ sound \in {"sound", "torn"} /\ After(disk, pending) = disk /\ Good(disk)
          /\ sound = "sound" => Agreed(disk)
      BY <1>2, <2>2, Between
    <2>4. pending' = << >> \/ Created(disk, pending', n, size)
      <3>1. CASE sound = "torn"
        BY <2>1, <3>1
      <3>2. CASE sound = "sound"
        <4>1. size \in Int
          BY FileSysAssumption
        <4> QED BY <1>1, <2>1, <2>3, <3>2, <4>1, CreationIs
      <3> QED BY <2>3, <3>1, <3>2
    <2>5. DiskOK'
      BY <1>2, <2>1, <2>2, <2>4, Starts DEF Created
    <2>6. PhaseOK'
      BY <1>2, <2>1, <2>2, <2>3 DEF PhaseOK
    <2>7. OpenedOK'
      <3>1. ASSUME openedFile.state = "open"
            PROVE  OpenAtRoot(disk, After(disk, pending'), openedFile.hdrs)
        <4>1. OpenAtRoot(disk, disk, openedFile.hdrs)
          BY <2>2, <2>3, <3>1 DEF OpenedOK
        <4>2. CASE pending' = << >>
          BY <1>2, <2>3, <4>1, <4>2
        <4>3. CASE Created(disk, pending', n, size)
          BY <4>1, <4>3, OpenKept DEF Created
        <4> QED BY <2>4, <4>2, <4>3
      <3> QED BY <2>1, <2>2, <3>1 DEF OpenedOK
    <2>8. CopyingOK'
      BY <1>2 DEF CopyingOK
    <2> QED BY <2>5, <2>6, <2>7, <2>8 DEF IInv
  <1> QED BY <1>3, <1>4

\* The first half of Copy.
LEMMA CopyKeeps ==
    ASSUME IInv, NEW n \in Names, NEW data \in Buffers, Copy(n, data)
    PROVE  IInv'
  <1>1. PICK c : c = Creation(n, Len(data))
    OBVIOUS
  <1>2. /\ machine \in {"main", "removed"} /\ pending = << >> /\ copying = NoCopy
        /\ copying' = IF c.ok /\ sound = "sound" THEN [name |-> n, data |-> data] ELSE NoCopy
        /\ Update(c.writes, "user")
    BY <1>1 DEF Copy, Idle
  <1>3. CASE sound = "torn" /\ Astray
    BY <1>2, <1>3, AstrayKeeps
  <1>4. CASE ~(sound = "torn" /\ Astray)
    <2>1. /\ sound = "torn" => c.writes = << >>
          /\ pending' = c.writes /\ machine' = "user"
          /\ disk' = disk /\ sound' = sound /\ committed' = committed /\ openedFile' = openedFile
      BY <1>2, <1>4, UpdateIs
    <2>2. DiskOK /\ PhaseOK /\ OpenedOK
      BY DEF IInv
    <2>3. Running
      BY <1>2 DEF Running
    <2>4. sound \in {"sound", "torn"} /\ Good(disk) /\ (sound = "sound" => Agreed(disk))
      BY <1>2, <2>2, <2>3, Between
    <2>5. Len(data) \in Nat /\ Len(data) \in Int
      <3>1. data \in Seq(Bytes)
        BY FileSysAssumption
      <3> QED BY <3>1, LenProperties
    <2>6. sound = "sound" => \/ c.writes = << >> /\ c.ok = FALSE
                             \/ Created(disk, c.writes, n, Len(data))
      BY <1>1, <2>4, <2>5, CreationIs
    <2>7. DiskOK'
      BY <1>2, <2>1, <2>2, <2>3, <2>4, <2>6, Starts DEF Created
    <2>8. PhaseOK'
      BY <1>2, <2>1, <2>2, <2>4 DEF PhaseOK
    <2>9. OpenedOK'
      BY <1>2, <2>1, <2>2, ClosedOK DEF OpenedOK
    <2>10. CopyingOK'
      <3>1. CASE copying' = NoCopy
        BY <3>1 DEF CopyingOK
      <3>2. CASE copying' # NoCopy
        <4>1. c.ok /\ sound = "sound" /\ copying' = [name |-> n, data |-> data]
          BY <1>2, <3>2
        <4>2. copying'.name = n /\ copying'.data = data
          BY <4>1
        <4>3. Named(After(disk, pending'), n, Len(data))
          BY <2>1, <2>5, <2>6, <4>1 DEF Created
        <4> QED BY <2>1, <4>1, <4>2, <4>3 DEF CopyingOK
      <3> QED BY <3>1, <3>2
    <2> QED BY <2>7, <2>8, <2>9, <2>10 DEF IInv
  <1> QED BY <1>3, <1>4

\* Remove, which finds every sector of the file marked unless the disk is torn.
LEMMA RemoveFileKeeps ==
    ASSUME IInv, NEW n \in Names, RemoveFile(n)
    PROVE  IInv'
  <1>1. PICK dir, map, s : dir = FetchDir(disk) /\ map = FetchMap(disk) /\ s = Find(dir, n)
    OBVIOUS
  <1>2. PICK h : h = FetchFrom(disk, s)
    OBVIOUS
  <1>3. PICK w, m :
          /\ w = IF s # NoSector /\ DataSectors(h) \subseteq map
                 THEN RemoveWrites(s, h, RemoveEntry(dir, n), map) ELSE << >>
          /\ m = IF s = NoSector \/ DataSectors(h) \subseteq map THEN "removed" ELSE "failed"
    OBVIOUS
  <1>4. /\ machine = "main" /\ pending = << >> /\ copying = NoCopy /\ copying' = copying
        /\ Update(w, m)
    BY <1>1, <1>2, <1>3 DEF RemoveFile, Idle
  <1>5. CASE sound = "torn" /\ Astray
    BY <1>4, <1>5, AstrayKeeps
  <1>6. CASE ~(sound = "torn" /\ Astray)
    <2>1. /\ sound = "torn" => w = << >>
          /\ pending' = w /\ machine' = m
          /\ disk' = disk /\ sound' = sound /\ committed' = committed /\ openedFile' = openedFile
      BY <1>4, <1>6, UpdateIs
    <2>2. DiskOK /\ PhaseOK /\ OpenedOK
      BY DEF IInv
    <2>3. Running
      BY <1>4 DEF Running
    <2>4. sound \in {"sound", "torn"} /\ Good(disk) /\ (sound = "sound" => Agreed(disk))
      BY <1>4, <2>2, <2>3, Between
    <2>5. /\ pending' = << >> \/ Operation(disk, pending')
          /\ m = "removed" \/ (m = "failed" /\ sound = "torn")
      <3>1. CASE sound = "torn"
        BY <1>3, <2>1, <3>1
      <3>2. CASE sound = "sound" /\ s = NoSector
        BY <1>3, <2>1, <3>2
      <3>3. CASE sound = "sound" /\ s # NoSector
        <4>1. PICK p : p = RemoveWrites(s, h, RemoveEntry(dir, n), map)
          OBVIOUS
        <4>2. /\ DataSectors(h) \subseteq map
              /\ p \in Seq(Writes) /\ p # << >> /\ WritesApart(p)
              /\ Good(After(disk, p)) /\ Agreed(After(disk, p)) /\ Midway(disk, p)
          BY <1>1, <1>2, <2>4, <3>3, <4>1, RemoveReady
        <4> QED BY <1>3, <2>1, <3>3, <4>1, <4>2 DEF Operation
      <3> QED BY <2>4, <3>1, <3>2, <3>3
    <2>6. DiskOK'
      BY <1>4, <2>1, <2>2, <2>3, <2>5, Starts
    <2>7. m = "failed" => pending' = << >>
      BY <1>3, <2>1
    <2>8. PhaseOK'
      BY <1>4, <2>1, <2>2, <2>4, <2>5, <2>7 DEF PhaseOK
    <2>9. OpenedOK'
      BY <1>4, <2>1, <2>2, ClosedOK DEF OpenedOK
    <2>10. CopyingOK'
      BY <1>4 DEF CopyingOK
    <2> QED BY <2>6, <2>8, <2>9, <2>10 DEF IInv
  <1> QED BY <1>5, <1>6

\* A transfer stays within the file.
LEMMA ClippedIs ==
    ASSUME NEW h, NEW at \in 0 .. FileLength(h), FileLength(h) \in Nat, NEW k \in Int
    PROVE  /\ Clipped(h, at, k) \in Nat /\ at + Clipped(h, at, k) <= FileLength(h)
           /\ Clipped(h, at, k) > 0 => Clipped(h, at, k) <= k
  <1>1. PICK n \in Nat : n = FileLength(h)
    OBVIOUS
  <1>2. Clipped(h, at, k) = IF k <= 0 \/ at >= n THEN 0 ELSE IF at + k > n THEN n - at ELSE k
    BY <1>1 DEF Clipped
  <1> QED BY <1>1, <1>2

\* The headers that a name leads to.
LEMMA FoundFile ==
    ASSUME NEW d, Good(d), NEW n, NEW s, s = Find(FetchDir(d), n), s # NoSector
    PROVE  /\ s \in RootsOf(Use(d)) /\ s \notin {FreeMapSector, DirectorySector}
           /\ FetchFrom(d, s) \in Seq(Headers) /\ FileLength(FetchFrom(d, s)) \in Nat
  <1>1. FetchDir(d) \in Dirs
    BY FetchedDir DEF Good
  <1>2. PICK i \in Entries : Use(d)[i] = s
    BY <1>1, FindIs DEF Use
  <1>3. s \in RootsOf(Use(d))
    BY <1>2 DEF RootsOf
  <1>4. s \notin {FreeMapSector, DirectorySector}
    BY <1>2 DEF Good
  <1>5. FileHeaders(FetchFrom(d, s), s)
    BY <1>3 DEF Good, HasFiles, HasFile
  <1> QED BY <1>3, <1>4, <1>5, FileLengthIs DEF FileHeaders

\* SC_Open finds a file of the directory, or NULL.
LEMMA OpenKeeps ==
    ASSUME IInv, NEW n \in Names, Open(n)
    PROVE  IInv'
  <1>1. PICK s : s = Find(FetchDir(disk), n)
    OBVIOUS
  <1>2. /\ machine \in {"main", "removed", "user"} /\ pending = << >> /\ copying = NoCopy
        /\ machine' = "user"
        /\ openedFile' = IF s = NoSector THEN Null ELSE OpenAt(n, s)
        /\ disk' = disk /\ sound' = sound /\ committed' = committed /\ copying' = copying
        /\ pending' = pending
    BY <1>1 DEF Open, Idle
  <1>3. DiskOK /\ PhaseOK /\ OpenedOK
    BY DEF IInv
  <1>4. sound \in {"sound", "torn"} /\ After(disk, pending) = disk /\ Good(disk)
    <2>1. Running
      BY <1>2 DEF Running
    <2> QED BY <1>2, <1>3, <2>1, Between
  <1>5. DiskOK'
    BY <1>2, <1>3, DiskUnchanged
  <1>6. PhaseOK'
    BY <1>2, <1>3, <1>4 DEF PhaseOK
  <1>7. CopyingOK'
    BY <1>2 DEF CopyingOK
  <1>8. OpenedOK'
    <2>1. CASE s = NoSector
      BY <1>2, <2>1, ClosedOK DEF OpenedOK
    <2>2. CASE s # NoSector
      <3>1. PICK h : h = FetchFrom(disk, s)
        OBVIOUS
      <3>2. /\ s \in RootsOf(Use(disk)) /\ s \notin {FreeMapSector, DirectorySector}
            /\ h \in Seq(Headers) /\ FileLength(h) \in Nat
        BY <1>1, <1>4, <2>2, <3>1, FoundFile
      <3>3. openedFile' = [state |-> "open", name |-> n, hdrs |-> h, seek |-> 0]
        BY <1>2, <2>2, <3>1 DEF OpenAt
      <3>4. /\ openedFile' \in [state : {"open", "null", "closed"}, name : Names \cup {NoName},
                                hdrs : Seq(Headers), seek : Nat]
            /\ openedFile'.seek \in 0 .. FileLength(openedFile'.hdrs)
            /\ openedFile'.hdrs = h
        BY <3>2, <3>3
      <3>5. OpenAtRoot(disk, disk, h)
        BY <3>1, <3>2 DEF OpenAtRoot
      <3>6. OpenAtRoot(disk, After(disk, pending), openedFile'.hdrs)
        BY <1>4, <3>4, <3>5
      <3> QED BY <1>2, <3>4, <3>6 DEF OpenedOK
    <2> QED BY <2>1, <2>2
  <1> QED BY <1>5, <1>6, <1>7, <1>8 DEF IInv

\* A system call on NULL aborts the kernel.
LEMMA UseNullKeeps ==
    ASSUME IInv, UseNull
    PROVE  IInv'
  <1>1. /\ machine = "user" /\ pending = << >> /\ copying = NoCopy /\ openedFile.state = "null"
        /\ machine' = "aborted"
        /\ disk' = disk /\ sound' = sound /\ committed' = committed /\ copying' = copying
        /\ pending' = pending /\ openedFile' = openedFile
    BY DEF UseNull, Idle
  <1>2. DiskOK /\ PhaseOK /\ OpenedOK
    BY DEF IInv
  <1>3. DiskOK'
    BY <1>1, <1>2, DiskUnchanged
  <1>4. PhaseOK'
    BY <1>1, <1>2 DEF PhaseOK
  <1>5. CopyingOK'
    BY <1>1 DEF CopyingOK
  <1>6. OpenedOK'
    BY <1>1, <1>2 DEF OpenedOK
  <1> QED BY <1>3, <1>4, <1>5, <1>6 DEF IInv

\* A system call on no file at all: the kernel aborts or goes astray.
LEMMA UseClosedKeeps ==
    ASSUME IInv, UseClosed
    PROVE  IInv'
  <1>1. /\ machine \in {"main", "removed", "user"} /\ pending = << >> /\ copying = NoCopy
        /\ copying' = copying
    BY DEF UseClosed, Idle
  <1>2. CASE Astray
    BY <1>1, <1>2, AstrayKeeps
  <1>3. CASE ~Astray
    <2>1. /\ machine' = "aborted" /\ disk' = disk /\ sound' = sound /\ committed' = committed
          /\ pending' = pending /\ openedFile' = openedFile
      BY <1>3 DEF UseClosed
    <2>2. DiskOK /\ PhaseOK /\ OpenedOK
      BY DEF IInv
    <2>3. DiskOK'
      BY <2>1, <2>2, DiskUnchanged
    <2>4. PhaseOK'
      BY <1>1, <2>1, <2>2 DEF PhaseOK
    <2>5. CopyingOK'
      BY <1>1 DEF CopyingOK
    <2>6. OpenedOK'
      BY <1>1, <2>1, <2>2 DEF OpenedOK
    <2> QED BY <2>3, <2>4, <2>5, <2>6 DEF IInv
  <1> QED BY <1>2, <1>3

\* Nothing is open afterwards, or the file was not found.
LEMMA CloseKeeps ==
    ASSUME IInv, Close
    PROVE  IInv'
  <1>1. /\ machine = "user" /\ pending = << >> /\ copying = NoCopy
        /\ openedFile' = Closed \/ openedFile' = openedFile
        /\ disk' = disk /\ sound' = sound /\ committed' = committed /\ copying' = copying
        /\ pending' = pending /\ machine' = machine
    BY DEF Close, Idle
  <1>2. DiskOK /\ PhaseOK /\ OpenedOK
    BY DEF IInv
  <1>3. DiskOK'
    BY <1>1, <1>2, DiskUnchanged
  <1>4. PhaseOK'
    BY <1>1, <1>2 DEF PhaseOK
  <1>5. CopyingOK'
    BY <1>1 DEF CopyingOK
  <1>6. OpenedOK'
    <2>1. CASE openedFile' = Closed
      BY <1>1, <2>1, ClosedOK DEF OpenedOK
    <2>2. CASE openedFile' = openedFile
      BY <1>1, <1>2, <2>2 DEF OpenedOK
    <2> QED BY <1>1, <2>1, <2>2
  <1> QED BY <1>3, <1>4, <1>5, <1>6 DEF IInv

\* The position of the open file moves forward within the file.
LEMMA AdvanceIs ==
    ASSUME OpenedOK, NEW k \in Nat, openedFile.seek + k <= FileLength(openedFile.hdrs),
           FileLength(openedFile.hdrs) \in Nat, openedFile' = Advance(openedFile, k)
    PROVE  /\ openedFile' \in [state : {"open", "null", "closed"}, name : Names \cup {NoName},
                               hdrs : Seq(Headers), seek : Nat]
           /\ openedFile'.seek \in 0 .. FileLength(openedFile'.hdrs)
           /\ openedFile'.hdrs = openedFile.hdrs /\ openedFile'.state = openedFile.state
  <1>1. PICK st, nm, h, sk : /\ st = openedFile.state /\ nm = openedFile.name
                             /\ h = openedFile.hdrs /\ sk = openedFile.seek
    OBVIOUS
  <1>2. /\ st \in {"open", "null", "closed"} /\ nm \in Names \cup {NoName}
        /\ h \in Seq(Headers) /\ sk \in Nat
        /\ openedFile = [state |-> st, name |-> nm, hdrs |-> h, seek |-> sk]
    BY <1>1 DEF OpenedOK
  <1>3. openedFile' = [state |-> st, name |-> nm, hdrs |-> h, seek |-> sk + k]
    BY <1>2 DEF Advance
  <1>4. sk + k \in 0 .. FileLength(h) /\ sk + k \in Nat
    BY <1>1, <1>2
  <1> QED BY <1>1, <1>2, <1>3, <1>4

\* The open file's length.
LEMMA OpenLength ==
    ASSUME OpenedOK, Good(disk), openedFile.state = "open"
    PROVE  /\ FileLength(openedFile.hdrs) \in Nat
           /\ openedFile.seek \in 0 .. FileLength(openedFile.hdrs)
           /\ \E s \in RootsOf(Use(disk)) : /\ s \notin {FreeMapSector, DirectorySector}
                                            /\ openedFile.hdrs = FetchFrom(disk, s)
  <1>1. PICK s \in RootsOf(Use(disk)) : /\ s \notin {FreeMapSector, DirectorySector}
                                        /\ openedFile.hdrs = FetchFrom(disk, s)
    BY DEF OpenedOK, OpenAtRoot
  <1>2. FileHeaders(openedFile.hdrs, s)
    BY <1>1 DEF Good, HasFiles, HasFile
  <1> QED BY <1>1, <1>2, FileLengthIs DEF OpenedOK

\* Read does not pass the end of the file.
LEMMA ReadKeeps ==
    ASSUME IInv, NEW k \in ReadSizes, Read(k)
    PROVE  IInv'
  <1>1. PICK bytes : bytes = ReadAt(disk, openedFile.hdrs, k, openedFile.seek)
    OBVIOUS
  <1>2. /\ machine = "user" /\ pending = << >> /\ copying = NoCopy /\ openedFile.state = "open"
        /\ openedFile' = Advance(openedFile, Len(bytes))
        /\ disk' = disk /\ sound' = sound /\ committed' = committed /\ copying' = copying
        /\ pending' = pending /\ machine' = machine
    BY <1>1 DEF Read, Idle
  <1>3. DiskOK /\ PhaseOK /\ OpenedOK
    BY DEF IInv
  <1>4. Good(disk)
    <2>1. Running
      BY <1>2 DEF Running
    <2> QED BY <1>2, <1>3, <2>1, Between
  <1>5. /\ FileLength(openedFile.hdrs) \in Nat
        /\ openedFile.seek \in 0 .. FileLength(openedFile.hdrs)
    BY <1>2, <1>3, <1>4, OpenLength
  <1>6. PICK c : c = Clipped(openedFile.hdrs, openedFile.seek, k)
    OBVIOUS
  <1>7. c \in Nat /\ openedFile.seek + c <= FileLength(openedFile.hdrs)
    <2>1. k \in Int
      BY FileSysAssumption
    <2> QED BY <1>5, <1>6, <2>1, ClippedIs
  <1>8. Len(bytes) = c
    <2>1. bytes = [i \in 1 .. c |-> ByteAt(disk, openedFile.hdrs, openedFile.seek + i - 1)]
      BY <1>1, <1>6 DEF ReadAt
    <2>2. DOMAIN bytes = 1 .. c
      BY <2>1
    <2>3. bytes \in Seq({bytes[i] : i \in 1 .. c})
      <3>1. PICK g : g = [i \in 1 .. c |-> ByteAt(disk, openedFile.hdrs, openedFile.seek + i - 1)]
        OBVIOUS
      <3>2. PICK S : S = {g[i] : i \in 1 .. c}
        OBVIOUS
      <3>3. g \in [1 .. c -> S]
        BY <3>1, <3>2
      <3>4. g \in Seq(S)
        BY <1>7, <3>3, SeqDef
      <3>5. bytes = g
        BY <2>1, <3>1
      <3> QED BY <3>2, <3>4, <3>5
    <2> QED BY <1>7, <2>2, <2>3, LenProperties
  <1>9. /\ openedFile' \in [state : {"open", "null", "closed"}, name : Names \cup {NoName},
                            hdrs : Seq(Headers), seek : Nat]
        /\ openedFile'.seek \in 0 .. FileLength(openedFile'.hdrs)
        /\ openedFile'.hdrs = openedFile.hdrs /\ openedFile'.state = openedFile.state
    BY <1>2, <1>3, <1>5, <1>7, <1>8, AdvanceIs
  <1>10. DiskOK'
    BY <1>2, <1>3, DiskUnchanged
  <1>11. PhaseOK'
    BY <1>2, <1>3 DEF PhaseOK
  <1>12. CopyingOK'
    BY <1>2 DEF CopyingOK
  <1>13. OpenedOK'
    BY <1>2, <1>3, <1>9 DEF OpenedOK
  <1> QED BY <1>10, <1>11, <1>12, <1>13 DEF IInv

\* Write's sectors are those of the open file's data.
LEMMA WriteKeeps ==
    ASSUME IInv, NEW buf \in Buffers, Write(buf)
    PROVE  IInv'
  <1>1. PICK h, at : h = openedFile.hdrs /\ at = openedFile.seek
    OBVIOUS
  <1>2. PICK k : k = Clipped(h, at, Len(buf))
    OBVIOUS
  <1>3. PICK b : b = SubSeq(buf, 1, k)
    OBVIOUS
  <1>4. /\ machine = "user" /\ pending = << >> /\ copying = NoCopy /\ openedFile.state = "open"
        /\ k > 0
        /\ pending' = DataWrites(disk, h, b, at)
        /\ openedFile' = Advance(openedFile, k)
        /\ disk' = disk /\ sound' = sound /\ committed' = committed /\ copying' = copying
        /\ machine' = machine
    BY <1>1, <1>2, <1>3 DEF Write, Idle
  <1>5. DiskOK /\ PhaseOK /\ OpenedOK
    BY DEF IInv
  <1>6. /\ After(disk, pending) = disk /\ Good(disk) /\ sound \in {"sound", "torn"}
        /\ disk \in [Sectors -> SectorContents] /\ Running
    <2>1. Running
      BY <1>4 DEF Running
    <2> QED BY <1>4, <1>5, <2>1, Between
  <1>7. FileLength(h) \in Nat /\ at \in 0 .. FileLength(h)
    BY <1>1, <1>4, <1>5, <1>6, OpenLength
  <1>8. PICK s \in RootsOf(Use(disk)) : s \notin {FreeMapSector, DirectorySector} /\ h = FetchFrom(disk, s)
    BY <1>1, <1>4, <1>5, <1>6, OpenLength
  <1>9. buf \in Seq(Bytes) /\ Len(buf) \in Nat
    <2>1. buf \in Seq(Bytes)
      BY FileSysAssumption
    <2> QED BY <2>1, LenProperties
  <1>10. k \in Nat /\ at + k <= FileLength(h) /\ k <= Len(buf)
    BY <1>2, <1>4, <1>7, <1>9, ClippedIs
  <1>11. b \in Seq(Bytes) /\ Len(b) = k
    <2>1. 1 \in 1 .. Len(buf) + 1 /\ k \in 1 - 1 .. Len(buf)
      BY <1>9, <1>10
    <2>2. SubSeq(buf, 1, k) \in Seq(Bytes) /\ Len(SubSeq(buf, 1, k)) = IF 1 <= k THEN k - 1 + 1 ELSE 0
      BY <1>9, <2>1, SubSeqProperties
    <2> QED BY <1>3, <1>4, <1>10, <2>2
  <1>12. Operation(disk, pending') /\ SameFiles(disk, After(disk, pending'))
    <2>1. PICK p : p = DataWrites(disk, h, b, at)
      OBVIOUS
    <2>2. Len(b) # 0 /\ at \in Nat /\ at + Len(b) <= FileLength(h)
      BY <1>4, <1>7, <1>10, <1>11
    <2>3. /\ p \in Seq(Writes) /\ p # << >> /\ WritesApart(p)
          /\ Good(After(disk, p)) /\ SameFiles(disk, After(disk, p)) /\ Midway(disk, p)
          /\ Agreed(disk) => Agreed(After(disk, p))
      BY <1>6, <1>8, <1>11, <2>1, <2>2, WriteReady
    <2> QED BY <1>4, <2>1, <2>3 DEF Operation
  <1>13. /\ openedFile' \in [state : {"open", "null", "closed"}, name : Names \cup {NoName},
                             hdrs : Seq(Headers), seek : Nat]
         /\ openedFile'.seek \in 0 .. FileLength(openedFile'.hdrs)
         /\ openedFile'.hdrs = openedFile.hdrs /\ openedFile'.state = openedFile.state
    BY <1>1, <1>4, <1>5, <1>7, <1>10, AdvanceIs
  <1>14. DiskOK'
    BY <1>4, <1>5, <1>6, <1>12, Starts
  <1>15. PhaseOK'
    BY <1>4, <1>5, <1>6 DEF PhaseOK
  <1>16. CopyingOK'
    BY <1>4 DEF CopyingOK
  <1>17. OpenedOK'
    <2>1. OpenAtRoot(disk, disk, openedFile.hdrs)
      BY <1>4, <1>5, <1>6 DEF OpenedOK
    <2>2. OpenAtRoot(disk, After(disk, pending'), openedFile.hdrs)
      BY <1>12, <2>1, SameKeeps, OpenKept
    <2> QED BY <1>4, <1>5, <1>13, <2>2 DEF OpenedOK
  <1> QED BY <1>14, <1>15, <1>16, <1>17 DEF IInv

\* Copy finds the file that it has created, with room for all its data.
LEMMA CopyDataKeeps ==
    ASSUME IInv, CopyData
    PROVE  IInv'
  <1>1. PICK n, data : n = copying.name /\ data = copying.data
    OBVIOUS
  <1>2. PICK s : s = Find(FetchDir(disk), n)
    OBVIOUS
  <1>3. PICK h : h = FetchFrom(disk, s)
    OBVIOUS
  <1>4. machine = "user" /\ copying # NoCopy /\ pending = << >>
    BY DEF CopyData
  <1>5. DiskOK /\ PhaseOK /\ OpenedOK /\ CopyingOK
    BY DEF IInv
  <1>6. /\ After(disk, pending) = disk /\ Good(disk) /\ Agreed(disk) /\ sound = "sound"
        /\ disk \in [Sectors -> SectorContents] /\ Running
    <2>1. Running /\ sound = "sound"
      BY <1>4, <1>5 DEF Running, CopyingOK
    <2> QED BY <1>4, <1>5, <2>1, Between
  <1>7. data \in Buffers /\ Named(disk, n, Len(data)) /\ s # NoSector /\ FileLength(h) = Len(data)
    BY <1>1, <1>2, <1>3, <1>4, <1>5, <1>6 DEF CopyingOK, Named
  <1>8. /\ pending' = IF data = << >> THEN << >> ELSE DataWrites(disk, h, data, 0)
        /\ copying' = IF data = << >> THEN NoCopy ELSE copying
        /\ machine' = machine
        /\ disk' = disk /\ sound' = sound /\ committed' = committed /\ openedFile' = openedFile
    BY <1>1, <1>2, <1>3, <1>7 DEF CopyData, OpenAt
  <1>9. PhaseOK'
    BY <1>4, <1>5, <1>6, <1>8 DEF PhaseOK
  <1>10. CASE data = << >>
    <2>1. DiskOK'
      BY <1>4, <1>5, <1>8, <1>10, DiskUnchanged
    <2>2. OpenedOK'
      BY <1>4, <1>5, <1>8, <1>10 DEF OpenedOK
    <2>3. CopyingOK'
      BY <1>8, <1>10 DEF CopyingOK
    <2> QED BY <1>9, <2>1, <2>2, <2>3 DEF IInv
  <1>11. CASE data # << >>
    <2>1. data \in Seq(Bytes) /\ Len(data) \in Nat /\ Len(data) # 0
      <3>1. data \in Seq(Bytes)
        BY <1>7, FileSysAssumption
      <3> QED BY <1>11, <3>1, LenProperties, EmptySeq
    <2>2. s \in RootsOf(Use(disk)) /\ s \notin {FreeMapSector, DirectorySector}
      BY <1>2, <1>6, <1>7, FoundFile
    <2>3. Operation(disk, pending') /\ SameFiles(disk, After(disk, pending'))
      <3>1. PICK p : p = DataWrites(disk, h, data, 0)
        OBVIOUS
      <3>2. 0 \in Nat /\ 0 + Len(data) <= FileLength(h)
        BY <1>7, <2>1
      <3>3. /\ p \in Seq(Writes) /\ p # << >> /\ WritesApart(p)
            /\ Good(After(disk, p)) /\ SameFiles(disk, After(disk, p)) /\ Midway(disk, p)
            /\ Agreed(disk) => Agreed(After(disk, p))
        BY <1>3, <1>6, <2>1, <2>2, <3>1, <3>2, WriteReady
      <3> QED BY <1>8, <1>11, <3>1, <3>3 DEF Operation
    <2>4. DiskOK'
      BY <1>4, <1>5, <1>6, <1>8, <2>3, Starts
    <2>5. OpenedOK'
      <3>1. ASSUME openedFile.state = "open"
            PROVE  OpenAtRoot(disk, After(disk, pending'), openedFile.hdrs)
        <4>1. OpenAtRoot(disk, disk, openedFile.hdrs)
          BY <1>5, <1>6, <3>1 DEF OpenedOK
        <4> QED BY <2>3, <4>1, SameKeeps, OpenKept
      <3> QED BY <1>4, <1>5, <1>8, <3>1 DEF OpenedOK
    <2>6. CopyingOK'
      <3>1. Named(After(disk, pending'), n, Len(data))
        BY <1>6, <1>7, <2>3, NamedStays
      <3> QED BY <1>1, <1>4, <1>6, <1>7, <1>8, <1>11, <3>1 DEF CopyingOK
    <2> QED BY <1>9, <2>4, <2>5, <2>6 DEF IInv
  <1> QED BY <1>10, <1>11

---------------------------------------------------------------------------
(* The theorems.                                                           *)

\* A disk nobody has formatted.
LEMMA InitHolds == Init => IInv
  <1> SUFFICES ASSUME Init PROVE IInv
    OBVIOUS
  <1>1. /\ disk = [s \in Sectors |-> NoData] /\ sound = "blank" /\ machine = "off"
        /\ pending = << >> /\ committed = FALSE /\ copying = NoCopy /\ openedFile = Closed
    BY DEF Init
  <1>2. DiskOK
    <2>1. NoData \in SectorContents
      BY Kinds DEF SectorContents
    <2>2. disk \in [Sectors -> SectorContents]
      BY <1>1, <2>1
    <2>3. pending \in Seq(Writes) /\ DOMAIN pending = {}
      BY <1>1, EmptySeq
    <2>4. WritesApart(pending)
      BY <2>3 DEF WritesApart
    <2> QED BY <1>1, <2>2, <2>3, <2>4 DEF DiskOK, Followed
  <1>3. OpenedOK
    BY <1>1, ClosedOK DEF OpenedOK
  <1>4. CopyingOK
    BY <1>1 DEF CopyingOK
  <1>5. PhaseOK
    BY <1>1 DEF PhaseOK
  <1> QED BY <1>2, <1>3, <1>4, <1>5 DEF IInv

\* Every step keeps the inductive invariant.
LEMMA StepKeeps == IInv /\ [Next]_vars => IInv'
  <1> SUFFICES ASSUME IInv, [Next]_vars PROVE IInv'
    OBVIOUS
  <1>1. CASE UNCHANGED vars
    <2>1. /\ disk' = disk /\ sound' = sound /\ machine' = machine /\ pending' = pending
          /\ committed' = committed /\ copying' = copying /\ openedFile' = openedFile
      BY <1>1 DEF vars
    <2>2. DiskOK' /\ PhaseOK'
      BY <2>1, DiskUnchanged DEF IInv, PhaseOK
    <2>3. OpenedOK' /\ CopyingOK'
      BY <2>1 DEF IInv, OpenedOK, CopyingOK
    <2> QED BY <2>2, <2>3 DEF IInv
  <1>2. CASE Step
    <2>1. ASSUME NEW format \in BOOLEAN, Boot(format) PROVE IInv'
      BY <2>1, BootKeeps
    <2>2. CASE DiskWrite
      BY <2>2, DiskWriteKeeps
    <2>3. CASE Stop
      BY <2>3, StopKeeps
    <2>4. CASE CopyData
      BY <2>4, CopyDataKeeps
    <2>5. CASE UseNull
      BY <2>5, UseNullKeeps
    <2>6. CASE Close
      BY <2>6, CloseKeeps
    <2>13. CASE UseClosed
      BY <2>13, UseClosedKeeps
    <2>7. ASSUME NEW n \in Names, RemoveFile(n) PROVE IInv'
      BY <2>7, RemoveFileKeeps
    <2>8. ASSUME NEW n \in Names, Open(n) PROVE IInv'
      BY <2>8, OpenKeeps
    <2>9. ASSUME NEW n \in Names, NEW size \in Sizes, Create(n, size) PROVE IInv'
      BY <2>9, CreateKeeps
    <2>10. ASSUME NEW n \in Names, NEW data \in Buffers, Copy(n, data) PROVE IInv'
      BY <2>10, CopyKeeps
    <2>11. ASSUME NEW k \in ReadSizes, Read(k) PROVE IInv'
      BY <2>11, ReadKeeps
    <2>12. ASSUME NEW buf \in Buffers, Write(buf) PROVE IInv'
      BY <2>12, WriteKeeps
    <2> QED BY <1>2, <2>1, <2>2, <2>3, <2>4, <2>5, <2>6, <2>7, <2>8, <2>9, <2>10, <2>11, <2>12,
            <2>13 DEF Step
  <1> QED BY <1>1, <1>2 DEF Next

\* Whatever the operations, and wherever the kernel stops, the disk, the writes
\* to come, the open file and the phase of the machine fit together.
THEOREM IInvHolds == Spec => []IInv
  <1> QED BY InitHolds, StepKeeps, PTL DEF Spec

\* A header in memory or on disk is always well formed, whatever sizes programs
\* pass to Create, negative ones included (filehdr.cc:75).
THEOREM TypeCorrect == Spec => []TypeOK
  <1>1. IInv => TypeOK
    <2> SUFFICES ASSUME IInv PROVE TypeOK
      OBVIOUS
    <2>1. DiskOK /\ OpenedOK /\ PhaseOK
      BY DEF IInv
    <2>2. ASSUME NEW s \in Sectors, disk[s].kind = "header"
          PROVE  /\ disk[s].numBytes \in 0 .. MaxFileSize
                 /\ disk[s].next \in Sectors \cup {NoSector}
                 /\ ToSet(disk[s].dataSectors) \subseteq Sectors
      <3>1. PICK c : c = disk[s]
        OBVIOUS
      <3>2. c \in SectorContents
        BY <2>1, <3>1 DEF DiskOK
      <3>3. c \in Headers
        BY <2>2, <3>1, <3>2, Kinds
      <3>4. /\ c.numBytes \in 0 .. MaxFileSize /\ c.next \in Sectors \cup {NoSector}
            /\ c.dataSectors \in Seq(Sectors)
        BY <3>3 DEF Headers
      <3>5. ToSet(c.dataSectors) \subseteq Sectors
        BY <3>4, ElementOfSeq, LenProperties DEF ToSet
      <3> QED BY <3>1, <3>4, <3>5
    <2>3. \A i \in DOMAIN pending : pending[i].sector \in Sectors
      <3> SUFFICES ASSUME NEW i \in DOMAIN pending PROVE pending[i].sector \in Sectors
        OBVIOUS
      <3>1. PICK p : p = pending
        OBVIOUS
      <3>2. p \in Seq(Writes)
        BY <2>1, <3>1 DEF DiskOK
      <3>3. p[i] \in Writes
        BY <3>1, <3>2, ElementOfSeq, LenProperties
      <3> QED BY <3>1, <3>3 DEF Writes
    <2>4. /\ sound \in {"blank", "sound", "torn", "lost"} /\ committed \in BOOLEAN
          /\ machine \in {"off", "main", "removed", "user", "failed", "aborted", "astray"}
      BY <2>1 DEF PhaseOK
    <2>5. openedFile.seek \in 0 .. FileLength(openedFile.hdrs)
      BY <2>1 DEF OpenedOK
    <2> QED BY <2>2, <2>3, <2>4, <2>5 DEF TypeOK
  <1> QED BY <1>1, IInvHolds, PTL

\* What a file on a good disk is.
LEMMA GoodFile ==
    ASSUME NEW d, Good(d), NEW s \in Roots(d)
    PROVE  /\ ToSet(FileSectors(d, s)) = FileOf(d, s)
           /\ IsInjective(FileSectors(d, s)) /\ WholeChain(d, s)
  <1>1. s \in RootsOf(Use(d))
    BY RootsAre
  <1>2. HasFile(d, s)
    BY <1>1 DEF Good, HasFiles
  <1>3. PICK h : h = FetchFrom(d, s)
    OBVIOUS
  <1>4. FileHeaders(h, s) /\ OnDisk(d, s, h)
    BY <1>2, <1>3 DEF HasFile
  <1>5. ToSet(FileSectors(d, s)) = SectorsOf(h, s) /\ IsInjective(FileSectors(d, s)) /\ WholeChain(d, s)
    BY <1>4, FileOnDisk
  <1> QED BY <1>3, <1>5 DEF FileOf

\* In the middle of an operation, and when the kernel stops there, no sector is
\* in two files or twice in one: the sectors Allocate takes are clear in a map
\* that marks all the others (filehdr.cc:79-100).
THEOREM SoleOwnerHolds == Spec => []SoleOwner
  <1>1. IInv => SoleOwner
    <2> SUFFICES ASSUME IInv, sound = "sound"
                 PROVE  /\ \A s \in Roots(disk) : IsInjective(FileSectors(disk, s))
                        /\ \A s, t \in Roots(disk) :
                             s # t => ToSet(FileSectors(disk, s)) \cap ToSet(FileSectors(disk, t)) = {}
      BY DEF SoleOwner
    <2>1. Good(disk)
      BY DEF IInv, DiskOK, Followed
    <2>2. \A s \in Roots(disk) : ToSet(FileSectors(disk, s)) = FileOf(disk, s)
                                 /\ IsInjective(FileSectors(disk, s))
      BY <2>1, GoodFile
    <2>3. \A s, t \in Roots(disk) : s # t => FileOf(disk, s) \cap FileOf(disk, t) = {}
      BY <2>1, RootsAre DEF Good, HasFiles
    <2> QED BY <2>2, <2>3
  <1> QED BY <1>1, IInvHolds, PTL

\* Wherever the kernel stops, even between two writes of an operation, and while
\* the disk that it left is then mounted and read, every entry of the directory on
\* disk leads to a chain of headers that ends (filesys.cc:222-223).
THEOREM EntriesWholeHolds == Spec => []EntriesWhole
  <1>1. IInv => EntriesWhole
    <2> SUFFICES ASSUME IInv, sound \in {"sound", "torn"}, NEW s \in Roots(disk)
                 PROVE  WholeChain(disk, s)
      BY DEF EntriesWhole
    <2>1. Good(disk)
      BY DEF IInv, DiskOK, Followed
    <2> QED BY <2>1, GoodFile
  <1> QED BY <1>1, IInvHolds, PTL

\* Between operations the free map marks the sectors of the files, and else only
\* headers that Remove left (filehdr.cc:119).
THEOREM MapAgreesHolds == Spec => []MapAgrees
  <1>1. IInv => MapAgrees
    <2> SUFFICES ASSUME IInv, sound = "sound", pending = << >>
                 PROVE  /\ Owned(disk) \subseteq FetchMap(disk)
                        /\ \A s \in FetchMap(disk) \ Owned(disk) : disk[s].kind = "header"
      BY DEF MapAgrees
    <2>1. Good(disk) /\ Agreed(disk)
      BY DEF IInv, DiskOK, PhaseOK, Followed
    <2>2. Roots(disk) = RootsOf(Use(disk))
      BY RootsAre
    <2>3. \A s \in Roots(disk) : ToSet(FileSectors(disk, s)) = FileOf(disk, s)
      BY <2>1, GoodFile
    <2>4. Owned(disk) = OwnedBy(disk, RootsOf(Use(disk)))
      BY <2>2, <2>3 DEF Owned, OwnedBy
    <2> QED BY <2>1, <2>4 DEF Agreed
  <1> QED BY <1>1, IInvHolds, PTL

\* Copy finds the file that its Create made, whose entry may lie in both sectors
\* of the directory (main.cc:106-107), and Remove frees only marked sectors
\* (filehdr.cc:119), as long as no stop has torn the disk: PhaseOK says that it is
\* torn if an assertion fails, and rests on what DiskOK says of the files and the
\* map of a sound one, after every operation and every other stop.
THEOREM NoAssertionFails == Spec => []AssertionsHold
  <1>1. IInv => AssertionsHold
    BY DEF IInv, PhaseOK, AssertionsHold
  <1> QED BY <1>1, IInvHolds, PTL
=============================================================================
