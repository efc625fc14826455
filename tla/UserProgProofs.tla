--------------------------- MODULE UserProgProofs ---------------------------
(***************************************************************************)
(* UserProg, for every set of programs, every size of memory and of the    *)
(* open file table: each frame and each descriptor has one owner, and a     *)
(* program's registers and pages are its own, .rdata aside.                *)
(***************************************************************************)
EXTENDS UserProg, DataLemmas

\* A program has a page table from the moment AddrSpace::Load has filled it,
\* and of one page per page of its executable.
TablesLoaded ==
    \A p \in Programs :
        /\ st[p] \in {"forked", "begun"} => pageTable[p] = << >>
        /\ st[p] = "running" => pageTable[p] \in [1 .. NumPages[p] -> Frames]

\* The running thread has begun.
CurrentBegun == current \in Programs => st[current] # "forked"

\* The inductive invariant.
IInv ==
    /\ TypeOK
    /\ FramesOwned
    /\ OwnTable
    /\ NoDescriptorLost
    /\ TablesLoaded
    /\ CurrentBegun

---------------------------------------------------------------------------
(* The searches: frames, slots, descriptors.                               *)

\* A load that passes the comparison with the clear bits finds as many clear
\* frames as it has pages, all different (AddrSpace::Load, FindAndSet).
LEMMA FramesFound ==
    ASSUME TypeOK, NEW n \in Nat \ {0}, ~Short(n)
    PROVE  /\ FramesFor(n) \in [1 .. n -> Clear]
           /\ \A i, j \in 1 .. n : FramesFor(n)[i] = FramesFor(n)[j] => i = j
  <1> DEFINE Rank(f) == Cardinality({g \in Clear : g < f})
  <1>1. Clear \in SUBSET Nat /\ IsFiniteSet(Clear) /\ Cardinality(Clear) \in Nat
    <2>1. IsFiniteSet(Frames) /\ Frames \in SUBSET Nat
      <3>1. 0 \in Int /\ NumPhysPages - 1 \in Int
        BY UserProgAssumption
      <3> QED BY <3>1, FS_Interval DEF Frames
    <2>2. Clear \in SUBSET Frames
      BY DEF Clear
    <2> QED BY <2>1, <2>2, FS_Subset, FS_CardinalityType
  <1>2. n <= Cardinality(Clear)
    <2>1. n - 1 \in 0 .. n - 1
      OBVIOUS
    <2>2. ~(n > Cardinality(Clear) - (n - 1))
      BY <2>1 DEF Short
    <2> QED BY <1>1, <2>2
  <1>3. ASSUME NEW i \in 1 .. n
        PROVE  FindAndSet(i) \in Clear /\ Rank(FindAndSet(i)) = i - 1
    <2>1. i - 1 \in Nat /\ i - 1 < Cardinality(Clear)
      BY <1>1, <1>2
    <2>2. \E f \in Clear : Cardinality({g \in Clear : g < f}) = i - 1
      BY <1>1, <2>1, RankExists
    <2> QED BY <2>2 DEF FindAndSet
  <1>4. ASSUME NEW i \in 1 .. n, NEW j \in 1 .. n, FindAndSet(i) = FindAndSet(j)
        PROVE  i = j
    <2>1. i - 1 = j - 1
      BY <1>3, <1>4
    <2> QED BY <2>1
  <1> QED BY <1>3, <1>4 DEF FramesFor

\* The search for a slot ends at a free one if there is any (OpenAFile).
LEMMA SlotFound ==
    ASSUME FreeSlots # {}
    PROVE  FirstSlot \in Slots /\ table[FirstSlot] = Closed
  <1>1. FreeSlots \in SUBSET Nat
    BY UserProgAssumption DEF FreeSlots, Slots
  <1>2. \E s \in FreeSlots : \A r \in FreeSlots : s <= r
    BY <1>1, LeastNat
  <1>3. FirstSlot \in FreeSlots
    BY <1>2 DEF FirstSlot
  <1> QED BY <1>3 DEF FreeSlots

\* The host hands out a descriptor that is not in use (OpenForReadWrite).
LEMMA DescriptorFound ==
    ASSUME TypeOK, NoDescriptorLost
    PROVE  NewDescriptor \in Nat \ open
  <1>1. IsFiniteSet(open)
    <2>1. IsFiniteSet(Slots)
      <3>1. 0 \in Int /\ MAX_OPEN_FILES - 1 \in Int
        BY UserProgAssumption
      <3> QED BY <3>1, FS_Interval DEF Slots
    <2> DEFINE Named == {table[s] : s \in Slots}
    <2>2. table \in Surjection(Slots, Named)
      BY DEF TypeOK, Surjection
    <2>3. IsFiniteSet(Named)
      BY <2>1, <2>2, FS_Surjection
    <2>4. open \in SUBSET Named
      BY DEF NoDescriptorLost
    <2> QED BY <2>3, <2>4, FS_Subset
  <1>2. \E d \in 0 .. Cardinality(open) : d \notin open /\ \A e \in 0 .. d - 1 : e \in open
    BY <1>1, LeastMissing DEF TypeOK
  <1>3. NewDescriptor \in 0 .. Cardinality(open) /\ NewDescriptor \notin open
    BY <1>2 DEF NewDescriptor
  <1>4. Cardinality(open) \in Nat
    BY <1>1, FS_CardinalityType
  <1> QED BY <1>3, <1>4

\* A program that runs translates with its own page table, to a frame it owns
\* (Machine::Translate).
LEMMA Translated ==
    ASSUME IInv, NEW p \in Programs, Runs(p, "running"),
           NEW vpn \in 0 .. NumPhysPages, Valid(vpn)
    PROVE  /\ installed = p
           /\ vpn + 1 \in DOMAIN pageTable[p]
           /\ Translate(vpn) = pageTable[p][vpn + 1]
           /\ Translate(vpn) \in Owned(p)
           /\ Translate(vpn) \in Frames
  <1>1. installed = p
    BY DEF IInv, OwnTable, Runs
  <1>2. pageTable[p] \in Seq(Frames) /\ DOMAIN pageTable[p] = 1 .. Len(pageTable[p])
    BY DEF IInv, TypeOK
  <1>3. vpn + 1 \in DOMAIN pageTable[p]
    BY <1>1, <1>2, UserProgAssumption DEF Valid
  <1>4. Translate(vpn) = pageTable[p][vpn + 1]
    BY <1>1 DEF Translate
  <1> QED BY <1>1, <1>2, <1>3, <1>4 DEF Owned

---------------------------------------------------------------------------
(* Type correctness.                                                       *)

\* The steps of a user program: one disjunct per kernel operation.
Step(p) ==
    \/ \E q \in Programs : Switch(p, q)
    \/ Exit(p) \/ Halt(p) \/ LoadFails(p) \/ Load(p) \/ Open(p)
    \/ \E vpn \in 0 .. NumPhysPages : Fault(p, vpn) \/ LoadWord(p, vpn) \/ Store(p, vpn)
    \/ \E id \in -1 .. MAX_OPEN_FILES : Close(p, id)
    \/ \E id \in -1 .. MAX_OPEN_FILES : \E vpn \in 0 .. NumPhysPages : Read(p, id, vpn)

\* The numbers the system calls return fit into the register.
LEMMA NumbersFit ==
    /\ Number(-1) \in Cells /\ Number(0) \in Cells /\ Number(1) \in Cells
    /\ \A s \in Slots : Number(s) \in Cells
    /\ \A p \in Programs : <<"code", p>> \in Cells /\ <<"rodata", p>> \in Cells
  <1>1. \A n \in Numbers : Number(n) \in Cells
    BY DEF Number, Cells
  <1>2. -1 \in Numbers /\ 0 \in Numbers /\ 1 \in Numbers /\ Slots \subseteq Numbers
    BY UserProgAssumption DEF Numbers, Slots
  <1> QED BY <1>1, <1>2 DEF Cells

\* A step of a program keeps the types.
LEMMA StepType ==
    ASSUME IInv, NEW p \in Programs, Step(p)
    PROVE  TypeOK'
  <1> USE DEF cpuVars, memVars, fileVars
  <1>1. ASSUME NEW q \in Programs, Switch(p, q) PROVE TypeOK'
    BY <1>1 DEF IInv, TypeOK, Switch, SwitchTo, SavedOf, InstalledFor
  <1>2. CASE Finish(p)
    <2>1. UNCHANGED <<memVars, fileVars, machine>>
      BY <1>2 DEF Finish
    <2>2. ASSUME NEW q \in Programs \ {p}, SwitchTo(p, q),
                 st' = [st EXCEPT ![p] = "exited", ![q] = IF @ = "forked" THEN "begun" ELSE @]
          PROVE  TypeOK'
      BY <2>1, <2>2 DEF IInv, TypeOK, SwitchTo, SavedOf, InstalledFor
    <2>3. CASE /\ st' = [st EXCEPT ![p] = "exited"]
               /\ current' = Nobody
               /\ UNCHANGED <<reg, saved, installed>>
      BY <2>1, <2>3 DEF IInv, TypeOK
    <2> QED BY <1>2, <2>2, <2>3 DEF Finish
  <1>3. CASE Halt(p)
    BY <1>3 DEF IInv, TypeOK, Halt, Stops
  <1>11. CASE Exit(p) \/ LoadFails(p)
    <2>1. CASE Stops("aborted")
      BY <2>1 DEF IInv, TypeOK, Stops
    <2> QED BY <1>2, <1>11, <2>1 DEF Exit, LoadFails
  <1>4. CASE Load(p)
    <2>1. CASE Short(NumPages[p])
      BY <1>4, <2>1 DEF IInv, TypeOK, Load, Stops
    <2>2. CASE ~Short(NumPages[p])
      <3> DEFINE n == NumPages[p]
                 fs == FramesFor(n)
      <3>1. n \in Nat \ {0}
        BY UserProgAssumption
      <3>2. fs \in [1 .. n -> Clear] /\ Clear \subseteq Frames
        BY <2>2, <3>1, FramesFound DEF IInv, Clear
      <3>3. /\ pageTable' = [pageTable EXCEPT ![p] = fs]
            /\ marked' = marked \cup {fs[i] : i \in DOMAIN fs}
            /\ mem' = Contents(p, fs)
            /\ st' = [st EXCEPT ![p] = "running"]
            /\ reg' = Number(0) /\ installed' = p
            /\ UNCHANGED <<current, saved, fileVars, machine>>
        BY <1>4, <2>2 DEF Load
      <3> HIDE DEF fs
      <3>4. mem' \in [Frames -> Cells]
        BY <3>3, NumbersFit DEF Contents, IInv, TypeOK
      <3>5. fs \in [1 .. n -> Frames] /\ fs \in Seq(Frames)
        BY <3>1, <3>2
      <3>6. marked' \subseteq Frames
        BY <3>2, <3>3 DEF IInv, TypeOK
      <3> QED BY <3>3, <3>4, <3>5, <3>6, NumbersFit DEF IInv, TypeOK
    <2> QED BY <2>1, <2>2
  <1>5. CASE Open(p)
    <2>1. NewDescriptor \in Nat
      BY DescriptorFound DEF IInv
    <2>2. FreeSlots # {} => FirstSlot \in Slots
      BY SlotFound
    <2> QED BY <1>5, <2>1, <2>2, NumbersFit DEF IInv, TypeOK, Open, Returns, Deleted
  <1>6. ASSUME NEW vpn \in 0 .. NumPhysPages, Fault(p, vpn) PROVE TypeOK'
    BY <1>6 DEF IInv, TypeOK, Fault, Stops
  <1>7. ASSUME NEW vpn \in 0 .. NumPhysPages, LoadWord(p, vpn) PROVE TypeOK'
    <2>1. Translate(vpn) \in Frames
      BY <1>7, Translated DEF LoadWord
    <2> QED BY <1>7, <2>1 DEF IInv, TypeOK, LoadWord
  <1>8. ASSUME NEW vpn \in 0 .. NumPhysPages, Store(p, vpn) PROVE TypeOK'
    <2>1. Translate(vpn) \in Frames
      BY <1>8, Translated DEF Store
    <2> QED BY <1>8, <2>1 DEF IInv, TypeOK, Store
  <1>9. ASSUME NEW id \in -1 .. MAX_OPEN_FILES, Close(p, id) PROVE TypeOK'
    BY <1>9, NumbersFit DEF IInv, TypeOK, Close, Returns
  <1>10. ASSUME NEW id \in -1 .. MAX_OPEN_FILES, NEW vpn \in 0 .. NumPhysPages,
                Read(p, id, vpn)
         PROVE  TypeOK'
    <2>1. Translate(vpn) \in Frames
      BY <1>10, Translated DEF Read
    <2> QED BY <1>10, <2>1, NumbersFit DEF IInv, TypeOK, Read, Returns
  <1> QED BY <1>1, <1>2, <1>3, <1>4, <1>5, <1>6, <1>7, <1>8, <1>9, <1>10, <1>11 DEF Step

---------------------------------------------------------------------------
(* Frames, page tables and descriptors.                                    *)

\* A load gives the program frames that were clear, each for one page, and
\* marks just those (AddrSpace::Load).
LEMMA LoadFrames ==
    ASSUME IInv, NEW p \in Programs, Load(p)
    PROVE  FramesOwned' /\ TablesLoaded'
  <1>1. CASE Short(NumPages[p])
    <2>1. UNCHANGED <<st, pageTable, marked>>
      BY <1>1 DEF Load, Stops, cpuVars, memVars
    <2>2. \A q \in Programs : Owned(q)' = Owned(q)
      BY <2>1 DEF Owned
    <2> QED BY <2>1, <2>2 DEF IInv, FramesOwned, TablesLoaded
  <1>2. CASE ~Short(NumPages[p])
    <2> DEFINE n == NumPages[p]
               fs == FramesFor(n)
               New == {fs[i] : i \in DOMAIN fs}
    <2>1. n \in Nat \ {0}
      BY UserProgAssumption
    <2>2. fs \in [1 .. n -> Clear] /\ \A i, j \in 1 .. n : fs[i] = fs[j] => i = j
      BY <1>2, <2>1, FramesFound DEF IInv
    <2>3. /\ pageTable' = [pageTable EXCEPT ![p] = fs]
          /\ marked' = marked \cup New
          /\ st' = [st EXCEPT ![p] = "running"]
      BY <1>2 DEF Load
    <2> HIDE DEF fs
    <2>4. /\ pageTable \in [Programs -> Seq(Frames)] /\ pageTable[p] = << >>
          /\ st \in [Programs -> {"forked", "begun", "running", "exited"}]
      BY DEF IInv, TypeOK, TablesLoaded, Load, Runs
    <2>5. Owned(p)' = New /\ Owned(p) = {}
      BY <2>3, <2>4 DEF Owned
    <2>6. ASSUME NEW q \in Programs, q # p
          PROVE  pageTable'[q] = pageTable[q] /\ Owned(q)' = Owned(q)
      BY <2>3, <2>4, <2>6 DEF Owned
    <2>7. New \cap marked = {} /\ \A q \in Programs : Owned(q) \subseteq marked
      BY <2>2 DEF Clear, IInv, FramesOwned
    <2>8. ASSUME NEW q \in Programs PROVE (Cardinality(Owned(q)) = Len(pageTable[q]))'
      <3>1. CASE q = p
        <4>1. Len(fs) = n
          BY <2>1, <2>2
        <4>2. IsFiniteSet(1 .. n) /\ Cardinality(1 .. n) = n
          BY <2>1, FS_Interval
        <4>3. fs \in Surjection(1 .. n, New) /\ fs \in Injection(1 .. n, New)
          BY <2>2 DEF Surjection, Injection, IsInjective
        <4>4. Cardinality(New) = n
          BY <4>2, <4>3, FS_Surjection
        <4> QED BY <3>1, <4>1, <4>4, <2>3, <2>4, <2>5
      <3>2. CASE q # p
        BY <3>2, <2>6 DEF IInv, FramesOwned
      <3> QED BY <3>1, <3>2
    <2>9. ASSUME NEW q \in Programs, NEW r \in Programs, q # r
          PROVE  Owned(q)' \cap Owned(r)' = {}
      BY <2>5, <2>6, <2>7, <2>9 DEF IInv, FramesOwned
    <2>10. marked' = UNION {Owned(q)' : q \in Programs}
      <3>1. marked = UNION {Owned(q) : q \in Programs}
        BY DEF IInv, FramesOwned
      <3>2. \A f : f \in marked' <=> \E q \in Programs : f \in Owned(q)'
        BY <3>1, <2>3, <2>5, <2>6
      <3> QED BY <3>2
    <2>11. FramesOwned'
      BY <2>8, <2>9, <2>10 DEF FramesOwned
    <2>12. TablesLoaded'
      <3>1. fs \in [1 .. n -> Frames]
        BY <2>2 DEF Clear
      <3> QED BY <3>1, <2>3, <2>4 DEF IInv, TablesLoaded
    <2> QED BY <2>11, <2>12
  <1> QED BY <1>1, <1>2

\* No other step gives out or takes back a frame: a program that exits keeps
\* its frames.
LEMMA OtherFrames ==
    ASSUME IInv, NEW p \in Programs, Step(p), ~Load(p)
    PROVE  FramesOwned' /\ TablesLoaded'
  <1> USE DEF cpuVars, memVars, fileVars
  <1>1. UNCHANGED <<pageTable, marked>>
    BY DEF Step, Switch, Exit, LoadFails, Finish, Halt, Stops, Open, Fault, LoadWord, Store, Close, Read
  <1>2. \A q \in Programs : Owned(q)' = Owned(q)
    BY <1>1 DEF Owned
  <1>3. FramesOwned'
    BY <1>1, <1>2 DEF IInv, FramesOwned
  <1>4. \A q \in Programs :
          /\ st'[q] \in {"forked", "begun"} => st[q] \in {"forked", "begun"}
          /\ st'[q] = "running" => st[q] = "running"
    <2>1. st \in [Programs -> {"forked", "begun", "running", "exited"}]
      BY DEF IInv, TypeOK
    <2>2. ASSUME NEW q \in Programs, Switch(p, q)
          PROVE  st' = [st EXCEPT ![q] = IF @ = "forked" THEN "begun" ELSE @]
      BY <2>2 DEF Switch
    <2>3. CASE Finish(p)
      BY <2>1, <2>3 DEF Finish
    <2>4. CASE UNCHANGED st
      BY <2>4
    <2>5. \/ \E q \in Programs : Switch(p, q)
          \/ Finish(p)
          \/ UNCHANGED st
      BY DEF Step, Exit, LoadFails, Halt, Stops, Open, Fault, LoadWord, Store, Close, Read
    <2> QED BY <2>1, <2>2, <2>3, <2>4, <2>5
  <1>5. TablesLoaded'
    BY <1>1, <1>4 DEF IInv, TablesLoaded
  <1> QED BY <1>3, <1>5

\* The processor is given with the page table of the program it is given to
\* (Scheduler::Run), and a program that begins gets its own in Execute.
LEMMA StepOwnTable ==
    ASSUME IInv, NEW p \in Programs, Step(p)
    PROVE  OwnTable' /\ CurrentBegun'
  <1> USE DEF cpuVars, memVars, fileVars
  <1>1. /\ st \in [Programs -> {"forked", "begun", "running", "exited"}]
        /\ Nobody \notin Programs
    BY UserProgAssumption DEF IInv, TypeOK
  <1>2. ASSUME NEW q \in Programs, Switch(p, q) PROVE OwnTable' /\ CurrentBegun'
    BY <1>1, <1>2 DEF OwnTable, CurrentBegun, Switch, SwitchTo, InstalledFor
  <1>3. CASE Finish(p)
    <2>1. ASSUME NEW q \in Programs \ {p}, SwitchTo(p, q),
                 st' = [st EXCEPT ![p] = "exited", ![q] = IF @ = "forked" THEN "begun" ELSE @]
          PROVE  OwnTable' /\ CurrentBegun'
      BY <1>1, <2>1 DEF OwnTable, CurrentBegun, SwitchTo, InstalledFor
    <2>2. CASE current' = Nobody
      BY <1>1, <2>2 DEF OwnTable, CurrentBegun
    <2> QED BY <1>3, <2>1, <2>2 DEF Finish
  <1>4. CASE Load(p)
    BY <1>1, <1>4 DEF IInv, OwnTable, CurrentBegun, Load, Runs, Stops
  <1>5. CASE UNCHANGED <<st, current, installed>>
    BY <1>5 DEF IInv, OwnTable, CurrentBegun
  <1>6. \/ \E q \in Programs : Switch(p, q)
        \/ Finish(p) \/ Load(p)
        \/ UNCHANGED <<st, current, installed>>
    BY DEF Step, Exit, LoadFails, Halt, Stops, Open, Fault, LoadWord, Store, Close, Read
  <1> QED BY <1>2, <1>3, <1>4, <1>5, <1>6

\* Opening and closing keep OpenFileTable in step with the descriptors the
\* kernel holds (OpenAFile, SC_Close): a file opened without a free slot is deleted.
LEMMA StepDescriptors ==
    ASSUME IInv, NEW p \in Programs, Step(p)
    PROVE  NoDescriptorLost'
  <1> USE DEF cpuVars, memVars, fileVars
  <1>1. /\ table \in [Slots -> Nat \cup {Closed}] /\ open \subseteq Nat /\ Closed \notin Nat
        /\ open = {table[s] : s \in Slots} \ {Closed}
        /\ \A r, s \in Slots : r # s /\ table[r] # Closed => table[r] # table[s]
    BY DEF IInv, TypeOK, NoDescriptorLost, Closed
  <1>2. CASE UNCHANGED <<open, table>>
    BY <1>2 DEF IInv, NoDescriptorLost
  <1>3. CASE Open(p)
    <2> DEFINE d == NewDescriptor
               s == FirstSlot
    <2>1. d \in Nat \ open
      BY DescriptorFound DEF IInv
    <2> HIDE DEF d, s
    <2>2. CASE FreeSlots = {} /\ open' = Deleted(NewDescriptor) /\ UNCHANGED table
      BY <1>2, <2>2 DEF Deleted
    <2>3. CASE /\ FreeSlots # {} /\ open' = open \cup {d}
               /\ table' = [table EXCEPT ![s] = d]
      <3>1. s \in Slots /\ table[s] = Closed
        BY <2>3, SlotFound DEF s
      <3>2. /\ table'[s] = d /\ d # Closed
            /\ \A r \in Slots \ {s} : table'[r] = table[r] /\ table[r] # d
        BY <1>1, <2>1, <2>3, <3>1
      <3>3. \A x : x \in open' <=> x # Closed /\ \E r \in Slots : table'[r] = x
        BY <1>1, <2>3, <3>1, <3>2
      <3>4. open' = {table'[r] : r \in Slots} \ {Closed}
        BY <3>3
      <3>5. \A q, r \in Slots : q # r /\ table'[q] # Closed => table'[q] # table'[r]
        BY <1>1, <3>1, <3>2
      <3> QED BY <3>4, <3>5 DEF NoDescriptorLost
    <2> QED BY <1>2, <1>3, <2>2, <2>3 DEF Open, d, s
  <1>4. ASSUME NEW id \in -1 .. MAX_OPEN_FILES, Close(p, id) PROVE NoDescriptorLost'
    <2>1. CASE IsOpen(id)
      <3>1. /\ id \in Slots /\ table[id] # Closed
            /\ open' = open \ {table[id]} /\ table' = [table EXCEPT ![id] = Closed]
        BY <1>4, <2>1 DEF Close, IsOpen
      <3>2. table'[id] = Closed /\ \A r \in Slots \ {id} : table'[r] = table[r] /\ table[r] # table[id]
        BY <1>1, <3>1
      <3>3. \A x : x \in open' <=> x # Closed /\ \E r \in Slots : table'[r] = x
        BY <1>1, <3>1, <3>2
      <3>4. open' = {table'[r] : r \in Slots} \ {Closed}
        BY <3>3
      <3>5. \A q, r \in Slots : q # r /\ table'[q] # Closed => table'[q] # table'[r]
        BY <1>1, <3>1, <3>2
      <3> QED BY <3>4, <3>5 DEF NoDescriptorLost
    <2>2. CASE ~IsOpen(id)
      BY <1>2, <1>4, <2>2 DEF Close
    <2> QED BY <2>1, <2>2
  <1>5. \/ Open(p)
        \/ \E id \in -1 .. MAX_OPEN_FILES : Close(p, id)
        \/ UNCHANGED <<open, table>>
    BY DEF Step, Switch, Exit, LoadFails, Finish, Load, Halt, Stops, Fault, LoadWord, Store, Read
  <1> QED BY <1>2, <1>3, <1>4, <1>5

---------------------------------------------------------------------------
(* The theorems.                                                           *)

\* The kernel starts with an empty memory, no page table and no open file.
LEMMA InitEstablishes == Init => IInv
  <1> SUFFICES ASSUME Init PROVE IInv
    OBVIOUS
  <1>1. Number(0) \in Cells
    BY NumbersFit
  <1>2. TypeOK
    BY <1>1 DEF Init, TypeOK
  <1>3. FramesOwned
    <2>1. \A p \in Programs : Owned(p) = {} /\ Len(pageTable[p]) = 0
      BY DEF Init, Owned
    <2>2. Cardinality({}) = 0
      BY FS_EmptySet
    <2> QED BY <2>1, <2>2 DEF FramesOwned, Init
  <1>4. OwnTable /\ TablesLoaded /\ CurrentBegun
    BY DEF Init, OwnTable, TablesLoaded, CurrentBegun
  <1>5. NoDescriptorLost
    BY DEF Init, NoDescriptorLost
  <1> QED BY <1>2, <1>3, <1>4, <1>5 DEF IInv

\* Every step of a program, and a stutter, keeps the inductive invariant.
LEMMA StepKeeps == IInv /\ [Next]_vars => IInv'
  <1> SUFFICES ASSUME IInv, [Next]_vars PROVE IInv'
    OBVIOUS
  <1>1. ASSUME NEW p \in Programs, Step(p) PROVE IInv'
    <2>1. FramesOwned' /\ TablesLoaded'
      BY <1>1, LoadFrames, OtherFrames
    <2> QED BY <1>1, <2>1, StepType, StepOwnTable, StepDescriptors DEF IInv
  <1>2. CASE UNCHANGED vars
    <2> USE <1>2 DEF vars
    <2>1. \A p \in Programs : Owned(p)' = Owned(p)
      BY DEF Owned
    <2>2. TypeOK'
      BY DEF IInv, TypeOK
    <2>3. FramesOwned'
      BY <2>1 DEF IInv, FramesOwned
    <2>4. OwnTable' /\ NoDescriptorLost' /\ TablesLoaded' /\ CurrentBegun'
      BY DEF IInv, OwnTable, NoDescriptorLost, TablesLoaded, CurrentBegun
    <2> QED BY <2>2, <2>3, <2>4 DEF IInv
  <1> QED BY <1>1, <1>2 DEF Next, Step

\* The inductive invariant holds of the kernel's user programs.
THEOREM Invariance == Spec => []IInv
  <1> QED BY InitEstablishes, StepKeeps, PTL DEF Spec

\* The registers, frames and descriptors keep their types whatever the programs do.
THEOREM TypeCorrect == Spec => []TypeOK
  <1>1. IInv => TypeOK
    BY DEF IInv
  <1> QED BY <1>1, Invariance, PTL

\* A frame has one owner and one place in its page table, and pageBitmap marks
\* just the frames in use (AddrSpace::Load, FindAndSet).
THEOREM FramesOwnedHolds == Spec => []FramesOwned
  <1>1. IInv => FramesOwned
    BY DEF IInv
  <1> QED BY <1>1, Invariance, PTL

\* The machine translates with the page table of the program it runs, however
\* the program came to run (Scheduler::Run, Execute).
THEOREM OwnTableHolds == Spec => []OwnTable
  <1>1. IInv => OwnTable
    BY DEF IInv
  <1> QED BY <1>1, Invariance, PTL

\* Each descriptor the kernel holds is in one slot of OpenFileTable, so that a
\* program can close it, and no slot names a closed one (OpenAFile, SC_Close).
THEOREM NoDescriptorLostHolds == Spec => []NoDescriptorLost
  <1>1. IInv => NoDescriptorLost
    BY DEF IInv
  <1> QED BY <1>1, Invariance, PTL

\* What one step leaves alone of the programs that it does not run.
Undisturbed ==
    \A p \in Programs :
        st[p] = "running" /\ st'[p] = "running" /\ ~(current = p /\ current' = p) =>
            /\ Register(p)' = Register(p)
            /\ View(p)' = View(p) \/ LoadsRodata

\* The registers: a program that loses the processor has them saved, and gets
\* them back (Thread::SaveUserState, RestoreUserState).
LEMMA RegistersKept ==
    ASSUME IInv, NEW a \in Programs, Step(a),
           NEW p \in Programs, st[p] = "running", st'[p] = "running",
           ~(current = p /\ current' = p)
    PROVE  Register(p)' = Register(p)
  <1> USE DEF cpuVars, memVars, fileVars
  <1>1. /\ saved \in [Programs -> Cells] /\ Nobody \notin Programs
        /\ st \in [Programs -> {"forked", "begun", "running", "exited"}]
    BY UserProgAssumption DEF IInv, TypeOK
  <1>2. ASSUME NEW q \in Programs, Switch(a, q) PROVE Register(p)' = Register(p)
    BY <1>1, <1>2 DEF Switch, SwitchTo, SavedOf, Register
  <1>3. CASE Finish(a) /\ current = a
    <2>1. a # p /\ current = a
      BY <1>1, <1>3 DEF Finish
    <2>2. ASSUME NEW q \in Programs \ {a}, SwitchTo(a, q) PROVE Register(p)' = Register(p)
      BY <1>1, <2>1, <2>2 DEF SwitchTo, SavedOf, Register
    <2>3. CASE current' = Nobody /\ UNCHANGED saved
      BY <1>1, <2>1, <2>3 DEF Register
    <2> QED BY <1>3, <2>2, <2>3 DEF Finish
  <1>4. CASE UNCHANGED <<current, saved>>
    BY <1>4 DEF Register
  <1>5. \/ \E q \in Programs : Switch(a, q)
        \/ Finish(a) /\ current = a
        \/ UNCHANGED <<current, saved>>
    BY DEF Step, Exit, LoadFails, Runs, Load, Halt, Stops, Open, Fault, LoadWord, Store, Close, Read
  <1> QED BY <1>2, <1>3, <1>4, <1>5

\* The pages: a store, a read into memory and a load write to frames of the
\* program that runs, save for the .rdata that Load copies to a physical address.
LEMMA PagesKept ==
    ASSUME IInv, NEW a \in Programs, Step(a),
           NEW p \in Programs, st[p] = "running", st'[p] = "running",
           ~(current = p /\ current' = p)
    PROVE  View(p)' = View(p) \/ LoadsRodata
  <1> USE DEF cpuVars, memVars, fileVars
  <1>1. /\ pageTable \in [Programs -> Seq(Frames)] /\ mem \in [Frames -> Cells]
        /\ \A i \in DOMAIN pageTable[p] : pageTable[p][i] \in Owned(p)
        /\ Owned(p) \subseteq Frames /\ Owned(p) \subseteq marked
    BY DEF IInv, TypeOK, FramesOwned, Owned
  <1>2. ASSUME pageTable'[p] = pageTable[p], \A f \in Owned(p) : mem'[f] = mem[f]
        PROVE  View(p)' = View(p)
    BY <1>1, <1>2 DEF View
  <1>3. CASE UNCHANGED <<pageTable, mem>>
    BY <1>2, <1>3
  <1>4. ASSUME a # p, current = a, UNCHANGED pageTable,
               NEW f \in Owned(a), NEW c, mem' = [mem EXCEPT ![f] = c]
        PROVE  View(p)' = View(p)
    <2>1. f \notin Owned(p)
      BY <1>4 DEF IInv, FramesOwned
    <2> QED BY <1>1, <1>2, <1>4, <2>1
  <1>5. ASSUME NEW vpn \in 0 .. NumPhysPages, Store(a, vpn) PROVE View(p)' = View(p)
    <2>1. Translate(vpn) \in Owned(a)
      BY <1>5, Translated DEF Store
    <2> QED BY <1>4, <1>5, <2>1 DEF Store, Runs
  <1>6. ASSUME NEW id \in -1 .. MAX_OPEN_FILES, NEW vpn \in 0 .. NumPhysPages, Read(a, id, vpn)
        PROVE  View(p)' = View(p)
    <2>1. Translate(vpn) \in Owned(a)
      BY <1>6, Translated DEF Read
    <2>2. current = a /\ a # p /\ UNCHANGED pageTable
      BY <1>6 DEF Read, Runs
    <2>3. mem' = [mem EXCEPT ![Translate(vpn)] = Number(1)] \/ UNCHANGED mem
      BY <1>6 DEF Read
    <2>4. CASE mem' = [mem EXCEPT ![Translate(vpn)] = Number(1)]
      BY <1>4, <2>1, <2>2, <2>4
    <2>5. CASE UNCHANGED mem
      BY <1>2, <2>2, <2>5
    <2> QED BY <2>3, <2>4, <2>5
  <1>7. CASE Load(a) /\ RodataPage[a] # -1
    BY <1>7 DEF LoadsRodata
  <1>8. CASE Load(a) /\ RodataPage[a] = -1
    <2>1. CASE Short(NumPages[a])
      BY <1>3, <1>8, <2>1 DEF Load, Stops
    <2>2. CASE ~Short(NumPages[a])
      <3> DEFINE n == NumPages[a]
                 fs == FramesFor(n)
      <3>1. n \in Nat \ {0}
        BY UserProgAssumption
      <3>2. fs \in [1 .. n -> Clear]
        BY <2>2, <3>1, FramesFound DEF IInv
      <3>3. pageTable' = [pageTable EXCEPT ![a] = fs] /\ mem' = Contents(a, fs) /\ a # p
        BY <1>8, <2>2 DEF Load, Runs
      <3> HIDE DEF fs
      <3>4. pageTable'[p] = pageTable[p]
        BY <1>1, <3>3
      <3>5. \A f \in Owned(p) : mem'[f] = mem[f]
        <4>1. \A i \in 1 .. n - 1 : fs[i] \notin marked
          BY <3>1, <3>2 DEF Clear
        <4>2. \A f \in Frames : RodataPage[a] # f
          BY <1>8, UserProgAssumption DEF Frames
        <4> QED BY <1>1, <3>3, <4>1, <4>2 DEF Contents
      <3> QED BY <1>2, <3>4, <3>5
    <2> QED BY <2>1, <2>2
  <1>9. \/ \E vpn \in 0 .. NumPhysPages : Store(a, vpn)
        \/ \E id \in -1 .. MAX_OPEN_FILES : \E vpn \in 0 .. NumPhysPages : Read(a, id, vpn)
        \/ Load(a)
        \/ UNCHANGED <<pageTable, mem>>
    BY DEF Step, Switch, Exit, LoadFails, Finish, Halt, Stops, Open, Fault, LoadWord, Close
  <1> QED BY <1>3, <1>5, <1>6, <1>7, <1>8, <1>9

\* A loaded program's register and pages change only in its own steps, save for
\* one way: the loading of a program that has a .rdata section.
THEOREM IsolatedHolds == Spec => Isolated
  <1>1. IInv /\ [Next]_vars => [Undisturbed]_vars
    <2> SUFFICES ASSUME IInv, Next PROVE Undisturbed
      BY DEF vars
    <2>1. PICK a \in Programs : Step(a)
      BY DEF Next, Step
    <2> QED BY <2>1, RegistersKept, PagesKept DEF Undisturbed
  <1> QED BY <1>1, Invariance, PTL DEF Spec, Isolated, Undisturbed
=============================================================================
