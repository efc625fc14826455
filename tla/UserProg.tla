------------------------------ MODULE UserProg ------------------------------
(***************************************************************************)
(* User programs in the MP3 kernel: loading an executable into frames      *)
(* (userprog/addrspace.cc), the register and page table switch             *)
(* (threads/scheduler.cc), loads and stores through the page table         *)
(* (machine/translate.cc), and the system calls on the table of open files *)
(* (userprog/exception.cc, filesys/filesys.h).                             *)
(*                                                                         *)
(* A page is one cell of memory and a program has one register.  A program *)
(* can lose the processor between two instructions and before it is        *)
(* loaded; who runs next is left open (Scheduler.tla).                     *)
(***************************************************************************)
EXTENDS Integers, Sequences, FiniteSets

CONSTANTS Programs,       \* the executables given with -e or -ep
          NumPages,       \* NumPages[p]: code, data and stack, in pages
          RodataPage,     \* RodataPage[p]: virtual page of .rdata, -1 without one
          NumPhysPages,   \* frames of the machine
          MAX_OPEN_FILES, \* slots of OpenFileTable
          Nobody          \* the NULL thread

Frames == 0 .. NumPhysPages - 1
Slots == 0 .. MAX_OPEN_FILES - 1
Closed == -1  \* the NULL of OpenFileTable

ASSUME UserProgAssumption ==
    /\ NumPhysPages \in Nat \ {0} /\ MAX_OPEN_FILES \in Nat \ {0}
    /\ NumPages \in [Programs -> Nat \ {0}]
    /\ \A p \in Programs : RodataPage[p] \in -1 .. NumPages[p] - 1 /\ RodataPage[p] < NumPhysPages
    /\ Nobody \notin Programs

VARIABLES st,        \* st[p]: "forked", "begun", "running", "exited"
          current,   \* the thread that runs, Nobody after the last
          reg,       \* the machine's register
          saved,     \* saved[p]: userRegisters
          installed, \* the program whose page table the machine uses
          pageTable, \* pageTable[p]: p's frames by virtual page, empty until loaded
          marked,    \* the set bits of pageBitmap
          mem,       \* mainMemory by frame
          open,      \* file descriptors the kernel holds
          table,     \* OpenFileTable
          machine    \* "on", "halted" or "aborted"

vars == <<st, current, reg, saved, installed, pageTable, marked, mem, open, table, machine>>
cpuVars == <<st, current, saved, installed>>
memVars == <<pageTable, marked, mem>>
fileVars == <<open, table>>

\* What a cell or the register can hold: zero, a program's contents, a
\* number a program computes or a system call returns.
Numbers == -1 .. MAX_OPEN_FILES
Cells == {<<"number", n>> : n \in Numbers} \cup ({"code", "rodata"} \X Programs)
Number(n) == <<"number", n>>

Init ==
    /\ current \in Programs
    /\ st = [p \in Programs |-> IF p = current THEN "begun" ELSE "forked"]
    /\ reg = Number(0) /\ saved = [p \in Programs |-> Number(0)]
    /\ installed = Nobody
    /\ pageTable = [p \in Programs |-> << >>]
    /\ marked = {} /\ mem = [f \in Frames |-> Number(0)]
    /\ open = {} /\ table = [s \in Slots |-> Closed]
    /\ machine = "on"

---------------------------------------------------------------------------
(* Threads                                                                 *)

Runs(p, label) == machine = "on" /\ current = p /\ st[p] = label

\* Scheduler::Run: the old thread's registers are saved.
SavedNot(p) == saved
SavedOf(p) == [saved EXCEPT ![p] = reg]

\* The next thread restores its own and installs its page table.
InstalledStays(p) == installed
InstalledFor(p) == p

\* The processor goes from p to q.  A thread that runs for the first time
\* has nothing to restore.
SwitchTo(p, q) ==
    /\ current' = q
    /\ saved' = SavedOf(p)
    /\ IF st[q] = "forked"
       THEN UNCHANGED <<reg, installed>>
       ELSE /\ reg' = saved[q]
            /\ installed' = InstalledFor(q)

\* A time slice ends, or p sleeps in a system call.
Switch(p, q) ==
    /\ machine = "on" /\ current = p /\ q # p /\ st[q] # "exited"
    /\ SwitchTo(p, q)
    /\ st' = [st EXCEPT ![q] = IF @ = "forked" THEN "begun" ELSE @]
    /\ UNCHANGED <<memVars, fileVars, machine>>

\* Finish: the frames stay taken and the files open.
Finish(p) ==
    /\ \/ \E q \in Programs \ {p} :
            /\ st[q] # "exited"
            /\ SwitchTo(p, q)
            /\ st' = [st EXCEPT ![p] = "exited", ![q] = IF @ = "forked" THEN "begun" ELSE @]
       \/ /\ \A q \in Programs \ {p} : st[q] = "exited"
          /\ st' = [st EXCEPT ![p] = "exited"]
          /\ current' = Nobody
          /\ UNCHANGED <<reg, saved, installed>>
    /\ UNCHANGED <<memVars, fileVars, machine>>

\* SC_Exit.
Exit(p) == Runs(p, "running") /\ Finish(p)

Stops(how) ==
    /\ machine' = how
    /\ UNCHANGED <<cpuVars, reg, memVars, fileVars>>

\* SC_Halt.
Halt(p) == Runs(p, "running") /\ Stops("halted")

---------------------------------------------------------------------------
(* Memory                                                                  *)

Clear == Frames \ marked

\* The i-th lowest clear frame: FindAndSet in a row.
FindAndSet(i) == CHOOSE f \in Clear : Cardinality({g \in Clear : g < f}) = i - 1

\* One frame too few.
FramesFew(n) == [i \in 1 .. n - 1 |-> FindAndSet(i)]
\* Bits that are found but not set.
FramesUnset(n) == [i \in 1 .. n |-> FindAndSet(1)]
FramesFor(n) == [i \in 1 .. n |-> FindAndSet(i)]

\* The loop compares all pages with the bits still clear, i frames into it.
Short(n) == \E i \in 0 .. n - 1 : n > Cardinality(Clear) - i

\* Load copies code and data through the new page table; .rdata goes to the
\* physical address equal to its virtual one.  A stack page, the last, is
\* left as it is.  Then Execute resets the registers.
Contents(p, fs) == [f \in Frames |->
    IF RodataPage[p] = f THEN <<"rodata", p>>
    ELSE IF \E i \in 1 .. NumPages[p] - 1 : fs[i] = f /\ i - 1 # RodataPage[p]
    THEN <<"code", p>> ELSE mem[f]]

\* The executable is not there, and ForkExecute returns; or it is none.
LoadFails(p) == Runs(p, "begun") /\ (Finish(p) \/ Stops("aborted"))

Load(p) ==
    /\ Runs(p, "begun")
    /\ IF Short(NumPages[p]) THEN Stops("halted") ELSE
          /\ LET fs == FramesFor(NumPages[p])
             IN  /\ pageTable' = [pageTable EXCEPT ![p] = fs]
                 /\ marked' = marked \cup {fs[i] : i \in DOMAIN fs}
                 /\ mem' = Contents(p, fs)
          /\ st' = [st EXCEPT ![p] = "running"]
          /\ reg' = Number(0)
          /\ installed' = p
          /\ UNCHANGED <<current, saved, fileVars, machine>>

\* Machine::Translate with the installed table: the frame of a virtual page.
Valid(vpn) == vpn < Len(pageTable[installed])
Translate(vpn) == pageTable[installed][vpn + 1]

\* An address past the page table ends in ASSERTNOTREACHED.
Fault(p, vpn) == Runs(p, "running") /\ ~Valid(vpn) /\ Stops("aborted")

LoadWord(p, vpn) ==
    /\ Runs(p, "running") /\ Valid(vpn)
    /\ reg' = mem[Translate(vpn)]
    /\ UNCHANGED <<cpuVars, memVars, fileVars, machine>>

Store(p, vpn) ==
    /\ Runs(p, "running") /\ Valid(vpn)
    /\ mem' = [mem EXCEPT ![Translate(vpn)] = reg]
    /\ UNCHANGED <<cpuVars, reg, pageTable, marked, fileVars, machine>>

---------------------------------------------------------------------------
(* Open files.  All programs share OpenFileTable and may use any id.       *)

Returns(n) == reg' = Number(n)

IsOpen(id) == id \in Slots /\ table[id] # Closed

\* The host's lowest free descriptor.
NewDescriptor == CHOOSE d \in 0 .. Cardinality(open) : d \notin open /\ \A e \in 0 .. d - 1 : e \in open
FreeSlots == {s \in Slots : table[s] = Closed}
FirstSlot == CHOOSE s \in FreeSlots : \A r \in FreeSlots : s <= r

\* Without a free slot the file just opened is deleted.
DeletedNot(d) == open \cup {d}
Deleted(d) == open

\* OpenAFile: the file is opened first, then a slot is searched.
Open(p) ==
    /\ Runs(p, "running")
    /\ \/ Returns(-1) /\ UNCHANGED fileVars
       \/ LET d == NewDescriptor
          IN  IF FreeSlots = {}
              THEN /\ open' = Deleted(d)
                   /\ Returns(-1)
                   /\ UNCHANGED table
              ELSE /\ open' = open \cup {d}
                   /\ table' = [table EXCEPT ![FirstSlot] = d]
                   /\ Returns(FirstSlot)
    /\ UNCHANGED <<cpuVars, memVars, machine>>

Close(p, id) ==
    /\ Runs(p, "running")
    /\ IF IsOpen(id)
       THEN /\ open' = open \ {table[id]}
            /\ table' = [table EXCEPT ![id] = Closed]
            /\ Returns(1)
       ELSE Returns(-1) /\ UNCHANGED fileVars
    /\ UNCHANGED <<cpuVars, memVars, machine>>

\* SC_Read of one word, or none at the end of the file, into page vpn.
Read(p, id, vpn) ==
    /\ Runs(p, "running") /\ Valid(vpn)
    /\ IF IsOpen(id)
       THEN \/ /\ mem' = [mem EXCEPT ![Translate(vpn)] = Number(1)]
               /\ Returns(1)
            \/ Returns(0) /\ UNCHANGED mem
       ELSE Returns(-1) /\ UNCHANGED mem
    /\ UNCHANGED <<cpuVars, pageTable, marked, fileVars, machine>>

Next == \E p \in Programs :
    \/ \E q \in Programs : Switch(p, q)
    \/ Exit(p) \/ Halt(p) \/ LoadFails(p) \/ Load(p) \/ Open(p)
    \/ \E vpn \in 0 .. NumPhysPages :
          Fault(p, vpn) \/ LoadWord(p, vpn) \/ Store(p, vpn)
    \/ \E id \in -1 .. MAX_OPEN_FILES : Close(p, id)
    \/ \E id \in -1 .. MAX_OPEN_FILES : \E vpn \in 0 .. NumPhysPages : Read(p, id, vpn)

Spec == Init /\ [][Next]_vars

---------------------------------------------------------------------------
(* Properties                                                              *)

\* Every variable has its type; a page table is empty or complete.
TypeOK ==
    /\ st \in [Programs -> {"forked", "begun", "running", "exited"}]
    /\ current \in Programs \cup {Nobody} /\ installed \in Programs \cup {Nobody}
    /\ reg \in Cells /\ saved \in [Programs -> Cells]
    /\ pageTable \in [Programs -> Seq(Frames)]
    /\ \A p \in Programs : pageTable[p] \in {<< >>} \cup [1 .. NumPages[p] -> Frames]
    /\ marked \subseteq Frames /\ mem \in [Frames -> Cells]
    /\ open \subseteq Nat /\ table \in [Slots -> Nat \cup {Closed}]
    /\ machine \in {"on", "halted", "aborted"}

Owned(p) == {pageTable[p][i] : i \in DOMAIN pageTable[p]}

\* A frame has one owner and one place in its page table, and pageBitmap
\* marks just the frames in use (AddrSpace::Load, FindAndSet).
FramesOwned ==
    /\ \A p \in Programs : Cardinality(Owned(p)) = Len(pageTable[p])
    /\ \A p, q \in Programs : p # q => Owned(p) \cap Owned(q) = {}
    /\ marked = UNION {Owned(p) : p \in Programs}

\* The machine translates with the page table of the program it runs,
\* however the program came to run (Scheduler::Run, Execute).
OwnTable == \A p \in Programs : current = p /\ st[p] = "running" => installed = p

\* What a program sees: its register and its pages.
Register(p) == IF current = p THEN reg ELSE saved[p]
View(p) == [i \in DOMAIN pageTable[p] |-> mem[pageTable[p][i]]]

LoadsRodata == \E q \in Programs : Load(q) /\ RodataPage[q] # -1

\* A loaded program's register and pages change only in its own steps, save
\* for one way: the loading of a program that has a .rdata section.
Isolated == [][\A p \in Programs :
    st[p] = "running" /\ st'[p] = "running" /\ ~(current = p /\ current' = p) =>
        /\ Register(p)' = Register(p)
        /\ View(p)' = View(p) \/ LoadsRodata]_vars

\* Each descriptor the kernel holds is in one slot of OpenFileTable, so that
\* a program can close it, and no slot names a closed one (OpenAFile, SC_Close).
NoDescriptorLost ==
    /\ open = {table[s] : s \in Slots} \ {Closed}
    /\ \A r, s \in Slots : r # s /\ table[r] # Closed => table[r] # table[s]
=============================================================================
