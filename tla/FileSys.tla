------------------------------ MODULE FileSys ------------------------------
(***************************************************************************)
(* The MP4 file system: FileSystem, Directory, FileHeader, PersistentBitmap*)
(* and OpenFile over a disk of sectors, with main's -f, -r and -cp and the *)
(* file system calls of one user program.                                  *)
(*                                                                         *)
(* An operation reads what it needs, changes its copies in memory and then *)
(* writes sectors one by one; pending holds the writes it still has to do. *)
(* The kernel may stop between any two writes and be started again.        *)
(***************************************************************************)
EXTENDS Integers, Sequences, FiniteSets, SequencesExt

CONSTANTS Names,          \* file names
          Sizes,          \* sizes a user program passes to Create
          Buffers,        \* what Write and Copy transfer, sequences of Bytes
          ReadSizes,      \* sizes a user program passes to Read
          Bytes,          \* the values of a byte of file data
          Junk,           \* a byte of a sector that holds something else
          NumSectors, SectorSize,
          NumDirect,      \* data sectors of one header
          BitsPerSector,  \* sectors one sector of the free map describes
          NumDirEntries,
          Split           \* the directory entry whose name lies in the second
                          \* sector of the directory and the rest in the first

Sectors == 0 .. NumSectors - 1
Entries == 0 .. NumDirEntries - 1
DivRoundUp(n, s) == (n + s - 1) \div s

FreeMapSector   == 0
DirectorySector == 1
MaxFileSize     == NumDirect * SectorSize
MapParts        == DivRoundUp(NumSectors, BitsPerSector)

ASSUME FileSysAssumption ==
    /\ NumSectors \in Nat /\ SectorSize \in Nat \ {0} /\ NumDirect \in Nat \ {0}
    /\ BitsPerSector \in Nat \ {0} /\ NumDirEntries \in Nat /\ Split \in Entries
    /\ Junk \notin Bytes /\ Sizes \subseteq Int /\ ReadSizes \subseteq Int
    /\ \A b \in Buffers : b \in Seq(Bytes)

VARIABLES disk,        \* the contents of the sectors
          sound,       \* history: "blank", "sound", "torn" by a stop, or "lost"
          machine,     \* "off", or how far main got, or what became of it
          pending,     \* the sector writes the running operation still has to do
          committed,   \* history: it has written a directory or map sector
          copying,     \* Copy's file, from Create to the end of the copying
          xfer,        \* the arguments of the WriteAt under way
          openedFile,
          got,         \* the bytes Read returned, if the last step was one
          files        \* history: the contents of the files by name

vars == <<disk, sound, machine, pending, committed, copying, xfer, openedFile, got, files>>

---------------------------------------------------------------------------
(* Bitmap and FileHeader.  A free map is its set of marked sectors; a      *)
(* header in memory is the sequence of the headers of its chain.           *)

NoSector == -1
Clear(map) == Sectors \ map

\* The first k results of FindAndSet, or as many as there are clear sectors.
FindAndSet(map, k) ==
    LET below(s) == Cardinality({c \in Clear(map) : c < s})
    IN  [i \in 1 .. (IF k <= Cardinality(Clear(map)) THEN k ELSE Cardinality(Clear(map))) |->
           CHOOSE s \in Clear(map) : below(s) = i - 1]

Header(n, secs) == [kind |-> "header", numBytes |-> n, dataSectors |-> secs, next |-> NoSector]

\* The signed comparison.
ChunksSigned(size) ==
    IF size <= MaxFileSize THEN <<size>>
    ELSE LET m == DivRoundUp(size, MaxFileSize)
         IN  [i \in 1 .. m |-> IF i < m THEN MaxFileSize ELSE size - (m - 1) * MaxFileSize]

\* The bytes of each header of a file.  MaxFileSize is unsigned, so a negative
\* size compares as larger than it.
Chunks(size) ==
    IF size < 0 THEN <<MaxFileSize>>
    ELSE IF size <= MaxFileSize THEN <<size>>
    ELSE LET m == DivRoundUp(size, MaxFileSize)
         IN  [i \in 1 .. m |-> IF i < m THEN MaxFileSize ELSE size - (m - 1) * MaxFileSize]

\* The sector is found but not set.
NextHeaderNotSet(a) ==
    IF a.hdrs = << >> THEN a
    ELSE IF Clear(a.map) = {} THEN [a EXCEPT !.ok = FALSE]
    ELSE [a EXCEPT !.hdrs[Len(a.hdrs)].next = FindAndSet(a.map, 1)[1]]

\* nextFileHeaderSector of the header before, if there is one.
NextHeader(a) ==
    IF a.hdrs = << >> THEN a
    ELSE IF Clear(a.map) = {} THEN [a EXCEPT !.ok = FALSE]
    ELSE LET s == FindAndSet(a.map, 1)[1]
         IN  [a EXCEPT !.map = @ \cup {s}, !.hdrs[Len(a.hdrs)].next = s]

\* A file never takes the last sectors.
AllocateOneTight(a, numBytes) ==
    LET c == NextHeader(a)
        n == DivRoundUp(numBytes, SectorSize)
        secs == FindAndSet(c.map, n)
    IN  IF ~a.ok \/ ~c.ok \/ Cardinality(Clear(c.map)) <= n
        THEN [c EXCEPT !.ok = FALSE]
        ELSE [ok |-> TRUE, map |-> c.map \cup ToSet(secs), hdrs |-> Append(c.hdrs, Header(numBytes, secs))]

\* One header of Allocate: its data sectors, if that many are clear.
AllocateOne(a, numBytes) ==
    LET c == NextHeader(a)
        n == DivRoundUp(numBytes, SectorSize)
        secs == FindAndSet(c.map, n)
    IN  IF ~a.ok \/ ~c.ok \/ Cardinality(Clear(c.map)) < n
        THEN [c EXCEPT !.ok = FALSE]
        ELSE [ok |-> TRUE, map |-> c.map \cup ToSet(secs), hdrs |-> Append(c.hdrs, Header(numBytes, secs))]

\* Allocate: whether it succeeds, the free map and the headers it leaves, after
\* the first k headers and after all.
Allocate(map, size) ==
    LET chunks == Chunks(size)
        upTo[k \in 0 .. Len(chunks)] ==
            IF k = 0 THEN [ok |-> TRUE, map |-> map, hdrs |-> << >>]
            ELSE AllocateOne(upTo[k - 1], chunks[k])
    IN  upTo[Len(chunks)]

\* FetchFrom: the headers from sector s on, as far as the sectors hold headers.
FetchFrom(d, s) ==
    LET isHeader(x) == x # NoSector /\ d[x].kind = "header"
        chain[k \in 1 .. NumSectors] ==
            IF k = 1 THEN s
            ELSE IF isHeader(chain[k - 1]) THEN d[chain[k - 1]].next ELSE NoSector
    IN  [k \in 1 .. Cardinality({k \in 1 .. NumSectors : isHeader(chain[k])}) |-> d[chain[k]]]

DataSectors(hdrs) == UNION {ToSet(hdrs[i].dataSectors) : i \in DOMAIN hdrs}

\* The chained headers keep their data sectors.
DeallocateFirst(map, hdrs) == map \ ToSet(hdrs[1].dataSectors)

\* Deallocate: the data sectors of every header, but no header.
Deallocate(map, hdrs) == map \ DataSectors(hdrs)

\* FileLength: the bytes of all headers.
FileLength(hdrs) ==
    LET upTo[k \in 0 .. Len(hdrs)] == IF k = 0 THEN 0 ELSE upTo[k - 1] + hdrs[k].numBytes
    IN  upTo[Len(hdrs)]

\* ByteToSector, for an offset within the file.
ByteToSector(hdrs, offset) ==
    LET k == offset \div SectorSize
    IN  hdrs[k \div NumDirect + 1].dataSectors[(k % NumDirect) + 1]

---------------------------------------------------------------------------
(* The sector writes of WriteBack and WriteAt.                             *)

Write1(s, c) == [sector |-> s, contents |-> c]

\* FileHeader::WriteBack: a header, then the one after it.
HeaderWrites(s, hdrs) ==
    [i \in DOMAIN hdrs |-> Write1(IF i = 1 THEN s ELSE hdrs[i - 1].next, hdrs[i])]

\* The two system files are where formatting puts them; the kernel keeps them
\* open, and no operation changes their headers.
MapAlloc == Allocate({FreeMapSector, DirectorySector}, MapParts * SectorSize)
DirAlloc == Allocate(MapAlloc.map, 2 * SectorSize)
MapSector(i) == ByteToSector(MapAlloc.hdrs, (i - 1) * SectorSize)
DirSector(p) == ByteToSector(DirAlloc.hdrs, (p - 1) * SectorSize)

\* Formatting asserts that both files get their sectors (filesys.cc:102-103).
ASSUME FormatAssumption == MapAlloc.ok /\ DirAlloc.ok

\* PersistentBitmap: the part of the map in its i-th sector.
MapPart(map, i) ==
    [kind |-> "map", marked |-> {s \in map : s \div BitsPerSector = i - 1}]
FetchMap(d) == UNION {d[MapSector(i)].marked : i \in 1 .. MapParts}
MapWrites(map) == [i \in 1 .. MapParts |-> Write1(MapSector(i), MapPart(map, i))]

\* Directory: inUse and sector of an entry lie in one sector, its name too.
HeadPart(i) == IF i <= Split THEN 1 ELSE 2
NamePart(i) == IF i < Split THEN 1 ELSE 2
DirPart(dir, p) ==
    [kind |-> "dir", use  |-> [i \in {j \in Entries : HeadPart(j) = p} |-> dir.use[i]],
                     name |-> [i \in {j \in Entries : NamePart(j) = p} |-> dir.name[i]]]
FetchDir(d) ==
    [use  |-> [i \in Entries |-> d[DirSector(HeadPart(i))].use[i]],
     name |-> [i \in Entries |-> d[DirSector(NamePart(i))].name[i]]]
DirWrites(dir) == [p \in 1 .. 2 |-> Write1(DirSector(p), DirPart(dir, p))]

\* OpenFile.  The name is kept for the refinement mapping only.  openedFile is
\* "closed" when it is not initialised or dangles.
NoName    == "no name"
OpenAt(n, s) == [state |-> "open", name |-> n, hdrs |-> FetchFrom(disk, s), seek |-> 0]
Null      == [state |-> "null", name |-> NoName, hdrs |-> << >>, seek |-> 0]
Closed    == [Null EXCEPT !.state = "closed"]

DataBytes(c) == IF c.kind = "data" THEN c.bytes ELSE [i \in 1 .. SectorSize |-> Junk]

\* The byte at an offset of the file.
ByteAt(d, hdrs, o) == DataBytes(d[ByteToSector(hdrs, o)])[(o % SectorSize) + 1]

\* ReadAt and WriteAt transfer nothing from the end of the file on, and no
\* byte past it.
Clipped(hdrs, position, k) ==
    IF k <= 0 \/ position >= FileLength(hdrs) THEN 0
    ELSE IF position + k > FileLength(hdrs) THEN FileLength(hdrs) - position ELSE k

ReadAt(d, hdrs, k, position) ==
    [i \in 1 .. Clipped(hdrs, position, k) |-> ByteAt(d, hdrs, position + i - 1)]

\* Sectors written in part are not read first.
SectorOverwritten(d, hdrs, buf, position, i) ==
    [kind |-> "data", bytes |-> [j \in 1 .. SectorSize |->
        LET o == i * SectorSize + j - 1
        IN  IF o \in position .. position + Len(buf) - 1 THEN buf[o - position + 1] ELSE Junk]]

\* The new contents of the file's i-th sector: what WriteAt does not cover it
\* has read before, except past the end of the file.
SectorAfter(d, hdrs, buf, position, i) ==
    [kind |-> "data", bytes |-> [j \in 1 .. SectorSize |->
        LET o == i * SectorSize + j - 1
        IN  IF o \in position .. position + Len(buf) - 1 THEN buf[o - position + 1]
            ELSE IF o < FileLength(hdrs) THEN ByteAt(d, hdrs, o) ELSE Junk]]

\* WriteAt of a clipped, non-empty buffer.
DataWrites(d, hdrs, buf, position) ==
    LET first == position \div SectorSize
        last  == (position + Len(buf) - 1) \div SectorSize
    IN  [i \in 1 .. 1 + last - first |->
           Write1(ByteToSector(hdrs, (first + i - 1) * SectorSize),
                  SectorAfter(d, hdrs, buf, position, first + i - 1))]

---------------------------------------------------------------------------
(* Directory                                                               *)

EmptyDir == [use |-> [i \in Entries |-> NoSector], name |-> [i \in Entries |-> NoName]]

InUse(dir) == {i \in Entries : dir.use[i] # NoSector}
Lowest(S)  == CHOOSE i \in S : \A j \in S : i <= j

\* The entries FindIndex may return.
Found(dir, n) == {i \in InUse(dir) : dir.name[i] = n}
Find(dir, n)  == IF Found(dir, n) = {} THEN NoSector ELSE dir.use[Lowest(Found(dir, n))]

\* Add, when there is a free entry.
Add(dir, n, s) ==
    LET i == Lowest(Entries \ InUse(dir))
    IN  [use |-> [dir.use EXCEPT ![i] = s], name |-> [dir.name EXCEPT ![i] = n]]

\* Directory::Remove leaves the name in the entry.
RemoveEntry(dir, n) == [dir EXCEPT !.use[Lowest(Found(dir, n))] = NoSector]

---------------------------------------------------------------------------
(* FileSystem                                                              *)

NoXfer == [name |-> NoName, at |-> 0, buf |-> << >>]
NoCopy == [name |-> NoName, data |-> << >>]

NoData == [kind |-> "data", bytes |-> [i \in 1 .. SectorSize |-> Junk]]

Init ==
    /\ disk = [s \in Sectors |-> NoData]
    /\ sound = "blank" /\ machine = "off" /\ pending = << >> /\ committed = FALSE
    /\ copying = NoCopy /\ xfer = NoXfer /\ openedFile = Closed /\ got = << >>
    /\ files = << >>

FormatWrites ==
    HeaderWrites(FreeMapSector, MapAlloc.hdrs) \o HeaderWrites(DirectorySector, DirAlloc.hdrs)
      \o MapWrites(DirAlloc.map) \o DirWrites(EmptyDir)

\* From here on the kernel and the disk may do anything, and are not followed:
\* something undefined was done, or a torn disk was updated, whose map may give
\* the sectors of one file to another.
Astray ==
    /\ machine' = "astray" /\ sound' = "lost" /\ disk' = [s \in Sectors |-> NoData]
    /\ pending' = << >> /\ committed' = FALSE
    /\ xfer' = NoXfer /\ openedFile' = Closed /\ got' = << >>

\* An operation starts its writes.
Update(writes, m) ==
    IF sound = "torn" /\ writes # << >> THEN Astray
    ELSE /\ pending' = writes /\ machine' = m
         /\ got' = << >>
         /\ UNCHANGED <<disk, sound, committed, xfer, openedFile>>

\* FileSystem(format) mounts a torn disk like any other, and takes headers from
\* a disk that has none.
Boot(format) ==
    /\ machine = "off"
    /\ IF format \/ sound \in {"sound", "torn"}
       THEN /\ machine' = "main"
            /\ pending' = IF format THEN FormatWrites ELSE << >>
            /\ sound' = IF format THEN "blank" ELSE sound
            /\ got' = << >>
            /\ UNCHANGED <<disk, committed, xfer, openedFile>>
       ELSE Astray
    /\ UNCHANGED copying

\* The disk after one WriteSector.  Writing a part of the free map also forgets
\* the data of the sectors it frees: to whoever gets them next it is Junk.
Written(d, sector, c) ==
    LET freed == IF c.kind = "map" /\ d[sector].kind = "map"
                 THEN d[sector].marked \ c.marked ELSE {}
    IN  [s \in Sectors |-> IF s = sector THEN c
                           ELSE IF s \in freed /\ d[s].kind = "data" THEN NoData ELSE d[s]]

\* The next WriteSector of the running operation.
DiskWrite ==
    /\ machine # "off" /\ pending # << >>
    /\ LET w == Head(pending)
           done == Tail(pending) = << >>
       IN  /\ disk' = Written(disk, w.sector, w.contents)
           /\ committed' = (~done /\ (committed \/ w.contents.kind \in {"dir", "map"}))
           /\ sound' = IF done /\ sound = "blank" THEN "sound" ELSE sound
           /\ xfer' = IF done THEN NoXfer ELSE xfer
           /\ copying' = IF done /\ xfer # NoXfer THEN NoCopy ELSE copying
    /\ pending' = Tail(pending)
    /\ got' = << >>
    /\ UNCHANGED <<machine, openedFile>>

\* Halt, a signal or a failed assertion: what was in memory is gone.
Stop ==
    /\ machine # "off"
    /\ machine' = "off" /\ pending' = << >> /\ committed' = FALSE
    /\ sound' = IF committed /\ sound = "sound" THEN "torn" ELSE sound
    /\ copying' = NoCopy /\ xfer' = NoXfer /\ openedFile' = Closed /\ got' = << >>
    /\ UNCHANGED disk

\* main is at one of the places ms, and no operation is running.
Idle(ms) == machine \in ms /\ pending = << >> /\ copying = NoCopy

\* The header is written last.
CreateWritesHeaderLast(s, hdrs, dir, map) ==
    DirWrites(dir) \o MapWrites(map) \o HeaderWrites(s, hdrs)

\* The free map is not flushed.
CreateWritesNoMap(s, hdrs, dir, map) == HeaderWrites(s, hdrs) \o DirWrites(dir)

CreateWrites(s, hdrs, dir, map) ==
    HeaderWrites(s, hdrs) \o DirWrites(dir) \o MapWrites(map)

\* Whether Create succeeds, and the writes it makes then.
Creation(n, size) ==
    LET dir == FetchDir(disk)
        map == FetchMap(disk)
        s   == FindAndSet(map, 1)[1]
        a   == Allocate(map \cup {s}, size)
        ok  == /\ Find(dir, n) = NoSector /\ Clear(map) # {}
               /\ InUse(dir) # Entries /\ a.ok
    IN  [ok |-> ok, writes |-> IF ok THEN CreateWrites(s, a.hdrs, Add(dir, n, s), a.map) ELSE << >>]

\* SC_Create
Create(n, size) ==
    /\ Idle({"main", "removed", "user"})
    /\ Update(Creation(n, size).writes, "user")
    /\ UNCHANGED copying

\* main's Copy, up to the end of Create.
Copy(n, data) ==
    /\ Idle({"main", "removed"})
    /\ LET c == Creation(n, Len(data))
       IN  /\ Update(c.writes, "user")
           /\ copying' = IF c.ok /\ sound = "sound" THEN [name |-> n, data |-> data] ELSE NoCopy

\* Copy opens the new file, asserts that it is there, and writes it,
\* TransferSize = SectorSize at a time.
CopyData ==
    LET s == Find(FetchDir(disk), copying.name)
        f == OpenAt(copying.name, s)
    IN  /\ machine = "user" /\ copying # NoCopy /\ pending = << >>
        /\ IF s = NoSector
           THEN machine' = "failed" /\ UNCHANGED <<pending, xfer, copying>>
           ELSE /\ pending' = IF copying.data = << >> THEN << >>
                              ELSE DataWrites(disk, f.hdrs, copying.data, 0)
                /\ xfer' = IF copying.data = << >> THEN NoXfer
                           ELSE [name |-> copying.name, at |-> 0, buf |-> copying.data]
                /\ copying' = IF copying.data = << >> THEN NoCopy ELSE copying
                /\ UNCHANGED machine
        /\ got' = << >>
        /\ UNCHANGED <<disk, sound, committed, openedFile>>

\* The free map goes to disk before the directory.
RemoveWrites(s, hdrs, dir, map) ==
    MapWrites(Deallocate(map, hdrs) \ {s}) \o DirWrites(dir)

\* main's -r.  Deallocate asserts that the data sectors are marked.
RemoveFile(n) ==
    LET dir  == FetchDir(disk)
        map  == FetchMap(disk)
        s    == Find(dir, n)
        hdrs == FetchFrom(disk, s)
        marked == DataSectors(hdrs) \subseteq map
    IN  /\ Idle({"main"})
        /\ Update(IF s # NoSector /\ marked
                  THEN RemoveWrites(s, hdrs, RemoveEntry(dir, n), map) ELSE << >>,
                  IF s = NoSector \/ marked THEN "removed" ELSE "failed")
        /\ UNCHANGED copying

\* SC_Open: the file open before is forgotten, and a missing one is NULL.
Open(n) ==
    LET s == Find(FetchDir(disk), n)
    IN  /\ Idle({"main", "removed", "user"})
        /\ machine' = "user"
        /\ openedFile' = IF s = NoSector THEN Null ELSE OpenAt(n, s)
        /\ got' = << >>
        /\ UNCHANGED <<disk, sound, pending, committed, copying, xfer>>

\* SC_Read and SC_Write do not look at the descriptor; NULL is dereferenced.
UseNull ==
    /\ Idle({"user"}) /\ openedFile.state = "null"
    /\ machine' = "aborted"
    /\ got' = << >>
    /\ UNCHANGED <<disk, sound, pending, committed, copying, xfer, openedFile>>

\* SC_Read, SC_Write or SC_Close before the first Open, when openedFile is not
\* initialised, or after Close, when it is dangling: undefined.
UseClosed ==
    /\ Idle({"main", "removed", "user"}) /\ openedFile.state = "closed"
    /\ \/ machine' = "aborted" /\ got' = << >>
          /\ UNCHANGED <<disk, sound, pending, committed, xfer, openedFile>>
       \/ Astray
    /\ UNCHANGED copying

\* seekPosition += result
Advance(f, k) == [f EXCEPT !.seek = @ + k]

Read(k) ==
    LET bytes == ReadAt(disk, openedFile.hdrs, k, openedFile.seek)
    IN  /\ Idle({"user"}) /\ openedFile.state = "open"
        /\ got' = bytes
        /\ openedFile' = Advance(openedFile, Len(bytes))
        /\ UNCHANGED <<disk, sound, machine, pending, committed, copying, xfer>>

\* The position moves at once: nobody looks at it before the writes are done.
Write(buf) ==
    LET k == Clipped(openedFile.hdrs, openedFile.seek, Len(buf))
        b == SubSeq(buf, 1, k)
    IN  /\ Idle({"user"}) /\ openedFile.state = "open" /\ k > 0
        /\ pending' = DataWrites(disk, openedFile.hdrs, b, openedFile.seek)
        /\ xfer' = [name |-> openedFile.name, at |-> openedFile.seek, buf |-> b]
        /\ openedFile' = Advance(openedFile, k)
        /\ got' = << >>
        /\ UNCHANGED <<disk, sound, machine, committed, copying>>

\* delete openedFile: nothing if it is NULL, and the pointer keeps its value.
Close ==
    /\ Idle({"user"}) /\ openedFile.state # "closed"
    /\ openedFile' = IF openedFile.state = "null" THEN openedFile ELSE Closed
    /\ got' = << >>
    /\ UNCHANGED <<disk, sound, machine, pending, committed, copying, xfer>>

---------------------------------------------------------------------------
(* The files as a user sees them: determined by the rest of the state and  *)
(* kept in a variable for the refinement only.  An operation takes effect  *)
(* with the first directory or map sector it writes.                       *)

Overlaid(d, p, c) ==
    [s \in Sectors |-> IF c /\ \E i \in DOMAIN p : p[i].sector = s
                       THEN (CHOOSE w \in ToSet(p) : w.sector = s).contents ELSE d[s]]
Contents(d, s) ==
    LET hdrs == FetchFrom(d, s) IN ReadAt(d, hdrs, FileLength(hdrs), 0)
Files(d, p, c) ==
    LET dir == FetchDir(Overlaid(d, p, c))
    IN  [n \in {dir.name[i] : i \in InUse(dir)} |-> Contents(d, Find(dir, n))]

Step ==
    \/ \E format \in BOOLEAN : Boot(format)
    \/ DiskWrite \/ Stop \/ CopyData \/ UseNull \/ UseClosed \/ Close
    \/ \E n \in Names :
         \/ RemoveFile(n) \/ Open(n)
         \/ \E size \in Sizes : Create(n, size)
         \/ \E data \in Buffers : Copy(n, data)
    \/ \E k \in ReadSizes : Read(k)
    \/ \E buf \in Buffers : Write(buf)

Next ==
    /\ Step
    /\ files' = IF sound' = "sound" THEN Files(disk', pending', committed') ELSE << >>

Spec == Init /\ [][Next]_vars

---------------------------------------------------------------------------
(* Properties                                                              *)

\* A header chain starts at s, is complete, and all but its last header are full.
WholeChain(d, s) ==
    LET hdrs == FetchFrom(d, s)
    IN  hdrs # << >> /\ \A i \in DOMAIN hdrs :
          /\ hdrs[i].numBytes \in 0 .. MaxFileSize
          /\ i < Len(hdrs) => hdrs[i].numBytes = MaxFileSize
          /\ hdrs[i].next # NoSector <=> i < Len(hdrs)
          /\ Len(hdrs[i].dataSectors) = DivRoundUp(hdrs[i].numBytes, SectorSize)

\* The header sectors of the system files and of the files in the directory.
Roots(d) ==
    {FreeMapSector, DirectorySector} \cup {FetchDir(d).use[i] : i \in InUse(FetchDir(d))}

\* The places of a file: <<i, 0>> is where its i-th header is, <<i, j>> where
\* the j-th data sector of that header is.
Places(hdrs) == UNION {{i} \X (0 .. Len(hdrs[i].dataSectors)) : i \in DOMAIN hdrs}
SectorAt(hdrs, s, i, j) ==
    IF j # 0 THEN hdrs[i].dataSectors[j] ELSE IF i = 1 THEN s ELSE hdrs[i - 1].next

\* The sectors of the file at s, by their places.
FileSectors(d, s) ==
    LET hdrs == FetchFrom(d, s) IN [p \in Places(hdrs) |-> SectorAt(hdrs, s, p[1], p[2])]

Owned(d) == UNION {ToSet(FileSectors(d, s)) : s \in Roots(d)}

\* Types of the variables; every header in memory or on disk is well formed,
\* which a size passed to Create could break (filehdr.cc:75).
TypeOK ==
    /\ sound \in {"blank", "sound", "torn", "lost"} /\ committed \in BOOLEAN
    /\ machine \in {"off", "main", "removed", "user", "failed", "aborted", "astray"}
    /\ \A s \in Sectors : disk[s].kind = "header" =>
         /\ disk[s].numBytes \in 0 .. MaxFileSize
         /\ disk[s].next \in Sectors \cup {NoSector}
         /\ ToSet(disk[s].dataSectors) \subseteq Sectors
    /\ \A i \in DOMAIN pending : pending[i].sector \in Sectors
    /\ openedFile.seek \in 0 .. FileLength(openedFile.hdrs)

\* No sector belongs to two files, or to one file twice, the files of the
\* system included, in the middle of an operation too: Allocate must take
\* every sector from the map it was given (filehdr.cc:79-100).
SoleOwner ==
    sound = "sound" =>
      /\ \A s \in Roots(disk) : IsInjective(FileSectors(disk, s))
      /\ \A s, t \in Roots(disk) :
           s # t => ToSet(FileSectors(disk, s)) \cap ToSet(FileSectors(disk, t)) = {}

\* Between operations every sector of a file is marked in the free map, so that
\* Create cannot hand it out again and Deallocate's assertion (filehdr.cc:119)
\* holds; and a marked sector nobody owns holds a header that Remove left.
MapAgrees ==
    sound = "sound" /\ pending = << >> =>
      /\ Owned(disk) \subseteq FetchMap(disk)
      /\ \A s \in FetchMap(disk) \ Owned(disk) : disk[s].kind = "header"

\* Every entry of the directory on disk leads to a header chain written to its
\* end, whenever the kernel stops, and for as long as a torn disk is then mounted
\* and only read, or written within its files: Create writes the headers before
\* the directory that names them (filesys.cc:222-223).
EntriesWhole ==
    sound \in {"sound", "torn"} => \A s \in Roots(disk) : WholeChain(disk, s)

\* The sectors a file of this size takes beside its first header.
Needed(size) ==
    LET bytes == IF size < 0 THEN MaxFileSize ELSE size
        data  == DivRoundUp(bytes, SectorSize)
        more  == IF data = 0 THEN 0 ELSE DivRoundUp(data, NumDirect) - 1
    IN  data + more

\* Allocate looks at the room for one header at a time (filehdr.cc:79), yet it
\* succeeds exactly when there is room for the whole file, takes that many
\* sectors and leaves a whole chain of the length asked for.
AllocateExact ==
    sound = "sound" /\ pending = << >> =>
      \A size \in {-1} \cup 0 .. 5 * MaxFileSize :
        LET map == FetchMap(disk)
            a   == Allocate(map, size)
        IN  /\ a.ok <=> Needed(size) <= Cardinality(Clear(map))
            /\ a.ok => /\ map \subseteq a.map
                       /\ Cardinality(a.map \ map) = Needed(size)
                       /\ FileLength(a.hdrs) = IF size < 0 THEN MaxFileSize ELSE size

\* No assertion fails on a disk that no stop has torn, however often the kernel
\* was stopped and started again: Copy finds the file its Create made, whose entry
\* may lie in both sectors of the directory (main.cc:106-107), and the sectors that
\* Remove frees are marked in the map (filehdr.cc:119).
AssertionsHold == sound = "sound" => machine # "failed"

\* Remove gives back all a file took: between operations every marked sector
\* belongs to a file (filesys.cc:305-310).
NoSectorLost ==
    sound = "sound" /\ pending = << >> => FetchMap(disk) \subseteq Owned(disk)

Flat == INSTANCE FlatFiles WITH
    Bytes <- Bytes \cup {Junk},
    open  <- IF sound = "sound" THEN [name |-> openedFile.name, seek |-> openedFile.seek]
             ELSE [name |-> NoName, seek |-> 0],
    put   <- IF sound = "sound" THEN xfer ELSE NoXfer,
    got   <- IF sound = "sound" THEN got ELSE << >>

\* The file system implements named files: a write changes the bytes it was
\* asked to change and no others, in whichever sectors they lie, a read
\* returns what was written, and creating or removing a file leaves the other
\* files alone (openfile.cc:113-194, filesys.cc:189-348).
ImplementsFlatFiles == Flat!Spec
=============================================================================
