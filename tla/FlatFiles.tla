----------------------------- MODULE FlatFiles -----------------------------
(***************************************************************************)
(* What the MP4 file system promises its only client: named files of fixed *)
(* length, one of which may be open.  Nothing is said of sectors, headers, *)
(* the directory or the free map.  After a stop inside an update of the    *)
(* directory and the free map, and once a program uses a file it has not   *)
(* opened, it promises nothing until the disk is formatted again           *)
(* (filesys.cc:38-40).                                                     *)
(***************************************************************************)
EXTENDS Integers, Sequences

CONSTANTS Names, Bytes, Buffers, ReadSizes

VARIABLES files,  \* the files by name, a function from a subset of Names
          open,   \* the open file: its name and the position in it
          put,    \* the write under way: the bytes buf of name, after at
          got     \* the bytes Read returned, if the last step was one

flatVars == <<files, open, put, got>>

NoName  == "no name"
NotOpen == [name |-> NoName, seek |-> 0]
NoPut   == [name |-> NoName, at |-> 0, buf |-> << >>]

Init == files = << >> /\ open = NotOpen /\ put = NoPut /\ got = << >>

\* A new file holds whatever bytes its sectors held before.
Create(n) ==
    /\ UNCHANGED <<open, put>> /\ got' = << >> /\ put = NoPut
    /\ DOMAIN files' = DOMAIN files \cup {n} /\ n \notin DOMAIN files
    /\ files'[n] \in Seq(Bytes)
    /\ \A m \in DOMAIN files : files'[m] = files[m]

Remove(n) ==
    /\ UNCHANGED <<open, put>> /\ got' = << >> /\ put = NoPut
    /\ n \in DOMAIN files /\ open.name # n
    /\ files' = [m \in DOMAIN files \ {n} |-> files[m]]

Open(n) ==
    /\ UNCHANGED put /\ got' = << >> /\ put = NoPut
    /\ open' \in {[name |-> n, seek |-> 0], NotOpen}
    /\ (open' = NotOpen) <=> (n \notin DOMAIN files)
    /\ UNCHANGED files

Close == open' = NotOpen /\ UNCHANGED put /\ got' = << >> /\ UNCHANGED files

Clip(n, at, k) == IF at + k <= Len(files[n]) THEN k ELSE Len(files[n]) - at

Read ==
    /\ open # NotOpen /\ UNCHANGED put /\ put = NoPut
    /\ \E k \in ReadSizes :
         LET c == Clip(open.name, open.seek, k)
         IN  /\ got' = SubSeq(files[open.name], open.seek + 1, open.seek + c)
             /\ open' = [open EXCEPT !.seek = @ + c]
    /\ UNCHANGED files

\* Copy writes a whole new file, Write a piece of the open one.
StartCopy(n) ==
    /\ put = NoPut /\ put'.name = n /\ put'.at = 0 /\ put'.buf \in Buffers
    /\ n \in DOMAIN files /\ Len(put'.buf) = Len(files[n])
    /\ UNCHANGED open /\ got' = << >> /\ UNCHANGED files

StartWrite ==
    /\ open # NotOpen /\ put = NoPut /\ put' # NoPut /\ got' = << >>
    /\ \E b \in Buffers :
         LET c == Clip(open.name, open.seek, Len(b))
         IN  /\ put' = [name |-> open.name, at |-> open.seek, buf |-> SubSeq(b, 1, c)]
             /\ open' = [open EXCEPT !.seek = @ + c]
    /\ UNCHANGED files

\* Some of the bytes arrive; the write ends once all of them have.
Put ==
    LET old == files[put.name]
        new == files'[put.name]
        Window == put.at + 1 .. put.at + Len(put.buf)
    IN  /\ put # NoPut /\ put' \in {put, NoPut} /\ UNCHANGED open /\ got' = << >>
        /\ DOMAIN files' = DOMAIN files
        /\ \A n \in DOMAIN files \ {put.name} : files'[n] = files[n]
        /\ Len(new) = Len(old)
        /\ \A i \in 1 .. Len(old) :
             \/ new[i] = old[i] /\ (put' = put \/ i \notin Window)
             \/ i \in Window /\ new[i] = put.buf[i - put.at]

\* Halt, or a stop that leaves the directory and the free map alone.
Stop == open' = NotOpen /\ put' = NoPut /\ got' = << >> /\ UNCHANGED files

\* Formatting, a stop in the middle of an update, or the use of a closed file.
Wipe == files' = << >> /\ open' = NotOpen /\ put' = NoPut /\ got' = << >>

\* A call that fails, or one whose effect is not yet visible.
Nothing == UNCHANGED <<files, open, put>> /\ got' = << >>

Next ==
    \/ \E n \in Names : Create(n) \/ Remove(n) \/ Open(n) \/ StartCopy(n)
    \/ Close \/ Read \/ StartWrite \/ Put \/ Stop \/ Wipe \/ Nothing

Spec == Init /\ [][Next]_flatVars
=============================================================================
