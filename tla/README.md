# A TLA+ verification of the NTHU operating-systems homework

The repository holds two kinds of programs: a multithreaded text pipeline on
pthreads (`src/NTHU-OS-Pthreads`) and four stages of the NachOS teaching kernel
(`src/NachOS-4.0_MP1` .. `MP4`), each stage a full copy of the kernel with one part
changed: system calls and the open file table (MP1), paging (MP2), the multilevel
feedback scheduler (MP3), the file system (MP4). Each model refers to the copy that
has its component at work: scheduler, address spaces and open file table to MP3,
synchronisation, devices and network to MP1 (and to MP4 where that differs), the file
system to MP4.

## 1. Inventory

| Component | State | Operations | What is hard | What makes it correct |
|---|---|---|---|---|
| `TSQueue` (ts_queue.hpp) | ring buffer, `head`, `tail`, `size`, mutex, two condition variables | `enqueue`, `dequeue`, `get_size` | waits in the middle of a critical section, spurious wake-ups, one signal per item, full/empty ambiguity, unlocked `get_size` | it is a bounded FIFO; no wake-up is lost |
| Pipeline (main, reader, producers, consumers, controller, writer) | three queues, items in hand, the controller's vector, `is_cancel`, `expected_lines` | one loop per thread, scale up and down, join and delete | cancelling a consumer that holds an item, deleting an object its thread still reads, decisions on stale sizes, termination | no line lost or doubled; main's joins return, and only when all are written |
| Scheduler, threads, timer (MP3) | status, priority, burst estimate per thread, lists L1, L2, L3, current thread | Fork, Begin, Yield, Sleep, Finish, aging, promotion, preemption, wake-up | iterator over a list that is being changed, preemption between enabling interrupts and counting, truncated comparisons, starvation | a ready thread is on exactly one list; one thread runs; preemption only for a better thread |
| Interrupts | pending list, level, mode | Schedule, OneTick, CheckIfDue, Idle | several interrupts due at once, idle clock | every due handler runs once |
| Semaphore, Lock, Condition, SynchList | value, queue, holder | P, V, Acquire, Release, Wait, Signal | a thread made ready that is overtaken, a signal between queueing and sleeping | mutual exclusion, no lost wake-up |
| Synchronous console, disk | outstanding request, semaphore, lock | request, completion interrupt, polling | two callers, a late answer, devices turned off while threads wait | one request at a time, each caller gets its own answer |
| Post office | network's one-packet buffer, the worker's buffer, mailboxes | Send, PostalDelivery, Receive | interrupt, worker and receivers at different speeds | mail is handed out once, in order |
| Address spaces (MP3) | frame bitmap, page tables, registers | Load, Execute, Translate, switch | frames run out, table and registers of another program | no frame has two owners, programs are isolated |
| Open file table (MP3) | 20 slots shared by all programs | Open, Read, Write, Close | full table, reuse of a closed slot | an id names one open file, none leaks |
| File system (MP4) | free map, chained headers, directory, one `openedFile` | format, Create, Open, Read, Write, Close, Remove, Copy | order of disk writes, a stop between two, sizes across sectors and headers, leaked header sectors | named files with contents; a sector belongs to at most one file |
| Transformer, MIPS simulator, hash table, tool chain | - | - | - | not modelled, see section 8 |

The pipeline's threads interact only through the three queues, the `Consumer`
objects and main's joins. The kernel's threads interact through the ready lists,
semaphores and interrupts; there is one processor, and a thread can lose it only
when simulated time advances (`Interrupt::OneTick`) or when it sleeps or finishes.

## 2. Modules

| Module | Models | Built on |
|---|---|---|
| `BoundedFIFO` | what a queue promises: atomic enqueue and dequeue | - |
| `TSQueue` | ts_queue.hpp statement group by statement group | refines `BoundedFIFO` |
| `Pipeline` | main.cpp, reader, producer, consumer, consumer_controller, writer | queues as in `BoundedFIFO` |
| `Scheduler` | scheduler.cc, thread.cc, alarm.cc, timer.cc, list.cc, and the parts of kernel.cc, interrupt.cc, synch.cc that drive them | - |
| `FlatFiles` | what a file system promises: named files, one open at a time, reads and writes at a seek position | - |
| `FileSys` | MP4's filesys.cc, filehdr.cc, directory.cc, pbitmap.cc, openfile.cc, the file options of main.cc and the file system calls | refines `FlatFiles` |
| `Synch` | synch.cc: semaphore, lock, condition; Sleep, idle machine and timer as threads meet them | - |
| `SyncIO` | synchdisk.cc, synchconsole.cc, post.cc, synchlist.cc over the devices disk.cc, console.cc, network.cc | extends `Synch`, refines `Mailboxes` |
| `Mailboxes` | what the post office promises: mail in order, handed out once | - |
| `UserProg` | MP3's addrspace.cc, translate.cc, the register and table switch of scheduler.cc, open file table and its system calls | - |
| `DataLemmas` | lemmas about searches from below, and about queues | - |
| `TSQueueProofs`, `PipelineProofs`, `SchedulerProofs`, `SyncIOProofs`, `UserProgProofs`, `FileSysProofs` | TLAPS proofs | the module of that name, `DataLemmas` |
| `SyncIOWaits` | the proof that no thread is forgotten | `SyncIOProofs` |
| `MCTSQueue`, `MCPipeline`, `MCScheduler`, `MCFileSys`, `MCSyncIO`, `MCUserProg` | constants for TLC | the module of that name |

### TSQueue and the code

`pc[t]` says where a caller is: it locks (`Lock`), tests the `while` condition
(`EnqueueTest`, `DequeueTest`: wait or go on), copies (`EnqueueCopy`, `DequeueCopy`: slot,
index and `size`, all under the mutex), signals, unlocks. `pthread_cond_wait` releases
the mutex and puts the thread in `cond_enqueue` or `cond_dequeue` in one step; a
signal wakes any one waiter, which then has to lock again; `SpuriousWakeup` wakes
a thread for no reason, as POSIX allows. `get_size` reads `size` at any time, without
the mutex. The slots start as `Garbage` (`new T[buffer_size]`).

### Pipeline and the code

A queue operation is one step that is enabled when it would not block, which the
refinement proved for `TSQueue` justifies. An item is the number of the line it came
from; the arithmetic of the transformer is left out. Consumer threads and
`Consumer` objects are kept apart: a thread reads `is_cancel` at the address it was
given (`object[c]`), the controller deletes the object while the thread may still
run, and a later `new Consumer` may return any address that was deleted or the next
fresh one. Cancellation is deferred and disabled around the work, and no cancellation
point is reached while it is enabled, so `pthread_cancel` itself never ends a consumer
thread. The writer's stream may fail at any write; the code notices at the next item.

main joins the reader and the writer only, and then deletes threads, controller and
queues (`MainDelete`) under the feet of the producers, which wait in `input_queue` for ever,
and of consumers and controller. `~TSQueue` destroys a condition variable that has waiters, which is
undefined (glibc's blocks until they are gone), and whoever else wakes uses freed objects.
The model follows the threads up to the joins; after them the process ends or stays in a
destructor (`exited`, `stuck`), and nothing is claimed of either. `OutputComplete` says that at that
time there is nothing left that could be lost, `JoinsReturn` that the time comes.

### Scheduler and the code

`th[t]` holds the status and the fields of `ThreadStateController`. Time is relative:
`since` is `totalTicks - tick_cache`, one tick of the model standing for one call of
`OneTick`. Burst times stop at `MaxBurst`, and `remainBurstTime` is kept in units of
2^-`MaxWaits` ticks so that its halvings are exact, which keeps the truncation
in `compareTime` as it is in C++. A timer interrupt ages every ready thread, walks L3
and then L2 one element per step (`Promote`, `PromoteSkips`, `PromoteL2`), and decides whether the
running thread has to yield (`AlarmDecides`, which sets `yieldOnReturn`). The other handlers that
`CheckIfDue` finds due run before or after it (`Wakeup`) and make threads ready; then
`InterruptReturns` does what was decided, with the lists as they are by now: all of `Yield`. No
thread executes in between, since handlers run with interrupts off. scheduler.h:60 calls L2
"non-preemptive": its threads are not preempted by one another, but they are by threads of L1.
`PromoteThreads` calls `it.Next()` on an element that `Remove` has deleted; the model lets
it find either the link of the new element that was allocated in the same place, or
the old link. `Fork` and `Begin` contain the tick that enabling interrupts takes; `Begin`
is two actions because the thread can be preempted before it is counted.
Programs are arbitrary: a running executable may execute, block, finish.
Device interrupts wake a waiting thread while another runs (`Wakeup`) or while the
machine idles (`IdleWakeup`, several at once, then `IdleReturns`).

### FileSys and the code

There is one client: main with its options in the order it handles them (`-f`, `-r`,
`-cp`), then one user program with its system calls. An operation reads the disk and
changes its copies in memory in the step that starts it; the sectors it then writes
stand in `pending`, in the order of the code's `WriteBack`s, and `DiskWrite` does one of them.
`Stop` may come between any two (halt, signal, failed assertion): memory is lost and the
machine boots again. `sound` says what a boot finds: a `blank` disk before the first format has
ended, a `sound` one, or a `torn` one after a stop between the first directory or map write
and the last write of an operation. The constructor mounts whatever is there. A torn disk is used as any
other (`Open`, `Read`, `Write`, and `Create`, `Copy` and `Remove` as long as they write nothing), and
`EntriesWhole` still holds of it; but its map may call sectors of files free, so an operation that
writes map and directory may give them to another file. The code does not claim to survive that (comment at filesys.cc:38-40), and
the model does not follow it: `Astray` turns the disk into anything (`lost`), until it is formatted. Mounting
a disk without headers is `Astray` too.

A file is a chain of headers with `NumDirect` sectors each; the free map is itself a
file with a chain. The directory takes two sectors and entry `Split` lies across the border,
as entry 6 does in the code: its in-use flag and sector in the first, its name in
the second, so that a stop can leave one without the other. `Create` with a negative
size compares it with the unsigned `MaxFileSize` and makes a file of that size.
`Open` always returns 1, also when the name is not there; `openedFile` is then NULL and
the next Read or Write uses it (`UseNull`, the machine aborts). (ksyscall.h:36-38 and the comment at
filesys.cc:274 speak of a failure being returned.) Close
deletes the file but keeps the pointer, which is not initialised before the first Open either; a
system call that uses it then is undefined behaviour (`UseClosed`: the kernel aborts or goes `Astray`). So
the machine can abort in many ways, and `AssertionsHold` is about the two that the file system
is answerable for: `Deallocate`'s assertion that what it clears was marked and `Copy`'s that the file it
created is there, on a disk no stop has torn (`machine` is `failed` then).
filehdr.h:31 and filesys.cc:35 still give 3KB as the size of the largest file; with chained headers
it is what the disk holds. There is no system
call for Remove, so a file is never removed while it is open. The data of freed
sectors becomes `Junk`: a new file reads as anything. Read, List and Print write nothing.

### Synch, SyncIO and the code

A step is what a thread does from one call of `SetLevel` or device operation that
takes time to the next; a thread can be interrupted only there (`IntOn`). `TimerInterrupt`
is the handler, which only sets a flag, together with the Yield that follows it. `P`
makes a thread sleep in the semaphore's queue; V makes the first ready, and when it
runs it tests the value again, which somebody else may have taken meanwhile. `Sleep` takes the
next ready thread; with none the machine idles until interrupts have made some ready
(`IdleReturns`).

`version` is "MP1" (display, keyboard and network; the timer always runs; PutInt of two
characters under one lock) or "MP4" (disk, display, keyboard). In MP4 `Sleep` calls
`PrepareToEnd` whenever no thread is ready, not "after all threads complete" as kernel.cc:130-133 says: timer
and keyboard are off from the first idle moment on, and a later GetChar waits for ever.
`NobodyForgotten` therefore counts a thread that waits for a key as waiting
for something that has not come.

The three output devices (`Outputs`) share one shape: acquire the lock, make the request, `P`,
release. The interrupt answers with V. The disk and the display assert that no request is
outstanding; network.cc's assertion cannot fail because its flag is never set. Losing
outgoing packets does not change the sender's state, so it is not seen here; incoming
ones come from a peer about which nothing is assumed. The console polls one character at a
time; at the end of its input, or for the byte 0xFF, which equals `EOF`, it stops
polling and still calls V.

### UserProg and the code

A page is a cell and a program has one register: what matters is whose contents a cell
and the register hold. A program is `forked`, has `begun` but not loaded, `running`, or
`exited`; it can lose the processor at any point in between (`Switch`), to any other, since which one
is `Scheduler`'s subject. `SwitchTo` saves the register of the old thread and, on the
stack of the new one, restores its register and installs its page table; a thread that
runs for the first time passes through neither, so register and table are another's until
`Load` and `Execute` have set them. `Load` compares all pages of the program with the frames
still clear inside the loop that takes them, so a program of n pages
needs 2n - 1 clear frames; otherwise the exception handler halts the machine. A file that is not there ends
the thread and one that is no executable fails an assertion (`LoadFails`). The .rdata section is read to the physical address equal to its virtual one
(addrspace.cc:168-174; the Makefile defines `RDATA`), whoever owns that frame:
`Isolated` names this as the only way into another program's memory. No address space is
ever deleted, so frames are never freed, and stack pages are zero only for that
reason. Files stay open when a program exits, and any program may close
any id.

`SC_Create` and `SC_MSG` use the virtual address of a string as a physical one (exception.cc:219
and 228), so a program that is not at frame 0 names another's bytes; the names and the contents of files are
abstracted here, so no property shows it. `SC_Write` copies from the program's own pages to
the host and changes nothing that is modelled.

## 3. Runs

| Run | Expectation | What it shows |
|---|---|---|
| `ts_queue` | pass | types, mutual exclusion, consistency of `head`, `tail` and `size`, no garbage, no lost wake-up on either side, refinement of `BoundedFIFO`, and progress for ever |
| `pipeline` | pass | lines are conserved, main's joins return only when everything is written, a consumer always serves once one exists, and the joins do return |
| `pipeline_short_input` | violation of `JoinsReturn` | with no more lines than `high_threshold` no consumer is ever started; writer and main wait for ever |
| `pipeline_removed_consumer` | violation of `RemovedConsumerStops` | a removed consumer is revived by a new object at the address of the deleted one |
| `scheduler` | pass | no thread lost, doubled or running twice; lists and levels agree; L1 is sorted up to one tick; a preemption decided in the handler is still right when it happens; aging reaches L1 |
| `scheduler_promote_abort` | violation of `NoAssertionFails` | the freed iterator leads to `Remove`'s assertion |
| `scheduler_early_halt` | violation of `HaltsWhenAllDone` | with `-ee` the machine halts before all executables have run |
| `scheduler_starvation` | violation of `NoStarvation` | a thread that never blocks keeps the processor in spite of aging |
| `filesys` | pass | the file system implements named files; sectors have one owner; the free map is right between operations; every directory entry leads to a whole file after a stop at any write; Allocate takes just what it needs or fails; no assertion of Deallocate or Copy fails on a disk that is not torn |
| `filesys_leak` | violation of `NoSectorLost` | Remove never gives back the header sectors of a chain |
| `sync_io` | pass | locks exclude; a caller leaves a device only with the answer to its own request; no assertion fails; when the machine idles nobody waits for what has come; mail in order and once; requests end if every thread makes finitely many; receivers get their mail |
| `userprog` | pass | frames have one owner and are marked; a program runs on its own table; descriptors are closed or in the table; programs do not change each other save by .rdata |

The violations are the findings of `PROJECT.json`; each quotes the comment of the
repository that the code does not live up to. Every property of a passing run has a
mutant, a plausible bug in one definition, under which TLC finds it violated.

## 4. Bounds

- `ts_queue`: two enqueuers and two dequeuers, the least for which a newcomer can
  overtake a woken thread on either side; two slots, so that the ring wraps and is
  neither always full nor always empty between calls; two items, to see their order.
- `pipeline`: with queues of one and two slots four lines make every stage block
  at times and leave some to come while consumers come and go; a worker queue of two with high threshold 1 makes the controller
  scale up, low threshold 1 makes it scale down; three consumer threads let an
  address be used again after a deletion. `MaxConsumers` bounds the threads
  ever started; the code has no such bound, and `KeepAsIs` then leaves things as
  they are. One producer: producers hold one item each and never interact.
  `pipeline_removed_consumer` needs seven lines, to have some left for a
  revived thread.
- `scheduler`: `main` at priority 0, one executable in L1 and one in L2, so that main is
  promoted through all lists and meets others there. A timer period of 2 and
  `AGING_TICK` 3 do not divide one another, so aging has remainders to carry.
  `MaxBurst` 2 and `MaxWaits` 1 give half-tick estimates, for which the
  truncation in `compareTime` matters.

- `filesys`: 13 sectors of two bytes, one data sector per header: files of three bytes have
  two headers and end in the middle of a sector. Formatting leaves five sectors: two files of one header,
  or one of two headers and a second for which Allocate fails half way; once Remove has
  leaked a sector a file of two headers takes exactly what there is. Two entries and three names: the directory fills up. The free map takes two sectors, so a stop can tear it. Names are
  symmetric (no operator orders them).
- `sync_io`: two user threads and the postal worker, the least for a thread to be overtaken
  and for a lock to have a waiter while a device is at work; one of them calls twice, so it can
  come back before the other got on. One mailbox, two mails (one in the buffer, one
  waiting), one key. `MaxCalls`, `MaxMail`, `MaxKeys` bound the run only.
- `userprog`: two programs of one page, which are symmetric, and one of two with .rdata at page
  0; of three frames: pairs fit in one order and not in the other, because `Load` wants more frames
  than it takes, and three programs never do. Two slots in the
  open file table and three descriptors make it full.

## 5. Fairness

- `TSQueue`: weak fairness of each caller's calls and steps: the operating system runs
  every thread that can run. Nothing is assumed of the mutex, which may always go to
  another thread, so only progress of the queue is claimed, not of each caller.
- `Pipeline`: weak fairness per thread; a queue operation that is not blocked
  for ever is eventually executed.
- `Scheduler`: the processor executes: interrupt handlers return, `Begin` goes on,
  ticks pass, `Idle` returns once a thread is ready. No program is
  assumed to block, finish or be woken.

- `SyncIO`: the processor executes the thread that runs, `Idle` returns once a thread is
  ready, and a disk, display or network request is answered: simulated time advances
  with every tick and while idling, and what was asked for is scheduled. Nothing is
  assumed of the timer, the keyboard or the arrival of mail. `OutputEnds` is a statement about
  threads that make finitely many calls each (`MaxCalls`). It is false of callers that never
  stop: the loop in `Semaphore::P` (synch.cc:82) lets the thread that releases a lock take it again before
  the one it woke, which then queues once more, at the end, for ever.

Deadlock is checked in the runs of `TSQueue`, `Pipeline`, `Scheduler` and `FileSys`: those models
stop only in `Exited` (the process is over, or stuck in main's deletes) and `Stopped` (the machine is off, or idles with nothing
that could wake). `sync_io` and `userprog` end when the calls are used up, or
when the machine halts, aborts or has no program left, and do not check it;
`NobodyForgotten` says in which states `SyncIO` may come to rest.

## 6. Proofs

Every safety invariant and action property of the passing runs `ts_queue`, `pipeline`,
`scheduler`, `sync_io`, `userprog` and `filesys`, and the refinements of `BoundedFIFO` and
`Mailboxes`, are theorems of their specifications for every value of the constants that
meets the named assumptions of the module. `PROJECT.json` lists them. An inductive invariant was
checked by TLC, on the run's instance, before it was proved.

`DataLemmas` holds what several of the proofs need: the least element of a set of numbers, the
element of each rank in a finite one and the least number missing from it (the kernel's searches
in bitmaps and tables), and sequences without duplicates under `Append` and `Tail`
(the kernel's queues of threads).

### TSQueueProofs

For every `buffer_size > 0` and any finite sets of callers (`QueueAssumption`; a process
has finitely many threads, and the wake-up properties count them).

`IInv` adds to the checked invariants `WaitersListed` (a thread is in `pthread_cond_wait`
exactly when it is on a waiters' list; otherwise a signal could move a thread that
holds the mutex) and `LoopExitHolds` (a caller past its `while` loop still finds room,
or an item: only the mutex's holder changes `size`, so this needs mutual exclusion,
and the stores keep `size` within bounds only because of it). The steps that leave the
ring alone are treated together (`MovesType`, `MovesLocations`, `MovesRing`); the two that do
not each have a lemma. The arithmetic around the ring is in `RingIndex`, `SuccIndex`
and `TailIsFree`: the slot that `enqueue` writes is not one of the queued ones unless
the ring is full. The refinement maps the abstract queue to
`Contents`, the slots from `head + 1` on, and shows that `EnqueueCopy` appends to it and
`DequeueCopy` takes its head, and that every other step leaves it unchanged or offers a
new argument.

`NoLostItemWakeupHolds` and `NoLostRoomWakeupHolds` rest on `IInv` and are inductive beside it:
each compares the items (slots) with the number of callers that will take one (`Taking`, `Filling`)
or are about to announce one (`Announcing`, `Freeing`), and each action adds to or takes from one of
these sets one member at most. Most actions only make the sets larger (`ItemsStillCovered`).

### PipelineProofs

For every number of lines, finite set of producers, queue sizes, thresholds and number of
consumers (`PipelineAssumption`). Two arguments, one inductive invariant:

- *Lines.* `LineConserved` counts the places of line k over six containers: unread, three
  queues, hands, file. It needs `Carrying` (a consumer holds an item exactly
  between its two queue operations) and `Counted` (what the writer has written and
  what it still expects are `Lines`, and it is done only then). Each move
  between two containers changes two of the counts, and lemmas say by how much. With
  `Counted`, all lines are in the file when the writer is done, so no line is
  anywhere else: `OutputCompleteHolds`.
- *Consumers.* `Team` says that the addresses in the controller's vector are different, that each is
  of a `Consumer` that its thread runs and that is not cancelled, and that the vector is not empty
  once there was a thread. That the controller removes only while more than one is left, and that
  `new` may give out only addresses that are not in the vector, keep it.

### SchedulerProofs

For any number of executables, any initial priorities, timer period and aging period
(`SchedulerAssumption`; `ScaleAssumption`, that 2^`MaxWaits` is a positive
number, is there because the provers know nothing of exponentiation).

A handler takes a thread off a list, changes it and inserts it elsewhere, so most of the
proof is about states in the middle. `Lists(q, R)` describes the lists against the set `R` of
threads that ought to be on them, `Kept` adds levels and order, and lemmas say what insertion,
`RemoveFront` and `Remove` do to it. `Sound` is the state between two handlers: ready threads are
listed, one runs, and a ready thread has waited for less than an aging period and a timer
period, since each timer interrupt resets those beyond it: `TypeOK`'s bound on waiting
times has no simpler reason. That `L1` stays nearly sorted under an order that is
not transitive is a lemma about one insertion: the new element is within one tick of
each element it is put before or behind. `Rest` has the iterator and `Counted`: `execRunningNum` is the number
of executables alive, so it does not fall below 0.

`PreemptionOrderHolds` needs `Decided`: once the handler has decided, the running thread has not
changed, and the first ready thread is one it may be preempted for, whatever other handlers put on the
lists: a thread is put in front of the chosen one only if it has at least a tick less to run, or a
better list.

### SyncIOProofs, SyncIOWaits

For any number of threads, calls, boxes and packets (`SynchAssumption`, `SyncIOAssumption`).
`SyncIOProofs` has the inductive invariant `Inv`. `Roles` says which labels a thread passes through;
`Exclusive` that a lock's semaphore is 0 exactly while one thread is past `Acquire`;
`Holding` that this thread is recorded as the holder; `Answering`, `Typing` and `Delivering` relate a device's request, its
pending interrupt, its "done" semaphore and the thread inside: at most one of these is
outstanding. `OneInside`, `OwnAnswer` and the assertions follow. The refinement of `Mailboxes` maps a box
to its list followed by the worker's packet and the network's buffer.

`NobodyForgotten` needs where every thread is, and has a module of its own. `Placed`: a thread that is
not finished runs, is ready, or is queued at the semaphore it waits for, in one place and once.
`Woken`: if a semaphore is up and has waiters, one of those it made ready is on its way back to
it (this is the loop in `Semaphore::P`, which makes overtaking harmless).
`Signalled`: a receiver in `Condition::Wait` is on the box's queue or its own
semaphore is up, never both. `EnoughComing`: while a receiver waits on a box, there are
as many receivers on their way as items in it. When the machine idles nothing is scheduled, so by `Placed` everybody
is queued, by `Woken` at a semaphore that is down, and then by `Exclusive`, `Answering`, `Delivering`, `Signalled` and `EnoughComing` nothing
that has come is waited for.

### UserProgProofs

For every set of programs, every size of memory and of the open file table
(`UserProgAssumption`). `TablesLoaded` (a page table is empty until `Load` and of one frame for each page
after it) and `CurrentBegun` (a thread that runs has begun) complete the checked invariants. The frames that `Load` finds are
as many as asked for, clear and different (`FramesFound`). `IsolatedHolds` then is a statement about
each action: whose cells it writes.

### FileSysProofs

All seven invariants, for every size of disk, sector, header, map and directory and every set of names
and sizes. Besides the types of the constants (`FileSysAssumption`) they need
`FormatAssumption`: the disk has room for the two system files, what formatting
asserts (filesys.cc:102-103); without it there is no file system.

`AllocateExactHolds` needs no invariant of the state: `AllocateTakes` is about any set of marked
sectors. `SectorsFound` says that k searches find k clear sectors, all different, if there are as
many; `OneMore` follows one call in the chain, which may fail, link a header and take
sectors, or take sectors only; `Reached` is what holds after k calls: failure just when
the k headers need more than there is. `FileHeader::Allocate` calls itself for the next header; the model has
the calls as a recursive function on the chunks, and `CallsDefined` and `AllocateReaches` are inductions by a
least counterexample (`LeastNat`). The arithmetic (`SizeInHeaders`) shows that rounding up to sectors
header by header is rounding up the whole size once: only the last header may be partly filled.

The other five follow from the inductive invariant `IInv`. They are not inductive
themselves: that an entry is whole after the next write depends on the writes that came before
it and on those still to come. `IInv` therefore speaks of two disks, the one there is
and `After(disk, pending)`, the one the operation will leave:

- `Good(d)`: the headers of the two system files are those of the format, the map's and the
  directory's sectors hold such parts, every root has a file (`FileHeaders`: full
  headers but the last, linked, no sector twice), files share no sector and no two
  entries lead to one file. `Agreed(d)`: the map marks all of it, and besides only headers.
- Both disks are `Good`. The later one is `Agreed`; the present one is as long as no map or directory
  sector of the operation was written (`committed`).
- `Midway(disk, pending)`: the files of *either* directory are whole on the later disk, the two
  differ in one entry, and headers still to be written go to sectors of no file. That is what makes an
  operation safe to cut: the directory may have the old or the new half of the one entry, and both lead to a file.
- `WritesApart`: no sector is written twice, headers come first, data is never mixed with anything else.
- The open file and the file Copy writes are files of both disks.

`WriteStep` is the heart of it: one `DiskWrite`, whatever operation it belongs to, keeps all that. It has a case
for each kind of sector, on one frame lemma each: data disturbs no file (`DataFrame`), nor does a header in a sector of no
file (`HeaderFrame`), and a map or directory with some sectors of either version leads
only to files of either (`MixedDisk`). For each operation that writes, another lemma says that its
writes make such a sequence on a `Good` and `Agreed` disk: `FormatReady`, `CreateReady` (from `AllocateTakes` and
`SectorsHeld`: the sectors of the new file are those the map did not mark), `RemoveReady`, `WriteReady`
(`ByteToSector` finds a data sector of the file for every offset in it, by division with
remainder). That `FetchFrom` reads back what `HeaderWrites` wrote (`FetchReads`) is an induction along the
chain. One lemma per action (`BootKeeps` .. `CopyDataKeeps`) then gives `IInvHolds`.

On a torn disk `IInv` keeps `Good` but not `Agreed`: `Open`, `Read` and `Write` do not look at the map. `UpdateIs` reduces every operation that writes to the sound case, and `AstrayKeeps` disposes of the rest.
`NoAssertionFails` follows: on a `Good` and `Agreed` disk `RemoveFile` finds its sectors marked, and the
writes of `Create` put the entry that `CopyData` looks for into the directory.

### What the proofs showed about the models

- `SyncIO`'s initial state chose what a user does by a CASE whose conditions overlapped; its value was then
  any of two. They are disjoint now.
- `Pipeline`'s `TypeOK` allowed every sequence for `removed`.
- `Scheduler`'s `ReadyListed` was stated by flattening the lists, which says nothing when a list is of the wrong type;
  it now says that the lists are sequences, where each thread is, and that it is there once. `Remove` is defined by the search of the code
  (`RemoveFirst`), not by a filter that would have removed duplicates too.
- `FileSys` took for granted that formatting finds room for its two files; the code asserts it, and
  on a disk too small for them nothing can be said. It is an assumption with a name now. The model addressed the system files' sectors
  by position in a list of sectors; it now calls `ByteToSector`, as the code does through `OpenFile`.

## 7. Only model-checked

- Liveness (`QueueProgress`, `JoinsReturn`, `AgingReachesL1`, `NoStarvation`, `OutputEnds`,
  `MailIsReceived`) needs ENABLED, which is outside the prover's reach.
- The refinement of `FlatFiles` by `FileSys` (`ImplementsFlatFiles`); see the plan.

## 8. Not modelled

- The pipeline: the transformer (stateless arithmetic), the latencies the writer prints,
  an input file with too few lines.
- The kernel: the randomised timer (`-rs`), the deletion of finished threads,
  `Condition::Broadcast` and `SynchList::Apply` (no caller outside the self tests), `-ee` in
  `SyncIO` (it is in `Scheduler`), disk seek latencies, mail headers and the
  `-n` reliability.
- MP2's address space, an earlier form of MP3's: `LoadSegments` puts the segments on
  consecutive pages whatever their virtual addresses are, its frames stay marked when it fails half
  way, its exception handler has no case for `MemoryLimitException`, and its system calls
  take physical addresses.
- The MIPS simulator: the arithmetic of an instruction set. Its loads and stores are
  `LoadWord` and `Store` of `UserProg`; that a loaded value arrives one instruction late is left out, since
  `CheckIfDue` and `RaiseException` finish a load before any other thread can run.
- The hash table and the library's self tests, the debugger, the tool chain under
  `coff2noff`, `c++example` and `usr` (headers and libraries of the cross compiler, the bulk of the
  repository's lines). The four kernels are copies of one another; a definition names
  the copy it translates, and the same code in the other three stands unnamed.

## 9. Plan

What is left to prove is the refinement of `FlatFiles`, from `IInv` of `FileSysProofs`, in this order:

1. `Overlaid(disk, pending, TRUE)` is `After(disk, pending)`, so that `files` is what the disk to come holds
   once the operation has committed, and what the present disk holds before.
2. The entries of a directory in use have different names, so `Files` has one file per entry (a further conjunct
   of the invariant: Create looks for the name first).
3. Bytes: after `DataWrites` the bytes of the file are the old ones overlaid with the buffer (`SectorAfter`,
   `ByteToSectorApart`), and those of every other file are the old ones; a new file has the bytes that were there, and
   freed sectors lose theirs.
4. Each action maps to one of `FlatFiles` or a stutter.
