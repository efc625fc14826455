------------------------------ MODULE Pipeline ------------------------------
(***************************************************************************)
(* NTHU-OS-Pthreads: a reader, producers, a changing number of consumers   *)
(* and a writer pass every line of the input through three TSQueues, a     *)
(* controller adds and removes consumers by the length of the worker       *)
(* queue, and main deletes everything when reader and writer are done.      *)
(*                                                                         *)
(* The queues are the atomic FIFOs of BoundedFIFO, which TSQueue           *)
(* implements; a queue operation is one step, enabled when it would not    *)
(* block.  Everything else interleaves.                                    *)
(***************************************************************************)
EXTENDS Integers, Sequences, FiniteSets, SequencesExt

CONSTANTS Lines,             \* expected_lines; the lines of the input are 1 .. Lines
          Producers,         \* main starts four
          ReaderQueueSize,   \* READER_QUEUE_SIZE
          WorkerQueueSize,   \* WORKER_QUEUE_SIZE
          WriterQueueSize,   \* WRITER_QUEUE_SIZE
          LowThreshold,      \* low_threshold, items
          HighThreshold,     \* high_threshold, items
          MaxConsumers,      \* bound on the consumer threads ever started
          Nothing            \* an empty hand

ASSUME PipelineAssumption ==
    /\ Lines \in Nat
    /\ {ReaderQueueSize, WorkerQueueSize, WriterQueueSize, MaxConsumers} \subseteq Nat \ {0}
    /\ {LowThreshold, HighThreshold} \subseteq Nat
    /\ LowThreshold <= HighThreshold
    /\ HighThreshold < WorkerQueueSize
    /\ IsFiniteSet(Producers)
    /\ Nothing \notin 1 .. Lines

\* An Item stands for the line it was read from.  Producer and consumer each
\* replace it by a new Item with the same key and the transformed value.
Item == 1 .. Lines

ConsumerThreads == 1 .. MaxConsumers
Objects == 1 .. MaxConsumers          \* addresses of Consumer objects

VARIABLES unread,        \* expected_lines of the reader
          input_queue, worker_queue, output_queue,
          produced,      \* produced[p]: the item producer p has dequeued, if any
          consumers,     \* the controller's vector of Consumer objects
          current_size,  \* the controller's local, -1 while it sleeps
          is_cancel,     \* is_cancel[o]: the flag at the address o
          thread,        \* thread[o]: the pthread_t t stored at the address o
          object,        \* object[c]: the Consumer that thread c was given
          cpc,           \* where consumer thread c is
          consumed,      \* consumed[c]: the item thread c has dequeued, if any
          removed,       \* removed[c]: items thread c took since its removal, -1 before
          expected,      \* expected_lines of the writer
          ofs,           \* the output file is open and has not failed
          written,       \* the output file
          wpc,           \* where the writer is
          main           \* what main waits for

queues     == <<input_queue, worker_queue, output_queue>>
controller == <<consumers, current_size, is_cancel, thread>>
workers    == <<object, cpc, consumed, removed>>
writer     == <<expected, ofs, written, wpc>>
vars == <<unread, queues, produced, controller, workers, writer, main>>

Init ==
    /\ unread = Lines
    /\ input_queue = << >> /\ worker_queue = << >> /\ output_queue = << >>
    /\ produced = [p \in Producers |-> Nothing]
    /\ consumers = << >>
    /\ current_size = -1
    /\ is_cancel = [o \in Objects |-> FALSE]
    /\ thread = [o \in Objects |-> 0]
    /\ object = [c \in ConsumerThreads |-> 0]
    /\ cpc = [c \in ConsumerThreads |-> "unborn"]
    /\ consumed = [c \in ConsumerThreads |-> Nothing]
    /\ removed = [c \in ConsumerThreads |-> -1]
    /\ expected = Lines
    /\ ofs \in BOOLEAN
    /\ written = << >>
    /\ wpc = "start"
    /\ main = "reader"

\* An enqueue on queue q of n slots goes through.
RoomOffByOne(q, n) == Len(q) <= n
Room(q, n) == Len(q) < n

---------------------------------------------------------------------------
(* Reader and producers.                                                   *)

\* One turn of Reader::process: read a line, stamp it, enqueue it.
ReaderStep ==
    /\ unread > 0
    /\ Room(input_queue, ReaderQueueSize)
    /\ input_queue' = Append(input_queue, Lines - unread + 1)
    /\ unread' = unread - 1
    /\ UNCHANGED <<worker_queue, output_queue, produced, controller, workers, writer, main>>

ProducerDequeue(p) ==
    /\ produced[p] = Nothing
    /\ input_queue # << >>
    /\ produced' = [produced EXCEPT ![p] = Head(input_queue)]
    /\ input_queue' = Tail(input_queue)
    /\ UNCHANGED <<unread, worker_queue, output_queue, controller, workers, writer, main>>

ProducerEnqueue(p) ==
    /\ produced[p] # Nothing
    /\ Room(worker_queue, WorkerQueueSize)
    /\ worker_queue' = Append(worker_queue, produced[p])
    /\ produced' = [produced EXCEPT ![p] = Nothing]
    /\ UNCHANGED <<unread, input_queue, output_queue, controller, workers, writer, main>>

---------------------------------------------------------------------------
(* Consumers.  The thread's cancellation is disabled around everything it  *)
(* does, so only its own test of is_cancel ends it.  It reads the flag in  *)
(* its Consumer object, which the controller may have deleted meanwhile:   *)
(* the freed memory keeps the flag until another Consumer is built there.  *)

\* while (!consumer->is_cancel)
ConsumerTest(c) ==
    /\ cpc[c] = "test"
    /\ cpc' = [cpc EXCEPT ![c] = IF is_cancel[object[c]] THEN "done" ELSE "dequeue"]
    /\ UNCHANGED <<unread, queues, produced, controller, object, consumed, removed, writer, main>>

ConsumerDequeue(c) ==
    /\ cpc[c] = "dequeue"
    /\ worker_queue # << >>
    /\ consumed' = [consumed EXCEPT ![c] = Head(worker_queue)]
    /\ worker_queue' = Tail(worker_queue)
    /\ removed' = [removed EXCEPT ![c] = IF @ = -1 THEN @ ELSE @ + 1]
    /\ cpc' = [cpc EXCEPT ![c] = "enqueue"]
    /\ UNCHANGED <<unread, input_queue, output_queue, produced, controller, object, writer, main>>

\* Cancellation enabled too early: a cancelled thread dies with its item.
ConsumerEnqueueCancellable(c) ==
    /\ cpc[c] = "enqueue"
    /\ Room(output_queue, WriterQueueSize)
    /\ output_queue' = IF is_cancel[object[c]] THEN output_queue
                       ELSE Append(output_queue, consumed[c])
    /\ consumed' = [consumed EXCEPT ![c] = Nothing]
    /\ cpc' = [cpc EXCEPT ![c] = "test"]
    /\ UNCHANGED <<unread, input_queue, worker_queue, produced, controller, object, removed,
                   writer, main>>

ConsumerEnqueue(c) ==
    /\ cpc[c] = "enqueue"
    /\ Room(output_queue, WriterQueueSize)
    /\ output_queue' = Append(output_queue, consumed[c])
    /\ consumed' = [consumed EXCEPT ![c] = Nothing]
    /\ cpc' = [cpc EXCEPT ![c] = "test"]
    /\ UNCHANGED <<unread, input_queue, worker_queue, produced, controller, object, removed,
                   writer, main>>

---------------------------------------------------------------------------
(* ConsumerController::process: it sleeps, reads the length of the worker  *)
(* queue, and acts on what it read.                                        *)

ControllerWake ==
    /\ current_size = -1
    /\ current_size' = Len(worker_queue)
    /\ UNCHANGED <<unread, queues, produced, consumers, is_cancel, thread, workers, writer, main>>

Unborn == {c \in ConsumerThreads : cpc[c] = "unborn"}

\* What new may return: the address of a Consumer deleted before, or the next
\* address never used (those are all alike).
Allocatable ==
    {o \in Objects \ ToSet(consumers) :
       thread[o] # 0 \/ \A u \in Objects : thread[u] = 0 => o <= u}

\* new Consumer, push_back, start.
ScaleUp ==
    /\ current_size > HighThreshold
    /\ Unborn # {}
    /\ LET c == CHOOSE c \in Unborn : \A d \in Unborn : c <= d
       IN  \E o \in Allocatable :
             /\ consumers' = Append(consumers, o)
             /\ is_cancel' = [is_cancel EXCEPT ![o] = FALSE]
             /\ thread' = [thread EXCEPT ![o] = c]
             /\ object' = [object EXCEPT ![c] = o]
             /\ cpc' = [cpc EXCEPT ![c] = "test"]
    /\ current_size' = -1
    /\ UNCHANGED <<unread, queues, produced, consumed, removed, writer, main>>

\* consumers.size() > 1
LastMayGo == consumers # << >>
OneStays  == Len(consumers) > 1

\* cancel, pop_back, delete.
ScaleDown ==
    /\ current_size \in 0 .. HighThreshold
    /\ current_size < LowThreshold
    /\ OneStays
    /\ LET o == Last(consumers)
       IN  /\ is_cancel' = [is_cancel EXCEPT ![o] = TRUE]
           /\ removed' = [removed EXCEPT ![thread[o]] = 0]
    /\ consumers' = Front(consumers)
    /\ current_size' = -1
    /\ UNCHANGED <<unread, queues, produced, thread, object, cpc, consumed, writer, main>>

\* Neither; or the bound on consumer threads is reached.
KeepAsIs ==
    /\ current_size >= 0
    /\ \/ current_size > HighThreshold /\ Unborn = {}
       \/ current_size <= HighThreshold /\ ~(current_size < LowThreshold /\ OneStays)
    /\ current_size' = -1
    /\ UNCHANGED <<unread, queues, produced, consumers, is_cancel, thread, workers, writer, main>>

Controller == ControllerWake \/ ScaleUp \/ ScaleDown \/ KeepAsIs

---------------------------------------------------------------------------
(* Writer and main.                                                        *)

\* Writer::process gives up at once when the output file could not be opened.
WriterStart ==
    /\ wpc = "start"
    /\ wpc' = IF ofs THEN "loop" ELSE "done"
    /\ UNCHANGED <<unread, queues, produced, controller, workers, expected, ofs, written, main>>

\* while (writer->expected_lines > 0)
WriterStopsShort == expected > 1
WriterGoesOn == expected > 0

\* dequeue, write, count.  The write may fail, which the code notices one item
\* later: the item that failed and the one dequeued then are gone.
WriterStep ==
    /\ wpc = "loop" /\ WriterGoesOn
    /\ output_queue # << >>
    /\ output_queue' = Tail(output_queue)
    /\ \/ /\ ofs
          /\ ofs' \in BOOLEAN
          /\ written' = IF ofs' THEN Append(written, Head(output_queue)) ELSE written
          /\ expected' = expected - 1
          /\ UNCHANGED wpc
       \/ /\ ~ofs
          /\ wpc' = "done"
          /\ UNCHANGED <<expected, ofs, written>>
    /\ UNCHANGED <<unread, input_queue, worker_queue, produced, controller, workers, main>>

\* The loop is over: print the latencies and return.
WriterEnd ==
    /\ wpc = "loop" /\ ~WriterGoesOn
    /\ wpc' = "done"
    /\ UNCHANGED <<unread, queues, produced, controller, workers, expected, ofs, written, main>>

MainJoinReader ==
    /\ main = "reader"
    /\ unread = 0
    /\ main' = "writer"
    /\ UNCHANGED <<unread, queues, produced, controller, workers, writer>>

\* The second join: main has not begun to delete, and the threads it did not
\* join still run.
MainJoinWriter ==
    /\ main = "writer"
    /\ wpc = "done"
    /\ main' = "joined"
    /\ UNCHANGED <<unread, queues, produced, controller, workers, writer>>

\* A thread that may be blocked in pthread_cond_wait, on a queue main deletes.
MayWait ==
    \/ \E p \in Producers :
         \/ produced[p] = Nothing /\ input_queue = << >>
         \/ produced[p] # Nothing /\ ~Room(worker_queue, WorkerQueueSize)
    \/ \E c \in ConsumerThreads :
         \/ cpc[c] = "dequeue" /\ worker_queue = << >>
         \/ cpc[c] = "enqueue" /\ ~Room(output_queue, WriterQueueSize)

\* main deletes threads, controller and queues and returns.  The threads it did
\* not join use what it deletes, and destroying a condition variable that has
\* waiters is undefined: the process ends, or a destructor blocks for ever.
\* What the threads do after the first delete is not modelled.
MainDelete ==
    /\ main = "joined"
    /\ main' \in {"exited"} \cup (IF MayWait THEN {"stuck"} ELSE {})
    /\ UNCHANGED <<unread, queues, produced, controller, workers, writer>>

\* The process is over, or inside a destructor that does not return.
Exited == main \in {"exited", "stuck"} /\ UNCHANGED vars

\* Both joins have returned.
Joined == main \in {"joined", "exited", "stuck"}

\* main has not begun to delete.
Live == main \in {"reader", "writer", "joined"}

Reader      == Live /\ ReaderStep
Producer(p) == Live /\ (ProducerDequeue(p) \/ ProducerEnqueue(p))
Consumer(c) == Live /\ (ConsumerTest(c) \/ ConsumerDequeue(c) \/ ConsumerEnqueue(c))
Control     == Live /\ Controller
Writer      == Live /\ (WriterStart \/ WriterStep \/ WriterEnd)
Main        == MainJoinReader \/ MainJoinWriter \/ MainDelete

Next ==
    \/ Reader
    \/ \E p \in Producers : Producer(p)
    \/ \E c \in ConsumerThreads : Consumer(c)
    \/ Control
    \/ Writer
    \/ Main
    \/ Exited

Spec == Init /\ [][Next]_vars

\* Every thread that is not blocked eventually runs.
Fairness ==
    /\ WF_vars(Reader) /\ WF_vars(Control) /\ WF_vars(Writer) /\ WF_vars(Main)
    /\ \A p \in Producers : WF_vars(Producer(p))
    /\ \A c \in ConsumerThreads : WF_vars(Consumer(c))

FairSpec == Spec /\ Fairness

---------------------------------------------------------------------------
(* What is checked.                                                        *)

\* Types of the state.
TypeOK ==
    /\ unread \in 0 .. Lines
    /\ input_queue \in Seq(Item) /\ Len(input_queue) <= ReaderQueueSize
    /\ worker_queue \in Seq(Item) /\ Len(worker_queue) <= WorkerQueueSize
    /\ output_queue \in Seq(Item) /\ Len(output_queue) <= WriterQueueSize
    /\ produced \in [Producers -> Item \cup {Nothing}]
    /\ consumers \in Seq(Objects) /\ Len(consumers) <= MaxConsumers
    /\ current_size \in -1 .. WorkerQueueSize
    /\ is_cancel \in [Objects -> BOOLEAN]
    /\ thread \in [Objects -> 0 .. MaxConsumers]
    /\ object \in [ConsumerThreads -> 0 .. MaxConsumers]
    /\ cpc \in [ConsumerThreads -> {"unborn", "test", "dequeue", "enqueue", "done"}]
    /\ consumed \in [ConsumerThreads -> Item \cup {Nothing}]
    /\ removed \in [ConsumerThreads -> Nat \cup {-1}]
    /\ expected \in 0 .. Lines
    /\ ofs \in BOOLEAN
    /\ written \in Seq(Item)
    /\ wpc \in {"start", "loop", "done"}
    /\ main \in {"reader", "writer", "joined", "exited", "stuck"}

\* The places where line k is.
Holds(q, k) == {i \in DOMAIN q : q[i] = k}
InHand(h, k) == {t \in DOMAIN h : h[t] = k}
Copies(k) ==
    (IF k > Lines - unread THEN 1 ELSE 0)
    + Cardinality(Holds(input_queue, k)) + Cardinality(Holds(worker_queue, k))
    + Cardinality(Holds(output_queue, k)) + Cardinality(Holds(written, k))
    + Cardinality(InHand(produced, k)) + Cardinality(InHand(consumed, k))

\* No line is lost or duplicated on its way from input to output, whichever
\* threads carry it and however often the controller adds, cancels and deletes
\* consumers; only a failing output file loses lines.
LineConserved == \A k \in Item : Copies(k) <= 1 /\ (ofs => Copies(k) = 1)

\* main joins the reader and the writer only.  From the second join on, before
\* and whatever the threads it did not join still do, all lines have been
\* written and none is in a queue or in the hand of such a thread: what main
\* deletes holds nothing that was still to be written.
OutputComplete ==
    Joined /\ ofs =>
      /\ unread = 0 /\ queues = << << >>, << >>, << >> >>
      /\ \A p \in Producers : produced[p] = Nothing
      /\ \A c \in ConsumerThreads : consumed[c] = Nothing
      /\ ToSet(written) = Item

\* Once the first consumer exists there is always one that the controller has
\* not cancelled and that goes on serving the worker queue.
OneConsumerServes ==
    (\E c \in ConsumerThreads : cpc[c] # "unborn") =>
      \E c \in ConsumerThreads :
        removed[c] = -1 /\ cpc[c] \in {"test", "dequeue", "enqueue"} /\ ~is_cancel[object[c]]

\* The writer finishes and both joins of main return (writer.hpp: "the writer
\* thread finished after output expected lines of item"; main.cpp: "wait for
\* writer thread to complete").  That the deletes after them return as well is
\* not claimed: see MainDelete.
JoinsReturn == <>Joined

\* A consumer the controller has scaled down finishes the item it waits for and
\* takes no other (consumer_controller.hpp: "the number of consumers scaled
\* down by 1").
RemovedConsumerStops == \A c \in ConsumerThreads : removed[c] <= 1
=============================================================================
