-------------------------------- MODULE TickParse --------------------------------
(***************************************************************************)
(* The threads of lambda/replay_parser/native/src/main.rs that read the    *)
(* ticks of one replay when REPLAY_SOURCE_WORKERS is above one:            *)
(*                                                                         *)
(*   framer   TicksVisitor::visit_seq cuts the JSON array into raw ticks   *)
(*   workers  tick_worker parses and projects one raw tick at a time       *)
(*   reducer  reduce_tick_results puts the parsed ticks in source order    *)
(*   ingest   ViewerIngestWorker adds projected ticks to the viewer        *)
(*                                                                         *)
(* Ticks are numbered from 1.  The task channel is FIFO and filled in      *)
(* order, so two counters stand for it; the results of racing workers may  *)
(* arrive in any order, so a set stands for their channel.  A panic ends   *)
(* the process in a release build (panic = "abort", Cargo.toml:20), which  *)
(* is the case of no panics; in other builds it ends its thread.           *)
(***************************************************************************)
EXTENDS Naturals, FiniteSets

CONSTANTS
  Workers,         \* the source workers
  Window,          \* SOURCE_WORK_WINDOW_MULTIPLIER
  Total,           \* ticks in the source
  Replays,         \* the replays: which ticks the parser, or the viewer, rejects
  Viewer,          \* a viewer artifact is produced too
  IngestCapacity,  \* VIEWER_INGEST_QUEUE_TICKS
  MaxPanics        \* bound: threads that panic in a behaviour

Ticks == 1..Total

ASSUME TickAssumption ==
  /\ IsFiniteSet(Workers) /\ Workers # {}
  /\ Window \in Nat \ {0}
  /\ Total \in Nat
  /\ Replays \subseteq [bad : SUBSET Ticks, viewerBad : SUBSET Ticks]
  /\ Viewer \in BOOLEAN
  /\ IngestCapacity \in Nat \ {0}
  /\ MaxPanics \in Nat

VARIABLES
  replay,      \* the replay that is read
  framer,      \* the framing loop goes on, or has broken
  broke,       \* why it broke early
  submitted,   \* ticks sent into the task channel
  taken,       \* ticks the workers received from it
  worker,      \* what each worker does
  hand,        \* the tick each worker holds
  results,     \* ticks in the result channel
  reducer,     \* what the reducer does
  pending,     \* ticks that wait for an earlier one
  next,        \* next_index, the tick the reducer waits for
  error,       \* first_error of the reducer
  ingest,      \* what the ingest thread does
  dispatched,  \* ticks sent to it
  ingested,    \* ticks the viewer has added
  panics,      \* panics so far
  outcome      \* what visit_seq returned

framerVars == <<framer, broke, submitted>>
workerVars == <<taken, worker, hand>>
reducerVars == <<reducer, pending, next, error, dispatched>>
ingestVars == <<ingest, ingested>>
vars == <<framerVars, workerVars, results, reducerVars, ingestVars, panics, outcome,
          replay>>

TypeOK ==
  /\ replay \in Replays
  /\ framer \in {"framing", "closed"}
  /\ broke \in {"none", "source", "pipeline"}
  /\ submitted \in 0..Total
  /\ taken \in 0..Total
  /\ worker \in [Workers -> {"waiting", "working", "exited", "panicked"}]
  /\ hand \in [Workers -> 0..Total]
  /\ results \in SUBSET Ticks
  /\ reducer \in {"receiving", "finishing", "done", "panicked"}
  /\ pending \in SUBSET Ticks
  /\ next \in 1..(Total + 1)
  /\ error \in {"none", "tick", "gap", "ingest"}
  /\ ingest \in {"running", "failed", "stopped", "panicked"}
  /\ dispatched \in 0..Total
  /\ ingested \in 0..Total
  /\ panics \in 0..MaxPanics
  /\ outcome \in {"none", "ok", "panic", "reduction", "worker", "incomplete",
                  "pipeline", "source"}

Init ==
  /\ replay \in Replays
  /\ framer = "framing"
  /\ broke = "none"
  /\ submitted = 0
  /\ taken = 0
  /\ worker = [w \in Workers |-> "waiting"]
  /\ hand = [w \in Workers |-> 0]
  /\ results = {}
  /\ reducer = "receiving"
  /\ pending = {}
  /\ next = 1
  /\ error = "none"
  /\ ingest = IF Viewer THEN "running" ELSE "stopped"
  /\ dispatched = 0
  /\ ingested = 0
  /\ panics = 0
  /\ outcome = "none"

-----------------------------------------------------------------------------
QueueCapacity == Cardinality(Workers) * Window

Ended(w) == worker[w] \in {"exited", "panicked"}

\* Every clone of the channel ends the workers hold is dropped.
AllEnded == \A w \in Workers : Ended(w)

Ready == error = "none" /\ next \in pending

Panic == panics < MaxPanics /\ panics' = panics + 1

(***************************************************************************)
(* The framer.                                                             *)
(***************************************************************************)
FrameTick ==
  /\ framer = "framing"
  /\ submitted < Total
  /\ ~AllEnded
  /\ submitted - taken < QueueCapacity
  /\ submitted' = submitted + 1
  /\ UNCHANGED <<framer, broke, workerVars, results, reducerVars, ingestVars, panics, outcome>>

\* TickWorkerPool::send fails: no worker holds the task receiver any more.
FrameRefused ==
  /\ framer = "framing"
  /\ submitted < Total
  /\ AllEnded
  /\ framer' = "closed"
  /\ broke' = "pipeline"
  /\ UNCHANGED <<submitted, workerVars, results, reducerVars, ingestVars, panics, outcome>>

\* The source is malformed here: next_element returns an error.
SourceError ==
  /\ framer = "framing"
  /\ framer' = "closed"
  /\ broke' = "source"
  /\ UNCHANGED <<submitted, workerVars, results, reducerVars, ingestVars, panics, outcome>>

\* Wrong on purpose: the task channel is still open when the pool is joined.
EndWithoutClosing ==
  /\ framer = "framing"
  /\ submitted = Total
  /\ UNCHANGED vars

\* The array ends; pool.close() drops the task sender.
EndOfSource ==
  /\ framer = "framing"
  /\ submitted = Total
  /\ framer' = "closed"
  /\ UNCHANGED <<broke, submitted, workerVars, results, reducerVars, ingestVars, panics, outcome>>

(***************************************************************************)
(* The source workers.                                                     *)
(***************************************************************************)
\* The receiver is behind a mutex: a tick has one taker, and the next one.
Take(w) ==
  /\ worker[w] = "waiting"
  /\ taken < submitted
  /\ taken' = taken + 1
  /\ hand' = [hand EXCEPT ![w] = taken + 1]
  /\ worker' = [worker EXCEPT ![w] = "working"]
  /\ UNCHANGED <<framerVars, results, reducerVars, ingestVars, panics, outcome>>

SendResult(w) ==
  /\ worker[w] = "working"
  /\ reducer # "panicked"
  /\ Cardinality(results) < QueueCapacity
  /\ results' = results \cup {hand[w]}
  /\ hand' = [hand EXCEPT ![w] = 0]
  /\ worker' = [worker EXCEPT ![w] = "waiting"]
  /\ UNCHANGED <<framerVars, taken, reducerVars, ingestVars, panics, outcome>>

\* The task channel is closed and drained, or the result channel is closed.
WorkerExit(w) ==
  /\ \/ worker[w] = "waiting" /\ framer = "closed" /\ taken = submitted
     \/ worker[w] = "working" /\ reducer = "panicked"
  /\ worker' = [worker EXCEPT ![w] = "exited"]
  /\ UNCHANGED <<framerVars, taken, hand, results, reducerVars, ingestVars, panics, outcome>>

\* process_tick_task panics outside the lock: its tick is lost.
WorkerPanic(w) ==
  /\ worker[w] = "working"
  /\ Panic
  /\ worker' = [worker EXCEPT ![w] = "panicked"]
  /\ UNCHANGED <<framerVars, taken, hand, results, reducerVars, ingestVars, outcome>>

(***************************************************************************)
(* The reducer.                                                            *)
(***************************************************************************)
\* Wrong on purpose: an error counts from the moment it arrives.
ReceiveFailingFast ==
  /\ reducer = "receiving"
  /\ ~Ready
  /\ \E i \in results :
       /\ results' = results \ {i}
       /\ pending' = IF error = "none" /\ i \notin replay.bad THEN pending \cup {i} ELSE {}
       /\ error' = IF error = "none" /\ i \in replay.bad THEN "tick" ELSE error
  /\ UNCHANGED <<framerVars, workerVars, reducer, next, dispatched, ingestVars, panics, outcome>>

\* After the first error the channel is still drained.
ReceiveResult ==
  /\ reducer = "receiving"
  /\ ~Ready
  /\ \E i \in results :
       /\ results' = results \ {i}
       /\ pending' = IF error = "none" THEN pending \cup {i} ELSE pending
  /\ UNCHANGED <<framerVars, workerVars, reducer, next, error, dispatched, ingestVars,
                 panics, outcome>>

ReduceError(kind) ==
  /\ error' = kind
  /\ pending' = {}
  /\ UNCHANGED <<framerVars, workerVars, results, reducer, next, dispatched, ingestVars,
                 panics, outcome>>

AbsorbBad ==
  /\ reducer = "receiving"
  /\ Ready
  /\ next \in replay.bad
  /\ ReduceError("tick")

\* ViewerIngestWorker::send fails, or collect_ready saw the thread's error.
AbsorbRefused ==
  /\ reducer = "receiving"
  /\ Ready
  /\ next \notin replay.bad
  /\ ingest \in {"failed", "panicked"}
  /\ ReduceError("ingest")

\* Blocked while the ingest channel is full: the thread holds one tick more.
AbsorbTick ==
  /\ reducer = "receiving"
  /\ Ready
  /\ next \notin replay.bad
  /\ Viewer => ingest = "running" /\ dispatched - ingested <= IngestCapacity
  /\ dispatched' = IF Viewer THEN dispatched + 1 ELSE dispatched
  /\ pending' = pending \ {next}
  /\ next' = next + 1
  /\ UNCHANGED <<framerVars, workerVars, results, reducer, error, ingestVars, panics, outcome>>

\* Wrong on purpose: the ingest thread is not waited for.
CloseResultsDetaching ==
  /\ reducer = "receiving"
  /\ ~Ready
  /\ AllEnded
  /\ results = {}
  /\ error' = IF error = "none" /\ pending # {} THEN "gap" ELSE error
  /\ reducer' = "done"
  /\ UNCHANGED <<framerVars, workerVars, results, pending, next, dispatched, ingestVars,
                 panics, outcome>>

\* Every worker dropped its result sender.
CloseResults ==
  /\ reducer = "receiving"
  /\ ~Ready
  /\ AllEnded
  /\ results = {}
  /\ error' = IF error = "none" /\ pending # {} THEN "gap" ELSE error
  /\ reducer' = "finishing"
  /\ UNCHANGED <<framerVars, workerVars, results, pending, next, dispatched, ingestVars,
                 panics, outcome>>

\* ViewerIngestWorker::finish, or its Drop after an error: both join it.
FinishIngest ==
  /\ reducer = "finishing"
  /\ ingest # "running"
  /\ error' = IF error = "none" /\ ingest # "stopped" THEN "ingest" ELSE error
  /\ reducer' = "done"
  /\ UNCHANGED <<framerVars, workerVars, results, pending, next, dispatched, ingestVars,
                 panics, outcome>>

ReducerPanic ==
  /\ reducer = "receiving"
  /\ Panic
  /\ reducer' = "panicked"
  /\ results' = {}
  /\ UNCHANGED <<framerVars, workerVars, pending, next, error, dispatched, ingestVars, outcome>>

(***************************************************************************)
(* The ingest thread.                                                      *)
(***************************************************************************)
IngestTick ==
  /\ ingest = "running"
  /\ ingested < dispatched
  /\ IF ingested + 1 \in replay.viewerBad
       THEN ingest' = "failed" /\ UNCHANGED ingested
       ELSE ingested' = ingested + 1 /\ UNCHANGED ingest
  /\ UNCHANGED <<framerVars, workerVars, results, reducerVars, panics, outcome>>

IngestPanic ==
  /\ ingest = "running"
  /\ ingested < dispatched
  /\ Panic
  /\ ingest' = "panicked"
  /\ UNCHANGED <<framerVars, workerVars, results, reducerVars, ingested, outcome>>

\* The reducer dropped the ingest sender.
IngestStop ==
  /\ ingest = "running"
  /\ ingested = dispatched
  /\ reducer \in {"finishing", "panicked"}
  /\ ingest' = "stopped"
  /\ UNCHANGED <<framerVars, workerVars, results, reducerVars, ingested, panics, outcome>>

(***************************************************************************)
(* The end of visit_seq.                                                   *)
(***************************************************************************)
SomePanicked == \E w \in Workers : worker[w] = "panicked"

\* pool.join stops at the first panicked handle and leaves the others alone.
Joined ==
  /\ framer = "closed"
  /\ AllEnded \/ SomePanicked
  /\ reducer \in {"done", "panicked"}

\* Wrong on purpose: the ticks of the reduction are not counted.
ReturnUncounted ==
  /\ outcome = "none"
  /\ Joined
  /\ outcome' = IF reducer = "panicked" THEN "panic"
                ELSE IF error # "none" THEN "reduction" ELSE "ok"
  /\ UNCHANGED <<framerVars, workerVars, results, reducerVars, ingestVars, panics>>

Return ==
  /\ outcome = "none"
  /\ Joined
  /\ outcome' = IF reducer = "panicked"      THEN "panic"
                ELSE IF error # "none"       THEN "reduction"
                ELSE IF SomePanicked         THEN "worker"
                ELSE IF next - 1 # submitted THEN "incomplete"
                ELSE IF broke # "none"       THEN broke
                ELSE "ok"
  /\ UNCHANGED <<framerVars, workerVars, results, reducerVars, ingestVars, panics>>

Framer == FrameTick \/ FrameRefused \/ EndOfSource \/ Return
Worker(w) == Take(w) \/ SendResult(w) \/ WorkerExit(w)
Reducer == ReceiveResult \/ AbsorbBad \/ AbsorbRefused \/ AbsorbTick \/ CloseResults
             \/ FinishIngest
Ingest == IngestTick \/ IngestStop

Step ==
  \/ Framer \/ SourceError
  \/ \E w \in Workers : Worker(w) \/ WorkerPanic(w)
  \/ Reducer \/ ReducerPanic
  \/ Ingest \/ IngestPanic

Next == Step /\ UNCHANGED replay

Spec == Init /\ [][Next]_vars

\* The operating system runs every thread that can go on.
FairSpec ==
  /\ Spec
  /\ WF_vars(Framer /\ UNCHANGED replay)
  /\ WF_vars(Reducer /\ UNCHANGED replay)
  /\ WF_vars(Ingest /\ UNCHANGED replay)
  /\ \A w \in Workers : WF_vars(Worker(w) /\ UNCHANGED replay)

-----------------------------------------------------------------------------
(***************************************************************************)
(* Properties.                                                             *)
(***************************************************************************)
\* visit_seq succeeds only if every tick of the source was absorbed, and the
\* viewer added every one of them.
OkMeansComplete ==
  outcome = "ok" =>
    /\ next - 1 = Total
    /\ replay.bad = {}
    /\ Viewer => ingested = Total /\ replay.viewerBad = {}

\* The rejected tick that is reported is the first one of the source, in
\* whatever order the workers came to it.
EarliestErrorReported ==
  error = "tick" => next \in replay.bad /\ \A i \in replay.bad : next <= i

\* The threads never wait for each other in a circle: visit_seq returns.
Termination == <>(outcome # "none")

\* The stage keeps the promise of an ordered stream.
Stream == INSTANCE OrderedStream WITH
  offered <- submitted, delivered <- next - 1,
  outcome <- CASE outcome = "none" -> "open" [] outcome = "ok" -> "ok" [] OTHER -> "error"

StreamSpec == Stream!Spec

=============================================================================
