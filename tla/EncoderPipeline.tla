----------------------------- MODULE EncoderPipeline -----------------------------
(***************************************************************************)
(* The threads that turn the ticks of one film into its viewer artifact:   *)
(*                                                                         *)
(*   caller      encode() of lambda/h1_film/encoder/src/main.rs, through   *)
(*               the methods of IncrementalWorker (pipeline.rs)            *)
(*   encoder     the thread of IncrementalWorker, running StreamingExport  *)
(*   compressor  the thread of local_collector (artifact.rs)               *)
(*                                                                         *)
(* Frames are reused: the caller fills one per tick, sends Batch of them,  *)
(* and gets them back through the recycle channel.  Channels are FIFO and  *)
(* ticks are handed on in order, so counters stand for what is in them.    *)
(* Panics are those of a build that unwinds; a release build aborts        *)
(* (encoder/Cargo.toml:27).                                                *)
(***************************************************************************)
EXTENDS Naturals

CONSTANTS
  Batch,     \* BATCH, frames sent together
  Frames,    \* FRAMES, frames that may be allocated
  Interval,  \* KEYFRAME_INTERVAL, ticks of a chunk
  Total,     \* request.ticks, the ticks of the film
  MaxFaults  \* bound: panics and failed compressions

ASSUME EncoderAssumption ==
  /\ Batch \in Nat \ {0}
  /\ Frames \in Nat /\ Frames >= 2 * Batch
  /\ Interval \in Nat \ {0}
  /\ Total \in Nat \ {0}
  /\ MaxFaults \in Nat

VARIABLES
  caller,      \* what the caller does
  pushed,      \* ticks the caller pushed
  allocated,   \* frames allocated so far
  spares,      \* recycled frames at hand
  pending,     \* filled frames not sent yet
  queued,      \* frames in the batch channel, which holds one batch
  open,        \* the caller still has the batch sender
  returned,    \* frames in the recycle channel
  encoder,     \* what the encoder thread does
  load,        \* frames of the batch it works on
  progress,    \* ticks of that batch it has exported
  exported,    \* ticks it has exported
  chunk,       \* a chunk waits in the compressor's channel
  dispatched,  \* chunks sent to the compressor
  compressed,  \* chunks the compressor wrote
  compressor,  \* what the compressor does
  faults,      \* faults so far
  outcome      \* what the caller was told

callerVars == <<caller, pushed, allocated, spares, pending>>
encoderVars == <<encoder, load, progress, exported, dispatched>>
compressorVars == <<compressor, compressed>>
vars == <<callerVars, queued, open, returned, encoderVars, chunk, compressorVars,
          faults, outcome>>

TypeOK ==
  /\ caller \in {"acquire", "fill", "send", "last_send", "join", "collect", "drop", "end"}
  /\ pushed \in 0..Total
  /\ allocated \in 0..Frames
  /\ spares \in 0..Batch
  /\ pending \in 0..Batch
  /\ queued \in 0..Batch
  /\ open \in BOOLEAN
  /\ returned \in 0..Frames
  /\ encoder \in {"waiting", "exporting", "dispatching", "done", "failed", "panicked"}
  /\ load \in 0..Batch
  /\ progress \in 0..Batch
  /\ exported \in 0..Total
  /\ chunk \in BOOLEAN
  /\ dispatched \in 0..Total
  /\ compressed \in 0..Total
  /\ compressor \in {"waiting", "compressing", "failed"}
  /\ faults \in 0..MaxFaults
  /\ outcome \in {"none", "ok", "encoder", "panicked", "closed_early", "incomplete",
                  "compressor", "abandoned"}

Init ==
  /\ caller = "acquire"
  /\ pushed = 0
  /\ allocated = 0
  /\ spares = 0
  /\ pending = 0
  /\ queued = 0
  /\ open = TRUE
  /\ returned = 0
  /\ encoder = "waiting"
  /\ load = 0
  /\ progress = 0
  /\ exported = 0
  /\ chunk = FALSE
  /\ dispatched = 0
  /\ compressed = 0
  /\ compressor = "waiting"
  /\ faults = 0
  /\ outcome = "none"

-----------------------------------------------------------------------------
Faulty == faults < MaxFaults /\ faults' = faults + 1

EncoderEnded == encoder \in {"done", "failed", "panicked"}

\* IncrementalWorker::failure: the sender is dropped and the thread joined.
Verdict ==
  CASE encoder = "failed"   -> "encoder"
    [] encoder = "panicked" -> "panicked"
    [] OTHER                -> "closed_early"

Fail ==
  /\ EncoderEnded
  /\ caller' = "end"
  /\ open' = FALSE
  /\ outcome' = Verdict

(***************************************************************************)
(* The caller: acquire, push, flush, finish and drop.                      *)
(***************************************************************************)
AcquireSpare ==
  /\ caller = "acquire" /\ pushed < Total
  /\ spares > 0
  /\ spares' = spares - 1
  /\ caller' = "fill"
  /\ UNCHANGED <<pushed, allocated, pending, queued, open, returned, encoderVars, chunk,
                 compressorVars, faults, outcome>>

\* try_recv, or the blocking recv: a whole batch comes back.
AcquireReturned ==
  /\ caller = "acquire" /\ pushed < Total
  /\ spares = 0
  /\ returned >= Batch
  /\ returned' = returned - Batch
  /\ spares' = Batch - 1
  /\ caller' = "fill"
  /\ UNCHANGED <<pushed, allocated, pending, queued, open, encoderVars, chunk,
                 compressorVars, faults, outcome>>

AcquireNew ==
  /\ caller = "acquire" /\ pushed < Total
  /\ spares = 0 /\ returned = 0
  /\ allocated < Frames
  /\ allocated' = allocated + 1
  /\ caller' = "fill"
  /\ UNCHANGED <<pushed, spares, pending, queued, open, returned, encoderVars, chunk,
                 compressorVars, faults, outcome>>

\* The recycle channel is closed and no frame may be allocated.
AcquireFails ==
  /\ caller = "acquire" /\ pushed < Total
  /\ spares = 0 /\ returned = 0 /\ allocated = Frames
  /\ Fail
  /\ UNCHANGED <<pushed, allocated, spares, pending, queued, returned, encoderVars, chunk,
                 compressorVars, faults>>

\* push: the tick and the snapshots go into the frame, which joins the batch.
FillFrame ==
  /\ caller = "fill"
  /\ pushed' = pushed + 1
  /\ pending' = pending + 1
  /\ caller' = IF pending + 1 = Batch THEN "send" ELSE "acquire"
  /\ UNCHANGED <<allocated, spares, queued, open, returned, encoderVars, chunk,
                 compressorVars, faults, outcome>>

\* flush: the channel has room for one batch.
SendBatch ==
  /\ caller \in {"send", "last_send"}
  /\ pending > 0 => ~EncoderEnded /\ queued = 0
  /\ queued' = IF pending > 0 THEN pending ELSE queued
  /\ pending' = 0
  /\ caller' = IF caller = "send" THEN "acquire" ELSE "join"
  /\ open' = (caller = "send")
  /\ UNCHANGED <<pushed, allocated, spares, returned, encoderVars, chunk, compressorVars,
                 faults, outcome>>

\* Wrong on purpose: the thread's result is not asked for.
SendFailsUntold ==
  /\ caller \in {"send", "last_send"}
  /\ pending > 0 /\ EncoderEnded
  /\ caller' = "end"
  /\ open' = FALSE
  /\ outcome' = "closed_early"
  /\ UNCHANGED <<pushed, allocated, spares, pending, queued, returned, encoderVars, chunk,
                 compressorVars, faults>>

\* The encoder dropped its end of the batch channel.
SendFails ==
  /\ caller \in {"send", "last_send"}
  /\ pending > 0
  /\ Fail
  /\ UNCHANGED <<pushed, allocated, spares, pending, queued, returned, encoderVars, chunk,
                 compressorVars, faults>>

\* The engine's last tick was pushed: finish starts with a flush.
StartFinish ==
  /\ caller = "acquire" /\ pushed = Total
  /\ caller' = "last_send"
  /\ UNCHANGED <<pushed, allocated, spares, pending, queued, open, returned, encoderVars,
                 chunk, compressorVars, faults, outcome>>

\* encode() returns an error of its own: a malformed transport record, a tick
\* an observer refuses, or more or fewer ticks than the film has.
Abandon ==
  /\ caller = "acquire"
  /\ caller' = "drop"
  /\ open' = FALSE
  /\ UNCHANGED <<pushed, allocated, spares, pending, queued, returned, encoderVars, chunk,
                 compressorVars, faults, outcome>>

\* Drop joins the thread.
DropJoins ==
  /\ caller = "drop"
  /\ EncoderEnded
  /\ caller' = "end"
  /\ outcome' = "abandoned"
  /\ UNCHANGED <<pushed, allocated, spares, pending, queued, open, returned, encoderVars,
                 chunk, compressorVars, faults>>

\* Wrong on purpose: whatever the thread returned, the export is finished.
JoinIgnoringError ==
  /\ caller = "join"
  /\ EncoderEnded
  /\ caller' = "collect"
  /\ UNCHANGED <<pushed, allocated, spares, pending, queued, open, returned, encoderVars,
                 chunk, compressorVars, faults, outcome>>

\* finish joins the encoder and checks the tick count of its export.
JoinEncoder ==
  /\ caller = "join"
  /\ EncoderEnded
  /\ IF encoder = "done" /\ exported = Total
       THEN caller' = "collect" /\ UNCHANGED outcome
       ELSE /\ caller' = "end"
            /\ outcome' = IF encoder = "done" THEN "incomplete" ELSE Verdict
  /\ UNCHANGED <<pushed, allocated, spares, pending, queued, open, returned, encoderVars,
                 chunk, compressorVars, faults>>

\* Wrong on purpose: the compressor's results are not waited for.
CollectAtOnce ==
  /\ caller = "collect"
  /\ outcome' = "ok"
  /\ caller' = "end"
  /\ UNCHANGED <<pushed, allocated, spares, pending, queued, open, returned, encoderVars,
                 chunk, compressorVars, faults>>

\* ViewerWriter::finish_workers, and the container is written.
CollectChunks ==
  /\ caller = "collect"
  /\ \/ compressed = dispatched /\ outcome' = "ok"
     \/ compressed < dispatched /\ compressor = "failed" /\ outcome' = "compressor"
  /\ caller' = "end"
  /\ UNCHANGED <<pushed, allocated, spares, pending, queued, open, returned, encoderVars,
                 chunk, compressorVars, faults>>

(***************************************************************************)
(* The encoder.                                                            *)
(***************************************************************************)
ReceiveBatch ==
  /\ encoder = "waiting"
  /\ queued > 0
  /\ load' = queued
  /\ progress' = 0
  /\ queued' = 0
  /\ encoder' = "exporting"
  /\ UNCHANGED <<callerVars, open, returned, exported, dispatched, chunk, compressorVars,
                 faults, outcome>>

EndsChunk(tick) == tick % Interval = 0 \/ tick = Total

\* push_projected_with_poses, up to the chunk it may complete.
ExportTick ==
  /\ encoder = "exporting"
  /\ progress < load
  /\ progress' = progress + 1
  /\ exported' = exported + 1
  /\ encoder' = IF EndsChunk(exported + 1) THEN "dispatching" ELSE encoder
  /\ UNCHANGED <<callerVars, queued, open, returned, load, dispatched, chunk, compressorVars,
                 faults, outcome>>

\* The export refuses a tick, or the chunk it completes exceeds a limit.
RejectTick ==
  /\ \/ encoder = "exporting" /\ progress < load
     \/ encoder = "dispatching"
  /\ encoder' = "failed"
  /\ UNCHANGED <<callerVars, queued, open, returned, load, progress, exported, dispatched,
                 chunk, compressorVars, faults, outcome>>

\* The channel of the compressor holds one chunk.
DispatchChunk ==
  /\ encoder = "dispatching"
  /\ compressor # "failed"
  /\ ~chunk
  /\ chunk' = TRUE
  /\ dispatched' = dispatched + 1
  /\ encoder' = "exporting"
  /\ UNCHANGED <<callerVars, queued, open, returned, load, progress, exported,
                 compressorVars, faults, outcome>>

\* The send fails, or collect_ready_results finds the compressor's error.
DispatchFails ==
  /\ encoder = "dispatching"
  /\ compressor = "failed"
  /\ encoder' = "failed"
  /\ UNCHANGED <<callerVars, queued, open, returned, load, progress, exported, dispatched,
                 chunk, compressorVars, faults, outcome>>

\* Wrong on purpose: the frames of a batch are dropped.
DropBatch ==
  /\ encoder = "exporting"
  /\ progress = load
  /\ load' = 0
  /\ progress' = 0
  /\ encoder' = "waiting"
  /\ UNCHANGED <<callerVars, queued, open, returned, exported, dispatched, chunk,
                 compressorVars, faults, outcome>>

\* The receiver outlives the thread, so the recycle channel takes it.
RecycleBatch ==
  /\ encoder = "exporting"
  /\ progress = load
  /\ returned' = returned + load
  /\ load' = 0
  /\ progress' = 0
  /\ encoder' = "waiting"
  /\ UNCHANGED <<callerVars, queued, open, exported, dispatched, chunk, compressorVars,
                 faults, outcome>>

EncoderEnd ==
  /\ encoder = "waiting"
  /\ queued = 0 /\ ~open
  /\ encoder' = "done"
  /\ UNCHANGED <<callerVars, queued, open, returned, load, progress, exported, dispatched,
                 chunk, compressorVars, faults, outcome>>

EncoderPanic ==
  /\ encoder = "exporting"
  /\ Faulty
  /\ encoder' = "panicked"
  /\ UNCHANGED <<callerVars, queued, open, returned, load, progress, exported, dispatched,
                 chunk, compressorVars, outcome>>

(***************************************************************************)
(* The compressor.                                                         *)
(***************************************************************************)
ReceiveChunk ==
  /\ compressor = "waiting"
  /\ chunk
  /\ chunk' = FALSE
  /\ compressor' = "compressing"
  /\ UNCHANGED <<callerVars, queued, open, returned, encoderVars, compressed, faults, outcome>>

CompressChunk ==
  /\ compressor = "compressing"
  /\ compressed' = compressed + 1
  /\ compressor' = "waiting"
  /\ UNCHANGED <<callerVars, queued, open, returned, encoderVars, chunk, faults, outcome>>

\* An error, which is sent as the last result, or a panic; the first error may
\* come from creating the compressor.
CompressFails ==
  /\ compressor # "failed"
  /\ Faulty
  /\ compressor' = "failed"
  /\ UNCHANGED <<callerVars, queued, open, returned, encoderVars, chunk, compressed, outcome>>

Caller ==
  \/ AcquireSpare \/ AcquireReturned \/ AcquireNew \/ AcquireFails
  \/ FillFrame \/ SendBatch \/ SendFails
  \/ StartFinish \/ JoinEncoder \/ CollectChunks \/ DropJoins
Encoder ==
  ReceiveBatch \/ ExportTick \/ DispatchChunk \/ DispatchFails \/ RecycleBatch \/ EncoderEnd
Compressor == ReceiveChunk \/ CompressChunk

Next ==
  \/ Caller \/ Abandon
  \/ Encoder \/ RejectTick \/ EncoderPanic
  \/ Compressor \/ CompressFails

Spec == Init /\ [][Next]_vars

\* The operating system runs every thread that can go on.
FairSpec == Spec /\ WF_vars(Caller) /\ WF_vars(Encoder) /\ WF_vars(Compressor)

-----------------------------------------------------------------------------
(***************************************************************************)
(* Properties.                                                             *)
(***************************************************************************)
\* The caller waits for a recycled frame only while the encoder has a batch
\* to recycle, or has ended: the two never wait for each other.
NoMutualWait ==
  caller = "acquire" /\ pushed < Total /\ spares = 0 /\ returned < Batch /\ allocated = Frames
    => queued > 0 \/ load > 0 \/ EncoderEnded

\* When the encoder failed, the caller learns the encoder's own error: it is
\* never told that the pipeline "closed early".
EncoderErrorTold ==
  outcome \notin {"none", "abandoned"} =>
    /\ encoder = "failed" <=> outcome = "encoder"
    /\ outcome # "closed_early"

\* The artifact is finished only with every tick exported, and every chunk
\* compressed and verified.
OkMeansCompressed ==
  outcome = "ok" => exported = Total /\ compressed = dispatched /\ ~chunk

\* The three threads never wait for each other in a circle.
Termination == <>(outcome # "none")

\* The pipeline keeps the promise of an ordered stream.
Stream == INSTANCE OrderedStream WITH
  offered <- pushed, delivered <- exported,
  outcome <- CASE outcome = "none" -> "open" [] outcome = "ok" -> "ok" [] OTHER -> "error"

StreamSpec == Stream!Spec

=============================================================================
