# A verification project for halospawns-infra

This directory holds TLA+ models of the programs of this repository, the TLC
configurations that check them on small instances, and theorems about them whose
proofs TLAPS checks for every value of their constants. It is read beside the
source: every definition of a model names the lines it models (`PROJECT.json`,
`map`), every property names the code behaviour it is about, and every property
has a mutant, a plausible bug in the modelled code that makes TLC report the
property violated.

## 1. The system

The repository deploys the back end of a replay site for Halo. Its programs:

| Part | Where | State it keeps | Operations |
|---|---|---|---|
| Replay parser, upload path | `lambda/replay_parser/handler.py` | objects in the replay bucket (upload, canonical source, viewer and spatial artifacts, completion manifest, quarantine), rows of the application API | one SQS message per upload: look up manifest, status, download and check, parse, write artifacts, persist manifest, call back, clean up; or report and quarantine |
| Replay parser, reprocess jobs | same file | the same objects under the attempt's generation token | `full_reparse`, `viewer_rebuild` |
| Replay extractor | `lambda/replay_parser/native/src` (`main.rs`, `viewer.rs`) | four kinds of threads, bounded channels, a reorder buffer | stream the ticks of a JSON replay, parse in parallel, reduce in order, feed the viewer |
| Viewer artifact writer | `native/src/viewer.rs`, `handler.py` | pending ticks, chunk workers with two channels, a parts directory, the container | project each tick, encode and check chunks, describe the parts, finalise the container |
| Viewer delta container | `lambda/replay_parser/viewer_delta.py` | none | encode, decode, assemble |
| Film worker | `lambda/h1_film/cloud.py`, `worker.py` | source film (versioned), viewer, diagnostics and spatial artifacts, manifest, API rows | inspect, prepare, convert under a deadline, persist, call back; or report |
| Film encoder | `lambda/h1_film/encoder/src` | three threads, recycled frames, bounded channels; the tick read last, records of objects and spawns shared between threads, two pools, projection caches, the chunks of two recordings | read a tick over an old one, push ticks in batches, project and export chunks, sample at 30 Hz, compress and verify, assemble |
| Pose codec | `lambda/h1_film/pose_codec` | none | quantise, pack, unpack |
| Film simulation | `lambda/h1_film/runtime`, `engines` | the engine | step and record a film |
| Heatmap rollup worker | `lambda/heatmap_rollup_worker/handler.py`, `region_stats.py` | two artifacts per scope and generation, their tags; API: claims, revision, active generation | claim, list inputs, accumulate, write, activate, discard, tag |
| App API code updater | `lambda/app_api_code_updater/handler.py` | Lambda: LATEST, versions, the `live` alias, their revision ids | release an artifact, promote a configuration |
| Infrastructure | `components/`, `modules/`, `stacks/`, `scripts/` | Terraform state | declarative |

The application API itself is deployed from another repository; only its callers
are here.

**How they interact.** S3 notifications and API jobs reach the workers through
SQS queues that deliver at least once and dead-letter a message after a number
of receives (4 in `stacks/`). The workers share only S3 objects and the API, and
make repeated deliveries harmless with immutable puts (`IfNoneMatch`), a
completion manifest written before the callback, and content-addressed keys.
Inside one invocation, the extractor and the encoder are pipelines of threads
that share bounded channels. Terraform, S3 release events and an operator all
move the alias of the API's Lambda function, and the updater serializes them
with revision ids.

**What is hard.** Duplicate deliveries that run at once; a crash, a timeout or a
lost reply between any two calls; artifacts and manifests written in separate
puts; tags and deletes that arrive late; results of racing threads that must be
put back in order; errors that must travel back against a bounded channel
without leaving a thread blocked; ticks that are read over the allocations of
older ticks while another thread still encodes these; several programs that must
all compute one projection and one encoding; a codec whose writer and reader
keep their own histories; checks of an alias or a revision that are stale when
acted on. `PROJECT.json`, `hazards`, lists each at its line with the properties
that would catch it, or why none does yet.

**What makes each part correct.**

- *Upload path, reprocess jobs, film worker*: one completion per generation,
  delivered as often as needed but always the same one; never named before
  everything it names exists; the upload never deleted before its completion or
  a copy exists; every message ends acknowledged for a reason or dead-lettered.
- *Extractor, encoder*: ticks are delivered once and in source order; success
  only with all of them; the first error is the one reported; every thread ends
  whatever fails.
- *Viewer writer*: its projectors agree; every replay the contract allows gets
  an artifact; reading the artifact gives every projected tick back, in order.
- *Film export*: a tick waiting for the worker is never written over; all that
  is kept from tick to tick changes how a chunk is made and never what it holds;
  reading a recording gives its ticks and poses back, poses within the bound.
- *Rollup worker*: the objects of the active generation stay what the API
  recorded; generations are immutable; what an interrupted worker left is
  adopted; the newest revision is finally built.
- *Code updater*: whoever was overtaken does not move the alias; a configuration
  promotion does not change code; no package goes live with a configuration it
  does not support.

## 2. The modules

Three levels: the abstract specifications of what a component, or a kind of
component, promises, one module per component, and for each an `MC…` module with
its TLC instances and, where there are theorems, a `…Proofs` module. The codecs
are operators in modules that the viewer artifact and the film export build on.

```
CompletionRegister   <== ReplayIntake   (MCReplayIntake,   ReplayIntakeProofs)
                     <== ReprocessJob   (MCReprocessJob,   ReprocessJobProofs)
                     <== FilmWorker     (MCFilmWorker,     FilmWorkerProofs)
OrderedStream        <== TickParse      (MCTickParse,      TickParseProofs)
                     <== EncoderPipeline(MCEncoderPipeline, FilmEncoderProofs)
                         RollupWorker   (MCRollupWorker,   RollupWorkerProofs)
                         CodeUpdater    (MCCodeUpdater,    CodeUpdaterProofs)
RecordHeap           <== FilmExport     (below,            FilmEncoderProofs)

                         ViewerWriter                      (ViewerWriterProofs)
ViewerDelta <- ViewerProjection <- ViewerArtifact (with ViewerWriter; MCViewerWriter)
                                <- PoseCodec <- FilmTransport
                                     <- FilmDelta <- FilmExport      (MCFilmExport)
```

`<==` is a refinement: the component declares `INSTANCE … WITH` the mapping, the
abstract `Spec` is a PROPERTY of a run, and a theorem where one is listed. `<-`
is EXTENDS: to the left what the code calls, to the right its caller.

### CompletionRegister
One generation: `chosen` completion, `delivered` ones, whether the raw object is
`held` and a copy `kept`. Only the chosen completion is delivered, the choice is
final, and the raw object is released only after a delivery or a copy.

### ReplayIntake
`_process_replay_object` and the helpers that write or call. Variables: where
each message's invocation is (`pc`), its receive count, the build of its
attempt, the manifest it holds; the bucket (`source`, `quarantined`,
`canonical`, `viewer`, `spatial`, `manifest`); the API (`posted`, `told`,
`rejected`). One action per call that can be interrupted. `Fault` is the crash,
timeout or failed call at any point, after which the message is visible again. A
*build* stands for what parsing produced (native extractor or the Python
fallback, possibly of two releases), so two attempts may disagree even about
whether the replay is valid. Payloads carry timing and memory measurements in
the code, so no two attempts build equal ones: this is what makes the manifest
race matter. Mapping to the register: manifest, posted, source, quarantined. The
upload's id is read from the key and, after the download, from the object's
metadata (`handler.py:471`); whoever signs the upload sets both, outside this
repository, and the model takes them to agree. `_write_spatial_artifact` has a
return without a put for a replay without spatial facts (`handler.py:2832`):
every `ParsedReplay` of this path is built with them (`handler.py:1613-1666`),
so the model always writes.

### ReprocessJob
`_process_reprocess_job` for one attempt of one job, and the contract check of
`_iter_replay_work_items` before it. The same shape as `ReplayIntake`, and a
different program: nothing is announced and nothing deleted, a final error is
only reported. `job.wants` is what the job asks for: the facts, the viewer,
both, or a contract this release does not know; `job.sound` is whether its
source exists and agrees with the job's hashes. Only a job with a viewer is
`Generational`, with a manifest; facts alone are posted as each attempt built
them, so the register sees none of their deliveries. A contract failure without
a usable attempt id, which can only be retried, is left out.

### FilmWorker
`worker.handler` and `cloud.execute` for one generation of one film, in the
three modes. `job.quality` says where the film fails, if it does: it is damaged
in the bucket, unreadable to the inspection, not reproduced by the simulation,
refused when its native analytics are validated after the spatial put; or a
reader of its products raises a ValueError, which is no `FilmError` and retries.
`RunOutOfTime` is the 15-second inspection bound or the conversion deadline.
Each other `FilmError` is a choice of the action that meets it, since two
attempts may run different releases or hold different versions of the object:
`validate_job` (`Start`, `Prepare`), the comparison with the pins
(`ComparePins`), the validation of a persisted manifest (`LookUpCompletion`,
`RereadWinner`). `reason` and `told` keep who found against the generation: the
worker about the film, the release about the job or manifest, or the API.

The answers to the two calls are actions of their own. The API accepts, or
answers with one of `FAILURES` (`AnswerFailure`), which is reported even of a
completion that is persisted; or `identity_conflict` (`AnswerConflict`,
`conflicts`) or `stale_attempt` (`AnswerStale`, once it superseded the
generation, `fenced`), after which `report_failure` returns without a report and
the message is acknowledged. Any other error retries (`Fault`), and so does
every error in answer to the report itself. A reply of success is taken to be a
JSON object within the 8 MB `api` reads.

### OrderedStream
Ticks `offered` and `delivered`, and an `outcome`: delivery in order, success
only with all of them.

### TickParse
The threads of `native/src/main.rs`. The task channel is FIFO and filled in
order, so two counters (`submitted`, `taken`) stand for it; results come from
racing workers, so a set stands for their channel. The reducer's reorder buffer
is `pending`, its expected index `next`. Any worker, the reducer and the ingest
thread may panic; the source may break at any tick. The release build of the
extractor is compiled with `panic = "abort"`, so there it is the run without
panics; a debug or test build unwinds, and the model shows both.

### EncoderPipeline
`IncrementalWorker` (`pipeline.rs`), `StreamingExport` and `local_collector`
(`artifact.rs`) and the loop of `encode` (`main.rs`). Frames are counted where
they are: spare, in the caller's hand, pending, queued, in the encoder,
returned. Ticks are counted the same way; a chunk ends every `Interval` ticks.
What a tick is encoded to is accepted or rejected here, and FilmExport's
subject. Its panics, too, are those of a build that unwinds.

### RollupWorker
`_process_scope` for one scope with both artifacts. Each worker's `pc` is a step
and the artifact it is at; `stored` and `tag` are the bucket per kind and
generation. An object's contents are the inputs' revision, and for the region
document also its `generated_at`. The API is the weakest that fits the answers
the worker distinguishes: it hands the same claim to every worker that asks.

### CodeUpdater
Both flows of `handler.py` step by step, the Lambda service with its revision
ids (external), Terraform's apply, and an operator who rolls back. An invocation
during which somebody else moved the alias is recorded in `overtaken`, which no
action reads: it is there for the properties. `Supported` is what
`_assert_asset_package_support` accepts: an updater without
`EXPECTED_CONFIGURATION_HASH` skips that check (`handler.py:72`), which is the
instance where `Supported` has every pair, and the theorems hold for any.

### RecordHeap
What the two threads of the film encoder promise of the records they share,
whatever these hold: a source record is only written over when no frame, no
projection kept and no object of the tick refers to it, a projected one only
when neither the cache nor the two ticks encoded last do. It has as many frames
as wait, pools as sets of any size, one projection as a constant, and no bytes:
a step may keep or drop replaced records as it likes. A frame carries what its
records held when it was filled, which no action reads: it is there for the
properties. The spawns, which `FilmExport` keeps by value, are left out.

### ViewerDelta
The codec of `viewer.rs` as operators: `EncodeChunk` writes a keyframe and then
patches, `DecodeChunk` reads them. A value is a tuple of a kind and a payload; a
number is the bit pattern of a float of a few bits, exact in the narrower width
when its last bit is 0. Every way the code has to write a number or an array of
floats is there, with its dictionary, its history of two ticks and its choice by
length. Bytes are tags, names or numbers; only varints and packed bits are cut
into `ByteBits` bits.

### ViewerProjection
The contract's walk over a source tick, three times, as in the code: over the
contract (`Project`, for metadata), over its compiled copy (one source worker,
`ProjectCompiled`), and inside the JSON parser without building the source
(several, `ProjectRaw`), with its own treatment of duplicate keys and of what
lies beyond a limit.

### ViewerWriter
One replay through `ViewerWriter` and its chunk workers, `validate_chunk` of
each chunk, `parts.json`, the handler's manifest and `finalize` with its checks,
the partial container and its rename over an older one. A `Crash` ends the
processes and leaves their files; an error ends the attempt and the handler
removes them: one of the extractor (`ReplayProcessingError`) is retried, one of
the finalizer (`ViewerDeltaError`) is final. Sizes are not counted: `Bulky` says
of which replays the artifact exceeds `MAX_UNCOMPRESSED_BYTES` or
`MAX_ARTIFACT_BYTES`, and `Oversize` fails an attempt at one at any flush or
result, at the latest in the finalizer, as the count is split. A panic of a
worker in a build that unwinds is not modelled. Only the native writer is: the
fallback that streams in Python is not. The projectors, the codec and the
semantic digest are parameters (`Projected`, `Encode`, `Decode`, `Digest` and so
on): the writer treats what they return as values, and what it promises
(`OutputReplays`) is stated relative to them.

### ViewerArtifact
The writer with `ViewerProjection` and `ViewerDelta` for its parameters, and the
properties that are about all three: the projector in use gives what the
contract says of a tick (`ProjectorsAgree`), and no legal replay is refused by
the writer's own validation (`LegalReplaysComplete`). With the first of them,
what `OutputReplays` says of `Projected` is said of the contract.

### PoseCodec
`pose_codec` with the settings the encoder uses (`local3-fine`): runs of a
player's poses as tracks of integers against the exact parent, raw poses where a
rig is unknown or the error is too large, packing and unpacking. A node is one
number in the place of its position; rotations and scales, coded alike, are left
out. A player's `name` stands for its tag, `x` for its origin and `id` for the
three members that identify it. The 2048 ticks a pose section may have are more
than a chunk has, so that limit is never met.

### FilmTransport
`transport.rs` as operators on tokens: reading a new value, reading over an old
one (moving what stays in place, `MaxSlots`), and reading the players whose
nodes become typed poses beside the tick. A pose that no player overwrites stays
where it was, marked inactive, as in the code.

### FilmDelta
What the encoder computes in place of the generic code: the projection that
reuses the tick of three ticks before, the one that takes the source apart,
fused float predictors, the slot-wise delta, and ticks whose objects and spawns
are records beside them. They rest on the shape of contract that
`FilmExportAssumption` names (`supports_incremental`); another takes the generic
path.

### FilmExport
The reader (`encode`) and the worker (`IncrementalWorker`) over one film. The
reader reads one token, field or object at a time; the worker projects one
object at a time; their steps interleave freely. Records are ids in two heaps,
`sources` and `projected`; the reference count of the code is computed
(`SourceShared`, `ProjectedShared`), which is what decides whether a record is
written over. Pools retire the oldest beyond `PoolEntries` or `PoolBytes`.
`film.sampled` is a run with the 30 Hz recording (the code's
`source_viewer_only` is a film without it), `film.typed` one whose transport
packs poses. It models the build with `native-pipeline` and cached spawns; the
image's Dockerfile builds with cached spawns only, where one thread runs the
same export after each tick, which is one of the interleavings. Requests without
incremental state, and `object_transfer`, which only they use, are left out.
What the code's own `verify_incremental_source` checks where a request asks for
it (`verify_incremental_state`) is part of `FramesHoldTheirTick`. Flow control,
failures and the end of these threads are EncoderPipeline's. Mapping to
`RecordHeap`: the frames in flight by ordinal, each with the objects that the
generic reader finds in the film at that tick as what it held (`HeapFrames`);
the projection is the compiled one; the pools are taken as sets, `history` is
the chunk's two previous ticks, and the heaps lose their wire tokens and sizes.

## 3. What the runs show

Every passing run fires every action of its next-state relation, alone or with
the others of its module. Deadlock is checked in `film_export`, whose end is a
step of its own (`Ended`), and not in the others: they end when every message is
settled or every bound is used up, which is where the system stops.

| Run | Instance | Shows |
|---|---|---|
| `replay_intake` | 2 messages, intact or damaged upload, 3 builds (one rejects), 3 receives, 2 faults, fair | manifest backed (by the artifacts of its own build), a completion final for every later attempt, refinement (one payload, chosen once, upload released only after it was delivered or copied); the upload is finalised or quarantined |
| `reprocess_job` | 2 messages, every kind of job, sound or not, 2 builds (one rejects), 3 receives, 2 faults, fair | refinement (one payload per generation, chosen once); the API learns the end of the job |
| `film_worker` | 2 messages, 8 kinds of job, 3 receives, 1 fault, 1 timeout, superseded at any time, any answer to any call, fair | manifest backed, nothing acknowledged without an account of it, the film of a persisted reprocess job not judged again, refinement; a persisted completion is delivered, unless the API or a release refuses it |
| `tick_parse` | 3 workers, 4 ticks, 3 replays (clean, malformed ticks, a tick the viewer rejects), 1 panic, source breaks anywhere, fair | first error reported, success is complete, refinement (ticks absorbed in order, each once); every call returns |
| `encoder_pipeline` | 15 ticks, batches of 2, 4 frames, chunks of 4, rejected ticks, 2 faults, fair | no mutual wait, the encoder's own error told, success is complete, refinement; every call returns |
| `rollup_concurrent` | 2 workers, 2 revisions, 2 faults | generations immutable, the active one never tagged superseded |
| `rollup_serial` | 1 worker, both artifacts, 3 revisions, 4 faults, fair | active objects are the recorded ones, no failure for a built revision; the newest revision built, or blocked by an orphan |
| `code_updater` | 2 releases, 1 apply, a rollback, not serialized, one attempt each | promotions keep code, no unsupported pair goes live, the overtaken never promotes, success means live |
| `code_updater_live` | 1 release with 3 attempts, 1 apply, a crash, a rollback, serialized, fair | a confirmed configuration stays; every invocation ends; an undisturbed release goes live |
| `viewer_writer` | 80 windows of three ticks, one replay of seven ticks, 26 ticks at the edges of a contract with every kind of node, bad metadata, no ticks, too many, too big; both projectors, 2 workers, chunks of 3, 2 attempts, 1 error or crash, fair | the three projectors agree on every tick; a replay that gets no artifact, without an error, is one the contract or its limits exclude; the container replays the source; no thread waits for ever |
| `viewer_history` | three replays of three ticks, no fault | expected violation, see *Findings* |
| `film_export` | 26 films of 1 to 8 ticks: objects, spawns, players and members that stay, move, change, swap and go; poses typed, untyped, missing, of an unknown rig, of another player; about twenty wrong in one way each; batches of 2 (6 frames), pools of 2 records, every interleaving | a frame that waits holds its tick; refinement (the two threads share records as `RecordHeap` has it); the blocks of both recordings are the generic reader's, projection's and codec's, byte for byte; reading them gives every tick and every pose back |

**Findings.** `viewer_history` checks `LegalReplaysComplete` on three replays
and TLC finds it violated. The writer drops a history array of another length,
or with a number that `f32` does not hold, and then writes the array by XOR or
difference (`viewer.rs:2456`), which need one tick of history only; the reader
wants any history array to have the previous one's length and to be exact in
every mode (`viewer.rs:1519-1530`), rejects the chunk in the writer's own
validation, and the replay gets no artifact. The film encoder shares this code.
`viewer_writer` and `film_export` therefore use arrays that keep their length
and exactness for three ticks in a row. A divergence without a run: the encoding
contract (`contracts/replays/viewer-delta.v1.encoding.json:128`) has the order
of keys preserved, and `viewer.rs:1438-1459` keeps the previous tick's order for
the keys that stay; the semantic digest and every consumer ignore the order, and
so do the properties.

**Bounds and why they are enough.** Two concurrent messages and three receives
reach every pair of interleaved attempts, with retries of both; the stacks set
four receives, and a fourth repeats what the third may do. Two or three builds
or workers suffice for any disagreement between two of them. The tick runs have
more ticks than their channels and windows hold, so every channel fills; the
encoder run has a film that is a multiple neither of the batch nor of the chunk,
and far more ticks than frames; it has two batches of frames, the tightest
budget `EncoderAssumption` allows, because with the three of the code the caller
never waits for a frame at all (`NeverStarved`). Three revisions let a
generation be active while the one before it is being retired and the one after
it built. A release needs three attempts to survive one crash, because the
publication the crash leaves running rotates the revision under the second
attempt; the safety run of the updater has one attempt each, as a retry differs
there from a third release only in its code. The numbers of the viewer run have
four bits (five in the film run), so that its windows meet every mode of every
number and array, with equal lengths and ties; two workers and three chunks
reorder results, and the chunk of three ticks is the smallest with a predictor
of second order. The film run has eight ticks: more than one chunk, more than
the six frames of three batches, and more than the three ticks the worker keeps
for reuse; pools of two records overflow by number and by bytes; the limit of
256 nodes and the byte limits of the transport are left out. What does not
change during a behaviour but differs between them (the `job`, the `replay`,
whether the upload is `intact`) is a variable that `Init` chooses and no action
changes. One fault is enough for the film worker: what a second would interrupt
is interrupted in the twin, and films with unreadable products retry without
one. Faults are counted (`MaxFaults`, `MaxPanics`, `MaxSlow`, `MaxRollbacks`,
`MaxAttempts`), so liveness means: once no more of them happen. Symmetry is used
only in `rollup_concurrent`, a safety run, on workers and clock readings, which
the specification treats alike.

**Fairness.** Weak fairness of each message's `Step`: SQS offers a visible
message again, and a running invocation either goes on or is killed by its
timeout, which is a fault. Weak fairness of each thread of a pipeline: the
operating system runs a thread that can go on. Weak fairness of the viewer
writer's main thread and of each chunk worker, for the same reason, a step of
theirs being fair where it is not a crash or an error. Weak fairness of each
rollup worker: the schedule starts an invocation every few minutes. Weak
fairness of updater invocations, of an apply that has begun, and of Lambda's
completion of a publication. Uploads, applies, rollbacks, revisions, crashes and
lifecycle expirations have none. `film_export` is a safety run; its threads'
progress is EncoderPipeline's.

**Where a property needs an assumption the code does not enforce.**
`ActiveReadable` and `FailureIsForUnbuilt` need reserved concurrency one
(`components/terraform/map-processing`, default): with two rollup workers on one
scope, the one whose completion is stale deletes the key the other activated.
`ConfirmedConfigurationStays` needs the updater's reserved concurrency one.
`CompletionIsFinal` (of uploads and of reprocess jobs) and
`PersistedNotRejudged` speak of the attempts that start after the completion was
persisted (`Informed`): a concurrent duplicate that looked for the manifest
before it was written still sends its status. The second is moreover about
reprocess jobs: an upload's retry inspects the film before it looks for its
completion, and a slow inspection reports a failure. It is about the film: a
persisted job can still be reported as failed, when the API answers the
completion with a failure code (`cloud.py:496`) or the attempt's release refuses
the job (`cloud.py:888`) or the manifest (`cloud.py:848-876`). For the same
reasons `PersistedIsDelivered` lists these ends, and `AcknowledgedAccounted`
counts `identity_conflict` and `stale_attempt` as the API's own account of the
generation, as there is no report after them (`cloud.py:947`). `ManifestBacked`
of an
upload has the spatial artifact agree with the manifest only while one
notification was handled: its key names no build (`handler.py:2823`), so a
concurrent duplicate of another build overwrites what the manifest recorded.
`LoneReleaseGoesLive` assumes that neither an apply nor a rollback interferes.
`LegalReplaysComplete` is about replays of at most `MaxTicks` ticks, and its
runs avoid the histories of *Findings*. `PosesReplay` promises the bound for the
poses that were quantised, and exactness for the others. `CurrentUnlessOrphaned`
says exactly what can go wrong: an object an interrupted worker left under the
next generation's key from older inputs is neither adopted nor replaced.

## 4. What is proved

TLAPS checks these for every value of the constants that satisfies the named
assumption of the module (`IntakeAssumption`, `ReprocessAssumption`,
`FilmAssumption`, `EncoderAssumption`, `TickAssumption`, `RollupAssumption`,
`UpdaterAssumption`, `WriterAssumption`; `RecordHeap` needs none): any number of
messages, builds, receives, faults, frames, ticks, workers, revisions, releases.
TLC evaluates the assumptions on every run. The type invariants of these
components are proved, and no run repeats them. Some theorems have a hypothesis
more. Two are the deployments the section before names: `Single` (one rollup
worker) and `Serialized` (one updater at a time). The third, `ByteStrings`, is
the type of the viewer's encoder: what it gives for projected ticks of a replay
is a list of bytes. It quantifies over all slices of all replays, which TLC
cannot evaluate as an assumption; in its place TLC checked, as a conjunct of
`IInv` (`TaskOK`), that every chunk of `viewer_writer` has it.

- **ReplayIntakeProofs.** `IInv` adds to the properties what each step of an
  attempt knows (`AttemptInv`): past the canonical put the canonical source
  exists, at `persist` the attempt's viewer artifact and the spatial one exist
  (its own where no other message was received), an attempt before `persist` is
  not the manifest's, at `dispatch` the held manifest is the manifest, at
  `cleanup` it was posted, at `quarantine` the failure was accepted.
  `ManifestBacked` alone is not inductive: the put of the manifest needs to know
  what its attempt wrote before. From it: `TypeCorrect`, `PayloadUnique`,
  `SourceNeverLost`, `ManifestsAreBacked`, `QuarantinesAreReported`,
  `ManifestStays`, `Refinement` (the upload path implements
  `CompletionRegister`) and `FinalCompletion`: with a manifest, `Informed` is
  kept by every step, and the steps that change a status or an artifact are at
  none of its places.
- **ReprocessJobProofs.** The same shape, smaller: an attempt at `persist` or
  `dispatch` belongs to a job with a viewer, one at `post` does not, and what
  was acknowledged was answered. `TypeCorrect`, `NothingDropped`, `Refinement`,
  `FinalCompletion`.
- **FilmWorkerProofs.** The same shape: `AttemptInv` says what was written
  before `persist`, that a report has a reason, and that an acknowledged message
  is accounted for. `TypeCorrect`, `ManifestsAreBacked`, `NothingDropped`,
  `Refinement`, `CompletedNotRejudged`: an `Informed` attempt that finds the
  manifest sends it or reports a refusal, and no step that looks at the film is
  open to it.
- **FilmEncoderProofs**, the pipeline. `Inv` conserves frames, ticks and chunks:
  `TicksConserved` says pushed = exported + in the encoder's batch + queued +
  pending, `ChunksConserved` that no chunk is compressed that was not
  dispatched; `CallerInv` that the caller joined the encoder before it collects
  chunks. `NeverMutualWait` follows from conservation: when no frame is spare or
  returned, all FRAMES are pending, queued or in the encoder, fewer than BATCH
  of them are pending, so the encoder has one, provided `Frames >= 2 * Batch`,
  which the code's constants satisfy. With three batches, as in the code, the
  caller does not even wait: `NeverStarved`. Also `TypeCorrect`,
  `FramesAreConserved`, `OkIsComplete`, `EncoderErrorIsTold` (with `ErrorInv`:
  the encoder ends normally only after the sender was dropped) and `Refinement`.
- **FilmEncoderProofs**, the record heaps. `HeapsInv`: the heaps hold exactly
  the records somebody refers to. `CacheCurrent`: a projection kept is that of
  what its source holds *now*, since a source is not written over while a
  projection of it is kept; this is what makes it right to compare records and
  not values. `CacheInv`: up to the worker's index the cache has the frame's
  records. Together they give `ReadyFramesAreProjected`: after a frame, the
  cache holds the projection of what the frame was filled with, object by
  object, though the worker projected only those that are other records. Also
  `FramesAreKept` and `EncodedRecordsStay`. That `FilmExport` implements
  `RecordHeap`, and so has these properties, is model-checked (`HeapSpec`).
- **TickParseProofs.** `IInv` says where a tick that was taken is: in a worker's
  hands, in the results, pending or absorbed, in one of them only (`Once`), and
  lost only after something failed (`NoneLost`); with `EndInv`, what the end of
  each thread says about the others. From it `EarliestReported`, as the reducer
  absorbs ticks in order, and `CompleteWhenOk`. Two facts about the code's own
  last resorts come out as theorems: the reducer meets a gap only after a panic
  (`GapsArePanics`), and the comparison of framed with absorbed ticks that ends
  the parse is never what fails (`NeverIncomplete`). Also `TypeCorrect` and
  `Refinement` (the pipeline implements `OrderedStream`).
- **CodeUpdaterProofs.** The invariant is local: `Local(i, p, s)` is what holds
  of an invocation at step `p` that has seen `s`, and the service only hands out
  growing revisions and never changes a published version (`Grown`), which keeps
  `Local` for everybody who does not move (`LocalKept`). Its heart is that two
  reads of the alias with one revision agree, and that who was overtaken holds
  an older one; so the last, conditional update fails. `TypeCorrect`,
  `OnlySupportedGoLive`, `PromotionsKeepCode`, `OvertakenGivesUp`,
  `ReleasesAreLive`; and, if `Serialized`, `ConfirmationsLast`, which needs
  `AloneInv` (the one that runs has seen the alias there is, unless an operator
  rolled back) and that it has seen the confirmed configuration too.
- **RollupWorkerProofs.** For any number of invocations: active ≤ built ≤
  revision (`ApiInv`), and a claim on the generation to come is of a revision
  that is not built yet (`ClaimInv`), which keeps the generations within the
  revisions. `TypeCorrect`, `SupersededAreOld`, `ObjectsImmutable`. With
  `Single`, `BuildInv` adds what the only invocation knows between its steps: it
  works on the generation to come, and what it counts as generated is in the
  bucket as it would write it. So what it activates is what the API records
  (`ActiveObjectsReadable`), and what it discards or reports was never activated
  (`FailuresAreUnbuilt`). Without it both fail, as the section before says.
- **ViewerWriterProofs.** `WorkInv`: wherever a chunk is (task channel, worker,
  results, collected), it is one of the replay's, cut at its own index, and once
  a worker has passed it, its bytes decode to its ticks. `ReadInv`: what was
  read is sent, in hand or pending, and no chunk starts beyond the last tick.
  `PartsInv`: the parts described are all the chunks in their order, since the
  join sorts them and checks their indices. `CopyInv`: what was copied of the
  parts lies in the container where the manifest says. Together they are
  inductive, and `ContainersReplay` follows: whatever the projectors, the codec
  and the digest do, a finished container has every tick of the replay once, in
  order and at its offset, also after crashes and errors of earlier attempts. It
  is the validation of each chunk, and not the encoder, that this rests on.
  `FlawlessIsWritten` is the other half: a replay that is within the limits of
  ticks and bytes, can be projected and is read back by the codec (`Flawless`,
  which has `~Bulky`) loses an attempt only to a fault of that attempt. It needs
  two more invariants: `FilesInv`, a file of a chunk is always the same bytes
  and there before its part is reported, and `CountInv`, until the workers are
  joined the chunks sent are each somewhere and none twice, and no worker is
  gone while the channel is open. From these, sorting gives exactly 0, 1, 2, …,
  which is what `finish_workers` checks, and the offsets the handler computes
  are what `validate_manifest` wants. These two steps are inductions, over a set
  of numbers (`SetInduction`), as an induction theorem over a predicate cannot
  be instantiated. TLC found no violation of the whole invariant (`RunInv`) on
  the instance of `viewer_writer` before it was proved, and that an attempt of a
  flawless replay does end; it needs a larger Java stack than the runs do
  (`-Xss512m`).

**Only model-checked.** All liveness properties (fairness and ENABLED are
outside what the prover handles); that the three projectors agree
(`ProjectorsAgree`), that the codec reads back what it writes
(`LegalReplaysComplete`), the film export and the pose codec: their values are
trees, so the modules use RECURSIVE operators and bitwise ones, which the prover
does not support, and what they claim is an induction over data. That is also
why the refinement of `RecordHeap` stays with TLC: `FilmExport` reaches these
operators.

## 5. Not modelled

- The application API (external): described by the answers its clients
  distinguish. Lease and claim rules beyond them are not assumed.
- What a replay's facts, a spatial artifact and a region document contain:
  statistics, map names, bins. The models of the workers keep which revision,
  build or attempt produced them.
- Several uploads, films or scopes at once: every key and row carries the id, so
  they do not share state.
- Compression, hashes and the byte layout of headers: they stand for what they
  name. The decompression thread in front of the extractor's JSON reader.
- Of the film encoder: the analytics and combat that read the same ticks, the
  metadata of a recording and its observations (`observe_state`,
  `retime_metadata`), the packed writings of objects and spawns, byte limits and
  the limit of nodes, the two tick counters of the clock (one member here), tick
  hashes (off while poses are coded), the shortcut of `exact_tick` for states
  that share their allocations, and the path of a request without incremental
  state.
- Of the pose codec: rotations, scales, the closed-loop and world presets, its
  proof-of-concept program, and `verify` of `pose_codec/src/lib.rs`, which only
  tests call.
- The Python viewer encoder, which is the same codec in another language.
- The simulation engines and the Node orchestrator, placeholders, Terraform and
  scripts.

## 6. Plan

Done: intake, reprocess, film worker, encoder pipeline, tick pipeline, rollup
worker, code updater, viewer writer and the record heaps, all with proofs; the
viewer's projectors and codec, film export with both recordings and the pose
codec. What is left, in order:

1. The spawns' records in `RecordHeap`, with their own cache of one (P).
2. Pure algorithms as operators against reference definitions: region
   statistics, rollup bins, map name cleaning.
3. Metadata of the 30 Hz recording, analytics over shared records.

(P) marks steps that end with proofs.
