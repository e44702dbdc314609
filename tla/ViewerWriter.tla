------------------------------ MODULE ViewerWriter ------------------------------
(***************************************************************************)
(* The viewer artifact of a replay: the extractor projects ticks, encodes  *)
(* them in chunks of Interval ticks and hands these to worker threads,     *)
(* which check, compress and write each to the parts directory; then it    *)
(* describes the parts.  The Python handler starts it, writes a manifest   *)
(* and runs the finalizer, which copies the parts into one container.      *)
(*                                                                         *)
(* The ticks of a replay come in order, through one projector or the other *)
(* as the number of source workers says (TickParse is about how).  A crash *)
(* ends the processes and leaves their files; a failure ends the attempt,  *)
(* and the handler removes them.                                           *)
(*                                                                         *)
(* The projectors, the codec and the digest are parameters, which          *)
(* ViewerArtifact has: what is asked here must hold for whatever they do.  *)
(***************************************************************************)
EXTENDS Integers, Sequences, FiniteSets

CONSTANTS
  Projected(_, _),   \* of a tick's text, by one source worker or by several
  Refused,           \* what it is of a text the contract does not allow
  SafeMeta(_),       \* whether the metadata can be read
  ProjectedMeta(_),  \* and its projection
  Encode(_, _),      \* encode_chunk: of ticks, from a first one; whether it did, and bytes
  Decode(_),         \* the first tick and the ticks of a chunk's bytes
  Digest(_),         \* the semantic hash of a tick
  Interval,      \* KEYFRAME_INTERVAL
  Replays,       \* replays: [ticks |-> texts, meta |-> text]
  Bulky(_),      \* whether its artifact exceeds MAX_UNCOMPRESSED_BYTES or MAX_ARTIFACT_BYTES
  Workers,       \* VIEWER_ARTIFACT_WORKERS threads
  MaxTicks,      \* MAX_TICKS
  MaxAttempts,   \* deliveries of the replay's event
  MaxFaults      \* bound: zstd or file errors

ASSUME WriterAssumption ==
  /\ Interval \in Nat \ {0}
  /\ \A r \in Replays : r.ticks \in Seq({r.ticks[i] : i \in DOMAIN r.ticks})
  /\ MaxTicks \in Nat /\ MaxAttempts \in Nat \ {0} /\ MaxFaults \in Nat
  /\ Workers # {} /\ IsFiniteSet(Workers)

VARIABLES
  replay,     \* the replay
  parallel,   \* several source workers
  at,         \* where the attempt stands
  ticks,      \* ticks read
  pending,    \* projected ticks not in a chunk yet
  outgoing,   \* the chunk being sent
  dispatched, \* chunks sent
  chunks,     \* results collected
  tasks,      \* task channel
  closed,     \* its sender is gone
  worker,     \* what each worker does
  results,    \* result channel
  files,      \* compressed chunks in the parts directory, by index
  parts,      \* parts.json
  partial,    \* the container being written
  output,     \* the container
  attempt,    \* deliveries so far
  faults      \* faults so far

extractor == <<ticks, pending, outgoing, dispatched, chunks>>
threads == <<tasks, closed, worker, results>>
disk == <<files, parts, partial, output>>
vars == <<replay, parallel, at, extractor, threads, disk, attempt, faults>>

None == [none |-> TRUE]
Error == [failed |-> TRUE]
Starting == <<"starting">>
Idle == <<"idle">>
Gone == <<"gone">>
Busy(task) == <<"busy", task>>

Extracting == {"read", "send", "collect", "finish", "drain", "join", "describe"}

Init ==
  /\ replay \in Replays
  /\ parallel \in BOOLEAN
  /\ at = "queued"
  /\ ticks = 0 /\ dispatched = 0
  /\ pending = <<>> /\ chunks = <<>> /\ tasks = <<>> /\ results = <<>>
  /\ outgoing = None
  /\ closed = TRUE
  /\ worker = [w \in Workers |-> Gone]
  /\ files = <<>> /\ parts = None /\ partial = None /\ output = None
  /\ attempt = 0 /\ faults = 0

-----------------------------------------------------------------------------
(***************************************************************************)
(* The attempt.                                                            *)
(***************************************************************************)
\* The handler empties the parts directory and starts the extractor.
Begin ==
  /\ at = "queued"
  /\ at' = "read"
  /\ ticks' = 0 /\ dispatched' = 0
  /\ pending' = <<>> /\ chunks' = <<>> /\ tasks' = <<>> /\ results' = <<>>
  /\ outgoing' = None
  /\ closed' = FALSE
  /\ worker' = [w \in Workers |-> Starting]
  /\ files' = <<>> /\ parts' = None
  /\ attempt' = attempt + 1
  /\ UNCHANGED <<replay, parallel, partial, output, faults>>

\* The processes end; what is in memory is gone.
Stop(final) ==
  /\ at' = IF final \/ attempt = MaxAttempts THEN "failed" ELSE "queued"
  /\ worker' = [w \in Workers |-> Gone]
  /\ tasks' = <<>> /\ results' = <<>> /\ closed' = TRUE
  /\ UNCHANGED <<replay, parallel, extractor, attempt>>

\* What the handler checks and the finalizer does ends in a ViewerDeltaError.
Assembling == {"finalize", "copy", "rename"}

\* The handler cleans up.  An error of the extractor is retried, a
\* ViewerDeltaError is final.
Fail ==
  /\ Stop(at \in Assembling)
  /\ files' = <<>> /\ parts' = None /\ output' = None
  /\ UNCHANGED partial

Crash ==
  /\ at \notin {"queued", "done", "failed"}
  /\ faults < MaxFaults
  /\ faults' = faults + 1
  /\ Stop(FALSE)
  /\ UNCHANGED disk

-----------------------------------------------------------------------------
(***************************************************************************)
(* The extractor's main thread.                                            *)
(***************************************************************************)
\* encode_chunk, and the digest of what it should decode to.
Chunk(values, first) ==
  [index |-> dispatched, first |-> first, count |-> Len(values),
   encoded |-> Encode(values, first), expected |-> [k \in DOMAIN values |-> Digest(values[k])]]

\* flush: the pending ticks become the chunk to send.
Flush(values, last) ==
  /\ outgoing' = Chunk(values, last - Len(values))
  /\ pending' = <<>>
  /\ at' = "send"

AddTick ==
  /\ at = "read" /\ ticks < Len(replay.ticks)
  /\ LET tick == Projected(parallel, replay.ticks[ticks + 1])
         values == Append(pending, tick)
     IN IF tick = Refused \/ ticks >= MaxTicks
          THEN Fail /\ UNCHANGED faults
          ELSE /\ ticks' = ticks + 1
               /\ IF Len(values) = Interval
                    THEN Flush(values, ticks + 1)
                    ELSE pending' = values /\ UNCHANGED <<at, outgoing>>
               /\ UNCHANGED <<replay, parallel, dispatched, chunks, threads, disk, attempt, faults>>

\* finish: the rest of the ticks is flushed, when the metadata is safe.
FinishTicks ==
  /\ at = "read" /\ ticks = Len(replay.ticks)
  /\ IF ~SafeMeta(replay.meta)
       THEN Fail /\ UNCHANGED faults
       ELSE /\ IF pending # <<>> THEN Flush(pending, ticks)
                                 ELSE at' = "finish" /\ UNCHANGED <<pending, outgoing>>
            /\ UNCHANGED <<replay, parallel, ticks, dispatched, chunks, threads, disk, attempt, faults>>

\* send blocks while the channel is full, and fails once no worker is left.
Send ==
  /\ at = "send"
  /\ IF ~outgoing.encoded.ok \/ \A w \in Workers : worker[w] = Gone
       THEN Fail /\ UNCHANGED faults
       ELSE /\ Len(tasks) < Cardinality(Workers)
            /\ tasks' = Append(tasks, outgoing)
            /\ dispatched' = dispatched + 1
            /\ at' = "collect"
            /\ outgoing' = None
            /\ UNCHANGED <<replay, parallel, ticks, pending, chunks, closed, worker, results,
                           disk, attempt, faults>>

\* collect_ready_results
Collect ==
  /\ at = "collect"
  /\ IF \E i \in DOMAIN results : results[i] = Error
       THEN Fail /\ UNCHANGED faults
       ELSE /\ chunks' = chunks \o results
            /\ results' = <<>>
            /\ at' = "read"
            /\ UNCHANGED <<replay, parallel, ticks, pending, outgoing, dispatched, tasks, closed,
                           worker, disk, attempt, faults>>

\* Wrong on purpose: the task channel stays open.
FinishStillOpen ==
  /\ at = "finish"
  /\ at' = "drain"
  /\ UNCHANGED <<replay, parallel, extractor, threads, disk, attempt, faults>>

\* The metadata is projected, and finish_workers closes the task channel.
Finish ==
  /\ at = "finish"
  /\ IF ticks = 0 \/ ProjectedMeta(replay.meta) = Refused
       THEN Fail /\ UNCHANGED faults
       ELSE /\ closed' = TRUE
            /\ at' = "drain"
            /\ UNCHANGED <<replay, parallel, extractor, tasks, worker, results, disk, attempt, faults>>

\* A result for every chunk sent, or an error.
Drain ==
  /\ at = "drain"
  /\ CASE Len(chunks) = dispatched ->
            at' = "join" /\ UNCHANGED <<replay, parallel, extractor, threads, disk, attempt, faults>>
       [] Len(chunks) < dispatched /\ results # <<>> ->
            IF Head(results) = Error
              THEN Fail /\ UNCHANGED faults
              ELSE /\ chunks' = Append(chunks, Head(results))
                   /\ results' = Tail(results)
                   /\ UNCHANGED <<replay, parallel, at, ticks, pending, outgoing, dispatched, tasks,
                                  closed, worker, disk, attempt, faults>>
       [] OTHER ->
            /\ \A w \in Workers : worker[w] = Gone
            /\ Fail /\ UNCHANGED faults

\* flush and absorb_result add up the bytes of the chunks, whose sizes are left to
\* Bulky: an error at one flush or result or another, at the latest in the finalizer.
Oversize ==
  /\ at \in {"send", "collect", "drain"}
  /\ Bulky(replay)
  /\ Fail /\ UNCHANGED faults

\* The list sorted by index, one way or another.
InOrder(list) ==
  {[i \in DOMAIN list |-> list[p[i]]] :
     p \in {q \in [DOMAIN list -> DOMAIN list] : \A i, j \in DOMAIN list :
              i < j => q[i] # q[j] /\ list[q[i]].index <= list[q[j]].index}}

Join ==
  /\ at = "join"
  /\ \A w \in Workers : worker[w] = Gone
  /\ \E sorted \in InOrder(chunks) :
       IF \E i \in DOMAIN sorted : sorted[i].index # i - 1
         THEN Fail /\ UNCHANGED faults
         ELSE /\ chunks' = sorted
              /\ at' = "describe"
              /\ UNCHANGED <<replay, parallel, ticks, pending, outgoing, dispatched, threads, disk,
                             attempt, faults>>

\* parts.json
Describe ==
  /\ at = "describe"
  /\ parts' = [tick_count |-> ticks, chunks |-> chunks,
               replay |-> ProjectedMeta(replay.meta)]
  /\ at' = "finalize"
  /\ UNCHANGED <<replay, parallel, extractor, threads, files, partial, output, attempt, faults>>

-----------------------------------------------------------------------------
(***************************************************************************)
(* A chunk worker.  zstd and the file system fail at most MaxFaults times; *)
(* compressed bytes stand for the bytes they decompress to.                *)
(***************************************************************************)
Report(message) == results' = Append(results, message)

StartWorker(w) ==
  /\ at \in Extracting
  /\ worker[w] = Starting
  /\ \/ worker' = [worker EXCEPT ![w] = Idle] /\ UNCHANGED <<results, faults>>
     \/ /\ faults < MaxFaults
        /\ faults' = faults + 1
        /\ worker' = [worker EXCEPT ![w] = Gone]
        /\ Report(Error)
  /\ UNCHANGED <<replay, parallel, at, extractor, tasks, closed, disk, attempt>>

TakeTask(w) ==
  /\ at \in Extracting
  /\ worker[w] = Idle /\ tasks # <<>>
  /\ worker' = [worker EXCEPT ![w] = Busy(Head(tasks))]
  /\ tasks' = Tail(tasks)
  /\ UNCHANGED <<replay, parallel, at, extractor, closed, results, disk, attempt, faults>>

EndWorker(w) ==
  /\ at \in Extracting
  /\ worker[w] = Idle /\ tasks = <<>> /\ closed
  /\ worker' = [worker EXCEPT ![w] = Gone]
  /\ UNCHANGED <<replay, parallel, at, extractor, tasks, closed, results, disk, attempt, faults>>

\* The chunk decodes to the ticks it was made of.
Lossless(task, decoded) ==
  /\ decoded.first = task.first /\ Len(decoded.ticks) = task.count
  /\ [k \in DOMAIN decoded.ticks |-> Digest(decoded.ticks[k])] = task.expected

Validated(task) == Lossless(task, Decode(task.encoded.bytes))

\* process_chunk
Process(w) ==
  /\ at \in Extracting
  /\ worker[w][1] = "busy"
  /\ LET task == worker[w][2]
         part == [index |-> task.index, first |-> task.first, count |-> task.count,
                  digest |-> task.encoded.bytes]
     IN \/ /\ IF Validated(task)
                THEN /\ files' = [i \in DOMAIN files \cup {task.index} |->
                                    IF i = task.index THEN task.encoded.bytes ELSE files[i]]
                     /\ Report(part)
                ELSE Report(Error) /\ UNCHANGED files
           /\ UNCHANGED faults
        \/ /\ faults < MaxFaults
           /\ faults' = faults + 1
           /\ Report(Error)
           /\ UNCHANGED files
  /\ worker' = [worker EXCEPT ![w] = Idle]
  /\ UNCHANGED <<replay, parallel, at, extractor, tasks, closed, parts, partial, output, attempt>>

-----------------------------------------------------------------------------
(***************************************************************************)
(* The handler and the finalizer.                                          *)
(***************************************************************************)
\* validate_parts: the parts are in sequence, unchanged, and cover the ticks.
ValidParts ==
  LET list == parts.chunks
      next(i) == IF i = 0 THEN 0 ELSE list[i].first + list[i].count
  IN /\ parts.tick_count \in 1..MaxTicks
     /\ \A i \in DOMAIN list :
          /\ list[i].index = i - 1
          /\ list[i].first = next(i - 1)
          /\ list[i].count \in 1..Interval
          /\ list[i].index \in DOMAIN files /\ files[list[i].index] = list[i].digest
     /\ next(Len(list)) = parts.tick_count

\* The handler's manifest: the parts with their offsets.
Manifest ==
  LET list == parts.chunks
      offset[i \in DOMAIN list] == IF i = 1 THEN 0 ELSE offset[i - 1] + Len(list[i - 1].digest)
  IN [tick_count |-> parts.tick_count, replay |-> parts.replay,
      chunks |-> [i \in DOMAIN list |->
                    [index |-> list[i].index, first |-> list[i].first, count |-> list[i].count,
                     digest |-> list[i].digest, size |-> Len(list[i].digest), offset |-> offset[i]]]]

\* validate_manifest: the manifest says of the parts what parts.json says.
ValidManifest(manifest) ==
  /\ manifest.tick_count = parts.tick_count /\ manifest.replay = parts.replay
  /\ Len(manifest.chunks) = Len(parts.chunks)
  /\ \A i \in DOMAIN parts.chunks :
       LET c == manifest.chunks[i] part == parts.chunks[i]
       IN /\ c.index = part.index /\ c.first = part.first /\ c.count = part.count
          /\ c.digest = part.digest /\ c.size = Len(part.digest)
          /\ c.offset = IF i = 1 THEN 0 ELSE manifest.chunks[i - 1].offset + manifest.chunks[i - 1].size

\* finalize_container, up to the header and the manifest of the new file.  With
\* these the sizes are checked once more.
StartContainer ==
  /\ at = "finalize"
  /\ IF ValidParts /\ ValidManifest(Manifest) /\ ~Bulky(replay)
       THEN /\ partial' = [manifest |-> Manifest, bytes |-> <<>>, copied |-> 0]
            /\ at' = "copy"
            /\ UNCHANGED <<replay, parallel, extractor, threads, files, parts, output, attempt, faults>>
       ELSE Fail /\ UNCHANGED faults

\* Wrong on purpose: the container is written under its own name.
CopyChunkInPlace ==
  /\ at = "copy" /\ partial.copied < Len(parts.chunks)
  /\ partial' = [partial EXCEPT !.bytes = @ \o files[parts.chunks[partial.copied + 1].index],
                                !.copied = @ + 1]
  /\ output' = [manifest |-> partial.manifest, bytes |-> partial'.bytes]
  /\ UNCHANGED <<replay, parallel, at, extractor, threads, files, parts, attempt, faults>>

CopyChunk ==
  /\ at = "copy" /\ partial.copied < Len(parts.chunks)
  /\ partial' = [partial EXCEPT !.bytes = @ \o files[parts.chunks[partial.copied + 1].index],
                                !.copied = @ + 1]
  /\ UNCHANGED <<replay, parallel, at, extractor, threads, files, parts, output, attempt, faults>>

\* The old container goes, then the new one takes its name.
RemoveOutput ==
  /\ at = "copy" /\ partial.copied = Len(parts.chunks)
  /\ output' = None
  /\ at' = "rename"
  /\ UNCHANGED <<replay, parallel, extractor, threads, files, parts, partial, attempt, faults>>

Rename ==
  /\ at = "rename"
  /\ output' = [manifest |-> partial.manifest, bytes |-> partial.bytes]
  /\ partial' = None
  /\ at' = "done"
  /\ UNCHANGED <<replay, parallel, extractor, threads, files, parts, attempt, faults>>

\* A file cannot be written or read, or a process fails otherwise.
IoError ==
  /\ at \in {"describe", "copy", "rename"}
  /\ faults < MaxFaults
  /\ faults' = faults + 1
  /\ Fail

-----------------------------------------------------------------------------
Main ==
  \/ Begin \/ AddTick \/ FinishTicks \/ Send \/ Collect \/ Finish \/ Drain \/ Join \/ Describe
  \/ StartContainer \/ CopyChunk \/ RemoveOutput \/ Rename

Work(w) == StartWorker(w) \/ TakeTask(w) \/ EndWorker(w) \/ Process(w)

Next == Main \/ Crash \/ IoError \/ Oversize \/ \E w \in Workers : Work(w)

Spec == Init /\ [][Next]_vars

\* Threads run, and the event is delivered again.  Steps that are never blocked are
\* named by what they change.
Places == Extracting \cup {"queued", "finalize", "copy", "rename", "done", "failed"}

Unblocked ==
  /\ at \in {"queued", "read", "collect", "finish", "describe", "finalize", "rename"}
  /\ at' \in Places /\ ticks' \in 0..MaxTicks

Processing(w) == worker[w][1] = "busy" /\ worker' = [worker EXCEPT ![w] = Idle]

FairSpec ==
  /\ Spec
  /\ WF_<<at, ticks>>(Unblocked)
  /\ WF_vars(Send \/ Drain \/ Join \/ CopyChunk \/ RemoveOutput)
  /\ \A w \in Workers :
       WF_worker(Processing(w)) /\ WF_vars(StartWorker(w) \/ TakeTask(w) \/ EndWorker(w))

-----------------------------------------------------------------------------
(***************************************************************************)
(* Properties.                                                             *)
(***************************************************************************)
\* The chunk of these bytes has the ticks from this one on, as far as a digest tells.
Faithful(bytes, first, count) ==
  LET decoded == Decode(bytes).ticks
  IN /\ Len(decoded) = count
     /\ \A k \in 1..count :
          Digest(decoded[k]) = Digest(Projected(parallel, replay.ticks[first + k]))

\* The chunks of a container follow each other, in its ticks and in its bytes, and
\* each has the ticks it says.
Covers(container) ==
  LET list == container.manifest.chunks
      next(i) == IF i = 0 THEN 0 ELSE list[i].first + list[i].count
      end(i) == IF i = 0 THEN 0 ELSE list[i].offset + list[i].size
  IN /\ next(Len(list)) = container.manifest.tick_count
     /\ end(Len(list)) = Len(container.bytes)
     /\ \A i \in 1..Len(list) :
          /\ list[i].first = next(i - 1) /\ list[i].offset = end(i - 1)
          /\ Faithful(SubSeq(container.bytes, end(i - 1) + 1, end(i)), list[i].first, list[i].count)

\* A container, whole attempts and crashes after, replays the ticks and the
\* metadata of the replay, in their order and each once.
OutputReplays ==
  /\ at = "done" => output # None
  /\ output # None =>
       /\ output.manifest.tick_count = Len(replay.ticks)
       /\ output.manifest.replay = ProjectedMeta(replay.meta)
       /\ Covers(output)

\* Every attempt ends: the extractor does not wait for workers that are gone,
\* nor they for it.
WriterTerminates == <>[](at \in {"done", "failed"})

=============================================================================
