------------------------------- MODULE FilmExport -------------------------------
(***************************************************************************)
(* What two threads of the film encoder share while they export a film:    *)
(*                                                                         *)
(*   reader   encode() of encoder/src/main.rs with transport.rs; it reads  *)
(*            each tick over an old one, hands a snapshot of it to the     *)
(*            worker, and exports every fourth tick itself, as the 30 Hz   *)
(*            recording                                                    *)
(*   worker   the thread of IncrementalWorker (pipeline.rs), which         *)
(*            projects, encodes and verifies it (artifact.rs)              *)
(*                                                                         *)
(* An object whose bytes did not change stays the same record in every     *)
(* tick; a record nobody else holds is written over.  sources and          *)
(* projected are the two heaps of records by id, and hold exactly those    *)
(* something refers to.  EncoderPipeline has the flow control of the same  *)
(* threads, its failures and its end; the analytics and the metadata are   *)
(* left out.                                                               *)
(***************************************************************************)
EXTENDS FilmDelta, FiniteSets, TLC

CONSTANTS
  Films,           \* what the engine may write: its ticks as tokens, the ticks expected,
                   \* whether poses are typed and whether there is a 30 Hz recording
  Batch,           \* BATCH, frames sent together
  PoolEntries,     \* records a pool keeps
  PoolBytes,       \* and their tokens
  ValidObject(_),  \* the schema of a projected object
  ValidSpawns(_),  \* and of the projected spawns
  ValidNode(_),    \* and of a typed node (it allows more of them than a rig has)
  Stride,          \* 4, ticks for each of the 30 Hz recording
  TimerAt          \* a timer, as a number, in its ticks

Frames == 3 * Batch

ASSUME FilmExportAssumption ==
  /\ Batch \in Nat \ {0} /\ Stride \in Nat \ {0}
  /\ PoolEntries \in Nat /\ PoolBytes \in Nat
  /\ TickNode.kind = "object"   \* supports_incremental, supports_cached_spawns
  /\ \A key \in {"objects", "spawns"} : \E f \in Range(TickNode.fields) :
       f.source = key /\ f.key = key /\ f.node.kind = "array"

VARIABLES
  film,        \* the film
  phase,       \* what the reader does
  count,       \* ticks it read
  cursor,      \* what is left of the tick's tokens
  root,        \* the tick's members, done and old
  object,      \* the object read next, and how many there are
  records,     \* the objects of the tick, ids
  pool,        \* replaced records, the oldest first
  spawns,      \* the spawns of the tick
  poses,       \* its typed poses, by player
  tick,        \* the tick read last, or an old one to read over
  sample,      \* the tick for the 30 Hz recording
  low,         \* that recording
  free,        \* recycled frames at hand
  allocated,   \* frames allocated so far
  pending,     \* filled frames not sent yet
  queue,       \* the batch in the channel, which holds one
  returned,    \* batches in the recycle channel
  worker,      \* what the worker does
  batch,       \* its batch
  at,          \* the frame of the batch it is at
  index,       \* the object of the frame it is at
  cache,       \* the projected objects, ids
  cachePool,   \* replaced projected objects, the oldest first
  spawnCache,  \* the projected spawns
  spare,       \* a projected tick to project over
  nodeSpares,  \* the nodes taken out of it, by player
  chunk,       \* the chunk being encoded
  exported,    \* ticks exported
  chunks,      \* chunks dispatched
  sources,     \* the object records by id
  projected    \* the projected records by id

streamVars == <<film, count, cursor, root, object, records, pool, spawns, poses, tick, sample, low>>
frameVars == <<free, allocated, pending>>
exportVars == <<cache, cachePool, spawnCache, spare, nodeSpares, chunk, exported, chunks>>
vars == <<streamVars, phase, frameVars, queue, returned, worker, batch, at, index, exportVars,
          sources, projected>>

NoChunk == <<>>
NoRecord == [id |-> 0, wire |-> <<>>, value |-> Absent]
Frame == [tick |-> Null, records |-> <<>>, spawns |-> NoRecord, poses |-> NoTyped, ordinal |-> 0]
Root == [members |-> <<>>, old |-> <<>>, size |-> 0, index |-> 1, moved |-> FALSE,
         found |-> FALSE, held |-> NoRecord]

Init ==
  /\ film \in Films
  /\ phase = "read"
  /\ count = 0
  /\ cursor = Cursor(<<>>)
  /\ root = Root
  /\ object = [index |-> 1, size |-> 0]
  /\ records = <<>> /\ pool = <<>>
  /\ spawns = NoRecord
  /\ poses = NoTyped
  /\ tick = Null /\ sample = Null
  /\ low = [exported |-> 0, chunk |-> NoChunk, chunks |-> <<>>]
  /\ free = <<>> /\ allocated = 0 /\ pending = <<>>
  /\ queue = <<>> /\ returned = <<>>
  /\ worker = "waiting"
  /\ batch = <<>> /\ at = 1 /\ index = 1
  /\ cache = <<>> /\ cachePool = <<>> /\ spawnCache = [source |-> 0, id |-> 0, value |-> Absent]
  /\ spare = Null /\ nodeSpares = NoNodes
  /\ chunk = NoChunk /\ exported = 0 /\ chunks = <<>>
  /\ sources = <<>> /\ projected = <<>>

-----------------------------------------------------------------------------
(***************************************************************************)
(* Records: who refers to them, and the pools they are reused from.        *)
(***************************************************************************)
InFlight == pending \o queue \o SubSeq(batch, at, Len(batch))

History == IF chunk = NoChunk THEN {} ELSE Range(chunk.previousObjects) \cup Range(chunk.beforeObjects)
ProjectedShared == Range(cache) \cup History
ProjectedLive == ProjectedShared \cup Range(cachePool)

SourceShared ==
  Range(records) \cup {projected[p].source : p \in ProjectedLive}
    \cup UNION {Range(f.records) : f \in Range(InFlight)}
SourceLive == SourceShared \cup Range(pool)

Kept(heap, live) == [id \in live |-> heap[id]]
Fresh(used) == CHOOSE id \in 1..Cardinality(used) + 1 : id \notin used /\ 1..id - 1 \subseteq used

PoolSize(entries, heap) == Fold(LAMBDA sum, id : sum + heap[id].bytes, 0, entries)

\* Pool::retire: the oldest records make room.
Retire(entries, id, heap) ==
  LET all == Append(entries, id)
      fits(k) == Len(all) - k <= PoolEntries /\ PoolSize(SubSeq(all, k + 1, Len(all)), heap) <= PoolBytes
      dropped == CHOOSE k \in 0..Len(all) : fits(k) /\ \A j \in 0..k - 1 : ~fits(j)
  IN IF heap[id].bytes > PoolBytes THEN entries ELSE SubSeq(all, dropped + 1, Len(all))

\* Pool::take: the oldest record, unless something else refers to it.
NoSpare(entries) == [id |-> 0, rest |-> entries]

\* Wrong on purpose: a record somebody else refers to is taken.
SpareShared(entries, shared, heap) ==
  IF entries = <<>> THEN NoSpare(entries) ELSE [id |-> Head(entries), rest |-> Tail(entries)]

Spare(entries, shared, heap) ==
  CASE entries = <<>> -> NoSpare(entries)
    [] entries # <<>> /\ Head(entries) \in shared -> NoSpare(Retire(Tail(entries), Head(entries), heap))
    [] OTHER -> [id |-> Head(entries), rest |-> Tail(entries)]

\* The record put at this index, or appended; the one it replaces is retired.
Placed(ids, i, id) == IF i <= Len(ids) THEN [ids EXCEPT ![i] = id] ELSE Append(ids, id)
Retired(entries, ids, i, heap) == IF i <= Len(ids) THEN Retire(entries, ids[i], heap) ELSE entries

-----------------------------------------------------------------------------
(***************************************************************************)
(* The reader: Cursor::incremental_root, one member of the tick at a time. *)
(***************************************************************************)
ReaderAt(p) == phase = p /\ UNCHANGED <<film, low, free, allocated, pending, queue, returned, worker,
                                        batch, at, index, exportVars, projected>>

Key == Text(cursor)
AtKey(key) == phase = "field" /\ root.index <= root.size /\ Key.r.ok /\ Key.v = key

\* A key that came before ends the tick: at once, or when the member is put in the map.
KeyDuplicate ==
  IF root.moved THEN Has(root.members, Key.v) ELSE Slot(root.members, root.index, Key.v) = Duplicate

OldField == IF root.moved THEN OldMember(root.old, Key.v)
            ELSE Slot(root.members, root.index, Key.v)[root.index][2]

Filled(key, v) ==
  [root EXCEPT !.index = @ + 1,
     !.members = IF root.moved THEN Append(@, <<key, v>>)
                 ELSE [Slot(@, root.index, key) EXCEPT ![root.index] = <<key, v>>]]

CachedSpawns == Key.v = "spawns" /\ NextIs(Key.r, "arr")
TypedPlayers == Key.v = "players" /\ film.typed
PlainField == Key.v # "objects" /\ ~CachedSpawns /\ ~TypedPlayers

BeginTick ==
  LET members == IF tick[1] = "obj" THEN tick[2] ELSE <<>>
      wire == film.frames[count + 1]
      moved == tick[1] # "obj" \/ wire[1][2] > MaxSlots \/ Len(members) > MaxSlots
  IN /\ ReaderAt("read") /\ count < Len(film.frames) /\ wire[1][1] = "obj"
     /\ cursor' = Cursor(Tail(wire))
     /\ root' = [Root EXCEPT !.members = IF moved THEN <<>> ELSE members, !.old = members,
                             !.size = wire[1][2], !.moved = moved, !.held = spawns]
     /\ spawns' = NoRecord
     /\ poses' = NoTyped
     /\ phase' = "field"
     /\ UNCHANGED <<count, object, records, pool, tick, sample, sources>>

ReadField ==
  /\ ReaderAt("field") /\ root.index <= root.size /\ Key.r.ok /\ PlainField /\ ~KeyDuplicate
  /\ \E field \in {Reuse(Key.r, OldField, 1)} :
       /\ field.r.ok
       /\ cursor' = field.r
       /\ root' = Filled(Key.v, field.v)
  /\ UNCHANGED <<phase, count, object, records, pool, spawns, poses, tick, sample, sources>>

ReadPlayers ==
  /\ ReaderAt("field") /\ AtKey("players") /\ TypedPlayers /\ ~KeyDuplicate
  /\ \E read \in {Players(Key.r, OldField, poses)} :
       /\ read.r.ok
       /\ cursor' = read.r
       /\ root' = Filled("players", read.v.value)
       /\ poses' = read.v.poses
  /\ UNCHANGED <<phase, count, object, records, pool, spawns, tick, sample, sources>>

\* Cursor::spawns: the record before, when its tokens come again.
SpawnIds ==
  ({spawnCache.source, spawns.id, root.held.id} \cup {f.spawns.id : f \in Range(InFlight)}) \ {0}
SpawnsAgain == root.held # NoRecord /\ IsPrefix(root.held.wire, Key.r.rest)

ReadSpawns ==
  /\ ReaderAt("field") /\ AtKey("spawns") /\ CachedSpawns /\ ~KeyDuplicate
  /\ IF SpawnsAgain
       THEN /\ cursor' = [Key.r EXCEPT !.rest = SubSeq(@, Len(root.held.wire) + 1, Len(@))]
            /\ spawns' = root.held
       ELSE \E read \in {SourceValue(Key.r, 1)} :
              /\ read.r.ok
              /\ cursor' = read.r
              /\ spawns' = [id |-> Fresh(SpawnIds), wire |-> Consumed(Key.r, read.r), value |-> read.v]
  /\ root' = [Filled("spawns", Placeholder) EXCEPT !.held = NoRecord]
  /\ UNCHANGED <<phase, count, object, records, pool, poses, tick, sample, sources>>

BeginObjects ==
  /\ ReaderAt("field") /\ AtKey("objects") /\ ~KeyDuplicate /\ NextIs(Key.r, "arr")
  /\ cursor' = [Key.r EXCEPT !.rest = Tail(@)]
  /\ object' = [index |-> 1, size |-> Head(Key.r.rest)[2]]
  /\ phase' = "object"
  /\ UNCHANGED <<count, root, records, pool, spawns, poses, tick, sample, sources>>

Unchanged ==
  object.index <= Len(records) /\ IsPrefix(sources[records[object.index]].wire, cursor.rest)

ReuseObject ==
  /\ ReaderAt("object") /\ object.index <= object.size /\ Unchanged
  /\ cursor' = [cursor EXCEPT !.rest = SubSeq(@, Len(sources[records[object.index]].wire) + 1, Len(@))]
  /\ object' = [object EXCEPT !.index = @ + 1]
  /\ UNCHANGED <<phase, count, root, records, pool, spawns, poses, tick, sample, sources>>

SourceSpare == Spare(pool, SourceShared, sources)
ReadSource ==
  Reuse(cursor, IF SourceSpare.id = 0 THEN Null ELSE sources[SourceSpare.id].value, 2)

DecodeObject ==
  /\ ReaderAt("object") /\ object.index <= object.size /\ ~Unchanged
  /\ object' = [object EXCEPT !.index = @ + 1]
  /\ UNCHANGED <<phase, count, root, spawns, poses, tick, sample>>
  /\ \E taken \in {SourceSpare}, read \in {ReadSource} :
       LET wire == Consumed(cursor, read.r)
           id == IF taken.id = 0 THEN Fresh(DOMAIN sources) ELSE taken.id
           bytes == Len(wire) + IF taken.id = 0 THEN 0 ELSE sources[id].bytes
           heap == (id :> [wire |-> wire, value |-> read.v, bytes |-> bytes]) @@ sources
       IN /\ read.r.ok /\ HasObjectType(read.v)
          /\ cursor' = read.r
          /\ pool' = Retired(taken.rest, records, object.index, heap)
          /\ records' = Placed(records, object.index, id)
          /\ sources' = Kept(heap, SourceLive')

EndObjects ==
  /\ ReaderAt("object") /\ object.index > object.size
  /\ records' = Truncated(records, object.size)
  /\ root' = [Filled("objects", Placeholder) EXCEPT !.found = TRUE]
  /\ phase' = "field"
  /\ UNCHANGED <<count, cursor, object, pool, spawns, poses, tick, sample>>
  /\ sources' = Kept(sources, SourceLive')

\* The edits of main.rs: combat leaves, the last member taking its place, and the
\* clock is that of the recording.
Without(members, key) ==
  LET i == CHOOSE j \in DOMAIN members : members[j][1] = key
  IN IF Has(members, key) THEN Truncated([members EXCEPT ![i] = Last(members)], Len(members) - 1) ELSE members
Edited(v, ordinal) ==
  WithMember(<<"obj", Without(v[2], "combat")>>, <<"current_tick", IntegerValue(ordinal)>>)

\* The whole tick: its objects, spawns and typed poses in their places.
WithNodes(v, nodes) ==
  LET players == Member(v, "players")
      with(slot) == IF slot <= MaxPlayers /\ nodes[slot] # Absent /\ players[2][slot][1] = "obj"
                      THEN WithMember(players[2][slot], <<"nodes", nodes[slot]>>) ELSE players[2][slot]
  IN IF players[1] = "arr"
       THEN WithMember(v, <<"players", <<"arr", Each(Upto(Len(players[2])), with)>>>>) ELSE v

NodesOf(typed) ==
  [slot \in Slots |-> IF typed[slot] = NoPose THEN Absent
                      ELSE <<"arr", Each(typed[slot], LAMBDA n : <<"num", n>>)>>]

Materialized(f) ==
  LET field(e) == CASE e[1] = "objects" -> <<"arr", Each(f.records, LAMBDA id : sources[id].value)>>
                    [] e[1] = "spawns" /\ f.spawns # NoRecord -> f.spawns.value
                    [] OTHER -> e[2]
  IN WithNodes(<<"obj", Each(f.tick[2], LAMBDA e : <<e[1], field(e)>>)>>, NodesOf(f.poses))

EndTick ==
  /\ ReaderAt("field") /\ root.index > root.size
  /\ root.found /\ cursor.rest = <<>> /\ count < film.expected
  /\ tick' = Edited(<<"obj", Truncated(root.members, root.size)>>, count)
  /\ root' = Root
  /\ count' = count + 1
  /\ sample' = IF film.sampled /\ count % Stride = 0
                  THEN Materialized([tick |-> tick', records |-> records, spawns |-> spawns, poses |-> poses])
                  ELSE Null
  /\ phase' = "push"
  /\ UNCHANGED <<cursor, object, records, pool, spawns, poses, sources>>

ReadFails ==
  \/ phase = "read" /\ count < Len(film.frames) /\ film.frames[count + 1][1][1] # "obj"
  \/ phase = "read" /\ count = Len(film.frames) /\ count # film.expected
  \/ /\ phase = "field" /\ root.index <= root.size
     /\ \/ ~Key.r.ok \/ KeyDuplicate
        \/ PlainField /\ ~Reuse(Key.r, OldField, 1).r.ok
        \/ TypedPlayers /\ ~Players(Key.r, OldField, poses).r.ok
        \/ Key.v = "objects" /\ ~NextIs(Key.r, "arr")
        \/ CachedSpawns /\ ~SpawnsAgain /\ ~SourceValue(Key.r, 1).r.ok
  \/ /\ phase = "field" /\ root.index > root.size
     /\ ~root.found \/ cursor.rest # <<>> \/ count >= film.expected
  \/ /\ phase = "object" /\ object.index <= object.size /\ ~Unchanged
     /\ ~ReadSource.r.ok \/ ~HasObjectType(ReadSource.v)

-----------------------------------------------------------------------------
(***************************************************************************)
(* A chunk, the same for both recordings; the one at 30 Hz has no records. *)
(***************************************************************************)
Records(ids) == Each(ids, LAMBDA id : [id |-> id, value |-> projected[id].value])
State(value, ids, spawned) == [tick |-> value, objects |-> Records(ids), spawns |-> spawned]

\* IncrementalChunk::new.
NewChunk(first, expected) ==
  LET length == IF expected - first < KeyframeInterval THEN expected - first ELSE KeyframeInterval
  IN [binary |-> PutVaruint(PutVaruint(Put(Writer, <<"HSRD", 1>>), first), length), length |-> 0,
      previous |-> Absent, before |-> Absent, previousObjects |-> <<>>, beforeObjects |-> <<>>,
      previousSpawns |-> NoSpawns, beforeSpawns |-> NoSpawns, decoded |-> <<>>, strings |-> <<>>,
      poses |-> NoPoses]

Opened(c, first, expected) == IF c = NoChunk THEN NewChunk(first, expected) ELSE c

\* verify_tick_state: the tick read back from its own bytes.
ReadBack(c, binary) ==
  LET bytes == SubSeq(binary.bytes, Len(c.binary.bytes) + 1, Len(binary.bytes))
  IN Then(ReadTick([Reader(bytes) EXCEPT !.strings = c.strings], c.decoded), LAMBDA v, r :
       IF binary.ok /\ r.at = Len(bytes) + 1 THEN Got(v, r) ELSE Bad(r))

\* push_state: the chunk with one more tick.
Grown(c, next, ids, binary, back) ==
  [c EXCEPT !.binary = binary, !.length = @ + 1, !.previous = next.tick, !.before = c.previous,
            !.previousObjects = ids, !.beforeObjects = c.previousObjects,
            !.previousSpawns = next.spawns, !.beforeSpawns = c.previousSpawns,
            !.decoded = IF Len(@) < 2 THEN Append(@, back.v) ELSE <<@[2], back.v>>,
            !.strings = back.r.strings]

VerifiedTick(c, next, ids, binary, back) ==
  IF back.r.ok /\ ExactTick(next, back.v) THEN Grown(c, next, ids, binary, back) ELSE NoChunk

PushTick(c, next, ids) ==
  LET binary == WriteTick(c.binary, State(c.before, c.beforeObjects, c.beforeSpawns),
                          State(c.previous, c.previousObjects, c.previousSpawns), next)
  IN IF PlaceholdersStand(next) THEN VerifiedTick(c, next, ids, binary, ReadBack(c, binary)) ELSE NoChunk

VerifiedWhole(c, value, binary, back) ==
  IF back.r.ok /\ Semantic(value) = Semantic(back.v)
    THEN Grown(c, [tick |-> value, spawns |-> NoSpawns], <<>>, binary, back) ELSE NoChunk

PushWhole(c, value) ==
  LET binary == IF c.previous = Absent THEN WriteValue(c.binary, value)
                ELSE WriteOrdered(c.binary, c.before, c.previous, value, FALSE)
  IN VerifiedWhole(c, value, binary, ReadBack(c, binary))

\* push_projected_with_poses: the chunk goes on, or is dispatched as a block.
Refused == [ok |-> FALSE, chunk |-> NoChunk, blocks |-> <<>>]

Sealed(block) == IF block = NoBlock THEN Refused ELSE [ok |-> TRUE, chunk |-> NoChunk, blocks |-> <<block>>]

Outcome(c, last) ==
  CASE c = NoChunk -> Refused
    [] c # NoChunk /\ (last \/ c.length = KeyframeInterval) -> Sealed(Finish(c.poses, c.binary.bytes))
    [] OTHER -> [ok |-> TRUE, chunk |-> c, blocks |-> <<>>]

-----------------------------------------------------------------------------
(***************************************************************************)
(* The 30 Hz recording: clocks and timers in its own ticks.                *)
(***************************************************************************)
Timed(player) ==
  LET timer == Member(player, "timer")
  IN IF IsNumber(timer) /\ timer[2] \in DOMAIN TimerAt
       THEN WithMember(player, <<"timer", <<"num", TimerAt[timer[2]]>>>>) ELSE player

Resampled(v, ordinal) ==
  LET players == Member(v, "players")
      clocked == WithMember(v, <<"current_tick", IntegerValue(ordinal \div Stride)>>)
  IN IF players[1] = "arr" THEN WithMember(clocked, <<"players", <<"arr", Each(players[2], Timed)>>>>)
                           ELSE clocked

Samples == Ceil(film.expected, Stride)

\* push_owned.
SampleValue(v) ==
  LET value == ProjectOwned(TickNode, v)
  IN IF Safe(v, RootDepth) /\ value # Rejected /\ Valid(value) THEN value ELSE Rejected

SamplePosed(c, value) ==
  IF value = Rejected \/ low.exported >= Samples THEN PosesRejected ELSE PushPoses(c.poses, value, NoTyped)

SampleChunk(c, posed) ==
  IF posed.ok THEN PushWhole([c EXCEPT !.poses = posed.encoder], posed.tick) ELSE NoChunk

SampleOutcome ==
  LET c == Opened(low.chunk, low.exported, Samples)
      posed == SamplePosed(c, SampleValue(Resampled(sample, count - 1)))
  IN Outcome(SampleChunk(c, posed), low.exported + 1 = Samples)

-----------------------------------------------------------------------------
(***************************************************************************)
(* IncrementalWorker: the tick swapped with that of a recycled frame.      *)
(***************************************************************************)
AfterPush == IF sample = Null THEN "read" ELSE "sample"

Push(frame, rest) ==
  /\ free' = rest
  /\ tick' = frame.tick
  /\ pending' = Append(pending, [tick |-> tick, records |-> records, spawns |-> spawns,
                                  poses |-> poses, ordinal |-> count])
  /\ phase' = IF Len(pending') = Batch THEN "send" ELSE AfterPush
  /\ UNCHANGED <<film, count, cursor, root, object, records, pool, spawns, poses, sample, low, queue,
                 worker, batch, at, index, exportVars, sources, projected>>

PushSpare ==
  /\ phase = "push" /\ free # <<>>
  /\ Push(Last(free), Front(free))
  /\ UNCHANGED <<allocated, returned>>

PushReturned ==
  /\ phase = "push" /\ free = <<>> /\ returned # <<>>
  /\ Push(Last(Head(returned)), Front(Head(returned)))
  /\ returned' = Tail(returned)
  /\ UNCHANGED allocated

PushNew ==
  /\ phase = "push" /\ free = <<>> /\ returned = <<>> /\ allocated < Frames
  /\ Push(Frame, <<>>)
  /\ allocated' = allocated + 1
  /\ UNCHANGED returned

Gone == worker = "failed"

Send ==
  /\ phase \in {"send", "last"} /\ queue = <<>> /\ ~Gone
  /\ queue' = pending
  /\ pending' = <<>>
  /\ phase' = IF phase = "send" THEN AfterPush ELSE "join"
  /\ UNCHANGED <<streamVars, free, allocated, returned, worker, batch, at, index, exportVars,
                 sources, projected>>

PushSample ==
  /\ phase = "sample"
  /\ \E outcome \in {SampleOutcome} :
       /\ outcome.ok
       /\ low' = [exported |-> low.exported + 1, chunk |-> outcome.chunk,
                  chunks |-> low.chunks \o outcome.blocks]
  /\ sample' = Null
  /\ phase' = "read"
  /\ UNCHANGED <<film, count, cursor, root, object, records, pool, spawns, poses, tick, frameVars, queue,
                 returned, worker, batch, at, index, exportVars, sources, projected>>

\* The engine has written every tick.
EndFilm ==
  /\ phase = "read" /\ count = Len(film.frames) /\ count = film.expected
  /\ phase' = IF pending = <<>> THEN "join" ELSE "last"
  /\ UNCHANGED <<streamVars, frameVars, queue, returned, worker, batch, at, index, exportVars,
                 sources, projected>>

Whole120 == exported = film.expected /\ chunk = NoChunk
Whole30 == film.sampled => low.exported = Samples /\ low.chunk = NoChunk

\* The artifacts are finished; a tick, or a worker that has gone, ends the film without one.
Publish ==
  /\ phase = "join" /\ worker = "done" /\ Whole120 /\ Whole30
  /\ phase' = "published"
  /\ UNCHANGED <<streamVars, frameVars, queue, returned, worker, batch, at, index, exportVars,
                 sources, projected>>

Fail ==
  /\ \/ ReadFails
     \/ Gone /\ phase \in {"send", "last", "join"}
     \/ Gone /\ phase = "push" /\ free = <<>> /\ returned = <<>> /\ allocated = Frames
     \/ phase = "join" /\ worker = "done" /\ ~(Whole120 /\ Whole30)
     \/ phase = "sample" /\ ~SampleOutcome.ok
  /\ phase' = "failed"
  /\ pending' = <<>>
  /\ records' = <<>> /\ pool' = <<>> /\ spawns' = NoRecord /\ root' = Root
  /\ poses' = NoTyped /\ sample' = Null
  /\ UNCHANGED <<film, count, cursor, object, tick, low, free, allocated, queue, returned, worker, batch, at, index,
                 exportVars, projected>>
  /\ sources' = Kept(sources, SourceLive')

-----------------------------------------------------------------------------
(***************************************************************************)
(* The worker: one frame after another.                                    *)
(***************************************************************************)
NodeOf(key) == (CHOOSE f \in Range(TickNode.fields) : f.source = key).node
ObjectsNode == NodeOf("objects")
ObjectDepth == RootDepth + 2
ObjectLimit == Limits[ObjectsNode.limit]
NoSpawnCache == [source |-> 0, id |-> 0, value |-> Absent]

TakeBatch ==
  /\ worker = "waiting" /\ queue # <<>>
  /\ worker' = "frame"
  /\ batch' = queue /\ queue' = <<>>
  /\ at' = 1 /\ index' = 1
  /\ UNCHANGED <<streamVars, phase, frameVars, returned, exportVars, sources, projected>>

EndWorker ==
  /\ worker = "waiting" /\ queue = <<>> /\ phase \in {"join", "failed"}
  /\ worker' = "done"
  /\ UNCHANGED <<streamVars, phase, frameVars, queue, returned, batch, at, index, exportVars, sources, projected>>

Now == batch[at]
Working == worker = "frame" /\ at <= Len(batch)
Source == sources[Now.records[index]]

TooManyObjects == TooMany(ObjectsNode, Now.records)
SameSource == index <= Len(cache) /\ projected[cache[index]].source = Now.records[index]

\* Wrong on purpose: what was encoded last does not keep its records.
SpareOfHistory == Spare(cachePool, Range(cache), projected)

ProjectedSpare == Spare(cachePool, ProjectedShared, projected)
ProjectSource ==
  ProjectReusing(ObjectsNode.items, Source.value,
                 IF ProjectedSpare.id = 0 THEN Null ELSE projected[ProjectedSpare.id].value)

\* The object is the one projected before, or beyond the limit.
SkipObject ==
  /\ Working /\ index <= Len(Now.records) /\ ~TooManyObjects
  /\ SameSource \/ (index > ObjectLimit /\ Safe(Source.value, ObjectDepth))
  /\ index' = index + 1
  /\ UNCHANGED <<streamVars, phase, frameVars, queue, returned, worker, batch, at, exportVars,
                 sources, projected>>

ProjectObject ==
  /\ Working /\ index <= Len(Now.records) /\ ~TooManyObjects
  /\ ~SameSource /\ index <= ObjectLimit /\ Safe(Source.value, ObjectDepth)
  /\ UNCHANGED <<streamVars, phase, frameVars, queue, returned, worker, batch, at, spawnCache, spare,
                 nodeSpares, chunk, exported, chunks>>
  /\ \E taken \in {ProjectedSpare}, value \in {ProjectSource} :
       LET id == IF taken.id = 0 THEN Fresh(DOMAIN projected) ELSE taken.id
           bytes == Source.bytes + IF taken.id = 0 THEN 0 ELSE projected[id].bytes
           heap == (id :> [source |-> Now.records[index], value |-> value, bytes |-> bytes]) @@ projected
       IN /\ value # Rejected /\ ValidObject(value)
          /\ cachePool' = Retired(taken.rest, cache, index, heap)
          /\ cache' = Placed(cache, index, id)
          /\ index' = index + 1
          /\ projected' = Kept(heap, ProjectedLive')
          /\ sources' = Kept(sources, SourceLive')

ProjectedSpawnIds ==
  ({spawnCache.id} \cup IF chunk = NoChunk THEN {} ELSE {chunk.previousSpawns.id, chunk.beforeSpawns.id}) \ {0}

\* SpawnCache::project.
ProjectSpawns(record, value) ==
  CASE record = NoRecord -> NoSpawnCache
    [] record # NoRecord /\ spawnCache.source = record.id -> spawnCache
    [] OTHER -> [source |-> record.id, id |-> Fresh(ProjectedSpawnIds), value |-> value]

SpawnsValue(record) ==
  IF record = NoRecord THEN Absent
  ELSE LET value == ProjectCompiled(NodeOf("spawns"), record.value)
       IN IF Safe(record.value, RootDepth + 1) /\ value # Rejected /\ ValidSpawns(value) THEN value ELSE Rejected

\* The players whose nodes are lent to the projected tick: numbers, as many as a rig has.
Lent(source) ==
  LET players == Member(source, "players")
      nodes(slot) == Member(players[2][slot], "nodes")
  IN {slot \in Slots : /\ players[1] = "arr" /\ slot <= Len(players[2])
                       /\ nodes(slot)[1] = "arr"
                       /\ KnownRig(TagOf(players[2][slot]), Len(nodes(slot)[2]))
                       /\ \A node \in Range(nodes(slot)[2]) : IsNumber(node)}

\* push_incremental_with_projection, push_source_with_projection.
LentNow(source, typed) == IF typed = NoTyped THEN Lent(source) ELSE {}

ProjectionTarget(lent, typed) ==
  IF typed = NoTyped /\ lent = {} THEN WithNodes(spare, nodeSpares) ELSE spare

TickValue(source, typed) ==
  LET lent == LentNow(source, typed)
      nodes == [slot \in Slots |-> IF slot \in lent THEN Member(Member(source, "players")[2][slot], "nodes")
                                                   ELSE Absent]
      given == WithNodes(source, [slot \in Slots |-> IF slot \in lent THEN Placeholder ELSE Absent])
      value == WithNodes(ProjectPlanned(TickNode, given, ProjectionTarget(lent, typed)), nodes)
  IN IF /\ Safe(source, RootDepth) /\ value # Rejected /\ Valid(value)
        /\ \A slot \in Slots : \A node \in Range(typed[slot]) : ValidNode(node)
       THEN value ELSE Rejected

\* The nodes taken out of the projected tick, but for those given back to the source.
KeptNodes(removed) ==
  [slot \in Slots |-> IF slot \in LentNow(Now.tick, Now.poses) THEN Absent ELSE removed[slot]]

Posed(c, cached, value, typed) ==
  IF cached.value = Rejected \/ value = Rejected \/ exported >= film.expected THEN PosesRejected
  ELSE PushPoses(c.poses, value, typed)

Encoded(c, cached, posed) ==
  LET ids == Truncated(cache, Len(Now.records))
  IN IF posed.ok THEN PushTick([c EXCEPT !.poses = posed.encoder],
                               State(posed.tick, ids, [id |-> cached.id, value |-> cached.value]), ids)
     ELSE NoChunk

ExportTick ==
  /\ Working /\ index > Len(Now.records) /\ ~TooManyObjects
  /\ \E c \in {Opened(chunk, exported, film.expected)},
        cached \in {ProjectSpawns(Now.spawns, SpawnsValue(Now.spawns))} :
     \E posed \in {Posed(c, cached, TickValue(Now.tick, Now.poses), Now.poses)} :
     \E outcome \in {Outcome(Encoded(c, cached, posed), exported + 1 = film.expected)} :
       /\ spawnCache' = cached
       /\ spare' = IF c.before = Absent THEN Null ELSE c.before
       /\ nodeSpares' = KeptNodes(posed.removed)
       /\ worker' = IF outcome.ok THEN worker ELSE "failing"
       /\ chunk' = outcome.chunk
       /\ chunks' = chunks \o outcome.blocks
       /\ exported' = IF outcome.ok THEN exported + 1 ELSE exported
  /\ cache' = Truncated(cache, Len(Now.records))
  /\ batch' = [batch EXCEPT ![at].records = <<>>, ![at].spawns = NoRecord]
  /\ at' = at + 1
  /\ index' = 1
  /\ UNCHANGED <<streamVars, phase, frameVars, queue, returned, cachePool>>
  /\ projected' = Kept(projected, ProjectedLive')
  /\ sources' = Kept(sources, SourceLive')

ReturnBatch ==
  /\ worker = "frame" /\ at > Len(batch)
  /\ returned' = Append(returned, batch)
  /\ batch' = <<>> /\ at' = 1
  /\ worker' = "waiting"
  /\ UNCHANGED <<streamVars, phase, frameVars, queue, index, exportVars, sources, projected>>

ObjectRejected ==
  \/ ~Safe(Source.value, ObjectDepth)
  \/ index <= ObjectLimit /\ (ProjectSource = Rejected \/ ~ValidObject(ProjectSource))

\* An error ends the worker: its batch, its export and the channel go with it.
Abandon ==
  /\ \/ worker = "failing"
     \/ Working /\ TooManyObjects
     \/ Working /\ index <= Len(Now.records) /\ ~SameSource /\ ObjectRejected
  /\ worker' = "failed"
  /\ queue' = <<>> /\ batch' = <<>> /\ at' = 1
  /\ cache' = <<>> /\ cachePool' = <<>> /\ chunk' = NoChunk /\ spawnCache' = NoSpawnCache
  /\ projected' = <<>>
  /\ UNCHANGED <<streamVars, phase, frameVars, returned, index, spare, nodeSpares, exported, chunks>>
  /\ sources' = Kept(sources, SourceLive')

Ended == phase \in {"published", "failed"} /\ worker \in {"done", "failed"} /\ UNCHANGED vars

Read == BeginTick \/ ReadField \/ ReadPlayers \/ ReadSpawns \/ BeginObjects \/ ReuseObject \/ DecodeObject \/ EndObjects \/ EndTick
Hand == PushSpare \/ PushReturned \/ PushNew \/ Send \/ PushSample \/ EndFilm \/ Publish \/ Fail
Export == TakeBatch \/ SkipObject \/ ProjectObject \/ ExportTick \/ ReturnBatch \/ Abandon \/ EndWorker

Next == Read \/ Hand \/ Export \/ Ended

Spec == Init /\ [][Next]_vars

-----------------------------------------------------------------------------
(***************************************************************************)
(* Properties.                                                             *)
(***************************************************************************)
\* Cursor::value reads a whole tick.
Generic(n) == SourceValue(Cursor(film.frames[n]), 0)
GenericTick(n) == Edited(Generic(n).v, n - 1)

\* A frame holds the tick it was filled with until it is exported, to the order of its
\* members: no record of it is written over while it waits, and nothing is left in it of
\* the ticks it was recycled from (transport.rs:808, recycle.rs:23, pipeline.rs:132).
FramesHoldTheirTick ==
  \A f \in Range(InFlight) : Generic(f.ordinal).r.ok /\ Materialized(f) = GenericTick(f.ordinal)

\* The reader and the worker share records as RecordHeap has it.
ObjectsRead(wire) ==
  LET read == SourceValue(Cursor(wire), 0)
  IN IF read.r.ok /\ read.v[1] = "obj" /\ Member(read.v, "objects")[1] = "arr"
       THEN Member(read.v, "objects")[2] ELSE <<>>
FilmObjects == [f \in Films |-> Each(f.frames, ObjectsRead)]

HeapFrames ==
  [n \in {f.ordinal : f \in Range(InFlight)} |->
     [records |-> (CHOOSE f \in Range(InFlight) : f.ordinal = n).records,
      held |-> FilmObjects[film][n]]]

Heap == INSTANCE RecordHeap WITH
  Projection <- LAMBDA v : ProjectCompiled(ObjectsNode.items, v),
  Beyond <- {i \in Nat : i > ObjectLimit},
  pool <- Range(pool),
  cachePool <- Range(cachePool),
  frames <- HeapFrames,
  now <- IF Working THEN Now.ordinal ELSE 0,
  history <- History,
  sources <- [s \in DOMAIN sources |-> sources[s].value],
  projected <- [p \in DOMAIN projected |->
                  [source |-> projected[p].source, value |-> projected[p].value]]

HeapSpec == Heap!Spec

GenericProjection(n) == ProjectTick(GenericTick(n))
GenericSample(n) == ProjectTick(Resampled(GenericTick((n - 1) * Stride + 1), (n - 1) * Stride))

Acceptable(n) ==
  /\ n <= film.expected
  /\ Generic(n).r.ok /\ Generic(n).r.rest = <<>> /\ Generic(n).v[1] = "obj"
  /\ Member(Generic(n).v, "objects")[1] = "arr"
  /\ \A item \in Range(Member(Generic(n).v, "objects")[2]) : HasObjectType(item)
  /\ GenericProjection(n) # Rejected /\ HasPlayers(GenericProjection(n))

\* The projected ticks of the chunk that comes next.
ChunkTicks(done, ended, Projection(_)) ==
  Each(Upto(ended - done * KeyframeInterval), LAMBDA i : Projection(done * KeyframeInterval + i))

\* A dispatched chunk of either recording is what the generic projection, pose and delta
\* codecs make of its ticks, and a film is only given up for a tick they reject or a wrong
\* number of ticks: reuse, records, typed poses and fused predictors change no output.
IncrementalIsGeneric ==
  [][/\ chunks' # chunks =>
          Last(chunks') = Pack(ChunkTicks(Len(chunks), exported', GenericProjection),
                               Len(chunks) * KeyframeInterval)
     /\ low'.chunks # low.chunks =>
          Last(low'.chunks) = Pack(ChunkTicks(Len(low.chunks), low'.exported, GenericSample),
                                   Len(low.chunks) * KeyframeInterval)
     /\ phase' = "failed" /\ phase # "failed" =>
          \/ Len(film.frames) # film.expected
          \/ \E n \in DOMAIN film.frames : ~Acceptable(n)]_vars

ReplaysAll(block, ticks) ==
  LET unpacked == Unpack(block)
  IN /\ Len(unpacked.ticks) = Len(ticks)
     /\ \A i \in DOMAIN ticks : Replays(ticks[i], unpacked.ticks[i])

\* What a reader gets out of a dispatched chunk is its projected ticks, with each pose
\* exactly or within the error, at the tick and the player it was taken from (verify,
\* lib.rs:38, which the encoder calls only in its tests).
PosesReplay ==
  [][/\ chunks' # chunks => ReplaysAll(Last(chunks'), ChunkTicks(Len(chunks), exported', GenericProjection))
     /\ low'.chunks # low.chunks =>
          ReplaysAll(Last(low'.chunks), ChunkTicks(Len(low.chunks), low'.exported, GenericSample))]_vars

=============================================================================
