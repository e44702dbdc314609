-------------------------------- MODULE PoseCodec --------------------------------
(***************************************************************************)
(* The pose codec (pose_codec/src): an encoder takes the poses of a        *)
(* chunk's ticks out of them and keeps them as runs of integers (wire.rs,  *)
(* pose.rs); reading puts them back.                                       *)
(*                                                                         *)
(* A node is 13 numbers: a position, a scale and a matrix.  Here it is one *)
(* number and PositionOf says where it is; rotations and scales, which are *)
(* coded against the parent in the same way, are left out.  A player has   *)
(* the members "name" (the tag of its object), "x" (where that is), "id"   *)
(* (the three that identify it) and "nodes".  The settings are those of    *)
(* lib.rs, local3-fine: a node is coded against its parent in the source,  *)
(* so what the parents lost adds up.                                       *)
(***************************************************************************)
EXTENDS ViewerProjection

CONSTANTS
  Rigs,         \* skeletons: a tag and, for each node, its parent or 0
  MaxPlayers,   \* MAX_PLAYERS, 16
  PositionOf,   \* where a number is, in units finer than Step
  Rigid,        \* the numbers that stand for a node with a transform
  Step,         \* translation_step
  PoseError,    \* point_error_limit
  MaxQuantum    \* the largest integer of a track

Slots == 1..MaxPlayers
Placeholder == <<"arr", <<>>>>
NoPose == <<>>
NoTyped == [slot \in Slots |-> NoPose]

\* pose::order: parents before children; nothing for a cycle.
RECURSIVE OrderFrom(_, _)
OrderFrom(parents, sorted) ==
  LET placed(done, i) == i \notin Range(done) /\ (parents[i] = 0 \/ parents[i] \in Range(done))
      pass == Fold(LAMBDA done, i : IF placed(done, i) THEN Append(done, i) ELSE done,
                   sorted, Upto(Len(parents)))
  IN CASE Len(sorted) = Len(parents) -> sorted
       [] Len(sorted) < Len(parents) /\ Len(pass) = Len(sorted) -> <<>>
       [] OTHER -> OrderFrom(parents, pass)

Order(parents) ==
  IF \E i \in DOMAIN parents : parents[i] \notin 0..Len(parents) \ {i}
    THEN <<>> ELSE OrderFrom(parents, <<>>)

KnownRig(tag, count) == \E rig \in Rigs : rig.tag = tag /\ Len(rig.parents) = count
ParentsOf(tag, count) == (CHOOSE rig \in Rigs : rig.tag = tag /\ Len(rig.parents) = count).parents

HasPlayers(tick) ==
  Member(tick, "players")[1] = "arr" /\ Len(Member(tick, "players")[2]) <= MaxPlayers

TagOf(player) == LET tag == Member(player, "name") IN IF tag[1] = "str" THEN tag[2] ELSE ""
Origin(player) == LET x == Member(player, "x") IN IF IsNumber(x) THEN PositionOf[x[2]] ELSE 0

-----------------------------------------------------------------------------
(***************************************************************************)
(* Quantizing a pose, and back.                                            *)
(***************************************************************************)
\* round: halves away from zero.
Nearest(distance) ==
  LET steps == (2 * Abs(distance) + Step) \div (2 * Step)
  IN IF distance < 0 THEN -steps ELSE steps

Reconstruct(values, parents, origin) ==
  Fold(LAMBDA world, i :
         [world EXCEPT ![i] = values[i] * Step + IF parents[i] = 0 THEN origin ELSE world[parents[i]]],
       values, Order(parents))

\* point_bound.
Bounded(pose, values, parents, origin) ==
  LET restored == Reconstruct(values, parents, origin)
  IN \A i \in DOMAIN pose : Abs(PositionOf[pose[i]] - restored[i]) <= PoseError

\* Quantizer::quantize: nothing, when a node cannot be restored within the error.
Unquantized == <<>>
Quantized(pose, parents, origin) ==
  LET reference(i) == IF parents[i] = 0 THEN origin ELSE PositionOf[pose[parents[i]]]
      values == Each(Upto(Len(pose)), LAMBDA i : Nearest(PositionOf[pose[i]] - reference(i)))
  IN IF /\ \A i \in DOMAIN pose : pose[i] \in Rigid /\ Abs(values[i]) <= MaxQuantum
        /\ Bounded(pose, values, parents, origin)
       THEN values ELSE Unquantized

\* A pose that cannot be quantized is kept as it is.
PoseFrame(pose, parents, origin) ==
  LET values == Quantized(pose, parents, origin)
  IN IF values = Unquantized THEN [values |-> Each(pose, LAMBDA node : 0), raw |-> pose]
                             ELSE [values |-> values, raw |-> NoPose]

-----------------------------------------------------------------------------
(***************************************************************************)
(* The encoder: a run is the poses of one player in consecutive ticks.     *)
(***************************************************************************)
NoPoses == [runs |-> <<>>, latest |-> [slot \in Slots |-> 0], count |-> 0]
Identity(player) == Member(player, "id")

\* Wrong on purpose: a run goes on after ticks without a pose.
ContinuesOverGaps(encoder, slot, player, nodes) ==
  LET latest == encoder.latest[slot]
      run == encoder.runs[latest]
  IN /\ latest # 0
     /\ run.identity = Identity(player)
     /\ run.tag = TagOf(player) /\ Len(run.parents) = nodes

Continues(encoder, slot, player, nodes) ==
  LET latest == encoder.latest[slot]
      run == encoder.runs[latest]
  IN /\ latest # 0
     /\ run.first + Len(run.frames) = encoder.count
     /\ run.identity = Identity(player)
     /\ run.tag = TagOf(player) /\ Len(run.parents) = nodes

Begun(encoder, slot, player, nodes) ==
  LET run == [first |-> encoder.count, player |-> slot, identity |-> Identity(player),
              tag |-> TagOf(player), parents |-> ParentsOf(TagOf(player), nodes), frames |-> <<>>]
  IN [encoder EXCEPT !.runs = Append(@, run), !.latest[slot] = Len(encoder.runs) + 1]

Coded(encoder, slot, player, pose) ==
  LET begun == IF Continues(encoder, slot, player, Len(pose)) THEN encoder
               ELSE Begun(encoder, slot, player, Len(pose))
  IN [begun EXCEPT !.runs[begun.latest[slot]].frames =
        Append(@, PoseFrame(pose, begun.runs[begun.latest[slot]].parents, Origin(player)))]

WithoutNodes(player) == <<"obj", SelectSeq(player[2], LAMBDA e : e[1] # "nodes")>>

\* The tick goes on without a pose that was coded, which must come back within the error.
Taken(acc, slot, player, pose, coded) ==
  LET run == coded.runs[coded.latest[slot]]
      frame == Last(run.frames)
  IN [ok |-> frame.raw # NoPose \/ Bounded(pose, frame.values, run.parents, Origin(player)),
      encoder |-> coded, players |-> [acc.players EXCEPT ![slot] = WithoutNodes(player)],
      removed |-> [acc.removed EXCEPT ![slot] = Member(player, "nodes")]]

\* A player's pose is the one given, in the place of an empty array, or that of its nodes.
PushPlayer(acc, slot, typed) ==
  LET player == acc.players[slot]
      nodes == Member(player, "nodes")
      given == typed[slot] # NoPose
      present == given \/ (nodes[1] = "arr" /\ nodes # Placeholder)
      legible == IF given THEN nodes = Placeholder ELSE \A node \in Range(nodes[2]) : IsNumber(node)
      pose == IF given THEN typed[slot] ELSE Numbers(nodes)
      known == KnownRig(TagOf(player), Len(pose))
  IN CASE ~present -> acc
       [] present /\ ~(legible /\ (given => known)) -> [acc EXCEPT !.ok = FALSE]
       [] present /\ legible /\ ~given /\ ~known -> acc
       [] OTHER -> Taken(acc, slot, player, pose, Coded(acc.encoder, slot, player, pose))

\* Encoder::push_typed_recycling: the tick without those poses, and what was removed from it.
NoNodes == [slot \in Slots |-> Absent]
PosesRejected == [ok |-> FALSE, encoder |-> NoPoses, tick |-> Absent, removed |-> NoNodes]

PushPoses(encoder, tick, typed) ==
  LET players == Member(tick, "players")
      start == [ok |-> TRUE, encoder |-> encoder, players |-> players[2], removed |-> NoNodes]
      pushed == Fold(LAMBDA acc, slot : IF acc.ok THEN PushPlayer(acc, slot, typed) ELSE acc,
                     start, Upto(Len(players[2])))
      finished == [ok |-> pushed.ok, encoder |-> [pushed.encoder EXCEPT !.count = @ + 1],
                   tick |-> WithMember(tick, <<"players", <<"arr", pushed.players>>>>),
                   removed |-> pushed.removed]
  IN IF ~HasPlayers(tick) \/ \E slot \in Slots : slot > Len(players[2]) /\ typed[slot] # NoPose
       THEN PosesRejected ELSE finished

-----------------------------------------------------------------------------
(***************************************************************************)
(* The bytes of the runs, and back.                                        *)
(***************************************************************************)
\* track: a constant, the differences, or theirs where that is shorter.
Track(values) ==
  LET first == Each(Upto(Len(values) - 1), LAMBDA i : values[i + 1] - values[i])
      second == Each(Upto(Len(first)), LAMBDA i : first[i] - IF i = 1 THEN 0 ELSE first[i - 1])
      bytes(differences) == FlattenSeq(Each(differences, LAMBDA d : VaruintBytes(Zigzag(d))))
  IN CASE Range(values) = {values[1]} -> <<0, values[1]>>
       [] Len(bytes(second)) < Len(bytes(first)) -> <<2, values[1]>> \o bytes(second)
       [] OTHER -> <<1, values[1]>> \o bytes(first)

Untracked(mode, got, d) ==
  LET delta == Unzigzag(d) + IF mode = 2 THEN got.delta ELSE 0
  IN [values |-> Append(got.values, Last(got.values) + delta), delta |-> delta]

Untrack(r, count) ==
  Then(ReadBytes(r, 2), LAMBDA head, s :
    CASE head[1] \notin 0..2 -> Bad(s)
      [] head[1] = 0 -> Got(Each(Upto(count), LAMBDA i : head[2]), s)
      [] OTHER ->
           Then(Fold(LAMBDA acc, i : Then(acc, LAMBDA got, t :
                       Then(ReadVaruint(t), LAMBDA d, u : Got(Untracked(head[1], got, d), u))),
                     Got([values |-> <<head[2]>>, delta |-> 0], s), Upto(count - 1)),
                LAMBDA got, t : Got(got.values, t)))

RunBytes(run) ==
  LET length == Len(run.frames)
      tracks == Each(Upto(Len(run.parents)), LAMBDA node :
                  Track(Each(run.frames, LAMBDA f : f.values[node])))
      raws == SelectSeq(Upto(length), LAMBDA k : run.frames[k].raw # NoPose)
  IN <<run.first, run.player, length, Len(run.parents)>> \o run.parents \o FlattenSeq(tracks)
       \o <<Len(raws)>> \o FlattenSeq(Each(raws, LAMBDA k : <<k>> \o run.frames[k].raw))

PoseBytes(runs) == <<Len(runs)>> \o FlattenSeq(Each(runs, RunBytes))

RawPose(raws, k) == IF \E raw \in Range(raws) : raw[1] = k
                      THEN Tail(CHOOSE raw \in Range(raws) : raw[1] = k) ELSE NoPose

ReadRun(r) ==
  Then(ReadBytes(r, 4), LAMBDA head, s :
  Then(ReadBytes(s, head[4]), LAMBDA parents, t :
  Then(ReadMany(t, head[4], LAMBDA u, node : Untrack(u, head[3])), LAMBDA tracks, u :
  Then(ReadByte(u), LAMBDA count, x :
  Then(ReadMany(x, count, LAMBDA y, i : ReadBytes(y, 1 + head[4])), LAMBDA raws, y :
    Got([first |-> head[1], player |-> head[2], parents |-> parents,
         frames |-> Each(Upto(head[3]), LAMBDA k :
           [values |-> Each(tracks, LAMBDA track : track[k]), raw |-> RawPose(raws, k)])], y))))))

\* All of them, to the last byte.
ReadRuns(bytes) ==
  Then(Then(ReadByte(Reader(bytes)), LAMBDA count, s : ReadMany(s, count, LAMBDA t, i : ReadRun(t))),
       LAMBDA runs, s : IF s.at = Len(bytes) + 1 THEN Got(runs, s) ELSE Bad(s))

\* verify_tracks: reading them gives the same runs.
TracksVerified(bytes, runs) ==
  LET written == Each(runs, LAMBDA run : [first |-> run.first, player |-> run.player,
                                          parents |-> run.parents, frames |-> run.frames])
  IN ReadRuns(bytes).r.ok /\ ReadRuns(bytes).v = written

\* Encoder::finish: the chunk is its ticks and its runs.
NoBlock == [base |-> <<>>, poses |-> <<>>]
Finish(encoder, base) ==
  LET bytes == PoseBytes(encoder.runs)
  IN IF encoder.count > 0 /\ TracksVerified(bytes, encoder.runs) THEN [base |-> base, poses |-> bytes] ELSE NoBlock

-----------------------------------------------------------------------------
(***************************************************************************)
(* Packing whole ticks, and unpacking a chunk.                             *)
(***************************************************************************)
Pack(ticks, first) ==
  LET pushed == Fold(LAMBDA acc, tick :
                       LET one == PushPoses(acc.encoder, tick, NoTyped)
                       IN [encoder |-> one.encoder, base |-> Append(acc.base, one.tick)],
                     [encoder |-> NoPoses, base |-> <<>>], ticks)
  IN Finish(pushed.encoder, EncodeChunk(pushed.base, first).bytes)

\* A restored node is a place.
Restored(run, k, player) ==
  LET f == run.frames[k]
      places == Reconstruct(f.values, run.parents, Origin(player))
  IN <<"arr", IF f.raw # NoPose THEN Each(f.raw, LAMBDA n : <<"num", n>>)
              ELSE Each(places, LAMBDA place : <<"place", place>>)>>

\* Where a run puts poses: there must be a player, and no nodes yet.
Fits(run, ticks) ==
  /\ run.frames # <<>> /\ run.parents # <<>> /\ Order(run.parents) # <<>>
  /\ run.first + Len(run.frames) <= Len(ticks)
  /\ \A k \in DOMAIN run.frames :
       LET players == Member(ticks[run.first + k], "players")
       IN players[1] = "arr" /\ run.player \in DOMAIN players[2] /\ ~Has(players[2][run.player][2], "nodes")

Unpacked(ticks, run) ==
  Each(Upto(Len(ticks)), LAMBDA i :
    LET k == i - run.first
        players == Member(ticks[i], "players")[2]
        player == players[run.player]
    IN IF k \notin DOMAIN run.frames THEN ticks[i]
       ELSE WithMember(ticks[i], <<"players", <<"arr",
              [players EXCEPT ![run.player] = WithMember(player, <<"nodes", Restored(run, k, player)>>)]>>>>))

Unpack(block) ==
  LET base == DecodeChunk(block.base)
      runs == ReadRuns(block.poses)
      ticks == Fold(LAMBDA done, run : IF done # <<>> /\ Fits(run, done) THEN Unpacked(done, run) ELSE <<>>,
                    base.ticks, runs.v)
      legible == base # Undecodable /\ \A tick \in Range(base.ticks) : HasPlayers(tick)
  IN IF ~legible \/ ~runs.r.ok \/ ticks = <<>> THEN Undecodable
     ELSE [first |-> base.first, ticks |-> ticks]

\* verify: the same ticks, with every pose within the error or exactly the same.
SamePose(source, decoded) ==
  \/ source = decoded
  \/ /\ source[1] = "arr" /\ decoded[1] = "arr" /\ Len(source[2]) = Len(decoded[2])
     /\ \A i \in DOMAIN source[2] :
          LET node == source[2][i] restored == decoded[2][i]
          IN \/ node = restored
             \/ restored[1] = "place" /\ Abs(PositionOf[node[2]] - restored[2]) <= PoseError

SamePlayer(source, decoded) ==
  /\ DeltaSame(WithoutNodes(source), WithoutNodes(decoded))
  /\ SamePose(Member(source, "nodes"), Member(decoded, "nodes"))

Replays(source, decoded) ==
  LET before == Member(source, "players")
      after == Member(decoded, "players")
  IN /\ DeltaSame(WithMember(source, <<"players", Null>>), WithMember(decoded, <<"players", Null>>))
     /\ Len(before[2]) = Len(after[2])
     /\ \A i \in DOMAIN before[2] : SamePlayer(before[2][i], after[2][i])

=============================================================================
