------------------------------ MODULE FilmTransport ------------------------------
(***************************************************************************)
(* The values of encoder/src/transport.rs: the engine writes a tick as a   *)
(* sequence of tokens, and the encoder reads it either into a new value or *)
(* over an old one, keeping the allocations of the tick before.            *)
(*                                                                         *)
(* A token is <<"arr", n>> or <<"obj", n>> before n items or members,       *)
(* <<"key", k>>, a scalar as in ViewerDelta, or <<"node", n>>: a node may   *)
(* be packed, and the nodes of a player then make a typed pose.  The       *)
(* packed forms of an object and a spawn are other writings of the same    *)
(* values, and the byte limits bound the same tokens: both are left out.   *)
(***************************************************************************)
EXTENDS PoseCodec

CONSTANTS
  MaxNesting,   \* 32, collections within each other
  MaxSlots      \* 64, entries that are moved in place

Cursor(tokens) == [ok |-> TRUE, rest |-> tokens]

NextToken(c) ==
  IF c.rest = <<>> THEN Bad(c) ELSE Got(Head(c.rest), [c EXCEPT !.rest = Tail(@)])

Text(c) ==
  Then(NextToken(c), LAMBDA token, s : IF token[1] = "key" THEN Got(token[2], s) ELSE Bad(s))

NextIs(c, kind) == c.rest # <<>> /\ Head(c.rest)[1] = kind

\* What is left of a new value's wire.
Consumed(before, after) == SubSeq(before.rest, 1, Len(before.rest) - Len(after.rest))

DistinctKeys(entries) == \A i, j \in DOMAIN entries : entries[i][1] = entries[j][1] => i = j

\* Cursor::value: a new value.
RECURSIVE SourceValue(_, _)

SourceMember(c, depth) ==
  Then(Text(c), LAMBDA key, s : Then(SourceValue(s, depth), LAMBDA v, t : Got(<<key, v>>, t)))

SourceValue(c, depth) ==
  IF depth >= MaxNesting THEN Bad(c)
  ELSE Then(NextToken(c), LAMBDA tag, s :
    CASE tag[1] = "arr" ->
           Then(ReadMany(s, tag[2], LAMBDA t, i : SourceValue(t, depth + 1)), LAMBDA items, t :
             Got(<<"arr", items>>, t))
      [] tag[1] = "obj" ->
           Then(ReadMany(s, tag[2], LAMBDA t, i : SourceMember(t, depth + 1)), LAMBDA entries, t :
             IF DistinctKeys(entries) THEN Got(<<"obj", entries>>, t) ELSE Bad(t))
      [] tag[1] = "key" -> Bad(s)
      [] tag[1] = "node" -> Got(<<"num", tag[2]>>, s)
      [] OTHER -> Got(tag, s))

-----------------------------------------------------------------------------
(***************************************************************************)
(* The same over an old value.                                             *)
(***************************************************************************)
OldMember(members, key) == IF Has(members, key) THEN Get(members, key) ELSE Null
OldItem(v, i) == IF v[1] = "arr" /\ i <= Len(v[2]) THEN v[2][i] ELSE Null

Duplicate == <<>>

\* ordered_slot: the members with this key at the index, its old value kept.
Slot(members, index, key) ==
  CASE index <= Len(members) /\ members[index][1] = key -> members
    [] \E i \in DOMAIN members : i < index /\ members[i][1] = key -> Duplicate
    [] OTHER -> InsertAt(SelectSeq(members, LAMBDA e : e[1] # key), index,
                         <<key, OldMember(members, key)>>)

Truncated(members, count) == SubSeq(members, 1, IF count < Len(members) THEN count ELSE Len(members))

\* Cursor::reuse.
RECURSIVE Reuse(_, _, _)

ReuseItems(c, target, count, depth) ==
  Then(ReadMany(c, count, LAMBDA s, i : Reuse(s, OldItem(target, i), depth)), LAMBDA items, s :
    Got(<<"arr", items>>, s))

\* Over the old members while the keys are theirs in their order.
InPlace(c, members, depth) ==
  Fold(LAMBDA acc, i :
         Then(acc, LAMBDA got, s :
           IF ~got.matched THEN acc
           ELSE Then(Text(s), LAMBDA key, t :
             IF key # members[i][1] THEN Got([got EXCEPT !.matched = FALSE], t)
             ELSE Then(Reuse(t, members[i][2], depth), LAMBDA v, u :
               Got([got EXCEPT !.members[i] = <<key, v>>], u)))),
       Got([members |-> members, matched |-> TRUE], c), Upto(Len(members)))

\* Each key moved to its place; the members beyond the count are dropped.
ReuseSlots(c, members, count, depth) ==
  Then(Fold(LAMBDA acc, i :
         Then(acc, LAMBDA output, s : Then(Text(s), LAMBDA key, t :
           IF Slot(output, i, key) = Duplicate THEN Bad(t)
           ELSE Then(Reuse(t, Slot(output, i, key)[i][2], depth), LAMBDA v, u :
             Got([Slot(output, i, key) EXCEPT ![i] = <<key, v>>], u)))),
       Got(members, c), Upto(count)), LAMBDA output, s :
    Got(<<"obj", Truncated(output, count)>>, s))

\* A new object that takes over the old values.
ReuseMoved(c, members, count, depth) ==
  Then(Fold(LAMBDA acc, i :
         Then(acc, LAMBDA output, s : Then(Text(s), LAMBDA key, t :
           Then(Reuse(t, OldMember(members, key), depth), LAMBDA v, u :
             IF Has(output, key) THEN Bad(u) ELSE Got(Append(output, <<key, v>>), u)))),
       Got(<<>>, c), Upto(count)), LAMBDA output, s : Got(<<"obj", output>>, s))

ReuseMembers(c, members, count, depth) ==
  LET place == InPlace(c, members, depth)
      old == IF count = Len(members) THEN place.v.members ELSE members
  IN CASE count = Len(members) /\ (~place.r.ok \/ place.v.matched) ->
            IF place.r.ok THEN Got(<<"obj", place.v.members>>, place.r) ELSE Bad(place.r)
       [] ~(count = Len(members) /\ (~place.r.ok \/ place.v.matched))
            /\ count <= MaxSlots /\ Len(members) <= MaxSlots -> ReuseSlots(c, old, count, depth)
       [] OTHER -> ReuseMoved(c, old, count, depth)

Reuse(c, target, depth) ==
  IF depth >= MaxNesting \/ c.rest = <<>> THEN Bad(c)
  ELSE LET tag == Head(c.rest)
           after == [c EXCEPT !.rest = Tail(@)]
       IN CASE tag[1] = "arr" /\ target[1] = "arr" -> ReuseItems(after, target, tag[2], depth + 1)
            [] tag[1] = "obj" /\ target[1] = "obj" ->
                 ReuseMembers(after, target[2], tag[2], depth + 1)
            [] OTHER -> SourceValue(c, depth)

-----------------------------------------------------------------------------
(***************************************************************************)
(* The players, with the poses beside them: NoPose for those of a player   *)
(* whose nodes are in its value.  A pose stays until another is read.      *)
(***************************************************************************)
\* Cursor::pose.
PackedNodes(c) == IF NextIs(c, "arr") THEN Head(c.rest)[2] ELSE 0
PackedPose(c) ==
  LET count == PackedNodes(c)
  IN count > 0 /\ Len(c.rest) > count /\ \A i \in 2..count + 1 : c.rest[i][1] = "node"

\* player_field.
PlayerField(c, key, old) ==
  LET count == PackedNodes(c)
  IN IF key = "nodes" /\ PackedPose(c)
       THEN Got([value |-> Placeholder, pose |-> Each(Upto(count), LAMBDA i : c.rest[i + 1][2])],
                [c EXCEPT !.rest = SubSeq(@, count + 2, Len(@))])
       ELSE Then(Reuse(c, old, 3), LAMBDA v, s : Got([value |-> v, pose |-> NoPose], s))

Noted(pose, key, field) == IF key = "nodes" THEN field.pose ELSE pose

PlayerInPlace(c, members, pose) ==
  Fold(LAMBDA acc, i :
         Then(acc, LAMBDA got, s :
           IF ~got.matched THEN acc
           ELSE Then(Text(s), LAMBDA key, t :
             IF key # members[i][1] THEN Got([got EXCEPT !.matched = FALSE], t)
             ELSE Then(PlayerField(t, key, members[i][2]), LAMBDA field, u :
               Got([got EXCEPT !.members[i] = <<key, field.value>>,
                               !.pose = Noted(@, key, field)], u)))),
       Got([members |-> members, matched |-> TRUE, pose |-> pose], c), Upto(Len(members)))

PlayerMoved(c, members, count, pose) ==
  Fold(LAMBDA acc, i :
         Then(acc, LAMBDA got, s : Then(Text(s), LAMBDA key, t :
           Then(PlayerField(t, key, OldMember(members, key)), LAMBDA field, u :
             IF Has(got.members, key) THEN Bad(u)
             ELSE Got([members |-> Append(got.members, <<key, field.value>>),
                       pose |-> Noted(got.pose, key, field)], u)))),
       Got([members |-> <<>>, pose |-> pose], c), Upto(count))

\* Cursor::player: over the old members in their order, or else a new object.
PlayerMembers(c, members, count, pose) ==
  LET place == PlayerInPlace(c, members, pose)
      stays == count = Len(members) /\ (~place.r.ok \/ place.v.matched)
      moved == IF count = Len(members) THEN PlayerMoved(c, place.v.members, count, NoPose)
                                       ELSE PlayerMoved(c, members, count, pose)
  IN Then(IF stays THEN place ELSE moved, LAMBDA got, s :
       Got([value |-> <<"obj", got.members>>, pose |-> got.pose], s))

Player(c, target, pose) ==
  IF NextIs(c, "obj")
    THEN PlayerMembers([c EXCEPT !.rest = Tail(@)], IF target[1] = "obj" THEN target[2] ELSE <<>>,
                       Head(c.rest)[2], pose)
    ELSE Then(Reuse(c, target, 2), LAMBDA v, s : Got([value |-> v, pose |-> pose], s))

\* A pose of an unknown rig goes back into the value.
Settled(player) ==
  IF player.pose # NoPose /\ ~KnownRig(TagOf(player.value), Len(player.pose))
    THEN [value |-> WithMember(player.value,
                      <<"nodes", <<"arr", Each(player.pose, LAMBDA n : <<"num", n>>)>>>>),
          pose |-> NoPose]
    ELSE player

\* Cursor::players.
Players(c, target, poses) ==
  IF ~NextIs(c, "arr") \/ Head(c.rest)[2] > MaxPlayers
    THEN Then(Reuse(c, target, 1), LAMBDA v, s : Got([value |-> v, poses |-> poses], s))
    ELSE Then(ReadMany([c EXCEPT !.rest = Tail(@)], Head(c.rest)[2], LAMBDA s, slot :
                Then(Player(s, OldItem(target, slot), poses[slot]), LAMBDA player, t : Got(Settled(player), t))),
              LAMBDA players, s :
                Got([value |-> <<"arr", Each(players, LAMBDA player : player.value)>>,
                     poses |-> [slot \in Slots |-> IF slot <= Len(players) THEN players[slot].pose
                                                                         ELSE poses[slot]]], s))

-----------------------------------------------------------------------------
\* The type every engine object has.
HasObjectType(v) ==
  LET type == Member(v, "object_type")
  IN IsNumber(type) /\ IsInteger(type[2]) /\ IntegerOf[type[2]] >= 0

=============================================================================
