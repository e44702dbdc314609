-------------------------------- MODULE FilmDelta --------------------------------
(***************************************************************************)
(* What the film encoder puts in the place of the generic viewer code: a   *)
(* projection over the projected tick of three ticks before                *)
(* (artifact.rs, projection_plan.rs), float arrays whose predictors are    *)
(* fused (float_delta.rs), objects compared slot by slot                   *)
(* (ordered_delta.rs), and ticks whose objects and spawns are kept as      *)
(* records beside them (object_state.rs).                                  *)
(*                                                                         *)
(* A record is [id, value]: the same id is the same allocation.  A state   *)
(* is a projected tick with its placeholders, its objects and its spawns.  *)
(***************************************************************************)
EXTENDS FilmTransport

Keyed(members) == Each(members, LAMBDA e : e[1])

\* CompiledProjection::project_reusing.
RECURSIVE ProjectReusing(_, _, _)
ProjectReusing(node, v, target) ==
  LET old == IF target[1] = "obj" THEN target[2] ELSE <<>>
      kept == SelectSeq(node.fields,
                LAMBDA f : /\ Has(v[2], f.source)
                           /\ ~IsNull(Get(v[2], f.source)) \/ AcceptsNull(f.node))
      present == SelectSeq(v[2], LAMBDA e : ~IsNull(e[2]))
      oldOf(key) == IF Keyed(present) = Keyed(old) THEN OldMember(old, key) ELSE Null
  IN CASE node.kind = "nullable" /\ ~IsNull(v) -> ProjectReusing(node.inner, v, target)
       [] node.kind = "object" /\ v[1] = "obj" /\ Len(node.fields) <= MaxSlots ->
            IF MissingRequired(node.required, v[2]) THEN Rejected
            ELSE Members(Each(kept, LAMBDA f :
                   <<f.key, ProjectReusing(f.node, Get(v[2], f.source), OldMember(old, f.key))>>))
       [] node.kind = "array" /\ v[1] = "arr" ->
            IF TooMany(node, v[2]) THEN Rejected
            ELSE Items(Each(Upto(Len(Prefix(node, v[2]))), LAMBDA i :
                   ProjectReusing(node.items, v[2][i], OldItem(target, i))))
       [] node.kind = "map" /\ v[1] = "obj" ->
            IF Len(v[2]) > Limits[node.limit] THEN Rejected
            ELSE Members(Each(present, LAMBDA e :
                   <<e[1], ProjectReusing(node.values, e[2], oldOf(e[1]))>>))
       [] OTHER -> ProjectCompiled(node, v)

\* CompiledProjection::project_owned: the source itself becomes the projection.
RECURSIVE ProjectOwned(_, _)
ProjectOwned(node, v) ==
  LET selected == SelectSeq(v[2], LAMBDA e : \E f \in Range(node.fields) :
                    f.source = e[1] /\ (~IsNull(e[2]) \/ AcceptsNull(f.node)))
      kept == SelectSeq(node.fields, LAMBDA f : Has(selected, f.source))
      present == SelectSeq(v[2], LAMBDA e : ~IsNull(e[2]))
  IN CASE node.kind = "nullable" -> IF IsNull(v) THEN v ELSE ProjectOwned(node.inner, v)
       [] node.kind = "scalar" -> ProjectScalar(v, node.nulls)
       [] node.kind = "object" /\ v[1] = "obj" ->
            IF MissingRequired(node.required, v[2]) THEN Rejected
            ELSE Members(Each(kept, LAMBDA f : <<f.key, ProjectOwned(f.node, Get(selected, f.source))>>))
       [] node.kind = "map" /\ v[1] = "obj" ->
            IF Len(v[2]) > Limits[node.limit] THEN Rejected
            ELSE Members(Each(present, LAMBDA e : <<e[1], ProjectOwned(node.values, e[2])>>))
       [] node.kind = "array" /\ v[1] = "arr" ->
            IF TooMany(node, v[2]) THEN Rejected
            ELSE Items(Each(Prefix(node, v[2]), LAMBDA item : ProjectOwned(node.items, item)))
       [] OTHER -> Rejected

\* Wrong on purpose: what is left of the old members stays.
ArrangedUntruncated(members, keys) ==
  Fold(LAMBDA output, i : Slot(output, i, keys[i]), members, Upto(Len(keys)))

\* The members moved to the places of these keys, and no others.
Arranged(members, keys) ==
  Truncated(Fold(LAMBDA output, i : Slot(output, i, keys[i]), members, Upto(Len(keys))), Len(keys))

\* Plan::project.  What the plan remembers of a node's keys follows from them.
RECURSIVE ProjectPlanned(_, _, _)

PlannedMembers(kept, source, old) ==
  LET output == Arranged(old, Each(kept, LAMBDA f : f.key))
      projected(i) == ProjectPlanned(kept[i].node, Get(source, kept[i].source), output[i][2])
  IN Members(Each(Upto(Len(output)), LAMBDA i :
       IF i <= Len(kept) THEN <<output[i][1], projected(i)>> ELSE output[i]))

ProjectPlanned(node, v, target) ==
  LET kept == SelectSeq(node.fields,
                LAMBDA f : /\ Has(v[2], f.source)
                           /\ ~IsNull(Get(v[2], f.source)) \/ AcceptsNull(f.node))
  IN CASE node.kind = "nullable" /\ ~IsNull(v) -> ProjectPlanned(node.inner, v, target)
       [] node.kind = "object" /\ v[1] = "obj" /\ Len(node.fields) <= MaxSlots ->
            IF MissingRequired(node.required, v[2]) THEN Rejected
            ELSE PlannedMembers(kept, v[2], IF target[1] = "obj" THEN target[2] ELSE <<>>)
       [] node.kind = "array" /\ v[1] = "arr" /\ node.items.kind # "scalar" ->
            IF TooMany(node, v[2]) THEN Rejected
            ELSE Items(Each(Upto(Len(Prefix(node, v[2]))), LAMBDA i :
                   ProjectPlanned(node.items, v[2][i], OldItem(target, i))))
       [] OTHER -> ProjectReusing(node, v, target)

-----------------------------------------------------------------------------
(***************************************************************************)
(* Float arrays of at most 64 numbers, all their predictors at once.       *)
(***************************************************************************)
Fusible(previous, next) ==
  /\ next[1] = "arr" /\ previous[1] = "arr"
  /\ Len(next[2]) \in 1..MaxSlots /\ Len(previous[2]) = Len(next[2])
  /\ ExactFloat32Array(previous) /\ ExactFloat32Array(next)

FusedCandidate(mode, before, previous, next) ==
  LET difference(from, to) ==
        LET d == WrappedDifference(from, to) IN IF d >= 0 THEN 2 * d ELSE 2 * Abs(d) - 1
      residual(i) ==
        LET old == Bits32(previous[i]) new == Bits32(next[i])
        IN CASE mode = "xor" -> old ^^ new
             [] mode = "difference" -> difference(old, new)
             [] mode = "bit_prediction" ->
                  difference((2 * old - Bits32(before[i])) % Words32, new)
             [] OTHER -> difference(Extrapolate[Bits32(before[i]), old], new)
      residuals == Each(Upto(Len(next)), residual)
  IN Candidate(mode, residuals, BitWidth(Fold(LAMBDA union, n : union | n, 0, residuals)),
               Fold(LAMBDA sum, n : sum + VaruintLength(n), 0, residuals))

WriteFused(w, before, previous, next) ==
  LET predictable == ExactFloat32Array(before) /\ Len(before[2]) = Len(next[2])
      history == IF predictable THEN Numbers(before) ELSE <<>>
      candidate(mode) == FusedCandidate(mode, history, Numbers(previous), Numbers(next))
      modes == IF predictable THEN Modes ELSE SubSeq(Modes, 1, 2)
  IN IF Numbers(previous) = Numbers(next) THEN Put(w, <<"same">>)
     ELSE WriteCandidate(w, Cheapest(Each(modes, candidate), LAMBDA c : c.bytes))

\* Before the items of a patched array: all of them, or those that changed.
ListHeader(w, dense, length, changed) ==
  IF dense THEN Put(w, <<"dense_array">>)
           ELSE PutVaruint(PutVaruint(Put(w, <<"array_patch">>), length), Len(changed))

\* ordered_delta::write_inner; a value known to be changed is not compared again.
RECURSIVE WriteOrdered(_, _, _, _, _)

WriteAligned(w, before, previous, next) ==
  LET changed == SelectSeq(Upto(Len(next[2])), LAMBDA i : ~DeltaSame(previous[2][i][2], next[2][i][2]))
  IN Fold(LAMBDA x, i : WriteOrdered(PutString(x, next[2][i][1]), Member(before, next[2][i][1]),
                                     previous[2][i][2], next[2][i][2], TRUE),
          PutVaruint(PutVaruint(Put(w, <<"object_patch">>), 0), Len(changed)), changed)

WriteItems(w, before, previous, next) ==
  LET changed == SelectSeq(Upto(Len(next[2])), LAMBDA i : ~DeltaSame(Item(previous, i), next[2][i]))
      dense == Len(previous[2]) = Len(next[2]) /\ Len(changed) > Len(next[2]) \div 2
  IN Fold(LAMBDA x, i :
            IF i \in Range(changed)
              THEN WriteOrdered(IF dense THEN x ELSE PutVaruint(x, i - 1),
                                Item(before, i), Item(previous, i), next[2][i], TRUE)
              ELSE Put(x, <<"same">>),
          ListHeader(w, dense, Len(next[2]), changed), IF dense THEN Upto(Len(next[2])) ELSE changed)

WriteOrdered(w, before, previous, next, known) ==
  LET both(kind) == previous[1] = kind /\ next[1] = kind
      compare == ~known /\ previous # Absent
      aligned == both("obj") /\ Len(next[2]) <= MaxSlots /\ Keyed(previous[2]) = Keyed(next[2])
      floats == /\ both("arr") /\ Len(previous[2]) = Len(next[2]) /\ next[2] # <<>>
                /\ ExactFloat32Array(previous) /\ ExactFloat32Array(next)
  IN IF Fusible(previous, next) THEN WriteFused(w, before, previous, next)
     ELSE IF compare /\ DeltaSame(previous, next) THEN Put(w, <<"same">>)
     ELSE CASE aligned -> WriteAligned(w, before, previous, next)
            [] both("arr") /\ ~floats -> WriteItems(w, before, previous, next)
            [] OTHER -> WriteDelta(w, before, previous, next)

-----------------------------------------------------------------------------
(***************************************************************************)
(* Ticks with records.                                                     *)
(***************************************************************************)
NoSpawns == [id |-> 0, value |-> Absent]
NoState == [tick |-> Absent, objects |-> <<>>, spawns |-> NoSpawns]

\* The value of a field: the spawns are in their record, when there is one.
FieldValue(state, key) ==
  IF key = "spawns" /\ state.spawns # NoSpawns THEN state.spawns.value ELSE Member(state.tick, key)

\* The tick a state stands for.
Whole(state) ==
  <<"obj", Each(state.tick[2], LAMBDA e :
     <<e[1], IF e[1] = "objects" THEN <<"arr", Each(state.objects, LAMBDA r : r.value)>>
                                 ELSE FieldValue(state, e[1])>>)>>

PlaceholdersStand(state) ==
  /\ Member(state.tick, "objects") = Placeholder
  /\ state.spawns # NoSpawns => Member(state.tick, "spawns") = Placeholder

SameRecord(previous, next) == previous.id = next.id \/ DeltaSame(previous.value, next.value)

SameRecords(previous, next) ==
  Len(previous) = Len(next) /\ \A i \in DOMAIN next : SameRecord(previous[i], next[i])

WriteRecords(w, records) ==
  Fold(LAMBDA x, r : WriteValue(x, r.value), PutVaruint(Put(w, <<"array">>), Len(records)), records)

RecordValue(records, i) == IF i <= Len(records) THEN records[i].value ELSE Absent

WriteRecordDelta(w, before, previous, next) ==
  LET changed == SelectSeq(Upto(Len(next)),
                   LAMBDA i : i > Len(previous) \/ ~SameRecord(previous[i], next[i]))
      equal == Len(previous) = Len(next)
      dense == equal /\ Len(changed) > Len(next) \div 2
  IN IF changed = <<>> /\ equal THEN Put(w, <<"same">>)
     ELSE Fold(LAMBDA x, i :
                 IF i \in Range(changed)
                   THEN WriteOrdered(IF dense THEN x ELSE PutVaruint(x, i - 1), RecordValue(before, i),
                                     RecordValue(previous, i), next[i].value, FALSE)
                   ELSE Put(x, <<"same">>),
               ListHeader(w, dense, Len(next), changed), IF dense THEN Upto(Len(next)) ELSE changed)

FieldChanged(previous, next, key) ==
  CASE key = "objects" -> ~SameRecords(previous.objects, next.objects)
    [] key = "spawns" /\ next.spawns # NoSpawns /\ previous.spawns.id = next.spawns.id -> FALSE
    [] OTHER -> key \notin Keys(previous.tick)
                  \/ ~DeltaSame(FieldValue(previous, key), FieldValue(next, key))

WriteStateDelta(w, before, previous, next) ==
  LET deleted == SelectSeq(Keyed(previous.tick[2]), LAMBDA key : key \notin Keys(next.tick))
      changed == SelectSeq(Keyed(next.tick[2]), LAMBDA key : FieldChanged(previous, next, key))
      names == Fold(PutString, PutVaruint(Put(w, <<"object_patch">>), Len(deleted)), deleted)
      field(x, key) ==
        IF key = "objects" THEN WriteRecordDelta(x, before.objects, previous.objects, next.objects)
        ELSE WriteOrdered(x, FieldValue(before, key),
                          IF key \in Keys(previous.tick) THEN FieldValue(previous, key) ELSE Absent,
                          FieldValue(next, key), FALSE)
  IN IF deleted = <<>> /\ changed = <<>> THEN Put(w, <<"same">>)
     ELSE Fold(LAMBDA x, key : field(PutString(x, key), key), PutVaruint(names, Len(changed)), changed)

\* write_tick: a keyframe, or a patch of the tick before.
WriteTick(w, before, previous, next) ==
  IF previous = NoState
    THEN Fold(LAMBDA x, key : IF key = "objects" THEN WriteRecords(PutString(x, key), next.objects)
                              ELSE WriteValue(PutString(x, key), FieldValue(next, key)),
              PutVaruint(Put(w, <<"object">>), Len(next.tick[2])), Keyed(next.tick[2]))
    ELSE WriteStateDelta(w, before, previous, next)

\* exact_tick: what was read back is what was written.
ExactTick(state, decoded) == decoded[1] = "obj" /\ Semantic(Whole(state)) = Semantic(decoded)

=============================================================================
