---------------------------- MODULE ViewerProjection ----------------------------
(***************************************************************************)
(* The projection of native/src/viewer.rs: the contract says which fields  *)
(* of a source tick the viewer keeps.  The code walks the contract three   *)
(* times: over the contract itself (metadata), over a compiled copy of it  *)
(* (one source worker), and inside the JSON parser, without building the   *)
(* source at all (several source workers).                                 *)
(*                                                                         *)
(* A value is a tuple <<kind, payload>>, as in ViewerDelta; in a source    *)
(* text an object may name a key twice.  A contract node is a record with  *)
(* a kind; its "nullable" is the contract's mark on it.                    *)
(***************************************************************************)
EXTENDS ViewerDelta

CONSTANTS
  Definitions,   \* the contract's definitions, nodes by name
  Limits,        \* the contract's named limits
  RootFields,    \* root fields besides ticks: <<key, node>>
  LongStrings,   \* strings over MAX_STRING_CHARACTERS
  Valid(_)       \* a projected tick satisfies the closed schema

Rejected == <<"rejected">>
Omitted == <<"omitted">>
Null == <<"null">>
RootDepth == 3

IsNull(v) == v = Null
Collection(v) == v[1] \in {"arr", "obj"}
Named(members, key) == SelectSeq(members, LAMBDA e : e[1] = key)
Has(members, key) == Named(members, key) # <<>>
Get(members, key) == Named(members, key)[1][2]

\* A collection of results is rejected with any of them.
Items(results) == IF Rejected \in Range(results) THEN Rejected ELSE <<"arr", results>>
Members(entries) ==
  IF \E e \in Range(entries) : e[2] = Rejected THEN Rejected ELSE <<"obj", entries>>

\* Entries by key in the order the keys came first; the last value of a key counts.
Latest(entries) ==
  Fold(LAMBDA acc, e :
             IF Has(acc, e[1]) THEN Each(acc, LAMBDA old : IF old[1] = e[1] THEN e ELSE old)
                               ELSE Append(acc, e),
           <<>>, entries)

\* serde_json builds the source.
RECURSIVE Parsed(_)
Parsed(v) ==
  CASE v[1] = "arr" -> <<"arr", Each(v[2], Parsed)>>
    [] v[1] = "obj" -> <<"obj", Latest(Each(v[2], LAMBDA e : <<e[1], Parsed(e[2])>>))>>
    [] OTHER -> v

\* validate_json_safety, SafetyVisitor.
RECURSIVE Safe(_, _)
Safe(v, depth) ==
  /\ depth <= MaxDepth
  /\ v[1] = "str" => v[2] \notin LongStrings
  /\ v[1] = "arr" => \A item \in Range(v[2]) : Safe(item, depth + 1)
  /\ v[1] = "obj" => \A e \in Range(v[2]) : Safe(e[2], depth + 1)

ProjectScalar(v, nullable) ==
  IF Collection(v) \/ (IsNull(v) /\ ~nullable) THEN Rejected ELSE v

NullableNode(node) == node.kind = "nullable_scalar" \/ node.nullable

\* Follows references, as many as the code allows.
RECURSIVE ResolveFrom(_, _)
ResolveFrom(node, depth) ==
  CASE node.kind # "ref" -> node
    [] node.kind = "ref" /\ (depth = MaxDepth \/ node.name \notin DOMAIN Definitions) ->
         [kind |-> "unknown", nullable |-> FALSE]
    [] OTHER -> ResolveFrom(Definitions[node.name], depth + 1)

Resolve(node) == ResolveFrom(node, 0)
TooMany(node, items) == ~node.take_first /\ Len(items) > Limits[node.limit]
Prefix(node, items) == SubSeq(items, 1, IF Len(items) < Limits[node.limit] THEN Len(items) ELSE Limits[node.limit])

MissingRequired(required, members) ==
  \E key \in Range(required) : ~Has(members, key) \/ IsNull(Get(members, key))

-----------------------------------------------------------------------------
(***************************************************************************)
(* The contract walked as it is.                                           *)
(***************************************************************************)
RECURSIVE Project(_, _)
Project(node, v) ==
  LET spec == Resolve(node)
      kept == SelectSeq(spec.fields,
                LAMBDA f : /\ f.node.kind # "generated"
                           /\ Has(v[2], f.source)
                           /\ ~IsNull(Get(v[2], f.source)) \/ NullableNode(f.node))
      present == SelectSeq(v[2], LAMBDA e : ~IsNull(e[2]))
  IN CASE IsNull(v) /\ NullableNode(node) -> Null
       [] ~(IsNull(v) /\ NullableNode(node)) /\ spec.kind \in {"scalar", "nullable_scalar"} ->
            ProjectScalar(v, spec.kind = "nullable_scalar")
       [] spec.kind = "object" /\ v[1] = "obj" ->
            IF MissingRequired(spec.required, v[2]) THEN Rejected
            ELSE Members(Each(kept, LAMBDA f : <<f.key, Project(f.node, Get(v[2], f.source))>>))
       [] spec.kind = "map" /\ v[1] = "obj" ->
            IF Len(v[2]) > Limits[spec.limit] THEN Rejected
            ELSE Members(Each(present, LAMBDA e : <<e[1], Project(spec.values, e[2])>>))
       [] spec.kind = "array" /\ v[1] = "arr" ->
            IF TooMany(spec, v[2]) THEN Rejected
            ELSE Items(Each(Prefix(spec, v[2]), LAMBDA item : Project(spec.items, item)))
       [] OTHER -> Rejected

ProjectMetadata(source) ==
  LET kept == SelectSeq(RootFields,
                LAMBDA f : Has(source[2], f[1]) /\ ~IsNull(Get(source[2], f[1])))
      metadata == Members(Each(kept, LAMBDA f : <<f[1], Project(f[2], Get(source[2], f[1]))>>))
      safe == \A e \in Range(source[2]) : Safe(e[2], 2)
  IN IF safe /\ metadata # Rejected /\ Valid(metadata) THEN metadata ELSE Rejected

-----------------------------------------------------------------------------
(***************************************************************************)
(* The compiled contract: references gone, "nullable" a node of its own.   *)
(***************************************************************************)
RECURSIVE Compile(_, _)
Compile(node, depth) ==
  LET spec == Resolve(node)
      fields == SelectSeq(spec.fields, LAMBDA f : f.node.kind # "generated")
  IN CASE depth > MaxDepth -> [kind |-> "unknown"]
       [] depth <= MaxDepth /\ node.nullable ->
            [kind |-> "nullable", inner |-> Compile([node EXCEPT !.nullable = FALSE], depth + 1)]
       [] depth <= MaxDepth /\ ~node.nullable /\ spec.kind \in {"scalar", "nullable_scalar"} ->
            [kind |-> "scalar", nulls |-> spec.kind = "nullable_scalar"]
       [] depth <= MaxDepth /\ ~node.nullable /\ spec.kind = "object" ->
            [kind |-> "object", required |-> spec.required,
             fields |-> Each(fields, LAMBDA f : [f EXCEPT !.node = Compile(@, depth + 1)])]
       [] depth <= MaxDepth /\ ~node.nullable /\ spec.kind = "map" ->
            [kind |-> "map", limit |-> spec.limit, values |-> Compile(spec.values, depth + 1)]
       [] depth <= MaxDepth /\ ~node.nullable /\ spec.kind = "array" ->
            [kind |-> "array", limit |-> spec.limit, take_first |-> spec.take_first,
             items |-> Compile(spec.items, depth + 1)]
       [] OTHER -> [kind |-> "unknown"]

TickNode == Compile(Definitions["tick"], 0)

AcceptsNull(node) == node.kind = "nullable" \/ (node.kind = "scalar" /\ node.nulls)

RECURSIVE Nonnull(_)
Nonnull(node) == IF node.kind = "nullable" THEN Nonnull(node.inner) ELSE node

RECURSIVE ProjectCompiled(_, _)
ProjectCompiled(node, v) ==
  LET kept == SelectSeq(node.fields,
                LAMBDA f : /\ Has(v[2], f.source)
                           /\ ~IsNull(Get(v[2], f.source)) \/ AcceptsNull(f.node))
      present == SelectSeq(v[2], LAMBDA e : ~IsNull(e[2]))
  IN CASE node.kind = "nullable" -> IF IsNull(v) THEN Null ELSE ProjectCompiled(node.inner, v)
       [] node.kind = "scalar" -> ProjectScalar(v, node.nulls)
       [] node.kind = "object" /\ v[1] = "obj" ->
            IF MissingRequired(node.required, v[2]) THEN Rejected
            ELSE Members(Each(kept, LAMBDA f : <<f.key, ProjectCompiled(f.node, Get(v[2], f.source))>>))
       [] node.kind = "map" /\ v[1] = "obj" ->
            IF Len(v[2]) > Limits[node.limit] THEN Rejected
            ELSE Members(Each(present, LAMBDA e : <<e[1], ProjectCompiled(node.values, e[2])>>))
       [] node.kind = "array" /\ v[1] = "arr" ->
            IF TooMany(node, v[2]) THEN Rejected
            ELSE Items(Each(Prefix(node, v[2]), LAMBDA item : ProjectCompiled(node.items, item)))
       [] OTHER -> Rejected

ProjectTick(text) ==
  LET source == Parsed(text)
      projected == ProjectCompiled(TickNode, source)
  IN IF Safe(source, RootDepth) /\ projected # Rejected /\ Valid(projected)
       THEN projected ELSE Rejected

-----------------------------------------------------------------------------
(***************************************************************************)
(* The projection inside the parser, member by member as they are read.    *)
(***************************************************************************)
\* Wrong on purpose: the items beyond the limit are not looked at.
RawTailUnchecked(node, items, depth) == TRUE

\* visit_seq reads the items beyond the limit only for their safety.
RawTail(node, items, depth) ==
  \A i \in DOMAIN items : i > Limits[node.limit] => Safe(items[i], depth + 1)

RawNull(node, omitNull) ==
  CASE omitNull -> Omitted
    [] ~omitNull /\ AcceptsNull(node) -> Null
    [] OTHER -> Rejected

RECURSIVE ProjectRaw(_, _, _, _)

RawObject(node, members, depth) ==
  LET field(key) == SelectSeq(node.fields, LAMBDA f : f.source = key)
      read(e) ==
        IF field(e[1]) = <<>>
          THEN IF Safe(e[2], depth + 1) THEN Omitted ELSE Rejected
          ELSE LET f == field(e[1])[1]
               IN ProjectRaw(f.node, e[2], depth + 1, ~AcceptsNull(f.node))
      values == Each(members, LAMBDA e : <<e[1], read(e)>>)
      last == Latest(values)
      kept == SelectSeq(node.fields,
                LAMBDA f : Has(last, f.source) /\ Get(last, f.source) # Omitted)
  IN IF \/ \E e \in Range(values) : e[2] = Rejected
        \/ \E key \in Range(node.required) : ~Has(last, key) \/ Get(last, key) = Omitted
       THEN Rejected
       ELSE <<"obj", Each(kept, LAMBDA f : <<f.key, Get(last, f.source)>>)>>

RawMap(node, members, depth) ==
  LET values == Each(members, LAMBDA e : <<e[1], ProjectRaw(node.values, e[2], depth + 1, TRUE)>>)
      last == Latest(values)
  IN IF Len(last) > Limits[node.limit] \/ \E e \in Range(values) : e[2] = Rejected
       THEN Rejected
       ELSE <<"obj", SelectSeq(last, LAMBDA e : e[2] # Omitted)>>

RawArray(node, items, depth) ==
  IF TooMany(node, items) \/ ~RawTail(node, items, depth)
    THEN Rejected
    ELSE Items(Each(Prefix(node, items), LAMBDA item : ProjectRaw(node.items, item, depth + 1, FALSE)))

ProjectRaw(node, v, depth, omitNull) ==
  LET inner == Nonnull(node)
  IN CASE depth > MaxDepth \/ (v[1] = "str" /\ v[2] \in LongStrings) -> Rejected
       [] depth <= MaxDepth /\ IsNull(v) -> RawNull(node, omitNull)
       [] depth <= MaxDepth /\ v[1] = "arr" /\ inner.kind = "array" -> RawArray(inner, v[2], depth)
       [] depth <= MaxDepth /\ v[1] = "obj" /\ inner.kind = "object" -> RawObject(inner, v[2], depth)
       [] depth <= MaxDepth /\ v[1] = "obj" /\ inner.kind = "map" -> RawMap(inner, v[2], depth)
       [] depth <= MaxDepth /\ ~IsNull(v) /\ ~Collection(v) /\ inner.kind = "scalar"
            /\ (v[1] = "str" => v[2] \notin LongStrings) -> v
       [] OTHER -> Rejected

ProjectTickRaw(text) ==
  LET projected == ProjectRaw(TickNode, text, RootDepth, FALSE)
  IN IF projected # Rejected /\ Valid(projected) THEN projected ELSE Rejected

=============================================================================
