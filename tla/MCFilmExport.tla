------------------------------ MODULE MCFilmExport ------------------------------
(***************************************************************************)
(* A TLC instance of FilmExport: a contract with cached objects and spawns *)
(* and films whose ticks change what they hold and in which order, with    *)
(* players whose poses are typed or not.                                   *)
(***************************************************************************)
EXTENDS FilmExport

Num(n) == <<"num", n>>
Str(s) == <<"str", s>>
Arr(items) == <<"arr", items>>
Obj(members) == <<"obj", members>>
Nums(ns) == Arr([i \in DOMAIN ns |-> Num(ns[i])])

\* Five-bit doubles: ten integers, the other even ones fractions that f32 holds.
SampleIntegers ==
  (0 :> 0) @@ (2 :> 1) @@ (4 :> -1) @@ (6 :> 2) @@ (5 :> 3) @@ (7 :> 4) @@ (9 :> 5) @@ (11 :> 6)
    @@ (13 :> 7) @@ (15 :> 8)
SampleExtrapolate ==
  [b, p \in 0..15 |-> CHOOSE k \in 0..15 : \A l \in 0..15 :
                         Abs(k * k - (2 * p * p - b * b)) <= Abs(l * l - (2 * p * p - b * b))]

-----------------------------------------------------------------------------
\* A node is where its number says, but for one far away; one has no transform.
SampleRigs == {[tag |-> "p", parents |-> <<0, 1>>], [tag |-> "q", parents |-> <<2, 0>>]}
SamplePositions == [n \in 0..31 |-> IF n = 28 THEN 200 ELSE n]
SampleRigid == 0..31 \ {24}

\* A timer in every second tick, rounded up.
SampleTimers ==
  [n \in {m \in DOMAIN SampleIntegers : SampleIntegers[m] >= 0} |->
     CHOOSE m \in DOMAIN SampleIntegers : SampleIntegers[m] = (SampleIntegers[n] + 1) \div 2]

Scalar == [kind |-> "scalar", nullable |-> FALSE]
NullableScalar == [kind |-> "nullable_scalar", nullable |-> FALSE]
Ref(name) == [kind |-> "ref", nullable |-> FALSE, name |-> name]
Field(key, source, node) == [key |-> key, source |-> source, node |-> node]
List(limit, first, items) ==
  [kind |-> "array", nullable |-> FALSE, limit |-> limit, take_first |-> first, items |-> items]

SampleDefinitions ==
  [tick |->
     [kind |-> "object", nullable |-> FALSE, required |-> <<"current_tick">>,
      fields |-> <<Field("time", "current_tick", Scalar),
                   Field("players", "players", List("players", FALSE, Ref("player"))),
                   Field("objects", "objects", List("objects", TRUE, Ref("object"))),
                   Field("spawns", "spawns", List("spawns", FALSE, Scalar)),
                   Field("stats", "stats",
                         [kind |-> "map", nullable |-> TRUE, limit |-> "stats", values |-> Scalar])>>],
   player |->
     [kind |-> "object", nullable |-> FALSE, required |-> <<>>,
      fields |-> <<Field("name", "name", Scalar), Field("x", "x", Scalar), Field("id", "id", Scalar),
                   Field("timer", "timer", NullableScalar),
                   Field("nodes", "nodes", List("nodes", FALSE, Scalar)),
                   Field("weapon", "weapon", [Ref("object") EXCEPT !.nullable = TRUE])>>],
   object |->
     [kind |-> "object", nullable |-> FALSE, required |-> <<"object_type">>,
      fields |-> <<Field("x", "x", Scalar), Field("type", "object_type", Scalar),
                   Field("owner", "owner", NullableScalar)>>]]

SampleRoot == <<>>
SampleLimits == [players |-> 2, objects |-> 2, spawns |-> 2, nodes |-> 6, stats |-> 2]

SampleValidObject(v) == Member(v, "x")[1] # "str"
SampleValidSpawns(v) == v[1] = "arr" => \A item \in Range(v[2]) : item[1] # "str"
SampleValidNode(n) == n # 30
SampleValidPlayer(v) ==
  Member(v, "nodes")[1] = "arr" =>
    \A node \in Range(Member(v, "nodes")[2]) : IsNumber(node) /\ SampleValidNode(node[2])

\* The schema of the tick holds that of its objects, spawns and nodes.
SampleValid(v) ==
  /\ Member(v, "time")[1] # "str"
  /\ \A item \in Range(Member(v, "objects")[2]) : SampleValidObject(item)
  /\ SampleValidSpawns(Member(v, "spawns"))
  /\ Member(v, "players")[1] = "arr" =>
       \A player \in Range(Member(v, "players")[2]) : SampleValidPlayer(player)

-----------------------------------------------------------------------------
\* The engine's tokens of a value.
RECURSIVE Tokens(_)
Tokens(v) ==
  CASE v[1] = "arr" -> << <<"arr", Len(v[2])>> >> \o FlattenSeq(Each(v[2], Tokens))
    [] v[1] = "obj" ->
         << <<"obj", Len(v[2])>> >>
           \o FlattenSeq(Each(v[2], LAMBDA e : << <<"key", e[1]>> >> \o Tokens(e[2])))
    [] OTHER -> <<v>>

Thing(type, x) == Obj(<< <<"object_type", Num(type)>>, <<"x", Num(x)>> >>)
Owned(type, x, owner) == Obj(<< <<"x", Num(x)>>, <<"owner", owner>>, <<"object_type", Num(type)>> >>)
Person(name, nodes) == Obj(<< <<"name", Str(name)>>, <<"nodes", Nums(nodes)>> >>)
Body(name, id, x, timer, nodes) ==
  Obj(<< <<"name", Str(name)>>, <<"id", Num(id)>>, <<"x", Num(x)>>, <<"timer", timer>>, <<"nodes", nodes>> >>)
Packed(ns) == Arr([i \in DOMAIN ns |-> <<"node", ns[i]>>])
Armed(name, nodes, weapon) ==
  Obj(<< <<"weapon", weapon>>, <<"name", Str(name)>>, <<"nodes", Nums(nodes)>> >>)

O(objects) == <<"objects", Arr(objects)>>
P(players) == <<"players", Arr(players)>>
S(items) == <<"spawns", Nums(items)>>
Stats(members) == <<"stats", Obj(members)>>
Combat == <<"combat", Num(8)>>

A == Thing(2, 8)
B == Thing(6, 16)
C == Owned(0, 8, Null)
D == Owned(2, 12, Num(3))
E == Thing(2, 10)

\* Objects that stay, move, change, appear and go; spawns that stay, go and come back.
LongFilm ==
  << Obj(<<O(<<A, B>>), S(<<2, 6>>), P(<<Person("p", <<8, 10>>)>>), Combat>>),
     Obj(<<O(<<A, E>>), S(<<2, 6>>), P(<<Person("p", <<8, 12>>)>>), Combat>>),
     Obj(<<O(<<C>>), P(<<Armed("p", <<10, 12>>, A)>>), Combat>>),
     Obj(<<Combat, P(<<Armed("p", <<12, 14>>, Null)>>), O(<<C, B>>), S(<<2>>)>>),
     Obj(<<O(<<>>), P(<<Person("q", <<12, 16>>), Person("p", <<8, 10>>)>>), S(<<2>>)>>),
     Obj(<<O(<<D, A>>), P(<<Person("q", <<14, 18>>)>>), S(<<6>>), Combat>>),
     Obj(<<O(<<D, B>>), P(<<Person("q", <<16, 20>>)>>), S(<<6>>)>>),
     Obj(<<O(<<A, B>>), P(<<Person("q", <<18, 22>>)>>), S(<<2, 6>>)>>) >>

\* Members beyond the slots, objects beyond the limit, maps, long arrays of floats.
WideFilm ==
  << Obj(<<Stats(<< <<"a", Num(2)>>, <<"b", Num(8)>> >>), O(<<A, B, C>>), S(<<2>>), P(<<>>), Combat, <<"noise", Null>>, <<"more", Null>>>>),
     Obj(<<Stats(<< <<"b", Num(10)>>, <<"a", Num(2)>> >>), O(<<A, C, C>>), P(<<Person("p", <<8, 8, 8, 8, 8, 8>>)>>)>>),
     Obj(<<<<"noise", Str("s")>>, O(<<A, C, D>>), P(<<Person("p", <<8, 9, 8, 8, 8, 8>>)>>), S(<<2>>),
           <<"stats", Null>>, Combat, <<"more", Num(2)>>>>),
     Obj(<<O(<<A, C, D>>), P(<<Person("p", <<8, 10, 8, 8, 8, 8>>)>>),
           Stats(<< <<"a", Num(8)>> >>), <<"spawns", Null>>, <<"noise", Num(1)>>, <<"more", Null>>>>) >>

\* Players that move, have no pose for a tick, become another, change places and models.
PoseFilm ==
  << Obj(<<O(<<A>>), P(<<Body("p", 2, 8, Null, Packed(<<10, 13>>)), Body("q", 6, 12, Num(7), Packed(<<13, 15>>))>>)>>),
     Obj(<<O(<<A>>), P(<<Body("p", 2, 8, Num(5), Packed(<<12, 16>>)), Body("q", 6, 12, Num(7), Nums(<<19, 21>>))>>)>>),
     Obj(<<O(<<A>>), P(<<Body("p", 2, 8, Null, Packed(<<12, 15>>)), Body("q", 6, 12, Null, Packed(<<25, 27>>))>>)>>),
     Obj(<<O(<<A>>), P(<<Body("p", 2, 9, Num(5), Packed(<<10, 13>>)), Body("q", 6, 12, Num(7), Packed(<<12, 15, 9>>))>>)>>),
     Obj(<<P(<<Body("p", 2, 9, Null, Nums(<<>>)), Body("q", 6, 12, Null, Packed(<<24, 15>>))>>), O(<<A>>)>>),
     Obj(<<O(<<A>>), P(<<Body("p", 2, 10, Null, Packed(<<11, 14>>)), Body("q", 7, 12, Null, Packed(<<28, 15>>))>>)>>),
     Obj(<<O(<<A>>), P(<<Body("q", 7, 12, Num(7), Packed(<<12, 15>>)), Obj(<< <<"name", Str("p")>> >>)>>)>>),
     Obj(<<O(<<A>>), P(<<Body("q", 5, 12, Num(7), Packed(<<12, 18>>))>>)>>) >>

Plain == Obj(<<O(<<A>>), P(<<Person("p", <<8, 8>>)>>), S(<<2>>)>>)
Film(ticks, typed, sampled) ==
  [frames |-> [i \in DOMAIN ticks |-> Tokens(ticks[i])], expected |-> Len(ticks), typed |-> typed, sampled |-> sampled]
With(e) == Obj(Append(Plain[2], e))
Deep == Arr(<<Arr(<<Arr(<<Arr(<<Arr(<<Arr(<<Null>>)>>)>>)>>)>>)>>)

\* Ticks that end a film after a plain one.
Faulty ==
  { With(S(<<2>>)), With(O(<<A>>)), With(<<"noise", Num(8)>>), With(<<"noise", Deep>>), With(<<"noise", Str("long")>>),
    Obj(<<O(<<Obj(<< <<"x", Num(8)>> >>)>>)>>), Obj(<<O(<<Obj(<< <<"x", Str("s")>>, <<"object_type", Num(2)>> >>)>>)>>),
    Obj(<<O(<<Obj(A[2] \o << <<"x", Num(2)>> >>)>>)>>), Obj(<<P(<<>>)>>), Obj(<< <<"objects", Null>> >>),
    Obj(<<O(<<A>>), P(<<>>), <<"spawns", Arr(<<Str("s")>>)>>>>), Obj(<<O(<<A>>), P(<<>>), S(<<2, 2, 2>>)>>),
    Obj(<<O(<<A>>), P(<<>>), Stats(<< <<"a", Num(2)>>, <<"b", Num(2)>>, <<"c", Null>> >>)>>), Arr(<<>>),
    Obj(<<O(<<A>>)>>), Obj(<<O(<<A>>), P(<<Body("p", 2, 8, Null, Packed(<<8, 30>>))>>)>>),
    Obj(<<O(<<A>>), P(<<Body("p", 2, 8, Null, Arr(<<Num(8), Null>>))>>)>>) }

Short(ticks) == Film(ticks, TRUE, TRUE)
SampleFilms ==
  {Film(LongFilm, FALSE, TRUE), Film(WideFilm, TRUE, FALSE), Film(PoseFilm, FALSE, FALSE), Film(PoseFilm, TRUE, TRUE),
   Short(<<Plain>>),
   [Short(<<Plain, Plain, Plain>>) EXCEPT !.expected = 2], [Short(<<Plain, Plain>>) EXCEPT !.expected = 3],
   [Short(<<Plain>>) EXCEPT !.frames[1] = Append(@, Null)], [Short(<<Plain>>) EXCEPT !.frames[1] = Front(@)]}
  \cup {Short(<<Plain, faulty>>) : faulty \in Faulty}

=============================================================================
