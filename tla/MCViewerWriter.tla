----------------------------- MODULE MCViewerWriter -----------------------------
(***************************************************************************)
(* TLC instances of ViewerWriter: a contract with a node of every kind,    *)
(* and replays of ticks under it.                                          *)
(***************************************************************************)
EXTENDS ViewerArtifact, TLC

CONSTANTS w1, w2, Samples   \* places of the walk

Num(n) == <<"num", n>>
Str(s) == <<"str", s>>
Arr(items) == <<"arr", items>>
Obj(members) == <<"obj", members>>
Nums(ns) == Arr([i \in DOMAIN ns |-> Num(ns[i])])
Pick(list, i) == list[(i % Len(list)) + 1]

\* Four-bit doubles: the even patterns are exact as f32, five are integers and the
\* other even ones fractions; 40 is the one integer f32 does not hold.
SampleIntegers == (0 :> 0) @@ (2 :> 1) @@ (4 :> -1) @@ (6 :> 2) @@ (3 :> 40)
\* The value of f32 pattern b is its square.
SampleExtrapolate ==
  [b, p \in 0..7 |-> CHOOSE k \in 0..7 : \A l \in 0..7 :
                        Abs(k * k - (2 * p * p - b * b)) <= Abs(l * l - (2 * p * p - b * b))]

-----------------------------------------------------------------------------
Scalar == [kind |-> "scalar", nullable |-> FALSE]
NullableScalar == [kind |-> "nullable_scalar", nullable |-> FALSE]
Ref(name) == [kind |-> "ref", nullable |-> FALSE, name |-> name]
Field(key, source, node) == [key |-> key, source |-> source, node |-> node]

SampleDefinitions ==
  [tick |->
     [kind |-> "object", nullable |-> FALSE, required |-> <<"time">>,
      fields |-> <<Field("time", "time", Scalar),
                   Field("speed", "player_speed", NullableScalar),
                   Field("nodes", "model_nodes",
                         [kind |-> "array", nullable |-> FALSE, limit |-> "nodes",
                          take_first |-> TRUE, items |-> Scalar]),
                   Field("players", "players",
                         [kind |-> "array", nullable |-> FALSE, limit |-> "players",
                          take_first |-> FALSE, items |-> NullableScalar]),
                   Field("stats", "stats",
                         [kind |-> "map", nullable |-> FALSE, limit |-> "stats", values |-> Ref("stat")]),
                   Field("weapon", "weapon", [Ref("stat") EXCEPT !.nullable = TRUE]),
                   Field("artifact", "artifact", [kind |-> "generated", nullable |-> FALSE])>>],
   stat |->
     [kind |-> "object", nullable |-> FALSE, required |-> <<>>,
      fields |-> <<Field("x", "x", Scalar), Field("y", "why", Scalar)>>]]

SampleLimits == [nodes |-> 4, players |-> 2, stats |-> 2]
SampleRoot == << <<"map", Scalar>>, <<"stats", Ref("stat")>> >>

\* The schema: the time is not a string.
SampleValid(v) == \A e \in Range(v[2]) : e[1] = "time" => e[2][1] # "str"

-----------------------------------------------------------------------------
StatLists ==
  << Obj(<<>>), Obj(<< <<"a", Obj(<<>>)>> >>),
     Obj(<< <<"a", Obj(<< <<"x", Num(6)>>, <<"why", Str("s")>> >>)>> >>),
     Obj(<< <<"b", Obj(<< <<"why", Num(3)>> >>)>>, <<"a", Obj(<< <<"x", Num(2)>> >>)>> >>),
     Obj(<< <<"a", Null>>, <<"b", Obj(<< <<"x", Null>> >>)>> >>) >>

PlayerLists == << Arr(<<>>), Arr(<<Str("s"), Null>>), Arr(<<Num(2), Str("t")>>), Arr(<<Null>>),
                  Arr(<<Str("t"), Num(1)>>) >>

Weapons == << Null, Obj(<< <<"x", <<"true">>>> >>), Obj(<< <<"x", <<"false">>>>, <<"why", Str("t")>> >>) >>

Nodes(i) == Nums([k \in 1..4 |-> 2 * (((i * i * (15 + k)) \div (13 + k) + i \div 2) % 8)])

Tick(time, speed, nodes, players, stats, weapon) ==
  Obj(<< <<"time", time>>, <<"player_speed", speed>>, <<"stats", stats>>, <<"noise", Str("s")>>,
         <<"model_nodes", nodes>>, <<"players", players>>, <<"weapon", weapon>> >>)

\* The i-th tick of a long walk through the values: three ticks from an even i on
\* use every way to write numbers and arrays of floats.
Walk(i) == Tick(Num(((i * i * 39) \div 7 + i * 7) % 16), Num(((i * i * 39) \div 7 + i * 15) % 16), Nodes(i),
                Pick(PlayerLists, i * i + i \div 5), Pick(StatLists, 2 * i + i \div 7), Pick(Weapons, i * i + i \div 3))

Meta == Obj(<< <<"stats", Obj(<< <<"x", Num(6)>> >>)>>, <<"map", Str("m")>>, <<"noise", Null>> >>)
Of(texts) == [ticks |-> texts, meta |-> Meta]
Plain == Walk(1)

\* A member more, before or after those of a plain tick.
With(key, val) == Obj(Append(Plain[2], <<key, val>>))
Before(key, val) == Obj(<< <<key, val>> >> \o Plain[2])

Deep == Arr(<<Arr(<<Arr(<<Arr(<<Num(2)>>)>>)>>)>>)

\* Ticks at the edges of the contract, and some it rejects.
Edges ==
  { With("noise", Deep), With("noise", Str("long")), With("time", Null), With("time", Str("s")),
    With("time", Arr(<<>>)), Before("time", Arr(<<>>)), Before("time", Str("s")), Before("noise", Str("long")),
    With("player_speed", Null), Before("weapon", Str("s")), With("weapon", Arr(<<>>)),
    With("artifact", Num(2)), With("players", Arr(<<Num(2), Num(2), Num(2)>>)),
    With("players", Null), With("players", Arr(<<Arr(<<>>)>>)),
    With("model_nodes", Nums(<<2, 4, 6, 8, 10>>)), With("model_nodes", Arr(<<Null>>)),
    With("model_nodes", Arr(Nums(<<2, 4, 6, 8>>)[2] \o <<Str("long")>>)),
    With("model_nodes", Arr(Nums(<<2, 4, 6, 8>>)[2] \o <<Deep>>)),
    With("model_nodes", Arr(Nums(<<2, 4, 6, 8>>)[2] \o <<Obj(<<>>)>>)),
    With("stats", Obj(<< <<"a", Obj(<<>>)>>, <<"b", Obj(<<>>)>>, <<"c", Null>> >>)),
    With("stats", Obj(<< <<"a", Obj(<<>>)>>, <<"a", Null>>, <<"b", Obj(<< <<"x", Num(2)>>, <<"x", Num(4)>> >>)>> >>)),
    With("stats", Arr(<<>>)), Str("s"), Null, Obj(<<>>) }

-----------------------------------------------------------------------------
\* One replay of two chunks exceeds the limits of bytes.
Big == Of([k \in 1..4 |-> Plain])
SampleBulky(r) == r = Big

\* One chunk of three ticks at every place of the walk; replays of more chunks than
\* workers; every edge; no ticks; too many; too
\* big; metadata the contract rejects.
SampleReplays ==
  {Of([k \in 1..3 |-> Walk(i + k)]) : i \in Samples}
  \cup {Of([k \in 1..7 |-> Walk(3 + k)])}
  \cup {Of(<<Plain, edge>>) : edge \in Edges}
  \cup {Of(<<>>), Of([k \in 1..10 |-> Plain]), Big}
  \cup {[ticks |-> <<Plain>>, meta |-> Obj(<<m>>)] :
          m \in { <<"map", Arr(<<>>)>>, <<"noise", Str("long")>>, <<"stats", Num(2)>> }}

\* Arrays of floats whose length or exactness was another two ticks before.
HistoryReplays ==
  {Of([k \in 1..3 |-> Tick(Num(2), Num(2), Nums(lists[k]), Pick(PlayerLists, 0), Pick(StatLists, 0), Null)]) :
     lists \in {<< <<2>>, <<2, 4>>, <<2, 6>> >>, << <<1, 3>>, <<0, 0>>, <<0, 2>> >>,
                << <<2, 2>>, <<0, 0>>, <<0, 2>> >>}}

=============================================================================
