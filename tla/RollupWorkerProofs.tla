---------------------------- MODULE RollupWorkerProofs ----------------------------
(***************************************************************************)
(* Theorems about RollupWorker, for every number of revisions and faults.  *)
(* Some hold for any number of invocations; the others need the one that   *)
(* the default reserved concurrency allows.                                *)
(***************************************************************************)
EXTENDS RollupWorker, TLAPS

-----------------------------------------------------------------------------
\* An invocation at step p that is not idle holds a claim c the API made.  A
\* claim on the generation that is still to come is on a revision that is not
\* built yet; one whose completion was accepted is not on a later generation.
ClaimInv(p, c) ==
  /\ p \in Steps \X Kinds
  /\ c \in Claims \cup {None}
  /\ p[1] # "idle" =>
       /\ c \in Claims
       /\ c.generation <= active + 1
       /\ c.revision <= revision
       /\ c.generation = active + 1 => built < c.revision
  /\ p[1] \in {"tag", "retire"} => c.generation <= active
  /\ p[1] = "retire" => c.generation > 1

ClaimsOK ==
  /\ pc \in [Workers -> Steps \X Kinds]
  /\ claim \in [Workers -> Claims \cup {None}]
  /\ \A w \in Workers : ClaimInv(pc[w], claim[w])

\* Every generation was built from a revision of its own.
ApiInv ==
  /\ revision \in 1..MaxRevision
  /\ active \in Nat /\ built \in Nat
  /\ active <= built /\ built <= revision

BucketOK ==
  /\ stored \in [Kinds -> [Generations -> Documents \cup {None}]]
  /\ tag \in [Kinds -> [Generations -> {"none", "active", "superseded"}]]

LocalOK ==
  /\ stamp \in [Workers -> Stamps \cup {None}]
  /\ generated \in [Workers -> SUBSET Kinds]

IInv ==
  /\ ApiInv
  /\ BucketOK
  /\ LocalOK
  /\ recorded \in [Kinds -> Documents \cup {None}]
  /\ faults \in 0..MaxFaults
  /\ ClaimsOK
  /\ SupersededIsOld

LEMMA KindsAre ==
  /\ "heat" \in Kinds
  /\ Kinds \subseteq {"heat", "region"}
  /\ RegionStats => Kinds = {"heat", "region"}
  /\ ~RegionStats => Kinds = {"heat"}
BY RollupAssumption DEF Kinds

LEMMA InvTypes == IInv => TypeOK
<1> SUFFICES ASSUME IInv PROVE TypeOK
  OBVIOUS
<1>1. pc \in [Workers -> Steps \X {"heat", "region"}]
  BY KindsAre DEF IInv, ClaimsOK
<1>2. claim \in [Workers -> Claims \cup {None}]
  BY DEF IInv, ClaimsOK
<1>3. active \in 0..MaxRevision /\ built \in 0..MaxRevision
  BY RollupAssumption DEF IInv, ApiInv
<1> QED
  BY <1>1, <1>2, <1>3 DEF IInv, ApiInv, BucketOK, LocalOK, TypeOK

LEMMA InitIInv == Init => IInv
<1> SUFFICES ASSUME Init PROVE IInv
  OBVIOUS
<1>1. ApiInv
  BY RollupAssumption DEF Init, ApiInv
<1>2. BucketOK /\ LocalOK /\ faults \in 0..MaxFaults
  BY RollupAssumption DEF Init, BucketOK, LocalOK
<1>3. recorded \in [Kinds -> Documents \cup {None}]
  BY DEF Init
<1>4. \A w \in Workers : ClaimInv(pc[w], claim[w])
  BY KindsAre DEF Init, ClaimInv, Steps
<1>5. ClaimsOK
  BY <1>4, KindsAre DEF Init, ClaimsOK, Steps
<1>6. SupersededIsOld
  BY DEF Init, SupersededIsOld
<1> QED
  BY <1>1, <1>2, <1>3, <1>5, <1>6 DEF IInv

-----------------------------------------------------------------------------
\* What a step does to the API's row of the scope.
ApiStep ==
  \/ UNCHANGED <<revision, active, built>>
  \/ /\ revision' = revision + 1 /\ revision < MaxRevision
     /\ UNCHANGED <<active, built>>
  \/ /\ active' = active + 1 /\ built' = revision /\ built < revision
     /\ UNCHANGED revision

LEMMA ApiKept == ApiInv /\ ApiStep => ApiInv'
BY RollupAssumption DEF ApiInv, ApiStep

\* A claim that another invocation holds stays as true as it was.
LEMMA ClaimKept ==
  ASSUME ApiInv, ApiStep, NEW p, NEW c, ClaimInv(p, c)
  PROVE  ClaimInv(p, c)'
<1>1. c \in Claims => c.generation \in Nat /\ c.revision \in Nat
  BY DEF Claims, Generations
<1> QED
  BY <1>1 DEF ApiInv, ApiStep, ClaimInv

\* Invocation w goes to step p with claim c.
Moves(w, p, c) ==
  /\ pc' = [pc EXCEPT ![w] = p]
  /\ claim' = [claim EXCEPT ![w] = c]

LEMMA Turn ==
  ASSUME ClaimsOK, ApiInv, ApiStep, NEW w \in Workers, NEW p, NEW c,
         Moves(w, p, c), ClaimInv(p, c)'
  PROVE  ClaimsOK'
<1>1. ASSUME NEW v \in Workers PROVE ClaimInv(pc[v], claim[v])'
  <2>1. CASE v = w
    BY <2>1 DEF Moves, ClaimsOK
  <2>2. CASE v # w
    <3>1. PICK q, d : q = pc[v] /\ d = claim[v]
      OBVIOUS
    <3>2. ClaimInv(q, d)'
      BY <3>1, ClaimKept DEF ClaimsOK
    <3>3. pc'[v] = q /\ claim'[v] = d
      BY <2>2, <3>1 DEF Moves, ClaimsOK
    <3> QED
      BY <3>2, <3>3
  <2> QED
    BY <2>1, <2>2
<1>2. p \in Steps \X Kinds /\ c \in Claims \cup {None}
  BY DEF ClaimInv
<1>3. pc' \in [Workers -> Steps \X Kinds] /\ claim' \in [Workers -> Claims \cup {None}]
  BY <1>2 DEF Moves, ClaimsOK
<1> QED
  BY <1>1, <1>3 DEF ClaimsOK

LEMMA NoTurn ==
  ASSUME ClaimsOK, ApiInv, ApiStep, UNCHANGED <<pc, claim>>
  PROVE  ClaimsOK'
<1>1. ASSUME NEW v \in Workers PROVE ClaimInv(pc[v], claim[v])'
  <2>1. PICK q, d : q = pc[v] /\ d = claim[v]
    OBVIOUS
  <2>2. ClaimInv(q, d)'
    BY <2>1, ClaimKept DEF ClaimsOK
  <2> QED
    BY <2>1, <2>2
<1> QED
  BY <1>1 DEF ClaimsOK

-----------------------------------------------------------------------------
\* An invocation that is not idle names an artifact the bucket has a key for.
LEMMA Held ==
  ASSUME IInv, NEW w \in Workers, pc[w][1] # "idle"
  PROVE  /\ claim[w] \in Claims
         /\ Generation(w) \in Generations
         /\ ClaimInv(pc[w], claim[w])
         /\ \A k \in Kinds : Document(w, k) \in Documents
<1>1. ClaimInv(pc[w], claim[w]) /\ claim[w] \in Claims
  BY DEF IInv, ClaimsOK, ClaimInv
<1>2. Generation(w) \in Generations /\ claim[w].revision \in 1..MaxRevision
  BY <1>1 DEF Claims, Generation
<1>3. stamp[w] \in Stamps \cup {None}
  BY DEF IInv, LocalOK
<1>4. ASSUME NEW k \in Kinds PROVE Document(w, k) \in Documents
  BY <1>2, <1>3 DEF Document, Documents
<1> QED
  BY <1>1, <1>2, <1>4

\* A put or a delete leaves the object without a tag.
LEMMA PutKept ==
  ASSUME BucketOK, SupersededIsOld, ApiInv, ApiStep,
         NEW k \in Kinds, NEW g \in Generations, NEW d \in Documents \cup {None},
         Put(k, g, d)
  PROVE  /\ BucketOK' /\ SupersededIsOld'
         /\ stored'[k][g] = d
         /\ \A j \in Kinds, h \in Generations :
              <<j, h>> # <<k, g>> => stored'[j][h] = stored[j][h]
<1>1. \A j \in Kinds : \A h \in Generations :
        tag'[j][h] = IF j = k /\ h = g THEN "none" ELSE tag[j][h]
  BY DEF Put, BucketOK
<1>2. \A j \in Kinds : \A h \in Generations :
        stored'[j][h] = IF j = k /\ h = g THEN d ELSE stored[j][h]
  BY DEF Put, BucketOK
<1>3. BucketOK'
  BY DEF Put, BucketOK
<1>4. SupersededIsOld'
  <2> SUFFICES ASSUME NEW j \in Kinds, NEW h \in Generations, tag'[j][h] = "superseded"
               PROVE  h < active'
    BY DEF SupersededIsOld
  <2>1. tag[j][h] = "superseded"
    BY <1>1
  <2>2. h < active
    BY <2>1 DEF SupersededIsOld
  <2> QED
    BY <2>2 DEF ApiInv, ApiStep, Generations
<1> QED
  BY <1>2, <1>3, <1>4

LEMMA BucketKept ==
  ASSUME BucketOK, SupersededIsOld, ApiInv, ApiStep, UNCHANGED bucketVars
  PROVE  BucketOK' /\ SupersededIsOld'
<1>1. BucketOK'
  BY DEF bucketVars, BucketOK
<1>2. SupersededIsOld'
  <2> SUFFICES ASSUME NEW j \in Kinds, NEW h \in Generations, tag'[j][h] = "superseded"
               PROVE  h < active'
    BY DEF SupersededIsOld
  <2>1. h < active
    BY DEF SupersededIsOld, bucketVars
  <2> QED
    BY <2>1 DEF ApiInv, ApiStep, Generations
<1> QED
  BY <1>1, <1>2

\* A tag says "superseded" only of a generation before the active one.
LEMMA SetTagKept ==
  ASSUME BucketOK, SupersededIsOld, UNCHANGED <<stored, active>>,
         NEW k \in Kinds, NEW g \in Generations, NEW state \in {"active", "superseded"},
         SetTag(k, g, state), state = "superseded" => g < active
  PROVE  BucketOK' /\ SupersededIsOld'
<1>1. CASE tag' = tag
  BY <1>1 DEF BucketOK, SupersededIsOld
<1>2. CASE tag' = [tag EXCEPT ![k][g] = state]
  <2>1. \A j \in Kinds : \A h \in Generations :
          tag'[j][h] = IF j = k /\ h = g THEN state ELSE tag[j][h]
    BY <1>2 DEF BucketOK
  <2>2. BucketOK'
    BY <1>2 DEF BucketOK
  <2>3. SupersededIsOld'
    BY <2>1 DEF SupersededIsOld
  <2> QED
    BY <2>2, <2>3
<1> QED
  BY <1>1, <1>2 DEF SetTag

-----------------------------------------------------------------------------
\* What the steps of an invocation have in common.
LEMMA AfterGoes ==
  ASSUME NEW w, NEW step, NEW k, NEW done, After(w, step, k, done)
  PROVE  \/ k = "heat" /\ RegionStats /\ pc' = [pc EXCEPT ![w] = <<step, "region">>]
         \/ ~(k = "heat" /\ RegionStats) /\ pc' = [pc EXCEPT ![w] = <<done, "heat">>]
BY DEF After, Goto

LEMMA Forgets ==
  ASSUME IInv, NEW w \in Workers, Forget(w)
  PROVE  /\ Moves(w, <<"idle", "heat">>, None)
         /\ ClaimInv(<<"idle", "heat">>, None)'
         /\ LocalOK'
         /\ generated'[w] = {}
<1>1. Moves(w, <<"idle", "heat">>, None)
  BY DEF Forget, Goto, Moves
<1>2. ClaimInv(<<"idle", "heat">>, None)'
  BY KindsAre DEF ClaimInv, Steps
<1>3. LocalOK' /\ generated'[w] = {}
  BY DEF IInv, LocalOK, Forget
<1> QED
  BY <1>1, <1>2, <1>3

\* Tagging goes on to the region artifact, or ends the invocation.
LEMMA TaggedGoes ==
  ASSUME IInv, NEW w \in Workers, NEW k \in Kinds, Tagged(w, k)
  PROVE  /\ \/ RegionStats /\ Moves(w, <<"tag", "region">>, claim[w])
            \/ Moves(w, <<"idle", "heat">>, None)
         /\ LocalOK'
<1>1. pc \in [Workers -> Steps \X Kinds] /\ claim \in [Workers -> Claims \cup {None}]
  BY DEF IInv, ClaimsOK
<1>2. \/ RegionStats /\ pc' = [pc EXCEPT ![w] = <<"tag", "region">>]
      \/ pc' = [pc EXCEPT ![w] = <<"idle", "heat">>]
  BY AfterGoes DEF Tagged
<1>3. CASE RegionStats /\ pc' = [pc EXCEPT ![w] = <<"tag", "region">>]
  <2>1. pc'[w] # <<"idle", "heat">>
    BY <1>1, <1>3
  <2>2. UNCHANGED <<claim, stamp, generated>>
    BY <2>1 DEF Tagged
  <2> QED
    BY <1>1, <1>3, <2>2 DEF Moves, IInv, LocalOK
<1>4. CASE pc' = [pc EXCEPT ![w] = <<"idle", "heat">>]
  <2>1. pc'[w] = <<"idle", "heat">>
    BY <1>1, <1>4
  <2>2. /\ claim' = [claim EXCEPT ![w] = None]
        /\ stamp' = [stamp EXCEPT ![w] = None]
        /\ generated' = [generated EXCEPT ![w] = {}]
    BY <2>1 DEF Tagged
  <2> QED
    BY <1>4, <2>2 DEF Moves, IInv, LocalOK
<1> QED
  BY <1>2, <1>3, <1>4

-----------------------------------------------------------------------------
LEMMA StepIInv == IInv /\ [Next]_vars => IInv'
<1> SUFFICES ASSUME IInv, [Next]_vars PROVE IInv'
  OBVIOUS
<1> USE DEF IInv
<1> DEFINE Rest == LocalOK' /\ (recorded \in [Kinds -> Documents \cup {None}])' /\ faults' \in 0..MaxFaults
<1>0. /\ pc \in [Workers -> Steps \X Kinds]
      /\ claim \in [Workers -> Claims \cup {None}]
      /\ \A w \in Workers : ClaimInv(pc[w], claim[w])
  BY DEF ClaimsOK
<1>a. UNCHANGED apiVars => /\ ApiStep
                           /\ ApiInv'
                           /\ (recorded \in [Kinds -> Documents \cup {None}])'
  BY DEF apiVars, ApiStep, ApiInv
<1>b. Faulty => faults' \in 0..MaxFaults
  BY RollupAssumption DEF Faulty
<1>1. ASSUME NEW w \in Workers, ClaimScope(w) PROVE IInv'
  <2>0. PICK c : c = [revision |-> revision, generation |-> active + 1]
    OBVIOUS
  <2>1. ApiStep /\ ApiInv' /\ Rest
    BY <1>1, <1>a DEF ClaimScope, LocalOK
  <2>2. Moves(w, <<"list", "heat">>, c)
    BY <1>1, <2>0 DEF ClaimScope, Goto, Moves
  <2>3. /\ c \in Claims /\ built < c.revision
        /\ c.generation = active + 1 /\ c.revision = revision
    BY <1>1, <2>0, RollupAssumption DEF ClaimScope, ApiInv, Claims, Generations
  <2>4. active' = active /\ revision' = revision /\ built' = built
    BY <1>1 DEF ClaimScope, apiVars
  <2>5. ClaimInv(<<"list", "heat">>, c)'
    BY <2>3, <2>4, KindsAre DEF ClaimInv, Steps, ApiInv
  <2>6. BucketOK' /\ SupersededIsOld'
    BY <1>1, <2>1, BucketKept DEF ClaimScope
  <2> QED
    BY <2>1, <2>2, <2>5, <2>6, Turn
<1>2. ASSUME NEW w \in Workers, ListInputs(w) PROVE IInv'
  <2>1. ApiStep /\ ApiInv' /\ Rest
    BY <1>2, <1>a DEF ListInputs, LocalOK
  <2>2. Moves(w, <<"write", "heat">>, claim[w])
    BY <1>0, <1>2 DEF ListInputs, Goto, Moves
  <2>3. PICK c : c = claim[w]
    OBVIOUS
  <2>4. ClaimInv(<<"list", "heat">>, c)'
    BY <1>0, <1>2, <2>1, <2>3, ClaimKept DEF ListInputs, At
  <2>5. ClaimInv(<<"write", "heat">>, c)'
    BY <2>4 DEF ClaimInv, Steps
  <2>6. BucketOK' /\ SupersededIsOld'
    BY <1>2, <2>1, BucketKept DEF ListInputs
  <2> QED
    BY <2>1, <2>2, <2>3, <2>5, <2>6, Turn
<1>3. ASSUME NEW w \in Workers, ListConflict(w) PROVE IInv'
  <2>1. ApiStep /\ ApiInv' /\ faults' \in 0..MaxFaults
    BY <1>3, <1>a DEF ListConflict
  <2>2. Rest
    BY <1>3, <1>a, <2>1, Forgets DEF ListConflict
  <2>3. ClaimsOK'
    BY <1>3, <2>1, Forgets, Turn DEF ListConflict
  <2>4. BucketOK' /\ SupersededIsOld'
    BY <1>3, <2>1, BucketKept DEF ListConflict
  <2> QED
    BY <2>1, <2>2, <2>3, <2>4
<1>4. ASSUME NEW w \in Workers, InspectRegion(w) PROVE IInv'
  <2>1. ApiStep /\ ApiInv' /\ BucketOK' /\ SupersededIsOld'
    BY <1>4, <1>a, BucketKept DEF InspectRegion
  <2>2. "region" \in Kinds /\ Generation(w) \in Generations
    BY <1>0, <1>4, Held DEF InspectRegion, At
  <2>3. stored["region"][Generation(w)] \in Documents \cup {None}
    BY <2>2 DEF BucketOK
  <2>4. stored["region"][Generation(w)].stamp \in Stamps \cup {None}
        \/ stored["region"][Generation(w)] = None
    BY <2>3 DEF Documents
  <2>5. /\ LocalOK'
        /\ pc' = [pc EXCEPT ![w] = <<"write", "region">>]
           \/ pc' = [pc EXCEPT ![w] = <<"discard_failed", "heat">>]
    BY <1>4, <2>4 DEF InspectRegion, LocalOK, Goto
  <2>6. PICK p : /\ p \in {<<"write", "region">>, <<"discard_failed", "heat">>}
                 /\ pc' = [pc EXCEPT ![w] = p]
    <3>1. CASE pc' = [pc EXCEPT ![w] = <<"write", "region">>]
      BY <3>1
    <3>2. CASE pc' = [pc EXCEPT ![w] = <<"discard_failed", "heat">>]
      BY <3>2
    <3> QED
      BY <2>5, <3>1, <3>2
  <2> PICK c : c = claim[w]
    OBVIOUS
  <2>7. Moves(w, p, c)
    BY <1>0, <1>4, <2>6 DEF InspectRegion, Moves
  <2>8. ClaimInv(<<"inspect", "region">>, c)'
    BY <1>0, <1>4, <2>1, <2>6, ClaimKept DEF InspectRegion, At
  <2>9. ClaimInv(p, c)'
    BY <2>2, <2>6, <2>8, KindsAre DEF ClaimInv, Steps
  <2>10. Rest
    BY <1>4, <1>a, <2>5 DEF InspectRegion
  <2> QED
    BY <2>1, <2>7, <2>9, <2>10, Turn
<1>5. ASSUME NEW w \in Workers, NEW k \in Kinds, WriteArtifact(w, k) PROVE IInv'
  <2>1. ApiStep /\ ApiInv' /\ (recorded \in [Kinds -> Documents \cup {None}])'
    BY <1>5, <1>a DEF WriteArtifact
  <2>2. Generation(w) \in Generations /\ Document(w, k) \in Documents
    BY <1>0, <1>5, Held DEF WriteArtifact, At
  <2>3. BucketOK' /\ SupersededIsOld'
    BY <1>5, <2>1, <2>2, PutKept, BucketKept DEF WriteArtifact
  <2>4. Rest
    BY <1>5, <1>b, <2>1 DEF WriteArtifact, Wrote, LocalOK
  <2>5. PICK p : /\ \/ p = <<"inspect", "region">> /\ RegionStats
                    \/ p = <<"complete", "heat">>
                    \/ p = <<"discard_failed", "heat">>
                    \/ p = <<"match", k>>
                 /\ pc' = [pc EXCEPT ![w] = p]
    <3>1. \/ RegionStats /\ pc' = [pc EXCEPT ![w] = <<"inspect", "region">>]
          \/ pc' = [pc EXCEPT ![w] = <<"complete", "heat">>]
          \/ pc' = [pc EXCEPT ![w] = <<"discard_failed", "heat">>]
          \/ pc' = [pc EXCEPT ![w] = <<"match", k>>]
      BY <1>5, AfterGoes DEF WriteArtifact, Wrote, Goto
    <3>2. CASE RegionStats /\ pc' = [pc EXCEPT ![w] = <<"inspect", "region">>]
      BY <3>2
    <3>3. CASE pc' = [pc EXCEPT ![w] = <<"complete", "heat">>]
      BY <3>3
    <3>4. CASE pc' = [pc EXCEPT ![w] = <<"discard_failed", "heat">>]
      BY <3>4
    <3>5. CASE pc' = [pc EXCEPT ![w] = <<"match", k>>]
      BY <3>5
    <3> QED
      BY <3>1, <3>2, <3>3, <3>4, <3>5
  <2> PICK c : c = claim[w]
    OBVIOUS
  <2>6. Moves(w, p, c)
    BY <1>0, <1>5, <2>5 DEF WriteArtifact, Moves
  <2>7. ClaimInv(<<"write", k>>, c)'
    BY <1>0, <1>5, <2>1, <2>5, ClaimKept DEF WriteArtifact, At
  <2>8. ClaimInv(p, c)'
    BY <2>5, <2>7, KindsAre DEF ClaimInv, Steps
  <2> QED
    BY <2>1, <2>3, <2>4, <2>6, <2>8, Turn
<1>6. ASSUME NEW w \in Workers, NEW k \in Kinds, MatchExisting(w, k) PROVE IInv'
  <2>1. ApiStep /\ ApiInv' /\ BucketOK' /\ SupersededIsOld'
    BY <1>6, <1>a, BucketKept DEF MatchExisting
  <2>2. Rest
    BY <1>6, <1>a DEF MatchExisting, Wrote, LocalOK
  <2>3. PICK p : /\ \/ p = <<"inspect", "region">> /\ RegionStats
                    \/ p = <<"complete", "heat">>
                    \/ p = <<"discard_failed", "heat">>
                 /\ pc' = [pc EXCEPT ![w] = p]
    <3>1. \/ RegionStats /\ pc' = [pc EXCEPT ![w] = <<"inspect", "region">>]
          \/ pc' = [pc EXCEPT ![w] = <<"complete", "heat">>]
          \/ pc' = [pc EXCEPT ![w] = <<"discard_failed", "heat">>]
      BY <1>6, AfterGoes DEF MatchExisting, Wrote, Goto
    <3>2. CASE RegionStats /\ pc' = [pc EXCEPT ![w] = <<"inspect", "region">>]
      BY <3>2
    <3>3. CASE pc' = [pc EXCEPT ![w] = <<"complete", "heat">>]
      BY <3>3
    <3>4. CASE pc' = [pc EXCEPT ![w] = <<"discard_failed", "heat">>]
      BY <3>4
    <3> QED
      BY <3>1, <3>2, <3>3, <3>4
  <2> PICK c : c = claim[w]
    OBVIOUS
  <2>4. Moves(w, p, c)
    BY <1>0, <1>6, <2>3 DEF MatchExisting, Moves
  <2>5. ClaimInv(<<"match", k>>, c)'
    BY <1>0, <1>6, <2>1, <2>3, ClaimKept DEF MatchExisting, At
  <2>6. ClaimInv(p, c)'
    BY <2>3, <2>5, KindsAre DEF ClaimInv, Steps
  <2> QED
    BY <2>1, <2>2, <2>4, <2>6, Turn
<1>7. ASSUME NEW w \in Workers, CompleteActivated(w) PROVE IInv'
  <2>1. pc[w] = <<"complete", "heat">> /\ revision = claim[w].revision
        /\ Generation(w) = active + 1 /\ claim[w].generation = active + 1
    BY <1>7 DEF CompleteActivated, At, Acceptable, Generation
  <2>2. built < revision /\ \A k \in Kinds : Document(w, k) \in Documents
    BY <1>0, <2>1, Held DEF ClaimInv
  <2>3. ApiStep
    BY <1>7, <2>1, <2>2 DEF CompleteActivated, Activate, ApiStep
  <2>4. BucketOK' /\ SupersededIsOld' /\ ApiInv'
    BY <1>7, <2>3, BucketKept, ApiKept DEF CompleteActivated
  <2>5. (recorded \in [Kinds -> Documents \cup {None}])'
    BY <1>7, <2>2 DEF CompleteActivated, Activate
  <2>6. CASE Goto(w, "tag", "heat") /\ UNCHANGED <<claim, stamp, generated, faults>>
    <3>1. Rest
      BY <2>5, <2>6 DEF LocalOK
    <3>2. PICK c : c = claim[w]
      OBVIOUS
    <3>3. Moves(w, <<"tag", "heat">>, c)
      BY <1>0, <2>6, <3>2 DEF Goto, Moves
    <3>4. ClaimInv(<<"complete", "heat">>, c)' /\ c.generation = active + 1
      BY <1>0, <2>1, <2>3, <3>2, ClaimKept
    <3>5. active' = active + 1
      BY <1>7, <2>1 DEF CompleteActivated, Activate
    <3>6. ClaimInv(<<"tag", "heat">>, c)'
      BY <2>4, <3>4, <3>5 DEF ClaimInv, Steps, ApiInv
    <3> QED
      BY <2>3, <2>4, <3>1, <3>3, <3>6, Turn
  <2>7. CASE Forget(w) /\ Faulty
    <3>1. Rest
      BY <1>b, <2>5, <2>7, Forgets
    <3>2. ClaimsOK'
      BY <2>3, <2>7, Forgets, Turn
    <3> QED
      BY <2>4, <3>1, <3>2
  <2> QED
    BY <1>7, <2>6, <2>7 DEF CompleteActivated
<1>8. ASSUME NEW w \in Workers, CompleteStale(w) PROVE IInv'
  <2>1. ApiStep /\ ApiInv' /\ BucketOK' /\ SupersededIsOld' /\ Rest
    BY <1>8, <1>a, BucketKept DEF CompleteStale, LocalOK
  <2>2. PICK c : c = claim[w]
    OBVIOUS
  <2>3. Moves(w, <<"discard_stale", "heat">>, c)
    BY <1>0, <1>8, <2>2 DEF CompleteStale, Goto, Moves
  <2>4. ClaimInv(<<"complete", "heat">>, c)'
    BY <1>0, <1>8, <2>1, <2>2, ClaimKept DEF CompleteStale, At
  <2>5. ClaimInv(<<"discard_stale", "heat">>, c)'
    BY <2>4 DEF ClaimInv, Steps
  <2> QED
    BY <2>1, <2>3, <2>5, Turn
<1>9. ASSUME NEW w \in Workers, NEW k \in Kinds, DiscardArtifact(w, k) PROVE IInv'
  <2>1. ApiStep /\ ApiInv' /\ (recorded \in [Kinds -> Documents \cup {None}])'
    BY <1>9, <1>a DEF DiscardArtifact
  <2>2. PICK why \in {"discard_stale", "discard_failed"} :
          /\ At(w, why, k)
          /\ \/ Put(k, Generation(w), None) /\ UNCHANGED faults
             \/ Faulty /\ UNCHANGED bucketVars
             \/ UNCHANGED <<bucketVars, faults>>
          /\ After(w, why, k, IF why = "discard_stale" THEN "idle" ELSE "report")
          /\ claim' = IF pc'[w] = <<"idle", "heat">> THEN [claim EXCEPT ![w] = None] ELSE claim
          /\ stamp' = IF pc'[w] = <<"idle", "heat">> THEN [stamp EXCEPT ![w] = None] ELSE stamp
          /\ generated' = [generated EXCEPT ![w] = @ \ {k}]
    BY <1>9 DEF DiscardArtifact
  <2>3. Generation(w) \in Generations
    BY <2>2, Held, <1>0 DEF At
  <2>4. BucketOK' /\ SupersededIsOld'
    BY <2>1, <2>2, <2>3, PutKept, BucketKept
  <2>5. Rest
    BY <1>b, <2>1, <2>2 DEF LocalOK
  <2>6. PICK p : /\ \/ p = <<why, "region">> /\ RegionStats
                    \/ p = <<"idle", "heat">>
                    \/ p = <<"report", "heat">>
                 /\ pc' = [pc EXCEPT ![w] = p]
    <3>1. \/ RegionStats /\ pc' = [pc EXCEPT ![w] = <<why, "region">>]
          \/ pc' = [pc EXCEPT ![w] = <<"idle", "heat">>]
          \/ pc' = [pc EXCEPT ![w] = <<"report", "heat">>]
      BY <2>2, AfterGoes
    <3>2. CASE RegionStats /\ pc' = [pc EXCEPT ![w] = <<why, "region">>]
      BY <3>2
    <3>3. CASE pc' = [pc EXCEPT ![w] = <<"idle", "heat">>]
      BY <3>3
    <3>4. CASE pc' = [pc EXCEPT ![w] = <<"report", "heat">>]
      BY <3>4
    <3> QED
      BY <3>1, <3>2, <3>3, <3>4
  <2> PICK c : c = claim[w]
    OBVIOUS
  <2>7. pc'[w] = p
    BY <1>0, <2>6
  <2>8. ClaimInv(<<why, k>>, c)'
    BY <1>0, <2>1, <2>2, ClaimKept DEF At
  <2>9. CASE p = <<"idle", "heat">>
    <3>1. Moves(w, p, None)
      BY <2>2, <2>6, <2>7, <2>9 DEF Moves
    <3>2. ClaimInv(p, None)'
      BY <2>9, KindsAre DEF ClaimInv, Steps
    <3> QED
      BY <2>1, <2>4, <2>5, <3>1, <3>2, Turn
  <2>10. CASE p # <<"idle", "heat">>
    <3>1. Moves(w, p, c)
      BY <1>0, <2>2, <2>6, <2>7, <2>10 DEF Moves
    <3>2. ClaimInv(p, c)'
      BY <2>6, <2>8, <2>10, KindsAre DEF ClaimInv, Steps
    <3> QED
      BY <2>1, <2>4, <2>5, <3>1, <3>2, Turn
  <2> QED
    BY <2>9, <2>10
<1>10. ASSUME NEW w \in Workers, FailScope(w) PROVE IInv'
  <2>1. ApiStep /\ ApiInv' /\ Rest
    BY <1>10, <1>a, Forgets DEF FailScope
  <2>2. ClaimsOK'
    BY <1>10, <2>1, Forgets, Turn DEF FailScope
  <2>3. BucketOK' /\ SupersededIsOld'
    BY <1>10, <2>1, BucketKept DEF FailScope
  <2> QED
    BY <2>1, <2>2, <2>3
\* An invocation that tags its artifacts goes on, or ends, with its claim.
<1>c. ASSUME NEW w \in Workers, NEW k \in Kinds, Tagged(w, k), ApiStep,
             pc[w][1] \in {"tag", "retire"}
      PROVE  ClaimsOK'
  <2>1. PICK c : c = claim[w]
    OBVIOUS
  <2>2. PICK q : q = pc[w]
    OBVIOUS
  <2>3. ClaimInv(q, c)'
    BY <1>0, <1>c, <2>1, <2>2, ClaimKept
  <2>4. CASE RegionStats /\ Moves(w, <<"tag", "region">>, c)
    <3>1. ClaimInv(<<"tag", "region">>, c)'
      BY <1>c, <2>2, <2>3, <2>4, KindsAre DEF ClaimInv, Steps
    <3> QED
      BY <1>c, <2>4, <3>1, Turn
  <2>5. CASE Moves(w, <<"idle", "heat">>, None)
    <3>1. ClaimInv(<<"idle", "heat">>, None)'
      BY KindsAre DEF ClaimInv, Steps
    <3> QED
      BY <1>c, <2>5, <3>1, Turn
  <2> QED
    BY <1>c, <2>1, <2>4, <2>5, TaggedGoes
<1>11. ASSUME NEW w \in Workers, NEW k \in Kinds, TagActive(w, k) PROVE IInv'
  <2>1. ApiStep /\ ApiInv' /\ (recorded \in [Kinds -> Documents \cup {None}])'
    BY <1>11, <1>a DEF TagActive
  <2>2. pc[w] = <<"tag", k>> /\ Generation(w) \in Generations
    BY <1>0, <1>11, Held DEF TagActive, At
  <2>3. BucketOK' /\ SupersededIsOld'
    BY <1>11, <2>2, SetTagKept DEF TagActive, apiVars
  <2>4. CASE Generation(w) > 1 /\ Goto(w, "retire", k) /\ UNCHANGED <<claim, stamp, generated>>
    <3>1. Rest
      BY <1>11, <2>1, <2>4 DEF TagActive, LocalOK
    <3>2. PICK c : c = claim[w]
      OBVIOUS
    <3>3. Moves(w, <<"retire", k>>, c)
      BY <1>0, <2>4, <3>2 DEF Goto, Moves
    <3>4. ClaimInv(<<"tag", k>>, c)'
      BY <1>0, <2>1, <2>2, <3>2, ClaimKept
    <3>5. ClaimInv(<<"retire", k>>, c)'
      BY <2>4, <3>2, <3>4 DEF ClaimInv, Steps, Generation
    <3> QED
      BY <2>1, <2>3, <3>1, <3>3, <3>5, Turn
  <2>5. CASE Tagged(w, k)
    BY <1>11, <1>c, <2>1, <2>2, <2>3, <2>5, TaggedGoes DEF TagActive
  <2> QED
    BY <1>11, <2>4, <2>5 DEF TagActive
<1>12. ASSUME NEW w \in Workers, NEW k \in Kinds, TagSuperseded(w, k) PROVE IInv'
  <2>1. ApiStep /\ ApiInv' /\ (recorded \in [Kinds -> Documents \cup {None}])'
    BY <1>12, <1>a DEF TagSuperseded
  <2>2. pc[w] = <<"retire", k>>
    BY <1>12 DEF TagSuperseded, At
  <2>3. Generation(w) \in Generations /\ Generation(w) > 1 /\ Generation(w) <= active
    BY <1>0, <2>2, Held DEF ClaimInv, Generation
  <2>4. Generation(w) - 1 \in Generations /\ Generation(w) - 1 < active
    BY <2>3, RollupAssumption DEF Generations, ApiInv
  <2>5. BucketOK' /\ SupersededIsOld'
    BY <1>12, <2>4, SetTagKept DEF TagSuperseded, apiVars
  <2>6. ClaimsOK' /\ Rest
    BY <1>12, <1>c, <2>1, <2>2, TaggedGoes DEF TagSuperseded
  <2> QED
    BY <2>1, <2>5, <2>6
<1>13. ASSUME NEW w \in Workers, NEW k \in Kinds, TagRefused(w, k) PROVE IInv'
  <2>1. ApiStep /\ ApiInv' /\ BucketOK' /\ SupersededIsOld'
    BY <1>13, <1>a, BucketKept DEF TagRefused
  <2>2. Rest
    BY <1>13, <1>a, <1>b, TaggedGoes DEF TagRefused
  <2>3. pc[w][1] \in {"tag", "retire"}
    BY <1>13 DEF TagRefused, At
  <2>4. ClaimsOK'
    BY <1>13, <1>c, <2>1, <2>3 DEF TagRefused
  <2> QED
    BY <2>1, <2>2, <2>4
<1>14. ASSUME NEW w \in Workers, BuildError(w) PROVE IInv'
  <2>1. ApiStep /\ ApiInv' /\ BucketOK' /\ SupersededIsOld'
    BY <1>14, <1>a, BucketKept DEF BuildError
  <2>2. Rest
    BY <1>14, <1>a, <1>b DEF BuildError, LocalOK
  <2>3. PICK q, c : q = pc[w] /\ c = claim[w]
    OBVIOUS
  <2>4. Moves(w, <<"discard_failed", "heat">>, c)
    BY <1>0, <1>14, <2>3 DEF BuildError, Goto, Moves
  <2>5. ClaimInv(q, c)' /\ q[1] # "idle"
    BY <1>0, <1>14, <2>1, <2>3, ClaimKept DEF BuildError
  <2>6. ClaimInv(<<"discard_failed", "heat">>, c)'
    BY <2>5, KindsAre DEF ClaimInv, Steps
  <2> QED
    BY <2>1, <2>2, <2>4, <2>6, Turn
<1>15. ASSUME NEW w \in Workers, Crash(w) PROVE IInv'
  <2>1. ApiStep /\ ApiInv' /\ Rest
    BY <1>15, <1>a, <1>b, Forgets DEF Crash
  <2>2. ClaimsOK'
    BY <1>15, <2>1, Forgets, Turn DEF Crash
  <2>3. BucketOK' /\ SupersededIsOld'
    BY <1>15, <2>1, BucketKept DEF Crash
  <2> QED
    BY <2>1, <2>2, <2>3
<1>16. CASE ReviseInputs
  <2>1. ApiStep /\ Rest
    BY <1>16 DEF ReviseInputs, ApiStep, LocalOK, workerVars
  <2>2. ApiInv' /\ BucketOK' /\ SupersededIsOld'
    BY <1>16, <2>1, ApiKept, BucketKept DEF ReviseInputs
  <2>3. ClaimsOK'
    BY <1>16, <2>1, NoTurn DEF ReviseInputs, workerVars
  <2> QED
    BY <2>1, <2>2, <2>3
<1>17. ASSUME NEW k \in Kinds, NEW g \in Generations, ExpireSuperseded(k, g) PROVE IInv'
  <2>1. ApiStep /\ ApiInv' /\ Rest
    BY <1>17, <1>a DEF ExpireSuperseded, LocalOK, workerVars
  <2>2. BucketOK' /\ SupersededIsOld'
    BY <1>17, <2>1, PutKept DEF ExpireSuperseded
  <2>3. ClaimsOK'
    BY <1>17, <2>1, NoTurn DEF ExpireSuperseded, workerVars
  <2> QED
    BY <2>1, <2>2, <2>3
<1>18. CASE UNCHANGED vars
  <2>1. ApiStep /\ ApiInv' /\ Rest
    BY <1>18, <1>a DEF LocalOK, vars, workerVars
  <2>2. BucketOK' /\ SupersededIsOld' /\ ClaimsOK'
    BY <1>18, <2>1, NoTurn, BucketKept DEF vars, workerVars
  <2> QED
    BY <2>1, <2>2
<1> QED
  BY <1>1, <1>2, <1>3, <1>4, <1>5, <1>6, <1>7, <1>8, <1>9, <1>10, <1>11, <1>12, <1>13, <1>14,
     <1>15, <1>16, <1>17, <1>18 DEF Next, Step

LEMMA Invariance == Spec => []IInv
  BY InitIInv, StepIInv, PTL DEF Spec

\* Every variable keeps its type, whatever number of invocations run at once,
\* crash or lose answers.
THEOREM TypeCorrect == Spec => []TypeOK
  BY Invariance, InvTypes, PTL

\* _mark_artifact_active: only a generation before the active one is tagged
\* "superseded", whatever number of invocations tag late: the lifecycle rule
\* never expires the objects the API serves.
THEOREM SupersededAreOld == Spec => []SupersededIsOld
<1>1. IInv => SupersededIsOld
  BY DEF IInv
<1> QED
  BY <1>1, Invariance, PTL

\* IfNoneMatch: no step replaces the object of a generation by another one; an
\* object is left alone or removed, whatever number of invocations write it.
THEOREM ObjectsImmutable == Spec => GenerationImmutable
<1>1. ASSUME IInv, [Next]_vars, NEW k \in Kinds, NEW g \in Generations, stored[k][g] # None
      PROVE  stored'[k][g] \in {stored[k][g], None}
  <2>1. CASE UNCHANGED stored
    BY <2>1
  <2>2. ASSUME NEW j \in Kinds, NEW h \in Generations, Put(j, h, None)
        PROVE  stored'[k][g] \in {stored[k][g], None}
    BY <1>1, <2>2 DEF IInv, BucketOK, Put
  <2>3. ASSUME NEW w \in Workers, NEW j \in Kinds, WriteArtifact(w, j)
        PROVE  stored'[k][g] \in {stored[k][g], None}
    <3>1. Generation(w) \in Generations
      BY <1>1, <2>3, Held DEF IInv, ClaimsOK, WriteArtifact, At
    <3>2. CASE stored[j][Generation(w)] = None /\ Put(j, Generation(w), Document(w, j))
      BY <1>1, <3>1, <3>2 DEF IInv, BucketOK, Put
    <3>3. CASE UNCHANGED bucketVars
      BY <3>3 DEF bucketVars
    <3> QED
      BY <2>3, <3>2, <3>3 DEF WriteArtifact
  <2>4. ASSUME NEW w \in Workers, NEW j \in Kinds, DiscardArtifact(w, j)
        PROVE  stored'[k][g] \in {stored[k][g], None}
    <3>1. Generation(w) \in Generations
      BY <1>1, <2>4, Held DEF IInv, ClaimsOK, DiscardArtifact, At
    <3> QED
      BY <2>1, <2>2, <2>4, <3>1 DEF DiscardArtifact, bucketVars
  <2>5. ASSUME NEW w \in Workers, Step(w) \/ BuildError(w) \/ Crash(w)
        PROVE  stored'[k][g] \in {stored[k][g], None}
    <3>1. CASE ClaimScope(w) \/ ListInputs(w) \/ ListConflict(w) \/ InspectRegion(w)
               \/ CompleteActivated(w) \/ CompleteStale(w) \/ FailScope(w)
               \/ BuildError(w) \/ Crash(w)
      BY <2>1, <3>1 DEF ClaimScope, ListInputs, ListConflict, InspectRegion, CompleteActivated,
                        CompleteStale, FailScope, BuildError, Crash, bucketVars
    <3>2. CASE \E j \in Kinds : MatchExisting(w, j) \/ TagActive(w, j) \/ TagSuperseded(w, j)
                                \/ TagRefused(w, j)
      BY <2>1, <3>2 DEF MatchExisting, TagActive, TagSuperseded, TagRefused, bucketVars
    <3> QED
      BY <2>3, <2>4, <2>5, <3>1, <3>2 DEF Step
  <2>6. CASE ReviseInputs \/ UNCHANGED vars
    BY <2>1, <2>6 DEF ReviseInputs, vars, bucketVars
  <2>7. ASSUME NEW j \in Kinds, NEW h \in Generations, ExpireSuperseded(j, h)
        PROVE  stored'[k][g] \in {stored[k][g], None}
    BY <2>2, <2>7 DEF ExpireSuperseded
  <2> QED
    BY <1>1, <2>5, <2>6, <2>7 DEF Next
<1>2. IInv /\ [Next]_vars =>
        [\A k \in Kinds, g \in Generations :
           stored[k][g] # None => stored'[k][g] \in {stored[k][g], None}]_vars
  BY <1>1
<1> QED
  BY <1>2, Invariance, PTL DEF Spec, GenerationImmutable

-----------------------------------------------------------------------------
\* One invocation at a time, as the default reserved concurrency has it.
Single == \A v, w \in Workers : v = w

\* The only invocation builds the generation to come, and what it counts as
\* generated is there, as it would write it.
BuildInv(w) ==
  /\ pc[w][1] \in Steps \ {"idle", "tag", "retire"} => Generation(w) = active + 1
  /\ pc[w][1] \in {"idle", "list", "report"} \/ pc[w] \in {"write", "match"} \X {"heat"} =>
       generated[w] = {}
  /\ pc[w] \in {"inspect", "write", "match"} \X {"region"} => generated[w] = {"heat"}
  /\ pc[w][1] = "inspect" => pc[w][2] = "region"
  /\ pc[w][1] = "complete" => generated[w] = Kinds
  /\ pc[w] \in {"discard_stale", "discard_failed"} \X {"region"} => "heat" \notin generated[w]
  /\ pc[w][1] \in {"write", "match", "inspect", "complete"} =>
       \A k \in generated[w] : stored[k][Generation(w)] = Document(w, k)

SingleInv ==
  /\ \A w \in Workers : BuildInv(w)
  /\ ActiveReadable

LEMMA InitSingle == Init => SingleInv
BY DEF Init, SingleInv, BuildInv, ActiveReadable, Steps

\* The build goes on in a bucket and a row it does not disturb.
LEMMA ReadableKept ==
  ASSUME ActiveReadable, ApiInv, UNCHANGED <<active, recorded>>,
         \A k \in Kinds : active > 0 => stored'[k][active] = stored[k][active]
  PROVE  ActiveReadable'
BY DEF ActiveReadable

\* Only the generation to come is written or discarded.
LEMMA PutAhead ==
  ASSUME IInv, ActiveReadable, NEW k \in Kinds, NEW g \in Generations,
         g # active, NEW d \in Documents \cup {None}, Put(k, g, d),
         UNCHANGED apiVars
  PROVE  /\ ActiveReadable'
         /\ stored'[k][g] = d
         /\ \A j \in Kinds, h \in Generations :
              <<j, h>> # <<k, g>> => stored'[j][h] = stored[j][h]
<1>1. ApiStep
  BY DEF apiVars, ApiStep
<1>2. /\ stored'[k][g] = d
      /\ \A j \in Kinds, h \in Generations :
           <<j, h>> # <<k, g>> => stored'[j][h] = stored[j][h]
  BY <1>1, PutKept DEF IInv
<1>3. active > 0 => active \in Generations
  BY RollupAssumption DEF IInv, ApiInv, Generations
<1>4. ActiveReadable'
  BY <1>2, <1>3, ReadableKept DEF IInv, apiVars
<1> QED
  BY <1>2, <1>4

LEMMA StepSingle == Single /\ IInv /\ SingleInv /\ [Next]_vars => SingleInv'
<1> SUFFICES ASSUME Single, IInv, SingleInv, [Next]_vars PROVE SingleInv'
  OBVIOUS
<1>0. /\ pc \in [Workers -> Steps \X Kinds]
      /\ claim \in [Workers -> Claims \cup {None}]
      /\ stamp \in [Workers -> Stamps \cup {None}]
      /\ generated \in [Workers -> SUBSET Kinds]
      /\ \A w \in Workers : ClaimInv(pc[w], claim[w]) /\ BuildInv(w)
      /\ ActiveReadable
      /\ ApiInv
  BY DEF IInv, ClaimsOK, LocalOK, SingleInv
<1>s. Kinds \subseteq {"heat", "region"} /\ "heat" \in Kinds
      /\ (RegionStats => "region" \in Kinds) /\ (~RegionStats => Kinds = {"heat"})
  BY KindsAre
<1>a. UNCHANGED <<stored, active, recorded>> => ActiveReadable'
  BY <1>0 DEF ActiveReadable
\* It is enough that the invocation that steps keeps its own part.
<1>b. ASSUME NEW w \in Workers, BuildInv(w)', ActiveReadable' PROVE SingleInv'
  BY <1>b DEF Single, SingleInv
<1>c. ASSUME NEW w \in Workers, Forget(w) PROVE BuildInv(w)'
  <2>1. pc'[w] = <<"idle", "heat">> /\ generated'[w] = {}
    BY <1>0, <1>c DEF Forget, Goto
  <2> QED
    BY <2>1 DEF BuildInv
<1>1. ASSUME NEW w \in Workers, ClaimScope(w) PROVE SingleInv'
  <2>1. /\ pc'[w] = <<"list", "heat">> /\ generated'[w] = generated[w]
        /\ claim'[w].generation = active + 1 /\ active' = active
    BY <1>0, <1>1 DEF ClaimScope, Goto, apiVars
  <2>2. generated[w] = {}
    BY <1>0, <1>1 DEF BuildInv, ClaimScope, At
  <2>3. BuildInv(w)'
    BY <2>1, <2>2 DEF BuildInv, Generation
  <2> QED
    BY <1>1, <1>a, <1>b, <2>3 DEF ClaimScope, bucketVars, apiVars
<1>2. ASSUME NEW w \in Workers, ListInputs(w) PROVE SingleInv'
  <2>1. /\ pc'[w] = <<"write", "heat">> /\ generated'[w] = generated[w]
        /\ claim' = claim /\ active' = active /\ pc[w] = <<"list", "heat">>
    BY <1>0, <1>2 DEF ListInputs, Goto, apiVars, At
  <2>2. generated[w] = {} /\ Generation(w) = active + 1
    BY <1>0, <2>1 DEF BuildInv, Steps
  <2>3. BuildInv(w)'
    BY <2>1, <2>2 DEF BuildInv, Generation
  <2> QED
    BY <1>2, <1>a, <1>b, <2>3 DEF ListInputs, bucketVars, apiVars
<1>3. ASSUME NEW w \in Workers,
             ListConflict(w) \/ FailScope(w) \/ Crash(w)
      PROVE  SingleInv'
  BY <1>3, <1>a, <1>b, <1>c DEF ListConflict, FailScope, Crash, bucketVars, apiVars
<1>4. ASSUME NEW w \in Workers, InspectRegion(w) PROVE SingleInv'
  <2>1. /\ pc[w] = <<"inspect", "region">>
        /\ pc'[w] \in {<<"write", "region">>, <<"discard_failed", "heat">>}
        /\ UNCHANGED <<claim, generated, stored, active, recorded>>
    BY <1>0, <1>4 DEF InspectRegion, Goto, At, bucketVars, apiVars
  <2>2. generated[w] = {"heat"} /\ Generation(w) = active + 1
        /\ stored["heat"][Generation(w)] = Document(w, "heat")
    BY <1>0, <2>1 DEF BuildInv, Steps
  <2>3. Document(w, "heat")' = Document(w, "heat")
    BY <2>1 DEF Document
  <2>4. BuildInv(w)'
    BY <2>1, <2>2, <2>3 DEF BuildInv, Generation
  <2> QED
    BY <1>a, <1>b, <2>1, <2>4
\* What Wrote does once the artifact is in place.
<1>d. ASSUME NEW w \in Workers, NEW k \in Kinds, Wrote(w, k), UNCHANGED <<claim, stamp, active>>,
             pc[w] \in {<<"write", k>>, <<"match", k>>},
             stored'[k][Generation(w)] = Document(w, k),
             \A j \in Kinds : j # k => stored'[j][Generation(w)] = stored[j][Generation(w)]
      PROVE  BuildInv(w)'
  <2>1. /\ Generation(w) = active + 1
        /\ generated[w] = IF k = "heat" THEN {} ELSE {"heat"}
        /\ \A j \in generated[w] : stored[j][Generation(w)] = Document(w, j)
    BY <1>0, <1>d, <1>s DEF BuildInv, Steps
  <2>2. generated'[w] = generated[w] \cup {k}
    BY <1>0, <1>d DEF Wrote
  <2>3. \/ k = "heat" /\ RegionStats /\ pc'[w] = <<"inspect", "region">>
        \/ ~(k = "heat" /\ RegionStats) /\ pc'[w] = <<"complete", "heat">>
    BY <1>0, <1>d DEF Wrote, After, Goto
  <2>4. Generation(w)' = Generation(w) /\ \A j : Document(w, j)' = Document(w, j)
    BY <1>d DEF Generation, Document
  <2>5. \A j \in generated'[w] : stored'[j][Generation(w)] = Document(w, j)
    BY <1>d, <1>s, <2>1, <2>2
  <2>6. CASE k = "heat" /\ RegionStats /\ pc'[w] = <<"inspect", "region">>
    BY <1>d, <2>1, <2>2, <2>4, <2>5, <2>6 DEF BuildInv
  <2>7. CASE ~(k = "heat" /\ RegionStats) /\ pc'[w] = <<"complete", "heat">>
    <3>1. generated'[w] = Kinds
      BY <1>s, <2>1, <2>2, <2>7
    <3> QED
      BY <1>d, <2>1, <2>4, <2>5, <2>7, <3>1 DEF BuildInv
  <2> QED
    BY <2>3, <2>6, <2>7
\* What an error does to an invocation that has a build under way.
<1>e. ASSUME NEW w \in Workers, Goto(w, "discard_failed", "heat"), UNCHANGED <<claim, active>>,
             pc[w][1] \in {"list", "write", "match", "inspect"}
      PROVE  BuildInv(w)'
  <2>1. Generation(w) = active + 1
    BY <1>0, <1>e DEF BuildInv, Steps
  <2>2. pc'[w] = <<"discard_failed", "heat">> /\ Generation(w)' = Generation(w)
    BY <1>0, <1>e DEF Goto, Generation
  <2> QED
    BY <1>e, <2>1, <2>2 DEF BuildInv
<1>5. ASSUME NEW w \in Workers, NEW k \in Kinds, WriteArtifact(w, k) PROVE SingleInv'
  <2>1. /\ pc[w] = <<"write", k>>
        /\ UNCHANGED <<claim, stamp, apiVars>>
    BY <1>5 DEF WriteArtifact, At
  <2>2. /\ Generation(w) = active + 1 /\ Generation(w) \in Generations
        /\ Generation(w) # active /\ Document(w, k) \in Documents
    BY <1>0, <2>1, Held DEF BuildInv, Steps, ApiInv
  <2>3. CASE /\ Put(k, Generation(w), Document(w, k))
             /\ Wrote(w, k) \/ Goto(w, "discard_failed", "heat")
    <3>1. /\ ActiveReadable'
          /\ stored'[k][Generation(w)] = Document(w, k)
          /\ \A j \in Kinds : j # k => stored'[j][Generation(w)] = stored[j][Generation(w)]
      BY <1>0, <2>1, <2>2, <2>3, PutAhead
    <3>2. Wrote(w, k) => BuildInv(w)'
      BY <1>d, <2>1, <3>1 DEF apiVars
    <3>3. Goto(w, "discard_failed", "heat") => BuildInv(w)'
      BY <1>e, <2>1 DEF apiVars
    <3> QED
      BY <1>b, <2>3, <3>1, <3>2, <3>3
  <2>4. CASE Goto(w, "match", k) /\ UNCHANGED <<generated, bucketVars>>
    <3>1. pc'[w] = <<"match", k>> /\ generated'[w] = generated[w]
      BY <1>0, <2>4 DEF Goto
    <3>2. BuildInv(w)
      BY <1>0
    <3>3. Generation(w)' = Generation(w) /\ \A j : Document(w, j)' = Document(w, j)
      BY <2>1 DEF Generation, Document
    <3>4. BuildInv(w)'
      BY <2>1, <2>2, <2>4, <3>1, <3>2, <3>3 DEF BuildInv, bucketVars, apiVars
    <3> QED
      BY <1>a, <1>b, <2>1, <2>4, <3>4 DEF bucketVars, apiVars
  <2> QED
    BY <1>5, <2>3, <2>4 DEF WriteArtifact
<1>6. ASSUME NEW w \in Workers, NEW k \in Kinds, MatchExisting(w, k) PROVE SingleInv'
  <2>1. /\ pc[w] = <<"match", k>>
        /\ UNCHANGED <<claim, stamp, bucketVars, apiVars>>
    BY <1>6 DEF MatchExisting, At
  <2>2. BuildInv(w)'
    <3>1. CASE stored[k][Generation(w)] = Document(w, k) /\ Wrote(w, k)
      BY <1>d, <2>1, <3>1 DEF bucketVars, apiVars
    <3>2. CASE Goto(w, "discard_failed", "heat")
      <4>1. pc[w][1] = "match" /\ UNCHANGED <<claim, active>>
        BY <2>1 DEF apiVars
      <4> QED
        BY <1>e, <3>2, <4>1
    <3> QED
      BY <1>6, <3>1, <3>2 DEF MatchExisting
  <2> QED
    BY <1>a, <1>b, <2>1, <2>2 DEF bucketVars, apiVars
<1>7. ASSUME NEW w \in Workers, CompleteActivated(w) PROVE SingleInv'
  <2>1. /\ pc[w] = <<"complete", "heat">>
        /\ active' = Generation(w) /\ stored' = stored
        /\ recorded' = [k \in Kinds |-> Document(w, k)]
    BY <1>7 DEF CompleteActivated, At, Activate, bucketVars
  <2>2. \A k \in Kinds : stored[k][Generation(w)] = Document(w, k)
    BY <1>0, <2>1 DEF BuildInv
  <2>3. ActiveReadable'
    BY <2>1, <2>2 DEF ActiveReadable
  <2>4. BuildInv(w)'
    <3>1. CASE Goto(w, "tag", "heat")
      <4>1. pc'[w] = <<"tag", "heat">>
        BY <1>0, <3>1 DEF Goto
      <4> QED
        BY <4>1 DEF BuildInv
    <3> QED
      BY <1>7, <1>c, <3>1 DEF CompleteActivated
  <2> QED
    BY <1>b, <2>3, <2>4
<1>8. ASSUME NEW w \in Workers, CompleteStale(w) PROVE SingleInv'
  <2>1. /\ pc[w] = <<"complete", "heat">> /\ pc'[w] = <<"discard_stale", "heat">>
        /\ UNCHANGED <<claim, bucketVars, apiVars>>
    BY <1>0, <1>8 DEF CompleteStale, At, Goto
  <2>2. Generation(w) = active + 1 /\ Generation(w)' = Generation(w)
    BY <1>0, <2>1 DEF BuildInv, Steps, Generation
  <2>3. BuildInv(w)'
    BY <2>1, <2>2 DEF BuildInv, apiVars
  <2> QED
    BY <1>a, <1>b, <2>1, <2>3 DEF bucketVars, apiVars
<1>9. ASSUME NEW w \in Workers, NEW k \in Kinds, DiscardArtifact(w, k) PROVE SingleInv'
  <2>1. PICK why \in {"discard_stale", "discard_failed"} :
          /\ pc[w] = <<why, k>>
          /\ Put(k, Generation(w), None) \/ UNCHANGED bucketVars
          /\ After(w, why, k, IF why = "discard_stale" THEN "idle" ELSE "report")
          /\ claim' = IF pc'[w] = <<"idle", "heat">> THEN [claim EXCEPT ![w] = None] ELSE claim
          /\ generated' = [generated EXCEPT ![w] = @ \ {k}]
          /\ UNCHANGED apiVars
    BY <1>9 DEF DiscardArtifact, At, bucketVars
  <2>2. Generation(w) = active + 1 /\ Generation(w) \in Generations /\ Generation(w) # active
    BY <1>0, <2>1, Held DEF BuildInv, Steps, ApiInv
  <2>3. ActiveReadable'
    BY <1>0, <1>a, <2>1, <2>2, PutAhead DEF bucketVars, apiVars
  <2>4. generated'[w] = generated[w] \ {k} /\ generated[w] \subseteq Kinds
    BY <1>0, <2>1
  <2>5. k = "region" => "heat" \notin generated[w]
    BY <1>0, <2>1 DEF BuildInv
  <2>6. \/ k = "heat" /\ RegionStats /\ pc'[w] = <<why, "region">>
        \/ ~(k = "heat" /\ RegionStats) /\ why = "discard_stale" /\ pc'[w] = <<"idle", "heat">>
        \/ ~(k = "heat" /\ RegionStats) /\ why = "discard_failed" /\ pc'[w] = <<"report", "heat">>
    BY <1>0, <2>1 DEF After, Goto
  <2>7. CASE k = "heat" /\ RegionStats /\ pc'[w] = <<why, "region">>
    <3>1. Generation(w)' = Generation(w) /\ active' = active
      BY <2>1, <2>7 DEF Generation, apiVars
    <3> QED
      BY <1>b, <2>2, <2>3, <2>4, <2>7, <3>1 DEF BuildInv
  <2>8. CASE ~(k = "heat" /\ RegionStats)
    <3>1. generated'[w] = {}
      BY <1>s, <2>4, <2>5, <2>8
    <3>2. pc'[w] = <<"report", "heat">> => Generation(w)' = Generation(w) /\ active' = active
      BY <2>1 DEF Generation, apiVars
    <3>3. pc'[w] \in {<<"report", "heat">>, <<"idle", "heat">>}
      BY <2>6, <2>8
    <3>4. BuildInv(w)'
      BY <2>2, <3>1, <3>2, <3>3 DEF BuildInv
    <3> QED
      BY <1>b, <2>3, <3>4
  <2> QED
    BY <2>6, <2>7, <2>8
\* The artifacts are only tagged once the completion was accepted.
<1>10. ASSUME NEW w \in Workers, NEW k \in Kinds,
              TagActive(w, k) \/ TagSuperseded(w, k) \/ TagRefused(w, k)
       PROVE  SingleInv'
  <2>1. UNCHANGED <<stored, active, recorded>>
    BY <1>10 DEF TagActive, TagSuperseded, TagRefused, bucketVars, apiVars
  <2>2. \/ pc'[w] \in {<<"retire", k>>, <<"tag", "region">>}
        \/ pc'[w] = <<"idle", "heat">> /\ generated'[w] = {}
    <3>1. CASE Goto(w, "retire", k)
      BY <1>0, <3>1 DEF Goto
    <3>2. CASE Tagged(w, k)
      <4>1. pc'[w] = <<"tag", "region">> \/ pc'[w] = <<"idle", "heat">>
        BY <1>0, <3>2 DEF Tagged, After, Goto
      <4>2. pc'[w] = <<"idle", "heat">> => generated'[w] = {}
        BY <1>0, <3>2 DEF Tagged
      <4> QED
        BY <4>1, <4>2
    <3> QED
      BY <1>10, <3>1, <3>2 DEF TagActive, TagSuperseded, TagRefused
  <2>3. BuildInv(w)'
    BY <2>2 DEF BuildInv
  <2> QED
    BY <1>a, <1>b, <2>1, <2>3
<1>11. ASSUME NEW w \in Workers, BuildError(w) PROVE SingleInv'
  BY <1>11, <1>a, <1>b, <1>e DEF BuildError, bucketVars, apiVars
<1>12. CASE ReviseInputs \/ UNCHANGED vars
  <2>1. /\ UNCHANGED <<pc, claim, stamp, generated, stored, active, recorded>>
    BY <1>12 DEF ReviseInputs, vars, workerVars, bucketVars, apiVars
  <2>2. \A w \in Workers : BuildInv(w)'
    BY <1>0, <2>1 DEF BuildInv, Generation, Document
  <2> QED
    BY <1>a, <2>1, <2>2 DEF SingleInv
<1>13. ASSUME NEW k \in Kinds, NEW g \in Generations, ExpireSuperseded(k, g) PROVE SingleInv'
  <2>1. g < active /\ Put(k, g, None) /\ UNCHANGED <<pc, claim, stamp, generated, apiVars>>
    BY <1>13 DEF ExpireSuperseded, IInv, SupersededIsOld, workerVars
  <2>2. ActiveReadable' /\ \A j \in Kinds, h \in Generations :
          h # g => stored'[j][h] = stored[j][h]
    BY <1>0, <2>1, PutAhead DEF ApiInv, Generations
  <2>3. ASSUME NEW w \in Workers PROVE BuildInv(w)'
    <3>1. Generation(w)' = Generation(w) /\ \A j : Document(w, j)' = Document(w, j)
      BY <2>1 DEF Generation, Document
    <3>2. pc[w][1] \in Steps \ {"idle", "tag", "retire"} =>
            Generation(w) = active + 1 /\ Generation(w) \in Generations
      BY <1>0, Held DEF BuildInv
    <3>3. pc[w][1] \in {"write", "match", "inspect", "complete"} =>
            \A j \in generated[w] : stored'[j][Generation(w)] = Document(w, j)
      BY <1>0, <2>1, <2>2, <3>2 DEF BuildInv, Steps, Generations, ApiInv
    <3> QED
      BY <1>0, <2>1, <3>1, <3>3 DEF BuildInv, apiVars
  <2> QED
    BY <2>2, <2>3 DEF SingleInv
<1> QED
  BY <1>1, <1>2, <1>3, <1>4, <1>5, <1>6, <1>7, <1>8, <1>9, <1>10, <1>11, <1>12, <1>13
  DEF Next, Step

LEMMA SingleInvariance == ASSUME Single PROVE Spec => []SingleInv
<1>1. Single
  OBVIOUS
<1>2. IInv /\ SingleInv /\ [Next]_vars => SingleInv'
  BY <1>1, StepSingle
<1> QED
  BY <1>2, InitSingle, Invariance, PTL DEF Spec

\* With one invocation at a time, the objects of the active generation are the
\* ones the API recorded: no failure, stale answer, lost answer, crash or late
\* tag of _process_claim deletes or replaces one.
THEOREM ActiveObjectsReadable ==
  ASSUME Single
  PROVE  Spec => []ActiveReadable
<1>1. Spec => []SingleInv
  BY SingleInvariance
<1>2. SingleInv => ActiveReadable
  BY DEF SingleInv
<1> QED
  BY <1>1, <1>2, PTL

\* With one invocation at a time, _process_claim never discards its artifacts
\* and reports a failure for a revision whose completion was accepted.
THEOREM FailuresAreUnbuilt ==
  ASSUME Single
  PROVE  Spec => []FailureIsForUnbuilt
<1>1. Spec => []SingleInv
  BY SingleInvariance
<1>2. ASSUME IInv, SingleInv, NEW w \in Workers, pc[w][1] \in {"discard_failed", "report"}
      PROVE  built # claim[w].revision
  <2>1. ClaimInv(pc[w], claim[w]) /\ Generation(w) = active + 1
    BY <1>2 DEF IInv, ClaimsOK, SingleInv, BuildInv, Steps
  <2>2. claim[w] \in Claims /\ built < claim[w].revision
    BY <1>2, <2>1 DEF ClaimInv, Generation
  <2> QED
    BY <1>2, <2>2 DEF Claims, IInv, ApiInv
<1>3. IInv /\ SingleInv => FailureIsForUnbuilt
  BY <1>2 DEF FailureIsForUnbuilt
<1> QED
  BY <1>1, <1>3, Invariance, PTL

=============================================================================
