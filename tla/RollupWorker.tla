------------------------------ MODULE RollupWorker ------------------------------
(***************************************************************************)
(* lambda/heatmap_rollup_worker/handler.py for one scope.  Keys, claims    *)
(* and API rows carry the scope id, so scopes do not interact.             *)
(*                                                                         *)
(* The application API hands a worker a claim on the revision of the       *)
(* scope's inputs and on the generation after the active one.  The worker  *)
(* writes the heat artifact and, when region statistics are on, the region *)
(* artifact under keys that name the generation, asks the API to activate  *)
(* them, and tags the objects for the bucket's lifecycle rules.            *)
(*                                                                         *)
(* Workers is the set of concurrent invocations the reserved concurrency   *)
(* allows: one by default (components/terraform/map-processing), more if   *)
(* the deployment says so.  The API is not in the repository: it is        *)
(* modelled from the answers the worker distinguishes, and may hand the    *)
(* same claim to every worker that asks.                                   *)
(***************************************************************************)
EXTENDS Naturals

CONSTANTS
  Workers,      \* concurrent invocations
  RegionStats,  \* region statistics are requested
  Stamps,       \* values _current_timestamp may return
  MaxRevision,  \* bound: revisions of the scope's inputs
  MaxFaults,    \* bound: crashes, refused or lost S3 and API calls
  None          \* no object, no timestamp

ASSUME RollupAssumption ==
  /\ RegionStats \in BOOLEAN
  /\ MaxRevision \in Nat \ {0}
  /\ MaxFaults \in Nat
  /\ None \notin Stamps

Kinds == IF RegionStats THEN {"heat", "region"} ELSE {"heat"}
Generations == 1..MaxRevision
Claims == [revision : 1..MaxRevision, generation : Generations]

\* What the bytes of an artifact depend on.  Both are deterministic in the
\* inputs; the region document also carries the time it was generated.
Documents == [revision : 1..MaxRevision, stamp : Stamps \cup {None}]

VARIABLES
  pc,        \* <<step, artifact>> of each worker
  claim,     \* the claim each worker holds
  stamp,     \* generated_at of each worker
  generated, \* the artifacts each worker counts as generated by itself
  stored,    \* stored[k][g]: the object under the key of generation g
  tag,       \* tag[k][g]: its halospawns-rollup-state
  revision,  \* API: revision of the scope's inputs
  active,    \* API: active generation, 0 before the first
  built,     \* API: revision the active generation was built from
  recorded,  \* API: the documents (hashes) of the active generation
  faults     \* faults so far

workerVars == <<pc, claim, stamp, generated>>
bucketVars == <<stored, tag>>
apiVars == <<revision, active, built, recorded>>
vars == <<workerVars, bucketVars, apiVars, faults>>

Steps == {"idle", "list", "write", "match", "inspect", "complete",
          "discard_stale", "discard_failed", "report", "tag", "retire"}

TypeOK ==
  /\ pc \in [Workers -> Steps \X {"heat", "region"}]
  /\ claim \in [Workers -> Claims \cup {None}]
  /\ stamp \in [Workers -> Stamps \cup {None}]
  /\ generated \in [Workers -> SUBSET Kinds]
  /\ stored \in [Kinds -> [Generations -> Documents \cup {None}]]
  /\ tag \in [Kinds -> [Generations -> {"none", "active", "superseded"}]]
  /\ revision \in 1..MaxRevision
  /\ active \in 0..MaxRevision
  /\ built \in 0..MaxRevision
  /\ recorded \in [Kinds -> Documents \cup {None}]
  /\ faults \in 0..MaxFaults

Init ==
  /\ pc = [w \in Workers |-> <<"idle", "heat">>]
  /\ claim = [w \in Workers |-> None]
  /\ stamp = [w \in Workers |-> None]
  /\ generated = [w \in Workers |-> {}]
  /\ stored = [k \in Kinds |-> [g \in Generations |-> None]]
  /\ tag = [k \in Kinds |-> [g \in Generations |-> "none"]]
  /\ revision = 1
  /\ active = 0
  /\ built = 0
  /\ recorded = [k \in Kinds |-> None]
  /\ faults = 0

-----------------------------------------------------------------------------
At(w, step, k) == pc[w] = <<step, k>>
Goto(w, step, k) == pc' = [pc EXCEPT ![w] = <<step, k>>]

\* Artifacts are written, discarded and tagged heat first.
After(w, step, k, done) ==
  IF k = "heat" /\ RegionStats THEN Goto(w, step, "region") ELSE Goto(w, done, "heat")

\* The invocation is over: its local state is gone.
Forget(w) ==
  /\ Goto(w, "idle", "heat")
  /\ claim' = [claim EXCEPT ![w] = None]
  /\ stamp' = [stamp EXCEPT ![w] = None]
  /\ generated' = [generated EXCEPT ![w] = {}]

Faulty == faults < MaxFaults /\ faults' = faults + 1

Generation(w) == claim[w].generation

Document(w, k) ==
  [revision |-> claim[w].revision,
   stamp |-> IF k = "region" THEN stamp[w] ELSE None]

Put(k, g, document) ==
  /\ stored' = [stored EXCEPT ![k][g] = document]
  /\ tag' = [tag EXCEPT ![k][g] = "none"]

-----------------------------------------------------------------------------
\* _claim_scopes: the API has inputs the active generation was not built from.
ClaimScope(w) ==
  /\ At(w, "idle", "heat")
  /\ built # revision
  /\ claim' = [claim EXCEPT ![w] = [revision |-> revision, generation |-> active + 1]]
  /\ Goto(w, "list", "heat")
  /\ UNCHANGED <<stamp, generated, bucketVars, apiVars, faults>>

\* _list_inputs: every page is pinned to the claimed revision.
ListInputs(w) ==
  /\ At(w, "list", "heat")
  /\ revision = claim[w].revision
  /\ Goto(w, "write", "heat")
  /\ UNCHANGED <<claim, stamp, generated, bucketVars, apiVars, faults>>

\* Answer 409: StaleRevisionError, before anything was generated.
ListConflict(w) ==
  /\ At(w, "list", "heat")
  /\ revision # claim[w].revision
  /\ Forget(w)
  /\ UNCHANGED <<bucketVars, apiVars, faults>>

\* Wrong on purpose: every attempt generates its own timestamp.
InspectNothing(w) ==
  /\ At(w, "inspect", "region")
  /\ \E s \in Stamps : stamp' = [stamp EXCEPT ![w] = s]
  /\ Goto(w, "write", "region")
  /\ UNCHANGED <<claim, generated, bucketVars, apiVars, faults>>

\* _region_generated_at: a present region object lends its timestamp.
InspectRegion(w) ==
  /\ At(w, "inspect", "region")
  /\ LET found == stored["region"][Generation(w)] IN
       \/ /\ found = None
          /\ \E s \in Stamps : stamp' = [stamp EXCEPT ![w] = s]
          /\ Goto(w, "write", "region")
       \/ /\ found # None
          /\ found.revision = claim[w].revision
          /\ stamp' = [stamp EXCEPT ![w] = found.stamp]
          /\ Goto(w, "write", "region")
       \/ /\ found # None
          /\ found.revision # claim[w].revision
          /\ Goto(w, "discard_failed", "heat")
          /\ UNCHANGED stamp
  /\ UNCHANGED <<claim, generated, bucketVars, apiVars, faults>>

\* The step after an artifact was written or found as it should be.
Wrote(w, k) ==
  /\ generated' = [generated EXCEPT ![w] = @ \cup {k}]
  /\ After(w, "inspect", k, "complete")

\* Wrong on purpose: an unconditional put.
OverwriteArtifact(w, k) ==
  /\ At(w, "write", k)
  /\ Put(k, Generation(w), Document(w, k))
  /\ Wrote(w, k)
  /\ UNCHANGED <<claim, stamp, apiVars, faults>>

\* The put of _write_rollup_artifact and _write_region_rollup_artifact, with
\* IfNoneMatch; its answer may be lost, which is an error like any other.
WriteArtifact(w, k) ==
  /\ At(w, "write", k)
  /\ LET found == stored[k][Generation(w)] IN
       \/ /\ found = None
          /\ Put(k, Generation(w), Document(w, k))
          /\ \/ Wrote(w, k) /\ UNCHANGED faults
             \/ Faulty /\ Goto(w, "discard_failed", "heat") /\ UNCHANGED generated
       \/ /\ found # None
          /\ Goto(w, "match", k)
          /\ UNCHANGED <<generated, bucketVars, faults>>
  /\ UNCHANGED <<claim, stamp, apiVars>>

\* Wrong on purpose: an object that is there already is taken as it is.
MatchAnything(w, k) ==
  /\ At(w, "match", k)
  /\ Wrote(w, k)
  /\ UNCHANGED <<claim, stamp, bucketVars, apiVars, faults>>

\* _require_matching_existing_output: the same bytes count as generated here.
MatchExisting(w, k) ==
  /\ At(w, "match", k)
  /\ IF stored[k][Generation(w)] = Document(w, k)
       THEN Wrote(w, k)
       ELSE Goto(w, "discard_failed", "heat") /\ UNCHANGED generated
  /\ UNCHANGED <<claim, stamp, bucketVars, apiVars, faults>>

Acceptable(w) == revision = claim[w].revision /\ Generation(w) = active + 1

Activate(w) ==
  /\ active' = Generation(w)
  /\ built' = claim[w].revision
  /\ recorded' = [k \in Kinds |-> Document(w, k)]
  /\ UNCHANGED revision

\* Wrong on purpose: an unanswered completion is treated like any other error.
CompletionFailsScope(w) ==
  /\ At(w, "complete", "heat")
  /\ Acceptable(w)
  /\ Activate(w)
  /\ \/ Goto(w, "tag", "heat") /\ UNCHANGED <<claim, stamp, generated, faults>>
     \/ Goto(w, "discard_failed", "heat") /\ Faulty /\ UNCHANGED <<claim, stamp, generated>>
  /\ UNCHANGED bucketVars

\* _complete_scope, answered "activated": the worker raises if it is not told.
CompleteActivated(w) ==
  /\ At(w, "complete", "heat")
  /\ Acceptable(w)
  /\ Activate(w)
  /\ \/ Goto(w, "tag", "heat") /\ UNCHANGED <<claim, stamp, generated, faults>>
     \/ Forget(w) /\ Faulty
  /\ UNCHANGED bucketVars

\* _complete_scope, answered "stale".
CompleteStale(w) ==
  /\ At(w, "complete", "heat")
  /\ ~Acceptable(w)
  /\ Goto(w, "discard_stale", "heat")
  /\ UNCHANGED <<claim, stamp, generated, bucketVars, apiVars, faults>>

\* _delete_generated_artifact, which swallows a refused delete.
DiscardArtifact(w, k) ==
  /\ \E why \in {"discard_stale", "discard_failed"} :
       /\ At(w, why, k)
       /\ \/ k \in generated[w] /\ Put(k, Generation(w), None) /\ UNCHANGED faults
          \/ k \in generated[w] /\ Faulty /\ UNCHANGED bucketVars
          \/ k \notin generated[w] /\ UNCHANGED <<bucketVars, faults>>
       /\ After(w, why, k, IF why = "discard_stale" THEN "idle" ELSE "report")
       /\ claim' = IF pc'[w] = <<"idle", "heat">> THEN [claim EXCEPT ![w] = None] ELSE claim
       /\ stamp' = IF pc'[w] = <<"idle", "heat">> THEN [stamp EXCEPT ![w] = None] ELSE stamp
       /\ generated' = [generated EXCEPT ![w] = @ \ {k}]
  /\ UNCHANGED apiVars

\* _fail_scope: whatever the answer, the API keeps offering the revision.
FailScope(w) ==
  /\ At(w, "report", "heat")
  /\ Forget(w)
  /\ UNCHANGED <<bucketVars, apiVars, faults>>

-----------------------------------------------------------------------------
\* A tag needs an object; a missing one is an error the worker only logs.
SetTag(k, g, state) ==
  tag' = IF stored[k][g] = None THEN tag ELSE [tag EXCEPT ![k][g] = state]

Tagged(w, k) ==
  /\ After(w, "tag", k, "idle")
  /\ claim' = IF pc'[w] = <<"idle", "heat">> THEN [claim EXCEPT ![w] = None] ELSE claim
  /\ stamp' = IF pc'[w] = <<"idle", "heat">> THEN [stamp EXCEPT ![w] = None] ELSE stamp
  /\ generated' = IF pc'[w] = <<"idle", "heat">> THEN [generated EXCEPT ![w] = {}] ELSE generated

\* _mark_artifact_active, its first put_object_tagging.
TagActive(w, k) ==
  /\ At(w, "tag", k)
  /\ SetTag(k, Generation(w), "active")
  /\ IF Generation(w) > 1 /\ stored[k][Generation(w)] # None
       THEN Goto(w, "retire", k) /\ UNCHANGED <<claim, stamp, generated>>
       ELSE Tagged(w, k)
  /\ UNCHANGED <<stored, apiVars, faults>>

\* Wrong on purpose: the generation just activated is the one retired.
TagOwnSuperseded(w, k) ==
  /\ At(w, "retire", k)
  /\ SetTag(k, Generation(w), "superseded")
  /\ Tagged(w, k)
  /\ UNCHANGED <<stored, apiVars, faults>>

\* _mark_artifact_active, its second put_object_tagging.
TagSuperseded(w, k) ==
  /\ At(w, "retire", k)
  /\ SetTag(k, Generation(w) - 1, "superseded")
  /\ Tagged(w, k)
  /\ UNCHANGED <<stored, apiVars, faults>>

\* A refused tagging call is logged; the other artifact is still tagged.
TagRefused(w, k) ==
  /\ At(w, "tag", k) \/ At(w, "retire", k)
  /\ Faulty
  /\ Tagged(w, k)
  /\ UNCHANGED <<bucketVars, apiVars>>

-----------------------------------------------------------------------------
\* An S3 or API call failed before the completion was attempted.
BuildError(w) ==
  /\ pc[w][1] \in {"list", "write", "match", "inspect"}
  /\ Faulty
  /\ Goto(w, "discard_failed", "heat")
  /\ UNCHANGED <<claim, stamp, generated, bucketVars, apiVars>>

\* The invocation is killed, or raises from a call after the build.
Crash(w) ==
  /\ pc[w][1] # "idle"
  /\ Faulty
  /\ Forget(w)
  /\ UNCHANGED <<bucketVars, apiVars>>

\* The API gives the scope's inputs a new revision.
ReviseInputs ==
  /\ revision < MaxRevision
  /\ revision' = revision + 1
  /\ UNCHANGED <<workerVars, bucketVars, active, built, recorded, faults>>

\* The bucket's lifecycle rule on objects tagged "superseded".
ExpireSuperseded(k, g) ==
  /\ tag[k][g] = "superseded"
  /\ Put(k, g, None)
  /\ UNCHANGED <<workerVars, apiVars, faults>>

Step(w) ==
  \/ ClaimScope(w) \/ ListInputs(w) \/ ListConflict(w) \/ InspectRegion(w)
  \/ CompleteActivated(w) \/ CompleteStale(w) \/ FailScope(w)
  \/ \E k \in Kinds :
       \/ WriteArtifact(w, k) \/ MatchExisting(w, k) \/ DiscardArtifact(w, k)
       \/ TagActive(w, k) \/ TagSuperseded(w, k) \/ TagRefused(w, k)

Next ==
  \/ \E w \in Workers : Step(w) \/ BuildError(w) \/ Crash(w)
  \/ ReviseInputs
  \/ \E k \in Kinds, g \in Generations : ExpireSuperseded(k, g)

Spec == Init /\ [][Next]_vars

\* The schedule starts an invocation every few minutes, and one that runs
\* goes on to its end or its timeout.
FairSpec == Spec /\ \A w \in Workers : WF_vars(Step(w))

-----------------------------------------------------------------------------
(***************************************************************************)
(* Properties.                                                             *)
(***************************************************************************)
\* With one invocation at a time, the objects of the active generation are
\* the ones the API recorded: no failure path or stale answer deletes or
\* replaces one, even when the answer to the completion was lost.
ActiveReadable == active > 0 => \A k \in Kinds : stored[k][active] = recorded[k]

\* With one invocation at a time, no worker gives up, deleting its objects and
\* reporting a failure, on a revision that was already activated.
FailureIsForUnbuilt ==
  \A w \in Workers :
    pc[w][1] \in {"discard_failed", "report"} => built # claim[w].revision

\* However late the tags are written, only generations before the active one
\* are handed to the lifecycle rule.
SupersededIsOld ==
  \A k \in Kinds, g \in Generations : tag[k][g] = "superseded" => g < active

\* A generation's object is removed or left alone, never replaced in place.
GenerationImmutable ==
  [][\A k \in Kinds, g \in Generations :
       stored[k][g] # None => stored'[k][g] \in {stored[k][g], None}]_vars

\* The next generation's key holds an object built from an older revision:
\* an orphan of a worker that stopped between its puts and its activation.
Orphaned ==
  \E k \in Kinds :
    /\ active < MaxRevision
    /\ stored[k][active + 1] # None
    /\ stored[k][active + 1].revision # revision

\* The last revision is finally built, unless such an orphan blocks its key:
\* what a stopped worker built from the same inputs is adopted, the region
\* document's timestamp included.
CurrentUnlessOrphaned == <>[](built = revision \/ Orphaned)

=============================================================================
