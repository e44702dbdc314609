------------------------------ MODULE ReplayIntake ------------------------------
(***************************************************************************)
(* The initial-upload path of lambda/replay_parser/handler.py for one      *)
(* upload.  Every object, manifest and API row the path touches is named   *)
(* by the upload id, so uploads do not interact and one is enough.  The    *)
(* code takes the id from the key, and after the download from the         *)
(* object's metadata: the model is of an upload whose metadata, where it   *)
(* has an id, has that of its key.                                         *)
(*                                                                         *)
(* Notifications is the set of SQS messages that name the upload: S3 and   *)
(* SQS deliver at least once, so there may be several, and each is handled *)
(* by its own Lambda invocation.  An invocation runs handler() up to its   *)
(* end, raises, or is killed; in the last two cases the message becomes    *)
(* visible again until it has been received MaxReceive times.              *)
(*                                                                         *)
(* A build is what the parsing step of one attempt ends in: the parser     *)
(* release and the extractor (native binary or ijson fallback) that        *)
(* produced the facts.  Attempts may see different builds, because the     *)
(* native extractor may fail on one attempt only and because a release may *)
(* be promoted between two attempts.                                       *)
(***************************************************************************)
EXTENDS Naturals, FiniteSets

CONSTANTS
  Notifications,  \* the SQS messages for the upload
  Builds,         \* the parser builds an attempt may run
  Rejects,        \* the builds that raise NonRetryableReplayError on it
  MaxReceive,     \* max_receive_count of the queue's redrive policy
  MaxFaults,      \* bound: crashes, timeouts and API outages in a behaviour
  None            \* no object, no payload

ASSUME IntakeAssumption ==
  /\ Rejects \subseteq Builds
  /\ MaxReceive \in Nat \ {0}
  /\ MaxFaults \in Nat
  /\ None \notin Builds
  /\ None \notin [by : Notifications, attempt : 1..MaxReceive, build : Builds]

VARIABLES
  intact,      \* the upload passes _download_replay's manifest checks
  pc,          \* where each message's invocation is, or the message's fate
  receives,    \* ApproximateReceiveCount of each message
  build,       \* the build of each message's current attempt
  held,        \* the manifest each invocation is about to dispatch
  source,      \* the object under replays/unprocessed/ exists
  quarantined, \* its copy under replays/failed/ exists
  canonical,   \* the content-addressed canonical source exists
  viewer,      \* builds whose content-addressed viewer artifact exists
  spatial,     \* build that wrote the one spatial artifact of generation 1
  manifest,    \* the completion manifest of the generation
  posted,      \* payloads the API's finalization endpoint accepted
  told,        \* the last processing status the API accepted
  rejected,    \* the API accepted a "failed" status at some time
  faults       \* faults so far

attemptVars == <<pc, receives, build, held>>
bucketVars == <<source, quarantined, canonical, viewer, spatial, manifest>>
apiVars == <<posted, told, rejected>>
vars == <<intact, attemptVars, bucketVars, apiVars, faults>>

\* A payload carries measurements of its attempt (peak RSS, durations), so
\* no two attempts build the same one.
Payloads == [by : Notifications, attempt : 1..MaxReceive, build : Builds]

Handling == {"lookup", "announce", "download", "canonicalize", "announce_source",
             "parse", "write_viewer", "write_spatial", "persist", "verify",
             "dispatch", "cleanup", "report_failed", "quarantine", "discard", "ack"}

TypeOK ==
  /\ intact \in BOOLEAN
  /\ pc \in [Notifications -> Handling \cup {"ready", "done", "dead"}]
  /\ receives \in [Notifications -> 0..MaxReceive]
  /\ build \in [Notifications -> Builds \cup {None}]
  /\ held \in [Notifications -> Payloads \cup {None}]
  /\ source \in BOOLEAN
  /\ quarantined \in BOOLEAN
  /\ canonical \in BOOLEAN
  /\ viewer \in SUBSET Builds
  /\ spatial \in Builds \cup {None}
  /\ manifest \in Payloads \cup {None}
  /\ posted \in SUBSET Payloads
  /\ told \in {"none", "processing", "failed"}
  /\ rejected \in BOOLEAN
  /\ faults \in 0..MaxFaults

Init ==
  /\ intact \in BOOLEAN
  /\ pc = [m \in Notifications |-> "ready"]
  /\ receives = [m \in Notifications |-> 0]
  /\ build = [m \in Notifications |-> None]
  /\ held = [m \in Notifications |-> None]
  /\ source = TRUE
  /\ quarantined = FALSE
  /\ canonical = FALSE
  /\ viewer = {}
  /\ spatial = None
  /\ manifest = None
  /\ posted = {}
  /\ told = "none"
  /\ rejected = FALSE
  /\ faults = 0

OwnPayload(m) == [by |-> m, attempt |-> receives[m], build |-> build[m]]

(***************************************************************************)
(* The invocation of m moves from one step of the handler to the next.     *)
(***************************************************************************)
Goto(m, next) == pc' = [pc EXCEPT ![m] = next]

At(m, step) == pc[m] = step

\* The exception reaches handler(): the message is a batch item failure.
Retry(m) ==
  /\ Goto(m, "ready")
  /\ build' = [build EXCEPT ![m] = None]
  /\ held' = [held EXCEPT ![m] = None]
  /\ UNCHANGED receives

\* _call_app_api: the reply arrives, or it is lost and the call is sent again.
\* A call that is never accepted, or whose last reply is lost, ends in Fault.
Answered(m, next) ==
  \/ Goto(m, next) /\ UNCHANGED faults
  \/ faults < MaxFaults /\ faults' = faults + 1 /\ UNCHANGED pc

(***************************************************************************)
(* SQS.                                                                    *)
(***************************************************************************)
Receive(m) ==
  /\ At(m, "ready")
  /\ receives[m] < MaxReceive
  /\ receives' = [receives EXCEPT ![m] = @ + 1]
  /\ Goto(m, "lookup")
  /\ UNCHANGED <<build, held, bucketVars, apiVars, faults>>

DeadLetter(m) ==
  /\ At(m, "ready")
  /\ receives[m] = MaxReceive
  /\ Goto(m, "dead")
  /\ UNCHANGED <<receives, build, held, bucketVars, apiVars, faults>>

\* A crash, a Lambda timeout, an S3 error or an exhausted API call.
Fault(m) ==
  /\ pc[m] \in Handling
  /\ faults < MaxFaults
  /\ faults' = faults + 1
  /\ Retry(m)
  /\ UNCHANGED <<bucketVars, apiVars>>

\* The invocation returned without a batch item failure: SQS deletes m.
Acknowledge(m) ==
  /\ At(m, "ack")
  /\ Goto(m, "done")
  /\ UNCHANGED <<receives, build, held, bucketVars, apiVars, faults>>

(***************************************************************************)
(* _process_replay_object.                                                 *)
(***************************************************************************)
\* Wrong on purpose: the attempt always starts from the upload.
LookUpNothing(m) ==
  /\ At(m, "lookup")
  /\ Goto(m, "announce")
  /\ UNCHANGED <<receives, build, held, bucketVars, apiVars, faults>>

\* _replay_persisted_completion: a persisted manifest is dispatched as it is.
LookUpCompletion(m) ==
  /\ At(m, "lookup")
  /\ IF manifest # None
       THEN Goto(m, "dispatch") /\ held' = [held EXCEPT ![m] = manifest]
       ELSE Goto(m, "announce") /\ UNCHANGED held
  /\ UNCHANGED <<receives, build, bucketVars, apiVars, faults>>

AnnounceProcessing(m) ==
  /\ At(m, "announce")
  /\ told' = "processing"
  /\ Answered(m, "download")
  /\ UNCHANGED <<receives, build, held, bucketVars, posted, rejected>>

\* A missing object is a ClientError: not terminal, so the message retries.
DownloadMissing(m) ==
  /\ At(m, "download")
  /\ ~source
  /\ Retry(m)
  /\ UNCHANGED <<bucketVars, apiVars, faults>>

\* Wrong on purpose: a corrupt upload is retried like a transient error.
DownloadCorruptRetries(m) ==
  /\ At(m, "download")
  /\ source
  /\ IF intact THEN Goto(m, "canonicalize") /\ UNCHANGED <<receives, build, held>>
               ELSE Retry(m)
  /\ UNCHANGED <<bucketVars, apiVars, faults>>

Download(m) ==
  /\ At(m, "download")
  /\ source
  /\ Goto(m, IF intact THEN "canonicalize" ELSE "report_failed")
  /\ UNCHANGED <<receives, build, held, bucketVars, apiVars, faults>>

\* The key is the content hash: a second writer finds its own bytes there.
WriteCanonicalSource(m) ==
  /\ At(m, "canonicalize")
  /\ canonical' = TRUE
  /\ Goto(m, "announce_source")
  /\ UNCHANGED <<receives, build, held, source, quarantined, viewer, spatial,
                 manifest, apiVars, faults>>

AnnounceSource(m) ==
  /\ At(m, "announce_source")
  /\ told' = "processing"
  /\ Answered(m, "parse")
  /\ UNCHANGED <<receives, build, held, bucketVars, posted, rejected>>

Parse(m, b) ==
  /\ At(m, "parse")
  /\ build' = [build EXCEPT ![m] = b]
  /\ Goto(m, IF b \in Rejects THEN "report_failed" ELSE "write_viewer")
  /\ UNCHANGED <<receives, held, bucketVars, apiVars, faults>>

WriteViewerArtifact(m) ==
  /\ At(m, "write_viewer")
  /\ viewer' = viewer \cup {build[m]}
  /\ Goto(m, "write_spatial")
  /\ UNCHANGED <<receives, build, held, source, quarantined, canonical, spatial,
                 manifest, apiVars, faults>>

\* Wrong on purpose: the first spatial artifact stays, as a manifest does.
WriteSpatialOnce(m) ==
  /\ At(m, "write_spatial")
  /\ spatial' = IF spatial = None THEN build[m] ELSE spatial
  /\ Goto(m, "persist")
  /\ UNCHANGED <<receives, build, held, source, quarantined, canonical, viewer,
                 manifest, apiVars, faults>>

\* The key names the generation, not the content: the last writer stays.  The
\* parser always has spatial facts, so there is always an artifact.
WriteSpatialArtifact(m) ==
  /\ At(m, "write_spatial")
  /\ spatial' = build[m]
  /\ Goto(m, "persist")
  /\ UNCHANGED <<receives, build, held, source, quarantined, canonical, viewer,
                 manifest, apiVars, faults>>

\* _put_immutable_json: IfNoneMatch, and a lost race is not an error yet.
PersistManifest(m) ==
  /\ At(m, "persist")
  /\ manifest' = IF manifest = None THEN OwnPayload(m) ELSE manifest
  /\ Goto(m, "verify")
  /\ UNCHANGED <<receives, build, held, source, quarantined, canonical, viewer,
                 spatial, apiVars, faults>>

\* Wrong on purpose: the attempt dispatches what it built, whoever won.
VerifyNothing(m) ==
  /\ At(m, "verify")
  /\ held' = [held EXCEPT ![m] = OwnPayload(m)]
  /\ Goto(m, "dispatch")
  /\ UNCHANGED <<receives, build, bucketVars, apiVars, faults>>

\* The manifest is read back; another attempt's manifest is a collision.
VerifyManifest(m) ==
  /\ At(m, "verify")
  /\ manifest = OwnPayload(m)
  /\ held' = [held EXCEPT ![m] = manifest]
  /\ Goto(m, "dispatch")
  /\ UNCHANGED <<receives, build, bucketVars, apiVars, faults>>

ManifestCollision(m) ==
  /\ At(m, "verify")
  /\ manifest # OwnPayload(m)
  /\ Retry(m)
  /\ UNCHANGED <<bucketVars, apiVars, faults>>

\* _dispatch_completion, its callback.
DispatchCompletion(m) ==
  /\ At(m, "dispatch")
  /\ posted' = posted \cup {held[m]}
  /\ Answered(m, "cleanup")
  /\ UNCHANGED <<receives, build, held, bucketVars, told, rejected>>

\* _dispatch_completion, its cleanup_object.
DeleteUnprocessed(m) ==
  /\ At(m, "cleanup")
  /\ source' = FALSE
  /\ Goto(m, "ack")
  /\ UNCHANGED <<receives, build, held, quarantined, canonical, viewer, spatial,
                 manifest, apiVars, faults>>

(***************************************************************************)
(* The except clause for NonRetryableReplayError and ViewerDeltaError.     *)
(***************************************************************************)
ReportFailed(m) ==
  /\ At(m, "report_failed")
  /\ told' = "failed"
  /\ rejected' = TRUE
  /\ Answered(m, "quarantine")
  /\ UNCHANGED <<receives, build, held, bucketVars, posted>>

CopyToFailed(m) ==
  /\ At(m, "quarantine")
  /\ source
  /\ quarantined' = TRUE
  /\ Goto(m, "discard")
  /\ UNCHANGED <<receives, build, held, source, canonical, viewer, spatial,
                 manifest, apiVars, faults>>

CopyMissing(m) ==
  /\ At(m, "quarantine")
  /\ ~source
  /\ Retry(m)
  /\ UNCHANGED <<bucketVars, apiVars, faults>>

DeleteRejected(m) ==
  /\ At(m, "discard")
  /\ source' = FALSE
  /\ Goto(m, "ack")
  /\ UNCHANGED <<receives, build, held, quarantined, canonical, viewer, spatial,
                 manifest, apiVars, faults>>

\* One step of the invocation of m, or of the queue on m.
Step(m) ==
  \/ Receive(m) \/ DeadLetter(m) \/ Acknowledge(m)
  \/ LookUpCompletion(m)
  \/ AnnounceProcessing(m)
  \/ DownloadMissing(m) \/ Download(m)
  \/ WriteCanonicalSource(m)
  \/ AnnounceSource(m)
  \/ \E b \in Builds : Parse(m, b)
  \/ WriteViewerArtifact(m)
  \/ WriteSpatialArtifact(m)
  \/ PersistManifest(m)
  \/ VerifyManifest(m) \/ ManifestCollision(m)
  \/ DispatchCompletion(m) \/ DeleteUnprocessed(m)
  \/ ReportFailed(m)
  \/ CopyToFailed(m) \/ CopyMissing(m) \/ DeleteRejected(m)

Next == (\E m \in Notifications : Step(m) \/ Fault(m)) /\ UNCHANGED intact

Spec == Init /\ [][Next]_vars

\* SQS keeps delivering a visible message and a running invocation goes on.
FairSpec == Spec /\ \A m \in Notifications : WF_vars(Step(m) /\ UNCHANGED intact)

-----------------------------------------------------------------------------
(***************************************************************************)
(* Properties.                                                             *)
(***************************************************************************)
\* Only the attempts of m ran.
Alone(m) == \A n \in Notifications : n # m => receives[n] = 0

\* A manifest names only objects that exist: an attempt that finds it may
\* dispatch it without writing anything again.  Unless the other notification
\* was handled too, the spatial artifact is the one whose hash it recorded,
\* although every attempt of another build writes it under the same key.
ManifestBacked ==
  manifest # None =>
    /\ canonical
    /\ manifest.build \in viewer
    /\ spatial # None
    /\ Alone(manifest.by) => spatial = manifest.build

\* Every running attempt looked the manifest up after it was persisted.
Informed ==
  \A m \in Notifications :
    pc[m] \in {"ready", "lookup", "dispatch", "cleanup", "ack", "done", "dead"}

\* A persisted completion is final for every attempt that starts after it, on
\* either notification: no such attempt reports another status, rewrites the
\* spatial artifact, or copies the upload to the failed prefix.
CompletionIsFinal ==
  [][manifest # None /\ Informed => /\ Informed'
                                    /\ told' = told
                                    /\ spatial' = spatial
                                    /\ quarantined' = quarantined]_vars

\* An intact upload ends finalised, or copied and reported as failed where a
\* build rejects it; a damaged one is always copied and reported.
EventuallyResolved ==
  <>((intact /\ posted # {}) \/ (quarantined /\ rejected))

\* The upload path keeps the promise of the completion register.
Register == INSTANCE CompletionRegister WITH
  chosen <- manifest, delivered <- posted, held <- source, kept <- quarantined

RegisterSpec == Register!Spec

=============================================================================
