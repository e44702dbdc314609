------------------------------ MODULE ReprocessJob ------------------------------
(***************************************************************************)
(* The reprocess jobs of lambda/replay_parser/handler.py, for one attempt  *)
(* of one replay.  The application API asks for the facts alone, for facts *)
(* and viewer, or for the viewer alone; the attempt id is the generation   *)
(* under which a job with a viewer writes its artifacts and its manifest.  *)
(*                                                                         *)
(* Unlike an upload, a job has no object to delete, announces nothing      *)
(* while it runs, and is acknowledged as soon as its failure was reported. *)
(* A job for the facts alone keeps no manifest: each of its attempts posts *)
(* the payload it built itself.                                            *)
(***************************************************************************)
EXTENDS Naturals

CONSTANTS
  Messages,    \* the SQS messages that carry the job
  Jobs,        \* the jobs a behaviour may be about
  Builds,      \* the parser builds an attempt may run
  Rejects,     \* the builds that cannot parse the replay, or assemble its viewer
  MaxReceive,  \* max_receive_count of the queue's redrive policy
  MaxFaults,   \* bound: crashes, timeouts and API outages in a behaviour
  None         \* no object, no payload

\* A job's contract may be one this release does not support, and its source
\* may be gone or disagree with the hashes and sizes the job names.
Job == [wants : {"facts", "facts_and_viewer", "viewer", "unsupported"}, sound : BOOLEAN]

Payloads == [by : Messages, attempt : 1..MaxReceive, build : Builds]

ASSUME ReprocessAssumption ==
  /\ Jobs \subseteq Job
  /\ Rejects \subseteq Builds
  /\ MaxReceive \in Nat \ {0}
  /\ MaxFaults \in Nat
  /\ None \notin Builds
  /\ None \notin Payloads

VARIABLES
  job,       \* the job; it never changes
  pc,        \* where each message's invocation is, or the message's fate
  receives,  \* ApproximateReceiveCount of each message
  build,     \* the build of each message's current attempt
  held,      \* the manifest each invocation is about to dispatch
  viewer,    \* builds whose content-addressed viewer artifact exists
  spatial,   \* build that wrote the spatial artifact of the generation
  manifest,  \* the completion manifest of the generation
  posted,    \* payloads the API accepted
  failed,    \* the API accepted a "failed" status
  faults     \* faults so far

attemptVars == <<pc, receives, build, held>>
bucketVars == <<viewer, spatial, manifest>>
apiVars == <<posted, failed>>
vars == <<job, attemptVars, bucketVars, apiVars, faults>>

Handling == {"decode", "lookup", "download", "parse", "write_viewer", "write_spatial",
             "post", "persist", "verify", "dispatch", "report", "ack"}

TypeOK ==
  /\ job \in Jobs
  /\ pc \in [Messages -> Handling \cup {"ready", "done", "dead"}]
  /\ receives \in [Messages -> 0..MaxReceive]
  /\ build \in [Messages -> Builds \cup {None}]
  /\ held \in [Messages -> Payloads \cup {None}]
  /\ viewer \in SUBSET Builds
  /\ spatial \in Builds \cup {None}
  /\ manifest \in Payloads \cup {None}
  /\ posted \in SUBSET Payloads
  /\ failed \in BOOLEAN
  /\ faults \in 0..MaxFaults

Init ==
  /\ job \in Jobs
  /\ pc = [m \in Messages |-> "ready"]
  /\ receives = [m \in Messages |-> 0]
  /\ build = [m \in Messages |-> None]
  /\ held = [m \in Messages |-> None]
  /\ viewer = {}
  /\ spatial = None
  /\ manifest = None
  /\ posted = {}
  /\ failed = FALSE
  /\ faults = 0

\* The job has a viewer request, and with it a generation and a manifest.
Generational == job.wants \in {"facts_and_viewer", "viewer"}

OwnPayload(m) == [by |-> m, attempt |-> receives[m], build |-> build[m]]

Goto(m, next) == pc' = [pc EXCEPT ![m] = next]

\* The exception reaches handler(): the message is a batch item failure.
Retry(m) ==
  /\ Goto(m, "ready")
  /\ build' = [build EXCEPT ![m] = None]
  /\ held' = [held EXCEPT ![m] = None]
  /\ UNCHANGED receives

\* _call_app_api: the reply arrives, or it is lost and the call is sent again.
Answered(m, next) ==
  \/ Goto(m, next) /\ UNCHANGED faults
  \/ faults < MaxFaults /\ faults' = faults + 1 /\ UNCHANGED pc

-----------------------------------------------------------------------------
(***************************************************************************)
(* SQS.                                                                    *)
(***************************************************************************)
Receive(m) ==
  /\ pc[m] = "ready"
  /\ receives[m] < MaxReceive
  /\ receives' = [receives EXCEPT ![m] = @ + 1]
  /\ Goto(m, "decode")
  /\ UNCHANGED <<build, held, bucketVars, apiVars, faults>>

DeadLetter(m) ==
  /\ pc[m] = "ready"
  /\ receives[m] = MaxReceive
  /\ Goto(m, "dead")
  /\ UNCHANGED <<receives, build, held, bucketVars, apiVars, faults>>

Fault(m) ==
  /\ pc[m] \in Handling
  /\ faults < MaxFaults
  /\ faults' = faults + 1
  /\ Retry(m)
  /\ UNCHANGED <<bucketVars, apiVars>>

Acknowledge(m) ==
  /\ pc[m] = "ack"
  /\ Goto(m, "done")
  /\ UNCHANGED <<receives, build, held, bucketVars, apiVars, faults>>

-----------------------------------------------------------------------------
(***************************************************************************)
(* _iter_replay_work_items and _process_reprocess_job.                     *)
(***************************************************************************)
\* A contract this release does not know is reported by the attempt id alone.
DecodeJob(m) ==
  /\ pc[m] = "decode"
  /\ Goto(m, CASE job.wants = "unsupported" -> "report"
               [] Generational -> "lookup"
               [] OTHER -> "download")
  /\ UNCHANGED <<receives, build, held, bucketVars, apiVars, faults>>

\* _replay_persisted_completion.
LookUpCompletion(m) ==
  /\ pc[m] = "lookup"
  /\ IF manifest # None
       THEN Goto(m, "dispatch") /\ held' = [held EXCEPT ![m] = manifest]
       ELSE Goto(m, "download") /\ UNCHANGED held
  /\ UNCHANGED <<receives, build, bucketVars, apiVars, faults>>

\* Wrong on purpose: a source that cannot be used is left to the next attempt.
DownloadRetrying(m) ==
  /\ pc[m] = "download"
  /\ IF job.sound THEN Goto(m, "parse") /\ UNCHANGED <<receives, build, held>> ELSE Retry(m)
  /\ UNCHANGED <<bucketVars, apiVars, faults>>

\* The manifests of the job, then those of the object: a missing object and a
\* disagreement are final.
Download(m) ==
  /\ pc[m] = "download"
  /\ Goto(m, IF job.sound THEN "parse" ELSE "report")
  /\ UNCHANGED <<receives, build, held, bucketVars, apiVars, faults>>

\* Parsing and, for a viewer, assembling: either may reject the replay, and
\* nothing was written before.
Parse(m, b) ==
  /\ pc[m] = "parse"
  /\ build' = [build EXCEPT ![m] = b]
  /\ Goto(m, IF b \in Rejects THEN "report"
             ELSE IF Generational THEN "write_viewer" ELSE "write_spatial")
  /\ UNCHANGED <<receives, held, bucketVars, apiVars, faults>>

WriteViewerArtifact(m) ==
  /\ pc[m] = "write_viewer"
  /\ viewer' = viewer \cup {build[m]}
  /\ Goto(m, IF job.wants = "viewer" THEN "persist" ELSE "write_spatial")
  /\ UNCHANGED <<receives, build, held, spatial, manifest, apiVars, faults>>

\* The key names the attempt id: messages of one job overwrite each other's.
WriteSpatialArtifact(m) ==
  /\ pc[m] = "write_spatial"
  /\ spatial' = build[m]
  /\ Goto(m, IF Generational THEN "persist" ELSE "post")
  /\ UNCHANGED <<receives, build, held, viewer, manifest, apiVars, faults>>

\* Facts alone: the payload is posted without having been persisted.
PostFacts(m) ==
  /\ pc[m] = "post"
  /\ posted' = posted \cup {OwnPayload(m)}
  /\ Answered(m, "ack")
  /\ UNCHANGED <<receives, build, held, bucketVars, failed>>

PersistManifest(m) ==
  /\ pc[m] = "persist"
  /\ manifest' = IF manifest = None THEN OwnPayload(m) ELSE manifest
  /\ Goto(m, "verify")
  /\ UNCHANGED <<receives, build, held, viewer, spatial, apiVars, faults>>

\* Wrong on purpose: the attempt dispatches what it built, whoever won.
VerifyNothing(m) ==
  /\ pc[m] = "verify"
  /\ held' = [held EXCEPT ![m] = OwnPayload(m)]
  /\ Goto(m, "dispatch")
  /\ UNCHANGED <<receives, build, bucketVars, apiVars, faults>>

VerifyManifest(m) ==
  /\ pc[m] = "verify"
  /\ manifest = OwnPayload(m)
  /\ held' = [held EXCEPT ![m] = manifest]
  /\ Goto(m, "dispatch")
  /\ UNCHANGED <<receives, build, bucketVars, apiVars, faults>>

ManifestCollision(m) ==
  /\ pc[m] = "verify"
  /\ manifest # OwnPayload(m)
  /\ Retry(m)
  /\ UNCHANGED <<bucketVars, apiVars, faults>>

DispatchCompletion(m) ==
  /\ pc[m] = "dispatch"
  /\ posted' = posted \cup {held[m]}
  /\ Answered(m, "ack")
  /\ UNCHANGED <<receives, build, held, bucketVars, failed>>

\* _send_reprocess_attempt_status and _report_reprocess_job_contract_failure.
ReportFailed(m) ==
  /\ pc[m] = "report"
  /\ failed' = TRUE
  /\ Answered(m, "ack")
  /\ UNCHANGED <<receives, build, held, bucketVars, posted>>

-----------------------------------------------------------------------------
Step(m) ==
  \/ Receive(m) \/ DeadLetter(m) \/ Acknowledge(m)
  \/ DecodeJob(m) \/ LookUpCompletion(m)
  \/ Download(m) \/ \E b \in Builds : Parse(m, b)
  \/ WriteViewerArtifact(m) \/ WriteSpatialArtifact(m)
  \/ PostFacts(m)
  \/ PersistManifest(m) \/ VerifyManifest(m) \/ ManifestCollision(m)
  \/ DispatchCompletion(m)
  \/ ReportFailed(m)

Next == (\E m \in Messages : Step(m) \/ Fault(m)) /\ UNCHANGED job

Spec == Init /\ [][Next]_vars

\* SQS keeps delivering a visible message and a running invocation goes on.
FairSpec == Spec /\ \A m \in Messages : WF_vars(Step(m) /\ UNCHANGED job)

-----------------------------------------------------------------------------
(***************************************************************************)
(* Properties.                                                             *)
(***************************************************************************)
\* Every running attempt of a job with a viewer looked the manifest up after
\* it was persisted.
Informed ==
  /\ Generational
  /\ \A m \in Messages :
       pc[m] \in {"ready", "decode", "lookup", "dispatch", "ack", "done", "dead"}

\* A persisted completion is final for every attempt that starts after it: the
\* job is not reported as failed, and the spatial artifact the completion
\* describes is not overwritten.
CompletionIsFinal ==
  [][manifest # None /\ Informed => Informed' /\ failed' = failed /\ spatial' = spatial]_vars

\* The API finally knows the job's end, while faults leave its messages a
\* delivery: completed or failed, and failed if it cannot be processed at all.
EventuallyAnswered ==
  <>(failed \/ (posted # {} /\ job.sound /\ job.wants # "unsupported"))

\* A job with a viewer keeps the promise of the completion register: one
\* completion per attempt.  One for the facts alone promises nothing of it.
Register == INSTANCE CompletionRegister WITH
  chosen <- manifest, delivered <- IF Generational THEN posted ELSE {},
  held <- TRUE, kept <- FALSE

RegisterSpec == Register!Spec

=============================================================================
