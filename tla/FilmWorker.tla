------------------------------- MODULE FilmWorker -------------------------------
(***************************************************************************)
(* lambda/h1_film/worker.py and cloud.py: the conversion of one generation *)
(* of one film, up to its completion callback or its failure report.       *)
(*                                                                         *)
(* A generation is worked on through SQS messages, each received up to     *)
(* MaxReceive times: S3 notifications for an initial upload (the job is    *)
(* then obtained from the API's prepare call, which resolves the map and   *)
(* pins engine, recipe and job), or job messages for a reprocess attempt.  *)
(* Sources are read by version id and never deleted, and everything the    *)
(* conversion writes is determined by the pins, so the artifacts of two    *)
(* attempts are equal; their payloads differ in what they measured.        *)
(*                                                                         *)
(* The API may answer any call with a failure code, identity_conflict or,  *)
(* once the generation is superseded, stale_attempt; every other error     *)
(* makes the message retry.  Two attempts may run different releases of    *)
(* the worker, which need not agree on a job, a film or a manifest.        *)
(***************************************************************************)
EXTENDS Naturals

CONSTANTS
  Messages,     \* the SQS messages for the generation
  Jobs,         \* the jobs the generation may be
  MaxReceive,   \* max_receive_count of the films queue
  MaxFaults,    \* bound: crashes, lost replies and calls to be retried
  MaxSlow,      \* bound: inspections and conversions that run out of time
  None

\* What the API asks for, whether the exporter records client diagnostics, and
\* what becomes of the film: it is converted; its download, its inspection or
\* its simulation fails; what reads its products raises an error that is not a
\* FilmError; or its native analytics are refused once its spatial artifact is
\* written.
Job == [mode : {"initial", "full_reparse", "viewer_rebuild"},
        quality : {"good", "damaged", "unreadable", "desyncs", "inconsistent",
                   "misreported"},
        diagnosed : BOOLEAN]

\* Who found against the generation: the worker, about the film; this release
\* of the worker, about the job or its manifest; the API, by a failure code.
Reasons == {"film", "release", "api"}

Payloads == [by : Messages, attempt : 1..MaxReceive]

ASSUME FilmAssumption ==
  /\ Jobs \subseteq Job
  /\ MaxReceive \in Nat \ {0}
  /\ MaxFaults \in Nat
  /\ MaxSlow \in Nat
  /\ None \notin Payloads \cup Reasons

VARIABLES
  job,          \* the generation's job
  pc,           \* where each message's invocation is, or the message's fate
  receives,     \* ApproximateReceiveCount of each message
  dispatching,  \* the payload each invocation read from the manifest
  reason,       \* why each invocation reports a failure
  fenced,       \* the API has superseded the generation
  viewer,       \* the generation's viewer artifact exists
  diagnostics,  \* its client diagnostics exist
  spatial,      \* its spatial artifact exists
  manifest,     \* its completion manifest
  posted,       \* the payloads the API accepted
  told,         \* the reasons of the "failed" reports the API accepted
  conflicts,    \* the calls the API answered identity_conflict
  faults,
  slow

attemptVars == <<pc, receives, dispatching, reason>>
bucketVars == <<viewer, diagnostics, spatial, manifest>>
apiVars == <<fenced, posted, told, conflicts>>
bounds == <<faults, slow>>
vars == <<job, attemptVars, bucketVars, apiVars, bounds>>

Working == {"start", "lookup", "download", "inspect", "prepare", "compare",
            "lookup_prepared", "convert", "write_viewer", "write_diagnostics",
            "write_spatial", "persist", "reread", "post", "report", "ack"}

TypeOK ==
  /\ job \in Jobs
  /\ pc \in [Messages -> Working \cup {"ready", "done", "dead"}]
  /\ receives \in [Messages -> 0..MaxReceive]
  /\ dispatching \in [Messages -> Payloads \cup {None}]
  /\ reason \in [Messages -> Reasons \cup {None}]
  /\ fenced \in BOOLEAN
  /\ viewer \in BOOLEAN
  /\ diagnostics \in BOOLEAN
  /\ spatial \in BOOLEAN
  /\ manifest \in Payloads \cup {None}
  /\ posted \in SUBSET Payloads
  /\ told \in SUBSET Reasons
  /\ conflicts \in SUBSET {"prepare", "post"}
  /\ faults \in 0..MaxFaults
  /\ slow \in 0..MaxSlow

Init ==
  /\ job \in Jobs
  /\ pc = [m \in Messages |-> "ready"]
  /\ receives = [m \in Messages |-> 0]
  /\ dispatching = [m \in Messages |-> None]
  /\ reason = [m \in Messages |-> None]
  /\ fenced = FALSE
  /\ viewer = FALSE
  /\ diagnostics = FALSE
  /\ spatial = FALSE
  /\ manifest = None
  /\ posted = {}
  /\ told = {}
  /\ conflicts = {}
  /\ faults = 0
  /\ slow = 0

OwnPayload(m) == [by |-> m, attempt |-> receives[m]]

Move(m, next) ==
  /\ pc' = [pc EXCEPT ![m] = next]
  /\ UNCHANGED <<receives, dispatching, reason>>

\* A FilmError that is not retryable: the handler reports it.
Fail(m, why) ==
  /\ pc' = [pc EXCEPT ![m] = "report"]
  /\ reason' = [reason EXCEPT ![m] = why]
  /\ UNCHANGED <<receives, dispatching>>

\* The payload of a manifest is about to be sent.
Dispatch(m, payload) ==
  /\ pc' = [pc EXCEPT ![m] = "post"]
  /\ dispatching' = [dispatching EXCEPT ![m] = payload]
  /\ UNCHANGED <<receives, reason>>

\* The handler returns no batch item failure.
End(m) ==
  /\ pc' = [pc EXCEPT ![m] = "ack"]
  /\ dispatching' = [dispatching EXCEPT ![m] = None]
  /\ reason' = [reason EXCEPT ![m] = None]
  /\ UNCHANGED receives

\* The message is a batch item failure and becomes visible again.
Retry(m) ==
  /\ pc' = [pc EXCEPT ![m] = "ready"]
  /\ dispatching' = [dispatching EXCEPT ![m] = None]
  /\ reason' = [reason EXCEPT ![m] = None]
  /\ UNCHANGED receives

Receive(m) ==
  /\ pc[m] = "ready"
  /\ receives[m] < MaxReceive
  /\ receives' = [receives EXCEPT ![m] = @ + 1]
  /\ pc' = [pc EXCEPT ![m] = "start"]
  /\ UNCHANGED <<dispatching, reason, bucketVars, apiVars, bounds>>

DeadLetter(m) ==
  /\ pc[m] = "ready"
  /\ receives[m] = MaxReceive
  /\ Move(m, "dead")
  /\ UNCHANGED <<bucketVars, apiVars, bounds>>

\* A crash, a Lambda timeout, an S3 error, an error of the shared parser, or a
\* call whose answer is none of those api() tells apart.
Fault(m) ==
  /\ pc[m] \in Working
  /\ faults < MaxFaults
  /\ faults' = faults + 1
  /\ Retry(m)
  /\ UNCHANGED <<bucketVars, apiVars, slow>>

Acknowledge(m) ==
  /\ pc[m] = "ack"
  /\ Move(m, "done")
  /\ UNCHANGED <<bucketVars, apiVars, bounds>>

-----------------------------------------------------------------------------
(***************************************************************************)
(* execute.                                                                *)
(***************************************************************************)
\* A job message is validated before anything else, against the profiles and
\* recipes of this release.
Start(m) ==
  /\ pc[m] = "start"
  /\ IF job.mode = "initial"
       THEN Move(m, "download")
       ELSE Move(m, "lookup") \/ Fail(m, "release")
  /\ UNCHANGED <<bucketVars, apiVars, bounds>>

Afterwards == [lookup |-> "download", lookup_prepared |-> "convert"]

\* Wrong on purpose: a persisted completion is taken for a delivered one.
LookUpAcknowledges(m) ==
  /\ pc[m] \in DOMAIN Afterwards
  /\ IF manifest # None THEN End(m) ELSE Move(m, Afterwards[pc[m]])
  /\ UNCHANGED <<bucketVars, apiVars, bounds>>

\* Wrong on purpose: only prepared jobs look for a persisted completion.
LookUpPreparedOnly(m) ==
  /\ pc[m] \in DOMAIN Afterwards
  /\ IF manifest # None /\ pc[m] = "lookup_prepared"
       THEN Dispatch(m, manifest) \/ Fail(m, "release")
       ELSE Move(m, Afterwards[pc[m]])
  /\ UNCHANGED <<bucketVars, apiVars, bounds>>

\* replay_completion: a persisted manifest, of this release or of another, is
\* validated and sent again.
LookUpCompletion(m) ==
  /\ pc[m] \in DOMAIN Afterwards
  /\ IF manifest # None
       THEN Dispatch(m, manifest) \/ Fail(m, "release")
       ELSE Move(m, Afterwards[pc[m]])
  /\ UNCHANGED <<bucketVars, apiVars, bounds>>

\* The stored object must be the one the notification or the job describes.
Download(m) ==
  /\ pc[m] = "download"
  /\ IF job.quality = "damaged" THEN Fail(m, "film") ELSE Move(m, "inspect")
  /\ UNCHANGED <<bucketVars, apiVars, bounds>>

\* What a job pins was inspected before; an upload's film may be beyond this
\* release.
InspectFilm(m) ==
  /\ pc[m] = "inspect"
  /\ \/ /\ job.quality # "unreadable"
        /\ Move(m, IF job.mode = "initial" THEN "prepare" ELSE "compare")
     \/ /\ job.quality = "unreadable" \/ job.mode = "initial"
        /\ Fail(m, "film")
  /\ UNCHANGED <<bucketVars, apiVars, bounds>>

\* The API pins the job, which must pass validate_job here.
Prepare(m) ==
  /\ pc[m] = "prepare"
  /\ ~fenced
  /\ Move(m, "compare") \/ Fail(m, "release")
  /\ UNCHANGED <<bucketVars, apiVars, bounds>>

\* The pins must be of this version of the object, read as this release reads
\* it: an attempt before this one may have had another version or release.
ComparePins(m) ==
  /\ pc[m] = "compare"
  /\ Move(m, "lookup_prepared") \/ Fail(m, "film")
  /\ UNCHANGED <<bucketVars, apiVars, bounds>>

\* Wrong on purpose: artifacts are written after the manifest that names them.
ConvertPersistingFirst(m) ==
  /\ pc[m] = "convert"
  /\ CASE job.quality = "desyncs" -> Fail(m, "film")
       [] job.quality = "inconsistent" -> Retry(m)
       [] OTHER -> Move(m, "persist")
  /\ UNCHANGED <<bucketVars, apiVars, bounds>>

\* A simulation that does not reproduce the film is reported; a ValueError of
\* the readers of its products is no FilmError, so the message retries.
Convert(m) ==
  /\ pc[m] = "convert"
  /\ CASE job.quality = "desyncs" -> Fail(m, "film")
       [] job.quality = "inconsistent" -> Retry(m)
       [] OTHER -> Move(m, "write_viewer")
  /\ UNCHANGED <<bucketVars, apiVars, bounds>>

\* run_bounded kills what runs past its deadline: conversion_failed, which
\* is reported and not retried.
RunOutOfTime(m) ==
  /\ pc[m] \in {"inspect", "convert"}
  /\ slow < MaxSlow
  /\ slow' = slow + 1
  /\ Fail(m, "film")
  /\ UNCHANGED <<bucketVars, apiVars, faults>>

WriteViewerArtifact(m) ==
  /\ pc[m] = "write_viewer"
  /\ viewer' = TRUE
  /\ Move(m, IF job.diagnosed THEN "write_diagnostics"
             ELSE IF job.mode = "viewer_rebuild" THEN "persist" ELSE "write_spatial")
  /\ UNCHANGED <<diagnostics, spatial, manifest, apiVars, bounds>>

PublishDiagnostics(m) ==
  /\ pc[m] = "write_diagnostics"
  /\ diagnostics' = TRUE
  /\ Move(m, IF job.mode = "viewer_rebuild" THEN "persist" ELSE "write_spatial")
  /\ UNCHANGED <<viewer, spatial, manifest, apiVars, bounds>>

\* The native analytics of the payload are validated after the artifact.
WriteSpatialArtifact(m) ==
  /\ pc[m] = "write_spatial"
  /\ spatial' = TRUE
  /\ IF job.quality = "misreported" THEN Fail(m, "film") ELSE Move(m, "persist")
  /\ UNCHANGED <<viewer, diagnostics, manifest, apiVars, bounds>>

\* _put_immutable_json: IfNoneMatch, and a lost race is not an error.
PersistManifest(m) ==
  /\ pc[m] = "persist"
  /\ manifest' = IF manifest = None THEN OwnPayload(m) ELSE manifest
  /\ Move(m, "reread")
  /\ UNCHANGED <<viewer, diagnostics, spatial, apiVars, bounds>>

\* Wrong on purpose: the attempt sends what it built, whoever won.
RereadNothing(m) ==
  /\ pc[m] = "reread"
  /\ Dispatch(m, OwnPayload(m))
  /\ UNCHANGED <<bucketVars, apiVars, bounds>>

\* "Re-read and validate the winner before dispatch": the loser of a race
\* sends the winner's payload, or reports that this release refuses it.
RereadWinner(m) ==
  /\ pc[m] = "reread"
  /\ manifest # None
  /\ Dispatch(m, manifest) \/ Fail(m, "release")
  /\ UNCHANGED <<bucketVars, apiVars, bounds>>

-----------------------------------------------------------------------------
(***************************************************************************)
(* The answers to the two calls of execute, and the report.                *)
(***************************************************************************)
\* The callback.  There is one call per attempt: when its reply is lost the
\* message retries.
PostCompletion(m) ==
  /\ pc[m] = "post"
  /\ ~fenced
  /\ posted' = posted \cup {dispatching[m]}
  /\ \/ End(m) /\ UNCHANGED faults
     \/ Retry(m) /\ faults < MaxFaults /\ faults' = faults + 1
  /\ UNCHANGED <<bucketVars, fenced, told, conflicts, slow>>

\* The API answers with one of FAILURES: a report of that code follows, of a
\* completion that is persisted too.
AnswerFailure(m) ==
  /\ pc[m] \in {"prepare", "post"}
  /\ Fail(m, "api")
  /\ UNCHANGED <<bucketVars, apiVars, bounds>>

\* identity_conflict: report_failure returns without a report, and the message
\* is acknowledged.
AnswerConflict(m) ==
  /\ pc[m] \in {"prepare", "post"}
  /\ conflicts' = conflicts \cup {pc[m]}
  /\ End(m)
  /\ UNCHANGED <<bucketVars, fenced, posted, told, bounds>>

\* stale_attempt, the answer to a superseded generation, ends the same way.
AnswerStale(m) ==
  /\ pc[m] \in {"prepare", "post"}
  /\ fenced
  /\ End(m)
  /\ UNCHANGED <<bucketVars, apiVars, bounds>>

\* Wrong on purpose: a report the API refused is forgotten.
ReportBestEffort(m) ==
  /\ pc[m] = "report"
  /\ ~fenced
  /\ told' \in {told, told \cup {reason[m]}}
  /\ End(m)
  /\ UNCHANGED <<bucketVars, fenced, posted, conflicts, bounds>>

\* report_failure.  Any error in answer to the report makes the message retry
\* (Fault), and so does a lost reply.
ReportFailure(m) ==
  /\ pc[m] = "report"
  /\ ~fenced
  /\ told' = told \cup {reason[m]}
  /\ \/ End(m) /\ UNCHANGED faults
     \/ Retry(m) /\ faults < MaxFaults /\ faults' = faults + 1
  /\ UNCHANGED <<bucketVars, fenced, posted, conflicts, slow>>

\* stale_attempt in answer to a report is an error of the report.
ReportStale(m) ==
  /\ pc[m] = "report"
  /\ fenced
  /\ Retry(m)
  /\ UNCHANGED <<bucketVars, apiVars, bounds>>

\* The API: a later request for the same replay supersedes this one.
Supersede ==
  /\ ~fenced
  /\ fenced' = TRUE
  /\ UNCHANGED <<attemptVars, bucketVars, posted, told, conflicts, bounds>>

Step(m) ==
  \/ Receive(m) \/ DeadLetter(m) \/ Acknowledge(m)
  \/ Start(m) \/ LookUpCompletion(m)
  \/ Download(m) \/ InspectFilm(m) \/ Prepare(m) \/ ComparePins(m) \/ Convert(m)
  \/ WriteViewerArtifact(m) \/ PublishDiagnostics(m) \/ WriteSpatialArtifact(m)
  \/ PersistManifest(m) \/ RereadWinner(m)
  \/ PostCompletion(m) \/ AnswerFailure(m) \/ AnswerConflict(m) \/ AnswerStale(m)
  \/ ReportFailure(m) \/ ReportStale(m)

Next ==
  /\ \/ \E m \in Messages : Step(m) \/ Fault(m) \/ RunOutOfTime(m)
     \/ Supersede
  /\ UNCHANGED job

Spec == Init /\ [][Next]_vars

\* SQS keeps delivering a visible message and a running invocation goes on.
FairSpec == Spec /\ \A m \in Messages : WF_vars(Step(m) /\ UNCHANGED job)

-----------------------------------------------------------------------------
(***************************************************************************)
(* Properties.                                                             *)
(***************************************************************************)
\* handler: a message is acknowledged only when the API has accepted a
\* completion or a failure report of its generation, or has itself disowned the
\* generation by stale_attempt or identity_conflict.
AcknowledgedAccounted ==
  (\E m \in Messages : pc[m] = "done") =>
    posted # {} \/ told # {} \/ fenced \/ conflicts # {}

\* A manifest names only artifacts that exist: whoever finds it may send it.
ManifestBacked ==
  manifest # None => /\ viewer
                     /\ job.diagnosed => diagnostics
                     /\ job.mode # "viewer_rebuild" => spatial

\* Every attempt of a reprocess job that still has to look at the film looks
\* for the persisted completion first.
Informed ==
  /\ job.mode # "initial"
  /\ \A m \in Messages :
       \/ pc[m] \in {"ready", "start", "lookup", "post", "ack", "done", "dead"}
       \/ pc[m] = "report" /\ reason[m] \in {"release", "api"}

\* execute: the film of a reprocess job is not judged again by an attempt that
\* starts after its completion was persisted: no failed download, inspection or
\* conversion is reported from then on.  A failure can still be reported, but
\* only of a job or a manifest this release refuses, or by a code of the API.
PersistedNotRejudged ==
  [][manifest # None /\ Informed =>
       Informed' /\ ("film" \in told' => "film" \in told)]_vars

\* A persisted completion reaches the API, when faults leave its messages a
\* delivery, unless the API supersedes, disowns or fails the generation, a
\* release refuses the job or the manifest, or an upload's retry does not come
\* to its completion: it inspects and prepares the film again.
PersistedIsDelivered ==
  manifest # None ~> \/ posted # {}
                     \/ fenced
                     \/ "post" \in conflicts
                     \/ told \cap {"release", "api"} # {}
                     \/ job.mode = "initial" /\ (told # {} \/ conflicts # {})

\* The worker keeps the promise of the completion register.  The source film
\* is never deleted and never copied.
Register == INSTANCE CompletionRegister WITH
  chosen <- manifest, delivered <- posted, held <- TRUE, kept <- FALSE

RegisterSpec == Register!Spec

=============================================================================
