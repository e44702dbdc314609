--------------------------- MODULE ReplayIntakeProofs ---------------------------
(***************************************************************************)
(* Theorems about ReplayIntake, for every set of notifications, every set  *)
(* of builds and every redrive policy.                                     *)
(***************************************************************************)
EXTENDS ReplayIntake, TLAPS

\* However many attempts ran, the API was sent one payload: the manifest's.
OnePayload == posted \subseteq {manifest}

\* The uploaded object is deleted only after the API accepted the completion
\* or after a copy was put under the failed prefix.
SourceAccountedFor == source \/ manifest \in posted \/ quarantined

\* Nothing is copied to the failed prefix before the API was told of it.
QuarantineReported == quarantined => rejected

\* The manifest is written once: no attempt replaces another's completion.
ManifestWriteOnce == [][manifest # None => manifest' = manifest]_vars

\* Where an attempt stands once the canonical source is in the bucket.
PastCanonical == {"announce_source", "parse", "write_viewer", "write_spatial",
                  "persist", "verify"}

\* Where an attempt that found no manifest stands until it puts its own.
BeforeManifest == {"announce", "download", "canonicalize", "announce_source",
                   "parse", "write_viewer", "write_spatial", "persist"}

\* What the step an attempt has reached says about the shared objects.
AttemptInv(m) ==
  /\ pc[m] \in Handling => receives[m] # 0
  /\ pc[m] \in PastCanonical => canonical
  /\ pc[m] \in {"write_viewer", "write_spatial", "persist", "verify"} =>
       build[m] \in Builds
  /\ pc[m] \in {"write_spatial", "persist", "verify"} => build[m] \in viewer
  /\ pc[m] \in {"persist", "verify"} =>
       spatial # None /\ (Alone(m) => spatial = build[m])
  /\ pc[m] \in BeforeManifest /\ manifest # None => manifest.by # m
  /\ pc[m] \in {"dispatch", "cleanup"} => manifest # None /\ held[m] = manifest
  /\ pc[m] = "cleanup" => manifest \in posted
  /\ pc[m] \in {"quarantine", "discard"} => rejected
  /\ pc[m] = "discard" => quarantined

IInv ==
  /\ TypeOK
  /\ \A m \in Notifications : AttemptInv(m)
  /\ posted # {} => manifest # None
  /\ OnePayload
  /\ SourceAccountedFor
  /\ ManifestBacked
  /\ QuarantineReported

-----------------------------------------------------------------------------
\* The initial states satisfy the inductive invariant.
LEMMA InitIInv == Init => IInv
<1> SUFFICES ASSUME Init PROVE IInv
  OBVIOUS
<1>1. TypeOK
  <2>1. 0 \in 0..MaxReceive /\ 0 \in 0..MaxFaults
    BY IntakeAssumption
  <2> QED
    BY <2>1 DEF Init, TypeOK
<1>2. \A m \in Notifications : AttemptInv(m)
  BY DEF Init, AttemptInv, Handling, PastCanonical, BeforeManifest
<1> QED
  BY <1>1, <1>2 DEF Init, IInv, OnePayload, SourceAccountedFor, ManifestBacked,
                    QuarantineReported

\* Every step of the handler, the queue and the faults preserves it.
LEMMA StepIInv == IInv /\ [Next]_vars => IInv'
<1> SUFFICES ASSUME IInv, [Next]_vars PROVE IInv'
  OBVIOUS
<1> USE IntakeAssumption DEF IInv, TypeOK, AttemptInv, OnePayload,
      SourceAccountedFor, ManifestBacked, QuarantineReported, Handling,
      PastCanonical, BeforeManifest, Alone, Payloads, At, Goto, attemptVars, bucketVars, apiVars
<1>0. UNCHANGED intact
  BY DEF Next, vars
<1> USE <1>0
<1>1. ASSUME NEW m \in Notifications, Receive(m) PROVE IInv'
  BY <1>1 DEF Receive
<1>2. ASSUME NEW m \in Notifications, DeadLetter(m) PROVE IInv'
  BY <1>2 DEF DeadLetter
<1>3. ASSUME NEW m \in Notifications, Acknowledge(m) PROVE IInv'
  BY <1>3 DEF Acknowledge
<1>4. ASSUME NEW m \in Notifications, LookUpCompletion(m) PROVE IInv'
  BY <1>4 DEF LookUpCompletion
<1>5. ASSUME NEW m \in Notifications, AnnounceProcessing(m) PROVE IInv'
  BY <1>5 DEF AnnounceProcessing, Answered
<1>6. ASSUME NEW m \in Notifications, DownloadMissing(m) PROVE IInv'
  BY <1>6 DEF DownloadMissing, Retry
<1>7. ASSUME NEW m \in Notifications, Download(m) PROVE IInv'
  BY <1>7 DEF Download
<1>8. ASSUME NEW m \in Notifications, WriteCanonicalSource(m) PROVE IInv'
  BY <1>8 DEF WriteCanonicalSource
<1>9. ASSUME NEW m \in Notifications, AnnounceSource(m) PROVE IInv'
  BY <1>9 DEF AnnounceSource, Answered
<1>10. ASSUME NEW m \in Notifications, NEW b \in Builds, Parse(m, b) PROVE IInv'
  BY <1>10 DEF Parse
<1>11. ASSUME NEW m \in Notifications, WriteViewerArtifact(m) PROVE IInv'
  BY <1>11 DEF WriteViewerArtifact
<1>12. ASSUME NEW m \in Notifications, WriteSpatialArtifact(m) PROVE IInv'
  BY <1>12 DEF WriteSpatialArtifact
<1>13. ASSUME NEW m \in Notifications, PersistManifest(m) PROVE IInv'
  BY <1>13 DEF PersistManifest, OwnPayload
<1>14. ASSUME NEW m \in Notifications, VerifyManifest(m) PROVE IInv'
  BY <1>14 DEF VerifyManifest, OwnPayload
<1>15. ASSUME NEW m \in Notifications, ManifestCollision(m) PROVE IInv'
  BY <1>15 DEF ManifestCollision, Retry
<1>16. ASSUME NEW m \in Notifications, DispatchCompletion(m) PROVE IInv'
  BY <1>16 DEF DispatchCompletion, Answered
<1>17. ASSUME NEW m \in Notifications, DeleteUnprocessed(m) PROVE IInv'
  BY <1>17 DEF DeleteUnprocessed
<1>18. ASSUME NEW m \in Notifications, ReportFailed(m) PROVE IInv'
  BY <1>18 DEF ReportFailed, Answered
<1>19. ASSUME NEW m \in Notifications, CopyToFailed(m) PROVE IInv'
  BY <1>19 DEF CopyToFailed
<1>20. ASSUME NEW m \in Notifications, CopyMissing(m) PROVE IInv'
  BY <1>20 DEF CopyMissing, Retry
<1>21. ASSUME NEW m \in Notifications, DeleteRejected(m) PROVE IInv'
  BY <1>21 DEF DeleteRejected
<1>22. ASSUME NEW m \in Notifications, Fault(m) PROVE IInv'
  BY <1>22 DEF Fault, Retry
<1>23. CASE UNCHANGED vars
  BY <1>23 DEF vars
<1> QED
  BY <1>1, <1>2, <1>3, <1>4, <1>5, <1>6, <1>7, <1>8, <1>9, <1>10, <1>11, <1>12,
     <1>13, <1>14, <1>15, <1>16, <1>17, <1>18, <1>19, <1>20, <1>21, <1>22, <1>23
     DEF Next, Step

\* IInv is an invariant of the specification.
LEMMA Invariance == Spec => []IInv
BY InitIInv, StepIInv, PTL DEF Spec

-----------------------------------------------------------------------------
\* The variables keep their types: _process_replay_object never holds or
\* writes anything but payloads of its own upload, and the queue never
\* delivers a notification more than MaxReceive times.
THEOREM TypeCorrect == Spec => []TypeOK
BY Invariance, PTL DEF IInv

\* _persist_and_dispatch_completion: the API is sent one payload, however
\* many attempts, retries and duplicate notifications there are.
THEOREM PayloadUnique == Spec => []OnePayload
BY Invariance, PTL DEF IInv

\* _dispatch_completion and the failure clause: the upload is deleted only
\* after the API accepted its completion or a copy was made.
THEOREM SourceNeverLost == Spec => []SourceAccountedFor
BY Invariance, PTL DEF IInv

\* A persisted manifest names objects that exist: _replay_persisted_completion
\* may dispatch it without writing anything.
THEOREM ManifestsAreBacked == Spec => []ManifestBacked
BY Invariance, PTL DEF IInv

\* The failure clause tells the API before it copies.
THEOREM QuarantinesAreReported == Spec => []QuarantineReported
BY Invariance, PTL DEF IInv

-----------------------------------------------------------------------------
\* The initial states of the upload path are initial states of the register.
LEMMA InitRefines == Init => Register!Init
BY DEF Init, Register!Init

\* A step of the upload path is a step of the register, or leaves it alone.
LEMMA StepRefines == IInv /\ [Next]_vars => [Register!Next]_(Register!vars)
<1> SUFFICES ASSUME IInv, [Next]_vars PROVE [Register!Next]_(Register!vars)
  OBVIOUS
<1> USE DEF Register!vars, attemptVars, bucketVars, apiVars
<1>1. ASSUME NEW m \in Notifications, PersistManifest(m)
      PROVE [Register!Next]_(Register!vars)
  <2>1. OwnPayload(m) \in Payloads
    BY <1>1 DEF PersistManifest, At, OwnPayload, Payloads, IInv, AttemptInv,
                TypeOK, Handling
  <2> QED
    BY <1>1, <2>1 DEF PersistManifest, Register!Next, Register!Choose
<1>2. ASSUME NEW m \in Notifications, DispatchCompletion(m)
      PROVE [Register!Next]_(Register!vars)
  BY <1>2 DEF DispatchCompletion, At, IInv, AttemptInv, Register!Next,
              Register!Deliver
<1>3. ASSUME NEW m \in Notifications, DeleteUnprocessed(m)
      PROVE [Register!Next]_(Register!vars)
  BY <1>3 DEF DeleteUnprocessed, At, IInv, AttemptInv, Register!Next,
              Register!Release
<1>4. ASSUME NEW m \in Notifications, CopyToFailed(m)
      PROVE [Register!Next]_(Register!vars)
  BY <1>4 DEF CopyToFailed, Register!Next, Register!Keep
<1>5. ASSUME NEW m \in Notifications, DeleteRejected(m)
      PROVE [Register!Next]_(Register!vars)
  BY <1>5 DEF DeleteRejected, At, IInv, AttemptInv, Register!Next,
              Register!Release
<1>6. ASSUME NEW m \in Notifications,
             \/ Receive(m) \/ DeadLetter(m) \/ Acknowledge(m)
             \/ LookUpCompletion(m) \/ AnnounceProcessing(m)
             \/ DownloadMissing(m) \/ Download(m)
             \/ WriteCanonicalSource(m) \/ AnnounceSource(m)
             \/ \E b \in Builds : Parse(m, b)
             \/ WriteViewerArtifact(m) \/ WriteSpatialArtifact(m)
             \/ VerifyManifest(m) \/ ManifestCollision(m)
             \/ ReportFailed(m) \/ CopyMissing(m) \/ Fault(m)
      PROVE UNCHANGED Register!vars
  BY <1>6 DEF Receive, DeadLetter, Acknowledge, LookUpCompletion,
              AnnounceProcessing, DownloadMissing, Download,
              WriteCanonicalSource, AnnounceSource, Parse, WriteViewerArtifact,
              WriteSpatialArtifact, VerifyManifest, ManifestCollision,
              ReportFailed, CopyMissing, Fault
<1>7. CASE UNCHANGED vars
  BY <1>7 DEF vars
<1> QED
  BY <1>1, <1>2, <1>3, <1>4, <1>5, <1>6, <1>7 DEF Next, Step

\* The upload path implements the completion register.
THEOREM Refinement == Spec => RegisterSpec
BY InitRefines, Invariance, StepRefines, PTL DEF Spec, RegisterSpec, Register!Spec

\* The register never replaces its choice, so neither does the manifest.
THEOREM ManifestStays == Spec => ManifestWriteOnce
<1>1. IInv /\ [Next]_vars => [manifest # None => manifest' = manifest]_vars
  <2> SUFFICES ASSUME IInv, [Next]_vars, manifest # None PROVE manifest' = manifest
    OBVIOUS
  <2>1. [Register!Next]_(Register!vars)
    BY StepRefines
  <2> QED
    BY <2>1 DEF Register!Next, Register!Choose, Register!Deliver, Register!Keep,
                Register!Release, Register!vars
<1> QED
  BY <1>1, Invariance, PTL DEF Spec, ManifestWriteOnce

-----------------------------------------------------------------------------
\* An attempt that looks the manifest up once it is there goes on to dispatch
\* it: only the steps of Informed remain open to it.
LEMMA StepFinal ==
  ASSUME IInv, [Next]_vars, manifest # None, Informed
  PROVE  Informed' /\ told' = told /\ spatial' = spatial /\ quarantined' = quarantined
<1> USE DEF IInv, TypeOK, Informed, At, Goto, bucketVars, apiVars
<1>1. manifest' = manifest
  <2>1. [Register!Next]_(Register!vars)
    BY StepRefines DEF IInv
  <2> QED
    BY <2>1 DEF Register!Next, Register!Choose, Register!Deliver, Register!Keep,
                Register!Release, Register!vars
<1>2. ASSUME NEW m \in Notifications,
             \/ Receive(m) \/ DeadLetter(m) \/ Acknowledge(m)
             \/ LookUpCompletion(m) \/ DispatchCompletion(m) \/ DeleteUnprocessed(m)
             \/ Fault(m)
      PROVE  Informed' /\ told' = told /\ spatial' = spatial /\ quarantined' = quarantined
  BY <1>2 DEF Receive, DeadLetter, Acknowledge, LookUpCompletion, DispatchCompletion,
              Answered, DeleteUnprocessed, Fault, Retry
<1>3. ASSUME NEW m \in Notifications,
             \/ AnnounceProcessing(m) \/ DownloadMissing(m) \/ Download(m)
             \/ WriteCanonicalSource(m) \/ AnnounceSource(m)
             \/ \E b \in Builds : Parse(m, b)
             \/ WriteViewerArtifact(m) \/ WriteSpatialArtifact(m)
             \/ PersistManifest(m) \/ VerifyManifest(m) \/ ManifestCollision(m)
             \/ ReportFailed(m) \/ CopyToFailed(m) \/ CopyMissing(m)
             \/ DeleteRejected(m)
      PROVE  FALSE
  BY <1>3 DEF AnnounceProcessing, DownloadMissing, Download, WriteCanonicalSource,
              AnnounceSource, Parse, WriteViewerArtifact, WriteSpatialArtifact,
              PersistManifest, VerifyManifest, ManifestCollision, ReportFailed,
              CopyToFailed, CopyMissing, DeleteRejected
<1>4. CASE UNCHANGED vars
  BY <1>4 DEF vars, attemptVars
<1> QED
  BY <1>2, <1>3, <1>4 DEF Next, Step

\* _replay_persisted_completion: once a completion is persisted, an attempt
\* that starts later changes no status, no artifact and no copy.
THEOREM FinalCompletion == Spec => CompletionIsFinal
<1>1. IInv /\ [Next]_vars =>
        [manifest # None /\ Informed => /\ Informed'
                                        /\ told' = told
                                        /\ spatial' = spatial
                                        /\ quarantined' = quarantined]_vars
  BY StepFinal
<1> QED
  BY <1>1, Invariance, PTL DEF Spec, CompletionIsFinal

=============================================================================
