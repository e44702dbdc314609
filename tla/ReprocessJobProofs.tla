--------------------------- MODULE ReprocessJobProofs ---------------------------
(***************************************************************************)
(* Theorems about ReprocessJob, for every set of messages, jobs and builds *)
(* and every redrive policy.                                               *)
(***************************************************************************)
EXTENDS ReprocessJob, TLAPS

\* What the step an attempt has reached says about its job and the bucket.
AttemptInv(m) ==
  /\ pc[m] \in Handling => receives[m] # 0
  /\ pc[m] \in {"write_viewer", "write_spatial", "post", "persist", "verify"} =>
       build[m] \in Builds
  /\ pc[m] \in {"lookup", "write_viewer", "persist", "verify", "dispatch"} => Generational
  /\ pc[m] = "post" => ~Generational
  /\ pc[m] = "dispatch" => manifest # None /\ held[m] = manifest

\* The job was posted or failed before its message was acknowledged.
Answer == posted # {} \/ failed
Accounted == \A m \in Messages : pc[m] \in {"ack", "done"} => Answer

IInv ==
  /\ TypeOK
  /\ \A m \in Messages : AttemptInv(m)
  /\ Accounted

-----------------------------------------------------------------------------
LEMMA InitIInv == Init => IInv
<1> SUFFICES ASSUME Init PROVE IInv
  OBVIOUS
<1>1. TypeOK
  <2>1. 0 \in 0..MaxReceive /\ 0 \in 0..MaxFaults
    BY ReprocessAssumption
  <2> QED
    BY <2>1 DEF Init, TypeOK
<1>2. \A m \in Messages : AttemptInv(m)
  BY DEF Init, AttemptInv, Handling
<1> QED
  BY <1>1, <1>2 DEF Init, IInv, Accounted

\* Every step of the handler, the queue and the faults preserves it.
LEMMA StepIInv == IInv /\ [Next]_vars => IInv'
<1> SUFFICES ASSUME IInv, [Next]_vars PROVE IInv'
  OBVIOUS
<1> USE ReprocessAssumption
    DEF IInv, TypeOK, AttemptInv, Accounted, Answer, Handling, Payloads, Generational,
        Goto, attemptVars, bucketVars, apiVars
<1>0. UNCHANGED job
  BY DEF Next, vars
<1> USE <1>0
<1>1. ASSUME NEW m \in Messages, Receive(m) PROVE IInv'
  BY <1>1 DEF Receive
<1>2. ASSUME NEW m \in Messages, DeadLetter(m) PROVE IInv'
  BY <1>2 DEF DeadLetter
<1>3. ASSUME NEW m \in Messages, Acknowledge(m) PROVE IInv'
  BY <1>3 DEF Acknowledge
<1>4. ASSUME NEW m \in Messages, DecodeJob(m) PROVE IInv'
  BY <1>4 DEF DecodeJob
<1>5. ASSUME NEW m \in Messages, LookUpCompletion(m) PROVE IInv'
  BY <1>5 DEF LookUpCompletion
<1>6. ASSUME NEW m \in Messages, Download(m) PROVE IInv'
  BY <1>6 DEF Download
<1>7. ASSUME NEW m \in Messages, NEW b \in Builds, Parse(m, b) PROVE IInv'
  BY <1>7 DEF Parse
<1>8. ASSUME NEW m \in Messages, WriteViewerArtifact(m) PROVE IInv'
  BY <1>8 DEF WriteViewerArtifact
<1>9. ASSUME NEW m \in Messages, WriteSpatialArtifact(m) PROVE IInv'
  BY <1>9 DEF WriteSpatialArtifact
<1>10. ASSUME NEW m \in Messages, PostFacts(m) PROVE IInv'
  <2>1. OwnPayload(m) \in Payloads
    BY <1>10 DEF PostFacts, OwnPayload
  <2>2. posted' \in SUBSET Payloads /\ Answer'
    BY <1>10, <2>1 DEF PostFacts
  <2>3. TypeOK' /\ \A n \in Messages : AttemptInv(n)'
    BY <1>10, <2>2 DEF PostFacts, Answered
  <2>4. Accounted'
    BY <2>2
  <2> QED
    BY <2>3, <2>4
<1>11. ASSUME NEW m \in Messages, PersistManifest(m) PROVE IInv'
  BY <1>11 DEF PersistManifest, OwnPayload
<1>12. ASSUME NEW m \in Messages, VerifyManifest(m) PROVE IInv'
  BY <1>12 DEF VerifyManifest, OwnPayload
<1>13. ASSUME NEW m \in Messages, ManifestCollision(m) PROVE IInv'
  BY <1>13 DEF ManifestCollision, Retry
<1>14. ASSUME NEW m \in Messages, DispatchCompletion(m) PROVE IInv'
  BY <1>14 DEF DispatchCompletion, Answered
<1>15. ASSUME NEW m \in Messages, ReportFailed(m) PROVE IInv'
  BY <1>15 DEF ReportFailed, Answered
<1>16. ASSUME NEW m \in Messages, Fault(m) PROVE IInv'
  BY <1>16 DEF Fault, Retry
<1>17. CASE UNCHANGED vars
  BY <1>17 DEF vars
<1> QED
  BY <1>1, <1>2, <1>3, <1>4, <1>5, <1>6, <1>7, <1>8, <1>9, <1>10, <1>11, <1>12,
     <1>13, <1>14, <1>15, <1>16, <1>17 DEF Next, Step

LEMMA Invariance == Spec => []IInv
BY InitIInv, StepIInv, PTL DEF Spec

-----------------------------------------------------------------------------
\* Every variable of a reprocess attempt keeps its type.
THEOREM TypeCorrect == Spec => []TypeOK
BY Invariance, PTL DEF IInv

\* handler acknowledges a job only after the API accepted a completion of it
\* or its failure: no job ends silently.
THEOREM NothingDropped == Spec => []Accounted
BY Invariance, PTL DEF IInv

-----------------------------------------------------------------------------
LEMMA InitRefines == Init => Register!Init
BY DEF Init, Register!Init

\* A step of a job is a step of the register, or leaves it alone.
LEMMA StepRefines == IInv /\ [Next]_vars => [Register!Next]_(Register!vars)
<1> SUFFICES ASSUME IInv, [Next]_vars PROVE [Register!Next]_(Register!vars)
  OBVIOUS
<1>0. UNCHANGED job
  BY DEF Next, vars
<1> USE <1>0 DEF Register!vars, attemptVars, bucketVars, apiVars, Generational
<1>1. ASSUME NEW m \in Messages, PersistManifest(m)
      PROVE [Register!Next]_(Register!vars)
  <2>1. OwnPayload(m) \in Payloads
    BY <1>1 DEF PersistManifest, OwnPayload, Payloads, IInv, AttemptInv, TypeOK, Handling
  <2> QED
    BY <1>1, <2>1 DEF PersistManifest, Register!Next, Register!Choose
<1>2. ASSUME NEW m \in Messages, DispatchCompletion(m)
      PROVE [Register!Next]_(Register!vars)
  BY <1>2 DEF DispatchCompletion, IInv, AttemptInv, Register!Next, Register!Deliver
<1>3. ASSUME NEW m \in Messages, PostFacts(m) PROVE UNCHANGED Register!vars
  BY <1>3 DEF PostFacts, IInv, AttemptInv
<1>4. ASSUME NEW m \in Messages,
             \/ Receive(m) \/ DeadLetter(m) \/ Acknowledge(m)
             \/ DecodeJob(m) \/ LookUpCompletion(m) \/ Download(m)
             \/ \E b \in Builds : Parse(m, b)
             \/ WriteViewerArtifact(m) \/ WriteSpatialArtifact(m)
             \/ VerifyManifest(m) \/ ManifestCollision(m)
             \/ ReportFailed(m) \/ Fault(m)
      PROVE UNCHANGED Register!vars
  BY <1>4 DEF Receive, DeadLetter, Acknowledge, DecodeJob, LookUpCompletion, Download,
              Parse, WriteViewerArtifact, WriteSpatialArtifact, VerifyManifest,
              ManifestCollision, ReportFailed, Fault
<1>5. CASE UNCHANGED vars
  BY <1>5 DEF vars
<1> QED
  BY <1>1, <1>2, <1>3, <1>4, <1>5 DEF Next, Step

\* A job with a viewer implements the completion register.
THEOREM Refinement == Spec => RegisterSpec
BY InitRefines, Invariance, StepRefines, PTL DEF Spec, RegisterSpec, Register!Spec

-----------------------------------------------------------------------------
\* An attempt that looks the manifest up once it is there only dispatches it.
LEMMA StepFinal ==
  ASSUME IInv, [Next]_vars, manifest # None, Informed
  PROVE  Informed' /\ failed' = failed /\ spatial' = spatial
<1> USE DEF IInv, TypeOK, Informed, Generational, Goto, bucketVars, apiVars
<1>0. UNCHANGED job
  BY DEF Next, vars
<1> USE <1>0
<1>1. job.wants # "unsupported"
  OBVIOUS
<1>2. ASSUME NEW m \in Messages,
             \/ Receive(m) \/ DeadLetter(m) \/ Acknowledge(m)
             \/ DecodeJob(m) \/ LookUpCompletion(m) \/ DispatchCompletion(m) \/ Fault(m)
      PROVE  Informed' /\ failed' = failed /\ spatial' = spatial
  BY <1>1, <1>2 DEF Receive, DeadLetter, Acknowledge, DecodeJob, LookUpCompletion,
                    DispatchCompletion, Answered, Fault, Retry
<1>3. ASSUME NEW m \in Messages,
             \/ Download(m) \/ \E b \in Builds : Parse(m, b)
             \/ WriteViewerArtifact(m) \/ WriteSpatialArtifact(m) \/ PostFacts(m)
             \/ PersistManifest(m) \/ VerifyManifest(m) \/ ManifestCollision(m)
             \/ ReportFailed(m)
      PROVE  FALSE
  BY <1>3 DEF Download, Parse, WriteViewerArtifact, WriteSpatialArtifact, PostFacts,
              PersistManifest, VerifyManifest, ManifestCollision, ReportFailed
<1>4. CASE UNCHANGED vars
  BY <1>4 DEF vars, attemptVars
<1> QED
  BY <1>2, <1>3, <1>4 DEF Next, Step

\* _replay_persisted_completion: once a completion is persisted, an attempt
\* that starts later neither reports the job as failed nor overwrites the
\* spatial artifact the completion describes.
THEOREM FinalCompletion == Spec => CompletionIsFinal
<1>1. IInv /\ [Next]_vars =>
        [manifest # None /\ Informed =>
           Informed' /\ failed' = failed /\ spatial' = spatial]_vars
  BY StepFinal
<1> QED
  BY <1>1, Invariance, PTL DEF Spec, CompletionIsFinal

=============================================================================
