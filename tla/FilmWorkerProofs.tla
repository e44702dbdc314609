---------------------------- MODULE FilmWorkerProofs ----------------------------
(***************************************************************************)
(* Theorems about FilmWorker, for every set of messages, every mode, film  *)
(* and redrive policy, whatever the API answers and the releases disagree  *)
(* on.                                                                     *)
(***************************************************************************)
EXTENDS FilmWorker, TLAPS

\* The API knows how the generation ended: it was told, or said so itself.
Accounted == posted # {} \/ told # {} \/ fenced \/ conflicts # {}

\* What the step an invocation has reached says about the generation.
AttemptInv(m) ==
  /\ pc[m] \in Working => receives[m] # 0
  /\ pc[m] \in {"write_diagnostics", "write_spatial", "persist", "reread"} => viewer
  /\ pc[m] \in {"write_spatial", "persist", "reread"} => (job.diagnosed => diagnostics)
  /\ pc[m] \in {"persist", "reread"} => (job.mode # "viewer_rebuild" => spatial)
  /\ pc[m] = "post" => manifest # None /\ dispatching[m] = manifest
  /\ pc[m] = "report" => reason[m] \in Reasons
  /\ pc[m] \in {"ack", "done"} => Accounted

IInv ==
  /\ TypeOK
  /\ \A m \in Messages : AttemptInv(m)
  /\ ManifestBacked
  /\ AcknowledgedAccounted

-----------------------------------------------------------------------------
\* The initial states satisfy the inductive invariant.
LEMMA InitIInv == Init => IInv
<1> SUFFICES ASSUME Init PROVE IInv
  OBVIOUS
<1>1. TypeOK
  <2>1. 0 \in 0..MaxReceive /\ 0 \in 0..MaxFaults /\ 0 \in 0..MaxSlow
    BY FilmAssumption
  <2> QED
    BY <2>1 DEF Init, TypeOK
<1>2. \A m \in Messages : AttemptInv(m)
  BY DEF Init, AttemptInv, Working
<1> QED
  BY <1>1, <1>2 DEF Init, IInv, ManifestBacked, AcknowledgedAccounted

\* Every step of a worker, the queue, the API and the faults preserves it.
LEMMA StepIInv == IInv /\ [Next]_vars => IInv'
<1> SUFFICES ASSUME IInv, [Next]_vars PROVE IInv'
  OBVIOUS
<1> USE FilmAssumption DEF IInv, TypeOK, AttemptInv, Accounted, ManifestBacked,
      AcknowledgedAccounted, Working, Reasons, Payloads, attemptVars, bucketVars,
      apiVars, bounds
<1>0. UNCHANGED job
  BY DEF Next, vars
<1> USE <1>0
<1>1. ASSUME NEW m \in Messages, Receive(m) PROVE IInv'
  BY <1>1 DEF Receive
<1>2. ASSUME NEW m \in Messages, DeadLetter(m) PROVE IInv'
  BY <1>2 DEF DeadLetter, Move
<1>3. ASSUME NEW m \in Messages, Acknowledge(m) PROVE IInv'
  BY <1>3 DEF Acknowledge, Move
<1>4. ASSUME NEW m \in Messages, Start(m) PROVE IInv'
  BY <1>4 DEF Start, Move, Fail
<1>5. ASSUME NEW m \in Messages, LookUpCompletion(m) PROVE IInv'
  BY <1>5 DEF LookUpCompletion, Afterwards, Move, Fail, Dispatch
<1>6. ASSUME NEW m \in Messages, Download(m) PROVE IInv'
  BY <1>6 DEF Download, Move, Fail
<1>7. ASSUME NEW m \in Messages, InspectFilm(m) PROVE IInv'
  BY <1>7 DEF InspectFilm, Move, Fail
<1>8. ASSUME NEW m \in Messages, Prepare(m) PROVE IInv'
  BY <1>8 DEF Prepare, Move, Fail
<1>9. ASSUME NEW m \in Messages, ComparePins(m) PROVE IInv'
  BY <1>9 DEF ComparePins, Move, Fail
<1>10. ASSUME NEW m \in Messages, Convert(m) PROVE IInv'
  BY <1>10 DEF Convert, Move, Fail, Retry
<1>11. ASSUME NEW m \in Messages, RunOutOfTime(m) PROVE IInv'
  BY <1>11 DEF RunOutOfTime, Fail
<1>12. ASSUME NEW m \in Messages, WriteViewerArtifact(m) PROVE IInv'
  BY <1>12 DEF WriteViewerArtifact, Move
<1>13. ASSUME NEW m \in Messages, PublishDiagnostics(m) PROVE IInv'
  BY <1>13 DEF PublishDiagnostics, Move
<1>14. ASSUME NEW m \in Messages, WriteSpatialArtifact(m) PROVE IInv'
  BY <1>14 DEF WriteSpatialArtifact, Move, Fail
<1>15. ASSUME NEW m \in Messages, PersistManifest(m) PROVE IInv'
  BY <1>15 DEF PersistManifest, OwnPayload, Move
<1>16. ASSUME NEW m \in Messages, RereadWinner(m) PROVE IInv'
  BY <1>16 DEF RereadWinner, Fail, Dispatch
<1>17. ASSUME NEW m \in Messages, PostCompletion(m) PROVE IInv'
  BY <1>17 DEF PostCompletion, End, Retry
<1>18. ASSUME NEW m \in Messages, AnswerFailure(m) PROVE IInv'
  BY <1>18 DEF AnswerFailure, Fail
<1>19. ASSUME NEW m \in Messages, AnswerConflict(m) PROVE IInv'
  <2>1. pc[m] \in {"prepare", "post"} /\ pc[m] \in conflicts'
    BY <1>19 DEF AnswerConflict
  <2>2. conflicts' \in SUBSET {"prepare", "post"} /\ conflicts' # {}
    BY <1>19, <2>1 DEF AnswerConflict
  <2>3. TypeOK'
    <3>1. UNCHANGED <<receives, bucketVars, fenced, posted, told, bounds>>
      BY <1>19 DEF AnswerConflict, End
    <3>2. /\ pc' \in [Messages -> Working \cup {"ready", "done", "dead"}]
          /\ dispatching' \in [Messages -> Payloads \cup {None}]
          /\ reason' \in [Messages -> Reasons \cup {None}]
      BY <1>19 DEF AnswerConflict, End
    <3> QED
      BY <2>2, <3>1, <3>2
  <2>4. \A n \in Messages : AttemptInv(n)'
    BY <1>19, <2>2 DEF AnswerConflict, End
  <2> QED
    BY <1>19, <2>2, <2>3, <2>4 DEF AnswerConflict
<1>20. ASSUME NEW m \in Messages, AnswerStale(m) PROVE IInv'
  BY <1>20 DEF AnswerStale, End
<1>21. ASSUME NEW m \in Messages, ReportFailure(m) PROVE IInv'
  <2>1. reason[m] \in Reasons /\ reason[m] \in told'
    BY <1>21 DEF ReportFailure
  <2>2. told' \in SUBSET Reasons /\ told' # {}
    BY <1>21, <2>1 DEF ReportFailure
  <2>3. TypeOK'
    <3>1. UNCHANGED <<receives, bucketVars, fenced, posted, conflicts, slow>>
      BY <1>21 DEF ReportFailure, End, Retry
    <3>2. /\ pc' \in [Messages -> Working \cup {"ready", "done", "dead"}]
          /\ dispatching' \in [Messages -> Payloads \cup {None}]
          /\ reason' \in [Messages -> Reasons \cup {None}]
          /\ faults' \in 0..MaxFaults
      BY <1>21 DEF ReportFailure, End, Retry
    <3> QED
      BY <2>2, <3>1, <3>2
  <2>4. \A n \in Messages : AttemptInv(n)'
    BY <1>21, <2>2 DEF ReportFailure, End, Retry
  <2> QED
    BY <1>21, <2>2, <2>3, <2>4 DEF ReportFailure
<1>22. ASSUME NEW m \in Messages, ReportStale(m) PROVE IInv'
  BY <1>22 DEF ReportStale, Retry
<1>23. ASSUME NEW m \in Messages, Fault(m) PROVE IInv'
  BY <1>23 DEF Fault, Retry
<1>24. ASSUME Supersede PROVE IInv'
  BY <1>24 DEF Supersede
<1>25. CASE UNCHANGED vars
  BY <1>25 DEF vars
<1> QED
  BY <1>1, <1>2, <1>3, <1>4, <1>5, <1>6, <1>7, <1>8, <1>9, <1>10, <1>11, <1>12,
     <1>13, <1>14, <1>15, <1>16, <1>17, <1>18, <1>19, <1>20, <1>21, <1>22,
     <1>23, <1>24, <1>25
     DEF Next, Step

\* IInv is an invariant of the specification.
LEMMA Invariance == Spec => []IInv
BY InitIInv, StepIInv, PTL DEF Spec

-----------------------------------------------------------------------------
\* The variables keep their types: execute holds and persists nothing but
\* payloads of its generation.
THEOREM TypeCorrect == Spec => []TypeOK
BY Invariance, PTL DEF IInv

\* execute writes every artifact before the manifest that names it.
THEOREM ManifestsAreBacked == Spec => []ManifestBacked
BY Invariance, PTL DEF IInv

\* handler acknowledges a message only after the API accepted a completion or a
\* failure report, or answered stale_attempt or identity_conflict itself: a
\* failure code in answer to the completion is reported before.
THEOREM NothingDropped == Spec => []AcknowledgedAccounted
BY Invariance, PTL DEF IInv

-----------------------------------------------------------------------------
\* The initial states of the worker are initial states of the register.
LEMMA InitRefines == Init => Register!Init
BY DEF Init, Register!Init

\* A step of the worker is a step of the register, or leaves it alone.
LEMMA StepRefines == IInv /\ [Next]_vars => [Register!Next]_(Register!vars)
<1> SUFFICES ASSUME IInv, [Next]_vars PROVE [Register!Next]_(Register!vars)
  OBVIOUS
<1> USE DEF Register!vars, attemptVars, bucketVars, apiVars
<1>1. ASSUME NEW m \in Messages, PersistManifest(m)
      PROVE [Register!Next]_(Register!vars)
  <2>1. OwnPayload(m) \in Payloads
    BY <1>1 DEF PersistManifest, OwnPayload, Payloads, IInv, AttemptInv, TypeOK,
                Working
  <2> QED
    BY <1>1, <2>1 DEF PersistManifest, Register!Next, Register!Choose
<1>2. ASSUME NEW m \in Messages, PostCompletion(m)
      PROVE [Register!Next]_(Register!vars)
  BY <1>2 DEF PostCompletion, IInv, AttemptInv, Register!Next, Register!Deliver
<1>3. ASSUME NEW m \in Messages,
             \/ Receive(m) \/ DeadLetter(m) \/ Acknowledge(m)
             \/ Start(m) \/ LookUpCompletion(m)
             \/ Download(m) \/ InspectFilm(m) \/ Prepare(m) \/ ComparePins(m)
             \/ Convert(m) \/ RunOutOfTime(m) \/ WriteViewerArtifact(m)
             \/ PublishDiagnostics(m) \/ WriteSpatialArtifact(m)
             \/ RereadWinner(m)
             \/ AnswerFailure(m) \/ AnswerConflict(m) \/ AnswerStale(m)
             \/ ReportFailure(m) \/ ReportStale(m) \/ Fault(m)
      PROVE UNCHANGED Register!vars
  BY <1>3 DEF Receive, DeadLetter, Acknowledge, Start, LookUpCompletion, Download,
              InspectFilm, Prepare, ComparePins, Convert, RunOutOfTime,
              WriteViewerArtifact, PublishDiagnostics, WriteSpatialArtifact,
              RereadWinner, AnswerFailure, AnswerConflict, AnswerStale,
              ReportFailure, ReportStale, Fault
<1>4. ASSUME Supersede PROVE UNCHANGED Register!vars
  BY <1>4 DEF Supersede
<1>5. CASE UNCHANGED vars
  BY <1>5 DEF vars
<1> QED
  BY <1>1, <1>2, <1>3, <1>4, <1>5 DEF Next, Step

\* The film worker implements the completion register: one completion per
\* generation, and nothing else is ever sent.
THEOREM Refinement == Spec => RegisterSpec
BY InitRefines, Invariance, StepRefines, PTL DEF Spec, RegisterSpec, Register!Spec

-----------------------------------------------------------------------------
\* A reprocess attempt that finds its completion persisted sends it, or reports
\* the release's judgement or the API's: no step that looks at the film is open
\* to it.
LEMMA StepNotRejudged ==
  ASSUME IInv, [Next]_vars, manifest # None, Informed
  PROVE  Informed' /\ ("film" \in told' => "film" \in told)
<1> USE DEF IInv, TypeOK, Informed, Reasons, attemptVars, bucketVars, apiVars, bounds
<1>1. CASE Supersede
  BY <1>1 DEF Supersede, Next, vars
<1>2. ASSUME NEW m \in Messages, UNCHANGED job,
             \/ Receive(m) \/ DeadLetter(m) \/ Acknowledge(m)
             \/ PostCompletion(m) \/ AnswerConflict(m) \/ AnswerStale(m)
             \/ ReportStale(m) \/ Fault(m)
      PROVE  Informed' /\ told' = told
  BY <1>2 DEF Receive, DeadLetter, Acknowledge, PostCompletion, AnswerConflict,
              AnswerStale, ReportStale, Fault, Move, End, Retry
<1>3. ASSUME NEW m \in Messages, UNCHANGED job, Start(m)
      PROVE  Informed' /\ told' = told
  BY <1>3 DEF Start, Move, Fail
<1>4. ASSUME NEW m \in Messages, UNCHANGED job, LookUpCompletion(m)
      PROVE  Informed' /\ told' = told
  BY <1>4 DEF LookUpCompletion, Dispatch, Fail
<1>5. ASSUME NEW m \in Messages, UNCHANGED job, AnswerFailure(m)
      PROVE  Informed' /\ told' = told
  BY <1>5 DEF AnswerFailure, Fail
<1>6. ASSUME NEW m \in Messages, UNCHANGED job, ReportFailure(m)
      PROVE  Informed' /\ ("film" \in told' => "film" \in told)
  BY <1>6 DEF ReportFailure, End, Retry
<1>7. ASSUME NEW m \in Messages,
             \/ Download(m) \/ InspectFilm(m) \/ Prepare(m) \/ ComparePins(m)
             \/ Convert(m) \/ RunOutOfTime(m) \/ WriteViewerArtifact(m)
             \/ PublishDiagnostics(m) \/ WriteSpatialArtifact(m)
             \/ PersistManifest(m) \/ RereadWinner(m)
      PROVE  FALSE
  BY <1>7 DEF Download, InspectFilm, Prepare, ComparePins, Convert, RunOutOfTime,
              WriteViewerArtifact, PublishDiagnostics, WriteSpatialArtifact,
              PersistManifest, RereadWinner
<1>8. CASE UNCHANGED vars
  BY <1>8 DEF vars
<1> QED
  BY <1>1, <1>2, <1>3, <1>4, <1>5, <1>6, <1>7, <1>8 DEF Next, Step

\* execute and handler: once a reprocess job's completion is persisted, an
\* attempt that starts later does not judge the film again; what it reports as
\* a failure is this release's refusal of the job or the manifest, or a failure
\* code of the API.
THEOREM CompletedNotRejudged == Spec => PersistedNotRejudged
<1>1. IInv /\ [Next]_vars =>
        [manifest # None /\ Informed =>
           Informed' /\ ("film" \in told' => "film" \in told)]_vars
  BY StepNotRejudged
<1> QED
  BY <1>1, Invariance, PTL DEF Spec, PersistedNotRejudged

=============================================================================
