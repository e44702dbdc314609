----------------------------- MODULE TickParseProofs -----------------------------
(***************************************************************************)
(* Theorems about TickParse, for every number of workers, ticks and        *)
(* panics, every capacity, and every replay.                               *)
(***************************************************************************)
EXTENDS TickParse, TLAPS

\* A missing tick is reported only where a worker panicked with it.
GapMeansPanic == error = "gap" => SomePanicked

\* The last check of visit_seq, that the reducer absorbed as many ticks as were
\* framed, is never the one that fails: whatever loses a tick was told before.
LossIsExplained == outcome # "incomplete"

-----------------------------------------------------------------------------
\* The tick a worker has in hand is one the channel gave it.  A worker that
\* ends without a panic leaves none behind, unless nobody reads results.
HandInv(w) ==
  /\ hand[w] \in 0..taken
  /\ worker[w] = "waiting" => hand[w] = 0
  /\ worker[w] = "working" => hand[w] # 0
  /\ worker[w] = "exited" /\ reducer # "panicked" =>
       hand[w] = 0 /\ framer = "closed" /\ taken = submitted

\* A tick is in one place.
Once ==
  /\ next <= taken + 1
  /\ results \subseteq next..taken /\ pending \subseteq next..taken
  /\ results \cap pending = {}
  /\ \A w \in Workers : hand[w] # 0 => hand[w] >= next /\ hand[w] \notin results \cup pending
  /\ \A v, w \in Workers : v # w /\ hand[v] # 0 => hand[v] # hand[w]

\* Until something fails, a tick that was taken is somewhere.
NoneLost ==
  error = "none" /\ reducer # "panicked" =>
    \A i \in next..taken : i \in results \cup pending \/ \E w \in Workers : hand[w] = i

\* The absorbed ticks are good, and the viewer was sent each of them.
Absorbed ==
  /\ \A i \in replay.bad : next <= i
  /\ error = "tick" => next \in replay.bad
  /\ Viewer => dispatched = next - 1
  /\ ~Viewer => dispatched = 0 /\ ingest = "stopped"

\* The ingest thread adds what it was sent, and stops with all of it.
IngestInv ==
  /\ ingested <= dispatched
  /\ Viewer => \A i \in replay.viewerBad : ingested < i
  /\ Viewer /\ ingest = "stopped" => ingested = dispatched /\ reducer # "receiving"

\* What the ends of the framer, the reducer and the call say.
EndInv ==
  /\ taken <= submitted
  /\ framer = "closed" /\ broke = "none" => submitted = Total
  /\ reducer \in {"finishing", "done"} =>
       /\ AllEnded /\ results = {}
       /\ error = "none" => pending = {}
  /\ reducer = "done" /\ error = "none" => ingest = "stopped"
  /\ outcome # "none" => framer = "closed" /\ reducer \in {"done", "panicked"}
  /\ outcome = "ok" =>
       reducer = "done" /\ error = "none" /\ broke = "none" /\ next - 1 = submitted

IInv ==
  /\ TypeOK
  /\ \A w \in Workers : HandInv(w)
  /\ Once
  /\ NoneLost
  /\ Absorbed
  /\ IngestInv
  /\ EndInv
  /\ GapMeansPanic
  /\ LossIsExplained

-----------------------------------------------------------------------------
\* The initial states satisfy the inductive invariant.
LEMMA InitIInv == Init => IInv
<1> SUFFICES ASSUME Init PROVE IInv
  OBVIOUS
<1> USE TickAssumption DEF Init
<1>1. TypeOK
  BY DEF TypeOK
<1>2. \A w \in Workers : HandInv(w)
  BY DEF HandInv
<1>3. Once /\ NoneLost
  BY DEF Once, NoneLost
<1>4. Absorbed
  BY DEF Absorbed, Ticks
<1>5. IngestInv
  BY DEF IngestInv, Ticks
<1> QED
  BY <1>1, <1>2, <1>3, <1>4, <1>5 DEF IInv, EndInv, GapMeansPanic, LossIsExplained

\* Every step of a thread preserves it.
LEMMA StepIInv == IInv /\ [Next]_vars => IInv'
<1> SUFFICES ASSUME IInv, [Next]_vars PROVE IInv'
  OBVIOUS
<1> USE TickAssumption DEF IInv, TypeOK, HandInv, Once, NoneLost, Absorbed, IngestInv, EndInv,
      GapMeansPanic, LossIsExplained, Ticks, Ended, AllEnded, SomePanicked, Ready,
      framerVars, workerVars, reducerVars, ingestVars
<1>0. UNCHANGED replay
  BY DEF Next, vars
<1> USE <1>0
<1>1. ASSUME FrameTick PROVE IInv'
  BY <1>1 DEF FrameTick
<1>2. ASSUME FrameRefused PROVE IInv'
  BY <1>2 DEF FrameRefused
<1>3. ASSUME SourceError PROVE IInv'
  BY <1>3 DEF SourceError
<1>4. ASSUME EndOfSource PROVE IInv'
  BY <1>4 DEF EndOfSource
<1>5. ASSUME NEW w \in Workers, Take(w) PROVE IInv'
  <2> USE <1>5 DEF Take
  <2>1. TypeOK'
    OBVIOUS
  <2>2. (\A v \in Workers : HandInv(v))'
    OBVIOUS
  <2>3. Once'
    OBVIOUS
  <2>4. NoneLost'
    <3> SUFFICES ASSUME error = "none", reducer # "panicked", NEW i \in next..(taken + 1)
                 PROVE  i \in results \cup pending \/ \E v \in Workers : hand'[v] = i
      OBVIOUS
    <3>1. CASE i = taken + 1
      BY <3>1
    <3>2. CASE i \in next..taken
      <4>1. i \in results \cup pending \/ \E v \in Workers : hand[v] = i
        BY <3>2
      <4>2. \A v \in Workers : hand[v] = i => v # w
        BY <3>2
      <4> QED
        BY <4>1, <4>2
    <3> QED
      BY <3>1, <3>2
  <2>5. (Absorbed /\ IngestInv /\ EndInv /\ GapMeansPanic /\ LossIsExplained)'
    OBVIOUS
  <2> QED
    BY <2>1, <2>2, <2>3, <2>4, <2>5
<1>6. ASSUME NEW w \in Workers, SendResult(w) PROVE IInv'
  <2> USE <1>6 DEF SendResult
  <2>0. hand[w] \in next..taken /\ hand[w] \in 1..Total
    <3>1. hand[w] \in 0..taken /\ hand[w] # 0
      OBVIOUS
    <3>2. hand[w] >= next
      BY <3>1
    <3>3. next \in Nat \ {0} /\ taken \in 0..Total
      OBVIOUS
    <3>4. hand[w] \in 1..Total
      BY <3>1, <3>3
    <3> QED
      BY <3>1, <3>2, <3>3, <3>4
  <2>1. TypeOK'
    <3>1. results' \in SUBSET Ticks
      BY <2>0
    <3> QED
      BY <3>1
  <2>2. (\A v \in Workers : HandInv(v))'
    OBVIOUS
  <2>3. Once'
    <3>1. next <= taken + 1 /\ results' \subseteq next..taken /\ results' \cap pending = {}
      <4>1. results' = results \cup {hand[w]} /\ hand[w] \notin pending
        BY <2>0
      <4>2. results \subseteq next..taken /\ results \cap pending = {} /\ next <= taken + 1
        OBVIOUS
      <4> HIDE DEF IInv, SendResult
      <4> QED
        BY <2>0, <4>1, <4>2
    <3>2. ASSUME NEW v \in Workers, hand'[v] # 0
          PROVE  v # w /\ hand'[v] = hand[v] /\ hand[v] # hand[w]
      BY <2>0, <3>2
    <3> QED
      BY <3>1, <3>2
  <2>4. NoneLost'
    <3> SUFFICES ASSUME error = "none", reducer # "panicked", NEW i \in next..taken
                 PROVE  i \in results' \cup pending \/ \E v \in Workers : hand'[v] = i
      OBVIOUS
    <3>1. i \in results \cup pending \/ \E v \in Workers : hand[v] = i
      OBVIOUS
    <3>2. \A v \in Workers : hand[v] = i => v = w \/ hand'[v] = i
      OBVIOUS
    <3> QED
      BY <3>1, <3>2
  <2>5. (Absorbed /\ IngestInv /\ EndInv /\ GapMeansPanic /\ LossIsExplained)'
    OBVIOUS
  <2> QED
    BY <2>1, <2>2, <2>3, <2>4, <2>5
<1>7. ASSUME NEW w \in Workers, WorkerExit(w) PROVE IInv'
  BY <1>7 DEF WorkerExit
<1>8. ASSUME NEW w \in Workers, WorkerPanic(w) PROVE IInv'
  BY <1>8 DEF WorkerPanic, Panic
<1>9. ASSUME ReceiveResult PROVE IInv'
  BY <1>9 DEF ReceiveResult
<1>10. ASSUME AbsorbBad PROVE IInv'
  BY <1>10 DEF AbsorbBad, ReduceError
<1>11. ASSUME AbsorbRefused PROVE IInv'
  BY <1>11 DEF AbsorbRefused, ReduceError
<1>12. ASSUME AbsorbTick PROVE IInv'
  BY <1>12 DEF AbsorbTick
<1>13. ASSUME CloseResults PROVE IInv'
  <2> USE <1>13 DEF CloseResults
  <2>1. GapMeansPanic'
    <3> SUFFICES ASSUME error = "none", pending # {}, ~SomePanicked
                 PROVE  FALSE
      OBVIOUS
    <3>1. next \notin pending
      OBVIOUS
    <3>2. \A w \in Workers : hand[w] = 0
      OBVIOUS
    <3>3. PICK i \in pending : i \in next..taken
      OBVIOUS
    <3>4. next \in next..taken
      BY <3>3
    <3>5. next \in results \cup pending \/ \E w \in Workers : hand[w] = next
      BY <3>4
    <3> QED
      BY <3>1, <3>2, <3>5
  <2>2. TypeOK' /\ (\A w \in Workers : HandInv(w))' /\ Once' /\ NoneLost'
    OBVIOUS
  <2>3. (Absorbed /\ IngestInv /\ EndInv /\ LossIsExplained)'
    OBVIOUS
  <2> QED
    BY <2>1, <2>2, <2>3
<1>14. ASSUME FinishIngest PROVE IInv'
  BY <1>14 DEF FinishIngest
<1>15. ASSUME ReducerPanic PROVE IInv'
  BY <1>15 DEF ReducerPanic, Panic
<1>16. ASSUME IngestTick PROVE IInv'
  BY <1>16 DEF IngestTick
<1>17. ASSUME IngestPanic PROVE IInv'
  BY <1>17 DEF IngestPanic, Panic
<1>18. ASSUME IngestStop PROVE IInv'
  BY <1>18 DEF IngestStop
<1>19. ASSUME Return PROVE IInv'
  <2> USE <1>19 DEF Return, Joined
  <2>1. ASSUME reducer # "panicked", error = "none", ~SomePanicked
        PROVE  next - 1 = submitted
    <3>1. AllEnded /\ results = {} /\ pending = {}
      BY <2>1
    <3>2. \A w \in Workers : hand[w] = 0
      BY <2>1, <3>1
    <3>3. next \notin next..taken
      <4> SUFFICES ASSUME next \in next..taken PROVE FALSE
        OBVIOUS
      <4>1. next \in results \cup pending \/ \E w \in Workers : hand[w] = next
        BY <2>1
      <4> QED
        BY <3>1, <3>2, <4>1
    <3>4. next \in Nat \ {0} /\ taken \in Nat /\ next <= taken + 1
      OBVIOUS
    <3>5. next = taken + 1
      BY <3>3, <3>4
    <3>6. taken = submitted
      BY <2>1, <3>1
    <3> QED
      BY <3>4, <3>5, <3>6
  <2>2. /\ outcome' \in {"panic", "reduction", "worker", "source", "pipeline", "ok"}
        /\ outcome' = "ok" => /\ reducer # "panicked" /\ error = "none"
                              /\ broke = "none" /\ next - 1 = submitted
    BY <2>1
  <2> QED
    BY <2>2
<1>20. CASE UNCHANGED vars
  BY <1>20 DEF vars
<1> QED
  BY <1>1, <1>2, <1>3, <1>4, <1>5, <1>6, <1>7, <1>8, <1>9, <1>10, <1>11, <1>12, <1>13,
     <1>14, <1>15, <1>16, <1>17, <1>18, <1>19, <1>20
     DEF Next, Step, Framer, Worker, Reducer, Ingest

\* The inductive invariant holds throughout.
LEMMA Invariance == Spec => []IInv
<1> QED
  BY InitIInv, StepIInv, PTL DEF Spec

-----------------------------------------------------------------------------
\* The threads' state keeps its types: no counter of the task channel, of
\* reduce_tick_results or of ViewerIngestWorker runs past the source.
THEOREM TypeCorrect == Spec => []TypeOK
<1>1. IInv => TypeOK
  BY DEF IInv
<1> QED
  BY Invariance, <1>1, PTL

\* Whatever order the workers answer in, and whichever threads panic,
\* visit_seq succeeds only with every tick of the source absorbed and, with a
\* viewer, added to it.
THEOREM CompleteWhenOk == Spec => []OkMeansComplete
<1>1. IInv => OkMeansComplete
  <2> SUFFICES ASSUME IInv, outcome = "ok"
               PROVE  /\ next - 1 = Total
                      /\ replay.bad = {}
                      /\ Viewer => ingested = Total /\ replay.viewerBad = {}
    BY DEF OkMeansComplete
  <2>1. next - 1 = Total /\ reducer = "done" /\ error = "none"
    BY DEF IInv, EndInv
  <2>2. replay.bad \subseteq 1..Total /\ replay.viewerBad \subseteq 1..Total
    BY TickAssumption DEF IInv, TypeOK, Ticks
  <2>3. Total \in Nat /\ next \in Nat
    BY TickAssumption DEF IInv, TypeOK
  <2>4. replay.bad = {}
    <3>1. \A i \in replay.bad : next <= i
      BY DEF IInv, Absorbed
    <3> QED
      BY <2>1, <2>2, <2>3, <3>1
  <2>5. ASSUME Viewer PROVE ingested = Total /\ replay.viewerBad = {}
    <3>1. ingested = Total
      BY <2>1, <2>5 DEF IInv, EndInv, IngestInv, Absorbed
    <3>2. \A i \in replay.viewerBad : ingested < i
      BY <2>5 DEF IInv, IngestInv
    <3> QED
      BY <2>2, <2>3, <3>1, <3>2
  <2> QED
    BY <2>1, <2>4, <2>5
<1> QED
  BY Invariance, <1>1, PTL

\* reduce_tick_results reports the first rejected tick of the source, in
\* whatever order the results of racing workers arrive.
THEOREM EarliestReported == Spec => []EarliestErrorReported
<1>1. IInv => EarliestErrorReported
  BY DEF IInv, Absorbed, EarliestErrorReported
<1> QED
  BY Invariance, <1>1, PTL

\* A hole in the indices, which reduce_tick_results reports when the result
\* channel closes, is only ever the tick of a worker that panicked.
THEOREM GapsArePanics == Spec => []GapMeansPanic
<1>1. IInv => GapMeansPanic
  BY DEF IInv
<1> QED
  BY Invariance, <1>1, PTL

\* The comparison of the framed and the reduced ticks that ends visit_seq
\* never fails: every way to lose a tick has been reported before it.
THEOREM NeverIncomplete == Spec => []LossIsExplained
<1>1. IInv => LossIsExplained
  BY DEF IInv
<1> QED
  BY Invariance, <1>1, PTL

-----------------------------------------------------------------------------
\* Every step is a step of the ordered stream or changes nothing it shows.
LEMMA StepRefines == IInv /\ [Next]_vars => [Stream!Next]_(Stream!vars)
<1> SUFFICES ASSUME IInv, [Next]_vars PROVE [Stream!Next]_(Stream!vars)
  OBVIOUS
<1> USE DEF Stream!vars, framerVars, workerVars, reducerVars, ingestVars
<1>1. outcome # "none" => framer = "closed" /\ reducer \in {"done", "panicked"}
  BY DEF IInv, EndInv
<1>2. CASE FrameTick
  BY <1>1, <1>2 DEF FrameTick, Stream!Next, Stream!Offer
<1>3. CASE AbsorbTick
  <2>1. outcome = "none"
    BY <1>1, <1>3 DEF AbsorbTick
  <2>2. next \in 1..submitted
    BY <1>3, TickAssumption DEF AbsorbTick, Ready, IInv, TypeOK, Once, EndInv
  <2>3. submitted \in Nat /\ next \in Nat /\ next' = next + 1
    BY <1>3 DEF AbsorbTick, IInv, TypeOK
  <2>4. next - 1 < submitted /\ next' - 1 = (next - 1) + 1
    BY <2>2, <2>3
  <2>5. UNCHANGED <<submitted, outcome>>
    BY <1>3 DEF AbsorbTick
  <2> QED
    BY <2>1, <2>4, <2>5 DEF Stream!Next, Stream!Deliver
<1>4. CASE Return
  <2>1. outcome = "none" /\ UNCHANGED <<submitted, next>>
    BY <1>4 DEF Return
  <2>2. CASE outcome' = "ok"
    <3>1. next - 1 = Total
      <4>1. IInv'
        BY StepIInv
      <4> QED
        BY <2>1, <2>2, <4>1 DEF IInv, EndInv
    <3> QED
      BY <2>1, <2>2, <3>1 DEF Stream!Next, Stream!Succeed
  <2>3. CASE outcome' # "ok"
    <3>1. outcome' # "none"
      BY <1>4 DEF Return, IInv, TypeOK
    <3> QED
      BY <2>1, <2>3, <3>1 DEF Stream!Next, Stream!Fail
  <2> QED
    BY <2>2, <2>3
<1>5. CASE FrameRefused \/ SourceError \/ EndOfSource
  BY <1>5 DEF FrameRefused, SourceError, EndOfSource
<1>6. ASSUME NEW w \in Workers, Worker(w) \/ WorkerPanic(w)
      PROVE  UNCHANGED <<submitted, next, outcome>>
  BY <1>6 DEF Worker, Take, SendResult, WorkerExit, WorkerPanic
<1>7. CASE ReceiveResult \/ AbsorbBad \/ AbsorbRefused \/ CloseResults \/ FinishIngest
             \/ ReducerPanic
  BY <1>7
     DEF ReceiveResult, AbsorbBad, AbsorbRefused, ReduceError, CloseResults, FinishIngest,
         ReducerPanic
<1>8. CASE Ingest \/ IngestPanic
  BY <1>8 DEF Ingest, IngestTick, IngestStop, IngestPanic
<1>9. CASE UNCHANGED vars
  BY <1>9 DEF vars
<1> QED
  BY <1>2, <1>3, <1>4, <1>5, <1>6, <1>7, <1>8, <1>9 DEF Next, Step, Framer, Reducer

\* The threads of visit_seq implement the ordered stream: ticks are absorbed
\* in source order, none twice, and the call succeeds only with all of them.
THEOREM Refinement == Spec => StreamSpec
<1>1. Init => Stream!Init
  BY DEF Init, Stream!Init
<1> QED
  BY Invariance, StepRefines, <1>1, PTL DEF Spec, StreamSpec, Stream!Spec

=============================================================================
