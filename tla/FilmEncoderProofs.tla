---------------------------- MODULE FilmEncoderProofs ----------------------------
(***************************************************************************)
(* What the two models of the film encoder guarantee.                      *)
(*                                                                         *)
(* EncoderPipeline: for every batch size, frame budget, chunk length and   *)
(* film.  RecordHeap, of the records that the frames of the pipeline carry *)
(* from one thread to the other: for any number of frames, objects and     *)
(* records, whatever the records hold.                                     *)
(***************************************************************************)
EXTENDS EncoderPipeline, SequenceTheorems, TLAPS

InHand == IF caller = "fill" THEN 1 ELSE 0

\* Every allocated frame is in one place, so the pool never runs dry for good
\* and never grows past FRAMES.
FramesConserved == allocated = spares + InHand + pending + queued + load + returned

\* Where the caller is: what it has just checked, and what it has joined.
CallerInv ==
  /\ caller \in {"acquire", "fill"} => pending < Batch
  /\ caller = "fill" => pushed < Total
  /\ caller \in {"collect", "end"} => EncoderEnded
  /\ caller = "collect" => exported = Total
  /\ outcome # "none" <=> caller = "end"
  /\ outcome = "ok" => exported = Total /\ compressed = dispatched

\* Every pushed tick is exported or on its way.
TicksConserved ==
  /\ progress <= load
  /\ encoder = "waiting" => load = 0 /\ progress = 0
  /\ pushed = exported + (load - progress) + queued + pending

\* A chunk is dispatched after a tick that ends it, and compressed once.
ChunksConserved ==
  /\ dispatched <= exported
  /\ encoder = "dispatching" => dispatched < exported
  /\ compressed + (IF compressor = "compressing" THEN 1 ELSE 0) + (IF chunk THEN 1 ELSE 0)
       <= dispatched

Inv == TypeOK /\ FramesConserved /\ CallerInv /\ TicksConserved /\ ChunksConserved

-----------------------------------------------------------------------------
LEMMA InitInv == Init => Inv
<1> SUFFICES ASSUME Init PROVE Inv
  OBVIOUS
<1>1. TypeOK
  <2>1. 0 \in 0..Total /\ 0 \in 0..Frames /\ 0 \in 0..Batch /\ 0 \in 0..MaxFaults
    BY EncoderAssumption
  <2>2. QED
    BY <2>1 DEF Init, TypeOK
<1>2. FramesConserved
  BY DEF Init, FramesConserved, InHand
<1>3. CallerInv
  BY EncoderAssumption DEF Init, CallerInv, EncoderEnded
<1>4. TicksConserved
  BY DEF Init, TicksConserved
<1>5. ChunksConserved
  BY DEF Init, ChunksConserved
<1>6. QED
  BY <1>1, <1>2, <1>3, <1>4, <1>5 DEF Inv

\* The actions of the caller keep the invariant.
LEMMA CallerKeepsInv == Inv /\ (Caller \/ Abandon) => Inv'
<1> SUFFICES ASSUME Inv, Caller \/ Abandon PROVE Inv'
  OBVIOUS
<1> USE EncoderAssumption
        DEF Inv, TypeOK, FramesConserved, InHand, CallerInv, TicksConserved,
            ChunksConserved, EncoderEnded, encoderVars, compressorVars
<1>1. CASE AcquireSpare
  BY <1>1 DEF AcquireSpare
<1>2. CASE AcquireReturned
  BY <1>2 DEF AcquireReturned
<1>3. CASE AcquireNew
  BY <1>3 DEF AcquireNew
<1>4. CASE AcquireFails
  BY <1>4 DEF AcquireFails, Fail, Verdict
<1>5. CASE FillFrame
  BY <1>5 DEF FillFrame
<1>6. CASE SendBatch
  BY <1>6 DEF SendBatch
<1>7. CASE SendFails
  BY <1>7 DEF SendFails, Fail, Verdict
<1>8. CASE StartFinish
  BY <1>8 DEF StartFinish
<1>9. CASE JoinEncoder
  BY <1>9 DEF JoinEncoder, Verdict
<1>10. CASE CollectChunks
  BY <1>10 DEF CollectChunks
<1>11. CASE DropJoins
  BY <1>11 DEF DropJoins
<1>12. CASE Abandon
  BY <1>12 DEF Abandon
<1>13. QED
  BY <1>1, <1>2, <1>3, <1>4, <1>5, <1>6, <1>7, <1>8, <1>9, <1>10, <1>11, <1>12 DEF Caller

\* The actions of the encoder and of the compressor keep it too.
LEMMA ThreadsKeepInv ==
  Inv /\ (Encoder \/ RejectTick \/ EncoderPanic \/ Compressor \/ CompressFails) => Inv'
<1> SUFFICES ASSUME Inv, Encoder \/ RejectTick \/ EncoderPanic \/ Compressor \/ CompressFails
             PROVE  Inv'
  OBVIOUS
<1> USE EncoderAssumption
        DEF Inv, TypeOK, FramesConserved, InHand, CallerInv, TicksConserved,
            ChunksConserved, EncoderEnded, callerVars, encoderVars, compressorVars
<1>1. CASE ReceiveBatch
  BY <1>1 DEF ReceiveBatch
<1>2. CASE ExportTick
  BY <1>2 DEF ExportTick
<1>3. CASE DispatchChunk
  <2>1. dispatched < exported /\ exported \in 0..Total /\ dispatched \in 0..Total
    BY <1>3 DEF DispatchChunk
  <2>2. dispatched' \in 0..Total /\ dispatched' <= exported'
    BY <1>3, <2>1 DEF DispatchChunk
  <2>3. ChunksConserved'
    BY <1>3, <2>2 DEF DispatchChunk
  <2>4. TypeOK'
    BY <1>3, <2>2 DEF DispatchChunk
  <2>5. (FramesConserved /\ CallerInv /\ TicksConserved)'
    BY <1>3 DEF DispatchChunk
  <2>6. QED
    BY <2>3, <2>4, <2>5
<1>4. CASE DispatchFails
  BY <1>4 DEF DispatchFails
<1>5. CASE RecycleBatch
  BY <1>5 DEF RecycleBatch
<1>6. CASE EncoderEnd
  BY <1>6 DEF EncoderEnd
<1>7. CASE RejectTick \/ EncoderPanic
  BY <1>7 DEF RejectTick, EncoderPanic, Faulty
<1>8. CASE ReceiveChunk
  <2>1. ChunksConserved'
    BY <1>8 DEF ReceiveChunk
  <2>2. TypeOK'
    BY <1>8 DEF ReceiveChunk
  <2>3. (FramesConserved /\ CallerInv /\ TicksConserved)'
    BY <1>8 DEF ReceiveChunk
  <2>4. QED
    BY <2>1, <2>2, <2>3
<1>9. CASE CompressChunk
  <2>1. compressed < dispatched /\ dispatched \in 0..Total /\ compressed \in 0..Total
    BY <1>9 DEF CompressChunk
  <2>2. compressed' \in 0..Total /\ outcome # "ok"
    BY <1>9, <2>1 DEF CompressChunk
  <2>3. ChunksConserved'
    BY <1>9, <2>1 DEF CompressChunk
  <2>4. TypeOK'
    BY <1>9, <2>2 DEF CompressChunk
  <2>5. (FramesConserved /\ CallerInv /\ TicksConserved)'
    BY <1>9, <2>2 DEF CompressChunk
  <2>6. QED
    BY <2>3, <2>4, <2>5
<1>10. CASE CompressFails
  BY <1>10 DEF CompressFails, Faulty
<1>11. QED
  BY <1>1, <1>2, <1>3, <1>4, <1>5, <1>6, <1>7, <1>8, <1>9, <1>10 DEF Encoder, Compressor

LEMMA StutterKeepsInv == Inv /\ UNCHANGED vars => Inv'
BY DEF Inv, TypeOK, FramesConserved, InHand, CallerInv, TicksConserved, ChunksConserved,
       EncoderEnded, vars, callerVars, encoderVars, compressorVars

THEOREM Invariance == Spec => []Inv
<1>1. Inv /\ [Next]_vars => Inv'
  BY CallerKeepsInv, ThreadsKeepInv, StutterKeepsInv DEF Next
<1>2. QED
  BY InitInv, <1>1, PTL DEF Spec

-----------------------------------------------------------------------------
\* Every variable of the pipeline keeps its type.
THEOREM TypeCorrect == Spec => []TypeOK
<1>1. Inv => TypeOK
  BY DEF Inv
<1>2. QED
  BY Invariance, <1>1, PTL

\* No frame is lost or duplicated between caller, channels and encoder.
THEOREM FramesAreConserved == Spec => []FramesConserved
<1>1. Inv => FramesConserved
  BY DEF Inv
<1>2. QED
  BY Invariance, <1>1, PTL

\* Caller and encoder never wait for each other's frames.
THEOREM NeverMutualWait == Spec => []NoMutualWait
<1>1. Inv => NoMutualWait
  BY EncoderAssumption
     DEF Inv, TypeOK, FramesConserved, InHand, CallerInv, NoMutualWait
<1>2. QED
  BY Invariance, <1>1, PTL

\* The caller has used up its frames and must block for a recycled batch.
Starved == caller = "acquire" /\ spares = 0 /\ returned = 0 /\ allocated = Frames

\* FRAMES = 3 * BATCH: one batch queued, one in the encoder and one part-filled
\* leave a frame over, so the blocking recv of acquire is never reached.
THEOREM NeverStarved == Frames >= 3 * Batch => (Spec => []~Starved)
<1> SUFFICES ASSUME Frames >= 3 * Batch PROVE Spec => []~Starved
  OBVIOUS
<1>1. Inv => ~Starved
  BY EncoderAssumption
     DEF Inv, TypeOK, FramesConserved, InHand, CallerInv, Starved
<1> QED
  BY Invariance, <1>1, PTL

\* An artifact that was finished holds every tick of the film, compressed.
THEOREM OkIsComplete == Spec => []OkMeansCompressed
<1>1. Inv => OkMeansCompressed
  <2> SUFFICES ASSUME Inv, outcome = "ok"
               PROVE exported = Total /\ compressed = dispatched /\ ~chunk
    BY DEF OkMeansCompressed
  <2>1. exported = Total /\ compressed = dispatched
    BY DEF Inv, CallerInv
  <2>2. ~chunk
    BY <2>1 DEF Inv, TypeOK, ChunksConserved
  <2>3. QED
    BY <2>1, <2>2
<1>2. QED
  BY Invariance, <1>1, PTL

-----------------------------------------------------------------------------
\* The encoder ends normally only after the sender was dropped, and the caller
\* that still holds the sender has not been told anything.
ErrorInv ==
  /\ caller \in {"acquire", "fill", "send", "last_send"} => open
  /\ encoder = "done" => ~open
  /\ caller = "collect" => encoder = "done"
  /\ EncoderErrorTold

LEMMA ErrorInvStep == Inv /\ ErrorInv /\ [Next]_vars => ErrorInv'
<1> SUFFICES ASSUME Inv, ErrorInv, [Next]_vars PROVE ErrorInv'
  OBVIOUS
<1> USE DEF ErrorInv, EncoderErrorTold
<1>1. outcome # "none" <=> caller = "end"
  BY DEF Inv, CallerInv
<1>2. outcome # "none" => EncoderEnded
  BY DEF Inv, CallerInv
<1>3. CASE AcquireSpare \/ AcquireReturned \/ AcquireNew \/ FillFrame \/ SendBatch \/ StartFinish
  BY <1>1, <1>3
     DEF AcquireSpare, AcquireReturned, AcquireNew, FillFrame, SendBatch, StartFinish,
         encoderVars
<1>4. CASE AcquireFails \/ SendFails
  BY <1>1, <1>4 DEF AcquireFails, SendFails, Fail, Verdict, EncoderEnded, encoderVars
<1>5. CASE JoinEncoder
  BY <1>1, <1>5 DEF JoinEncoder, Verdict, EncoderEnded, encoderVars
<1>6. CASE CollectChunks \/ DropJoins \/ Abandon
  BY <1>1, <1>6 DEF CollectChunks, DropJoins, Abandon, encoderVars
<1>7. CASE Encoder \/ RejectTick \/ EncoderPanic
  BY <1>1, <1>2, <1>7
     DEF Encoder, ReceiveBatch, ExportTick, DispatchChunk, DispatchFails, RecycleBatch,
         EncoderEnd, RejectTick, EncoderPanic, EncoderEnded, callerVars
<1>8. CASE Compressor \/ CompressFails
  BY <1>8
     DEF Compressor, ReceiveChunk, CompressChunk, CompressFails, callerVars, encoderVars
<1>9. CASE UNCHANGED vars
  BY <1>9 DEF vars, callerVars, encoderVars
<1>10. QED
  BY <1>3, <1>4, <1>5, <1>6, <1>7, <1>8, <1>9 DEF Next, Caller

\* An error of the encoder is the error encode() returns, never replaced by
\* "closed early".
THEOREM EncoderErrorIsTold == Spec => []EncoderErrorTold
<1>1. Init => ErrorInv
  BY DEF Init, ErrorInv, EncoderErrorTold
<1>2. ErrorInv => EncoderErrorTold
  BY DEF ErrorInv
<1>3. QED
  BY Invariance, <1>1, <1>2, ErrorInvStep, PTL DEF Spec

-----------------------------------------------------------------------------
\* Every step is a step of the ordered stream or changes nothing it shows.
LEMMA StepRefines == Inv /\ [Next]_vars => [Stream!Next]_(Stream!vars)
<1> SUFFICES ASSUME Inv, [Next]_vars PROVE [Stream!Next]_(Stream!vars)
  OBVIOUS
<1> USE DEF Stream!vars
<1>1. outcome # "none" <=> caller = "end"
  BY DEF Inv, CallerInv
<1>2. CASE FillFrame
  <2>1. caller = "fill" /\ outcome = "none" /\ pushed < Total
    BY <1>1, <1>2 DEF FillFrame, Inv, CallerInv
  <2>2. Stream!Offer
    BY <1>2, <2>1 DEF FillFrame, Stream!Offer, encoderVars
  <2>3. QED
    BY <2>2 DEF Stream!Next
<1>3. CASE ExportTick
  <2>1. outcome = "none"
    BY <1>1, <1>3 DEF ExportTick, Inv, CallerInv, EncoderEnded
  <2>2. exported < pushed
    BY <1>3 DEF ExportTick, Inv, TypeOK, TicksConserved
  <2>3. UNCHANGED <<pushed, outcome>> /\ exported' \in {exported, exported + 1}
    BY <1>3 DEF ExportTick, callerVars
  <2>4. QED
    BY <2>1, <2>2, <2>3 DEF Stream!Next, Stream!Deliver
<1>4. CASE AcquireFails \/ SendFails
  <2>1. outcome = "none" /\ outcome' \notin {"none", "ok"} /\ UNCHANGED <<pushed, exported>>
    BY <1>1, <1>4 DEF AcquireFails, SendFails, Fail, Verdict, encoderVars
  <2>2. QED
    BY <2>1 DEF Stream!Next, Stream!Fail
<1>5. CASE JoinEncoder
  <2>1. outcome = "none" /\ UNCHANGED <<pushed, exported>>
    BY <1>1, <1>5 DEF JoinEncoder, encoderVars
  <2>2. outcome' = outcome \/ outcome' \notin {"none", "ok"}
    BY <1>5 DEF JoinEncoder, Verdict
  <2>3. QED
    BY <2>1, <2>2 DEF Stream!Next, Stream!Fail
<1>6. CASE CollectChunks
  <2>1. outcome = "none" /\ exported = Total /\ UNCHANGED <<pushed, exported>>
    BY <1>1, <1>6 DEF CollectChunks, encoderVars, Inv, CallerInv
  <2>2. outcome' \in {"ok", "compressor"}
    BY <1>6 DEF CollectChunks
  <2>3. QED
    BY <2>1, <2>2 DEF Stream!Next, Stream!Succeed, Stream!Fail
<1>7. CASE DropJoins
  <2>1. outcome = "none" /\ outcome' = "abandoned" /\ UNCHANGED <<pushed, exported>>
    BY <1>1, <1>7 DEF DropJoins, encoderVars
  <2>2. QED
    BY <2>1 DEF Stream!Next, Stream!Fail
<1>8. CASE AcquireSpare \/ AcquireReturned \/ AcquireNew \/ SendBatch \/ StartFinish \/ Abandon
  BY <1>8
     DEF AcquireSpare, AcquireReturned, AcquireNew, SendBatch, StartFinish, Abandon,
         encoderVars
<1>9. CASE ReceiveBatch \/ DispatchChunk \/ DispatchFails \/ RecycleBatch \/ EncoderEnd
             \/ RejectTick \/ EncoderPanic
  BY <1>9
     DEF ReceiveBatch, DispatchChunk, DispatchFails, RecycleBatch, EncoderEnd, RejectTick,
         EncoderPanic, callerVars
<1>10. CASE Compressor \/ CompressFails
  BY <1>10
     DEF Compressor, ReceiveChunk, CompressChunk, CompressFails, callerVars, encoderVars
<1>11. CASE UNCHANGED vars
  BY <1>11 DEF vars, callerVars, encoderVars
<1>12. QED
  BY <1>2, <1>3, <1>4, <1>5, <1>6, <1>7, <1>8, <1>9, <1>10, <1>11 DEF Next, Caller, Encoder

\* The pipeline implements the ordered stream: the ticks of the film are
\* exported in order, and it succeeds only with all of them exported.
THEOREM Refinement == Spec => StreamSpec
<1>1. Init => Stream!Init
  BY DEF Init, Stream!Init
<1>2. QED
  BY Invariance, StepRefines, <1>1, PTL DEF Spec, StreamSpec, Stream!Spec

-----------------------------------------------------------------------------
(***************************************************************************)
(* The records.                                                            *)
(***************************************************************************)
CONSTANTS
  Projection(_), Beyond

VARIABLES
  records, pool, frames, now, index, cache, cachePool, history, sources, projected

Heap == INSTANCE RecordHeap

IsIds(ids) == ids \in Seq(Heap!Elements(ids))

\* The heaps hold the records somebody refers to, and no others.
HeapsInv ==
  /\ DOMAIN sources = Heap!SourceLive
  /\ DOMAIN projected = Heap!ProjectedLive

IdsInv ==
  /\ IsIds(records) /\ IsIds(cache)
  /\ \A n \in DOMAIN frames : IsIds(frames[n].records)

\* A projected record holds the projection of what its source holds now: the
\* source is never written over while the projection is kept.
CacheCurrent ==
  \A p \in DOMAIN projected : projected[p].value = Projection(sources[projected[p].source])

\* As far as the worker got in its frame, the cache has its records.
CacheInv ==
  /\ index \in Nat \ {0}
  /\ now # 0 =>
       /\ now \in DOMAIN frames
       /\ \A i \in 1..index - 1 : i \in 1..Len(frames[now].records) /\ i \notin Beyond =>
            /\ i <= Len(cache)
            /\ projected[cache[i]].source = frames[now].records[i]

HeapInv == HeapsInv /\ IdsInv /\ Heap!FramesHold /\ CacheCurrent /\ CacheInv

LEMMA InitHeapInv == Heap!Init => HeapInv
<1> SUFFICES ASSUME Heap!Init PROVE HeapInv
  OBVIOUS
<1>1. Heap!Elements(<<>>) = {} /\ <<>> \in Seq({})
  BY DEF Heap!Elements
<1>2. HeapsInv
  BY <1>1 DEF Heap!Init, HeapsInv, Heap!SourceLive, Heap!SourceShared, Heap!ProjectedLive,
              Heap!ProjectedShared
<1>3. IdsInv
  BY <1>1 DEF Heap!Init, IdsInv, IsIds
<1>4. Heap!FramesHold /\ CacheCurrent /\ CacheInv
  BY DEF Heap!Init, Heap!FramesHold, CacheCurrent, CacheInv
<1> QED
  BY <1>2, <1>3, <1>4 DEF HeapInv

-----------------------------------------------------------------------------
LEMMA SeqIsIds ==
  ASSUME NEW S, NEW t \in Seq(S)
  PROVE  /\ IsIds(t)
         /\ Len(t) \in Nat
         /\ \A j \in 1..Len(t) : t[j] \in Heap!Elements(t) /\ t[j] \in S
         /\ Heap!Elements(t) \subseteq S
<1>1. Len(t) \in Nat /\ t \in [1..Len(t) -> S]
  BY LenProperties
<1>2. \A j \in 1..Len(t) : t[j] \in Heap!Elements(t)
  BY DEF Heap!Elements
<1>3. t \in [1..Len(t) -> Heap!Elements(t)]
  BY <1>1, <1>2
<1>4. IsIds(t)
  BY <1>1, <1>3, SeqDef DEF IsIds
<1>5. Heap!Elements(t) \subseteq S
  BY <1>1 DEF Heap!Elements
<1> QED
  BY <1>1, <1>2, <1>4, <1>5

\* A record is put in one place, and the others stay.
LEMMA PlacedIds ==
  ASSUME NEW ids, IsIds(ids), NEW i \in Nat \ {0}, NEW id, NEW t, t = Heap!Placed(ids, i, id),
         i \in 1..Len(t)
  PROVE  /\ IsIds(t)
         /\ i <= Len(ids) + 1
         /\ Len(ids) \in Nat /\ Len(t) \in Nat /\ Len(ids) <= Len(t)
         /\ t[i] = id
         /\ \A j \in 1..Len(ids) : j # i => t[j] = ids[j]
         /\ Heap!Elements(t) \subseteq Heap!Elements(ids) \cup {id}
<1> DEFINE S == Heap!Elements(ids) \cup {id}
<1>1. ids \in Seq(S) /\ Len(ids) \in Nat
  BY DEF IsIds, Heap!Elements
<1>2. CASE i <= Len(ids)
  <2>1. /\ t = [ids EXCEPT ![i] = id]
        /\ t \in Seq(S) /\ Len(t) = Len(ids)
        /\ t[i] = id
        /\ \A j \in 1..Len(ids) : j # i => t[j] = ids[j]
    BY <1>1, <1>2, ExceptSeq DEF Heap!Placed
  <2>2. \A j \in 1..Len(t) : t[j] \in S
    BY <1>1, <2>1
  <2>3. Heap!Elements(t) \subseteq S
    BY <2>2 DEF Heap!Elements
  <2>4. IsIds(t)
    BY <2>1, SeqIsIds
  <2>5. i <= Len(ids) + 1 /\ Len(ids) <= Len(t) /\ Len(t) \in Nat
    BY <1>1, <1>2, <2>1
  <2> QED
    BY <1>1, <2>1, <2>3, <2>4, <2>5
<1>3. CASE ~(i <= Len(ids))
  <2>1. /\ t = Append(ids, id)
        /\ t \in Seq(S) /\ Len(t) = Len(ids) + 1
        /\ t[Len(ids) + 1] = id
        /\ \A j \in 1..Len(ids) : t[j] = ids[j]
    BY <1>1, <1>3, AppendProperties DEF Heap!Placed
  <2>2. i = Len(ids) + 1
    BY <1>1, <1>3, <2>1
  <2>3. \A j \in 1..Len(t) : t[j] \in S
    BY <1>1, <2>1
  <2>4. Heap!Elements(t) \subseteq S
    BY <2>3 DEF Heap!Elements
  <2>5. IsIds(t)
    BY <2>1, SeqIsIds
  <2> QED
    BY <1>1, <2>1, <2>2, <2>4, <2>5
<1> QED
  BY <1>2, <1>3

LEMMA PrefixIds ==
  ASSUME NEW ids, IsIds(ids), NEW n \in Nat, NEW t, t = Heap!Prefix(ids, n)
  PROVE  /\ IsIds(t)
         /\ Heap!Elements(t) \subseteq Heap!Elements(ids)
         /\ Len(t) = IF n <= Len(ids) THEN n ELSE Len(ids)
         /\ \A j \in 1..Len(t) : t[j] = ids[j]
<1>1. ids \in Seq(Heap!Elements(ids)) /\ Len(ids) \in Nat
  BY SeqIsIds DEF IsIds
<1>2. PICK m \in 0..Len(ids) :
        m = (IF n <= Len(ids) THEN n ELSE Len(ids)) /\ t = SubSeq(ids, 1, m)
  BY <1>1 DEF Heap!Prefix
<1>3. /\ t \in Seq(Heap!Elements(ids))
      /\ Len(t) = m
      /\ \A j \in 1..m : t[j] = ids[j]
  BY <1>1, <1>2, SubSeqProperties
<1> QED
  BY <1>2, <1>3, SeqIsIds

LEMMA NoIds == IsIds(<<>>) /\ Heap!Elements(<<>>) = {} /\ Len(<<>>) = 0
BY DEF IsIds, Heap!Elements

-----------------------------------------------------------------------------
\* Each step keeps the heaps to what is referred to after it.
LEMMA StepHeaps == HeapsInv /\ [Heap!Next]_(Heap!vars) => HeapsInv'
<1> SUFFICES ASSUME HeapsInv, [Heap!Next]_(Heap!vars) PROVE HeapsInv'
  OBVIOUS
<1> USE DEF HeapsInv
<1>1. ASSUME NEW i \in 1..Len(records'), Heap!ReadObject(i) PROVE HeapsInv'
  BY <1>1 DEF Heap!ReadObject, Heap!workerVars, Heap!ProjectedLive, Heap!ProjectedShared
<1>2. CASE Heap!EndObjects
  BY <1>2 DEF Heap!EndObjects, Heap!Kept, Heap!workerVars, Heap!ProjectedLive,
              Heap!ProjectedShared
<1>3. CASE Heap!Push
  <2>1. PICK n \in DOMAIN frames' \ (DOMAIN frames \cup {0}) :
          frames' = [m \in DOMAIN frames \cup {n} |->
                       IF m = n THEN [records |-> records, held |-> Heap!Held(records)]
                                ELSE frames[m]]
    BY <1>3 DEF Heap!Push
  <2>2. /\ DOMAIN frames' = DOMAIN frames \cup {n}
        /\ frames'[n].records = records
        /\ \A m \in DOMAIN frames : frames'[m] = frames[m]
    BY <2>1
  <2>3. UNCHANGED <<records, pool, sources, projected, Heap!ProjectedLive>>
    BY <1>3 DEF Heap!Push, Heap!readerVars, Heap!workerVars, Heap!ProjectedLive,
                Heap!ProjectedShared
  <2>4. ASSUME NEW s PROVE s \in Heap!SourceLive' <=> s \in Heap!SourceLive
    <3>1. CASE s \in Heap!Elements(records)
      BY <2>3, <3>1 DEF Heap!SourceLive, Heap!SourceShared
    <3>2. CASE s \notin Heap!Elements(records)
      <4>1. (\E m \in DOMAIN frames' : s \in Heap!Elements(frames'[m].records))
              <=> \E m \in DOMAIN frames : s \in Heap!Elements(frames[m].records)
        BY <2>2, <3>2
      <4> QED
        BY <2>3, <3>2, <4>1 DEF Heap!SourceLive, Heap!SourceShared
    <3> QED
      BY <3>1, <3>2
  <2>5. Heap!SourceLive' = Heap!SourceLive
    BY <2>4
  <2> QED
    BY <2>3, <2>5
<1>4. CASE Heap!GiveUp
  BY <1>4 DEF Heap!GiveUp, Heap!Kept, Heap!workerVars, Heap!ProjectedLive, Heap!ProjectedShared
<1>5. CASE Heap!Begin \/ Heap!Skip \/ UNCHANGED Heap!vars
  BY <1>5 DEF Heap!Begin, Heap!Skip, Heap!vars, Heap!readerVars, Heap!workerVars,
              Heap!SourceLive, Heap!SourceShared, Heap!ProjectedLive, Heap!ProjectedShared
<1>6. CASE Heap!Project
  BY <1>6 DEF Heap!Project, Heap!Kept
<1>7. CASE Heap!Export
  BY <1>7 DEF Heap!Export, Heap!Kept
<1>8. CASE Heap!Abandon
  <2>1. Heap!ProjectedLive' = {}
    BY <1>8, NoIds DEF Heap!Abandon, Heap!ProjectedLive, Heap!ProjectedShared
  <2> QED
    BY <1>8, <2>1 DEF Heap!Abandon, Heap!Kept
<1> QED
  BY <1>1, <1>2, <1>3, <1>4, <1>5, <1>6, <1>7, <1>8 DEF Heap!Next

LEMMA StepIds == IdsInv /\ CacheInv /\ [Heap!Next]_(Heap!vars) => IdsInv'
<1> SUFFICES ASSUME IdsInv, CacheInv, [Heap!Next]_(Heap!vars) PROVE IdsInv'
  OBVIOUS
<1> USE DEF IdsInv
<1>1. ASSUME NEW i \in 1..Len(records'), Heap!ReadObject(i) PROVE IdsInv'
  <2>1. records' = Heap!Placed(records, i, records'[i]) /\ UNCHANGED <<frames, cache>>
    BY <1>1 DEF Heap!ReadObject, Heap!workerVars
  <2>2. IsIds(records')
    BY <2>1, PlacedIds
  <2> QED
    BY <2>1, <2>2 DEF IsIds
<1>2. CASE Heap!EndObjects
  <2>1. PICK n \in 0..Len(records) : records' = Heap!Prefix(records, n)
    BY <1>2 DEF Heap!EndObjects
  <2>2. IsIds(records')
    BY <2>1, PrefixIds
  <2> QED
    BY <1>2, <2>2 DEF Heap!EndObjects, Heap!workerVars, IsIds
<1>3. CASE Heap!Push
  BY <1>3 DEF Heap!Push, Heap!readerVars, Heap!workerVars, IsIds
<1>4. CASE Heap!GiveUp
  BY <1>4, NoIds DEF Heap!GiveUp, Heap!Fewer, Heap!Kept, Heap!workerVars, IsIds
<1>5. CASE Heap!Begin \/ Heap!Skip \/ UNCHANGED Heap!vars
  BY <1>5 DEF Heap!Begin, Heap!Skip, Heap!vars, Heap!readerVars, Heap!workerVars, IsIds
<1>6. CASE Heap!Project
  <2>1. /\ cache' = Heap!Placed(cache, index, cache'[index]) /\ index \in 1..Len(cache')
        /\ UNCHANGED <<records, frames>>
    BY <1>6 DEF Heap!Project, Heap!readerVars
  <2>2. IsIds(cache')
    BY <2>1, PlacedIds DEF CacheInv
  <2> QED
    BY <2>1, <2>2 DEF IsIds
<1>7. CASE Heap!Export
  <2>1. /\ cache' = Heap!Prefix(cache, Len(frames[now].records))
        /\ frames' = [n \in DOMAIN frames \ {now} |-> frames[n]]
        /\ UNCHANGED records
    BY <1>7 DEF Heap!Export, Heap!Kept, Heap!readerVars
  <2>2. Len(frames[now].records) \in Nat
    BY <1>7, SeqIsIds DEF Heap!Export, CacheInv, IsIds
  <2>3. IsIds(cache')
    BY <2>1, <2>2, PrefixIds
  <2> QED
    BY <2>1, <2>3 DEF IsIds
<1>8. CASE Heap!Abandon
  BY <1>8, NoIds DEF Heap!Abandon, Heap!Fewer, Heap!Kept, Heap!readerVars, IsIds
<1> QED
  BY <1>1, <1>2, <1>3, <1>4, <1>5, <1>6, <1>7, <1>8 DEF Heap!Next

\* Who refers to a source record: frames that wait, and projections kept.
LEMMA Referred ==
  /\ \A n \in DOMAIN frames : \A i \in 1..Len(frames[n].records) :
       frames[n].records[i] \in Heap!SourceShared
  /\ \A p \in Heap!ProjectedLive : projected[p].source \in Heap!SourceShared
<1>1. ASSUME NEW n \in DOMAIN frames, NEW i \in 1..Len(frames[n].records)
      PROVE  frames[n].records[i] \in Heap!SourceShared
  <2>1. frames[n].records[i] \in Heap!Elements(frames[n].records)
    BY DEF Heap!Elements
  <2> QED
    BY <2>1 DEF Heap!SourceShared
<1>2. ASSUME NEW p \in Heap!ProjectedLive PROVE projected[p].source \in Heap!SourceShared
  BY DEF Heap!SourceShared
<1> QED
  BY <1>1, <1>2

LEMMA ReferredNext ==
  /\ \A n \in DOMAIN frames' : \A i \in 1..Len(frames'[n].records) :
       frames'[n].records[i] \in Heap!SourceLive'
  /\ \A p \in Heap!ProjectedLive' : projected'[p].source \in Heap!SourceLive'
<1>1. ASSUME NEW n \in DOMAIN frames', NEW i \in 1..Len(frames'[n].records)
      PROVE  frames'[n].records[i] \in Heap!SourceLive'
  <2>1. frames'[n].records[i] \in Heap!Elements(frames'[n].records)
    BY DEF Heap!Elements
  <2> QED
    BY <2>1 DEF Heap!SourceLive, Heap!SourceShared
<1>2. ASSUME NEW p \in Heap!ProjectedLive' PROVE projected'[p].source \in Heap!SourceLive'
  BY DEF Heap!SourceLive, Heap!SourceShared
<1> QED
  BY <1>1, <1>2

\* A step leaves what is in a source record somebody refers to, before the step and
\* after it, and what is in a projected record of the cache or of the ticks before.
LEMMA SourcesStay ==
  ASSUME [Heap!Next]_(Heap!vars), HeapsInv, NEW s \in Heap!SourceShared, s \in Heap!SourceLive'
  PROVE  sources'[s] = sources[s]
<1>1. ASSUME NEW i \in 1..Len(records'), Heap!ReadObject(i) PROVE sources'[s] = sources[s]
  BY <1>1 DEF Heap!ReadObject
<1>2. CASE Heap!EndObjects \/ Heap!GiveUp \/ Heap!Project \/ Heap!Export \/ Heap!Abandon
  BY <1>2 DEF Heap!EndObjects, Heap!GiveUp, Heap!Project, Heap!Export, Heap!Abandon, Heap!Kept
<1>3. CASE Heap!Push \/ Heap!Begin \/ Heap!Skip \/ UNCHANGED Heap!vars
  BY <1>3 DEF Heap!Push, Heap!Begin, Heap!Skip, Heap!vars
<1> QED
  BY <1>1, <1>2, <1>3 DEF Heap!Next

LEMMA ProjectedStay ==
  ASSUME [Heap!Next]_(Heap!vars), NEW p \in Heap!ProjectedShared, p \in Heap!ProjectedLive'
  PROVE  projected'[p] = projected[p]
<1>1. CASE Heap!Project
  BY <1>1 DEF Heap!Project
<1>2. CASE Heap!Export
  BY <1>2 DEF Heap!Export, Heap!Kept
<1>3. CASE Heap!Abandon
  BY <1>3, NoIds DEF Heap!Abandon, Heap!ProjectedLive, Heap!ProjectedShared
<1>4. CASE UNCHANGED projected
  BY <1>4
<1> QED
  BY <1>1, <1>2, <1>3, <1>4
  DEF Heap!Next, Heap!ReadObject, Heap!EndObjects, Heap!Push, Heap!GiveUp, Heap!Begin,
      Heap!Skip, Heap!vars

LEMMA StepFrames == Heap!FramesHold /\ HeapsInv /\ [Heap!Next]_(Heap!vars) => Heap!FramesHold'
<1> SUFFICES ASSUME Heap!FramesHold, HeapsInv, [Heap!Next]_(Heap!vars),
                    NEW n \in DOMAIN frames', NEW i \in 1..Len(frames'[n].records)
             PROVE  sources'[frames'[n].records[i]] = frames'[n].held[i]
  BY DEF Heap!FramesHold
<1>1. CASE n \in DOMAIN frames /\ frames'[n] = frames[n]
  BY <1>1, Referred, ReferredNext, SourcesStay DEF Heap!FramesHold
<1>2. CASE Heap!Push
  <2>1. PICK new \in DOMAIN frames' \ (DOMAIN frames \cup {0}) :
          frames' = [m \in DOMAIN frames \cup {new} |->
                       IF m = new THEN [records |-> records, held |-> Heap!Held(records)]
                                  ELSE frames[m]]
    BY <1>2 DEF Heap!Push
  <2>2. CASE n = new
    <3>1. frames'[n].records = records /\ frames'[n].held = Heap!Held(records)
      BY <2>1, <2>2
    <3> QED
      BY <1>2, <3>1 DEF Heap!Push, Heap!Held
  <2>3. CASE n # new
    BY <1>1, <2>1, <2>3
  <2> QED
    BY <2>2, <2>3
<1>3. CASE ~Heap!Push
  BY <1>1, <1>3
  DEF Heap!Next, Heap!ReadObject, Heap!EndObjects, Heap!GiveUp, Heap!Begin, Heap!Skip,
      Heap!Project, Heap!Export, Heap!Abandon, Heap!Fewer, Heap!Kept, Heap!vars
<1> QED
  BY <1>2, <1>3

LEMMA StepCache ==
  CacheCurrent /\ HeapsInv /\ IdsInv /\ CacheInv /\ HeapsInv' /\ [Heap!Next]_(Heap!vars)
    => CacheCurrent'
<1> SUFFICES ASSUME CacheCurrent, HeapsInv, IdsInv, CacheInv, HeapsInv', [Heap!Next]_(Heap!vars),
                    NEW p \in Heap!ProjectedLive'
             PROVE  projected'[p].value = Projection(sources'[projected'[p].source])
  BY DEF CacheCurrent, HeapsInv
<1>1. CASE p \in Heap!ProjectedLive /\ projected'[p] = projected[p]
  <2>1. projected'[p].source \in Heap!SourceShared /\ projected'[p].source \in Heap!SourceLive'
    BY <1>1, Referred, ReferredNext
  <2>2. sources'[projected'[p].source] = sources[projected[p].source]
    BY <1>1, <2>1, SourcesStay
  <2> QED
    BY <1>1, <2>2 DEF CacheCurrent, HeapsInv
<1>2. CASE Heap!Project
  <2>1. CASE p = cache'[index]
    <3>1. projected'[p] = [source |-> Heap!Object, value |-> Projection(sources[Heap!Object])]
      BY <1>2, <2>1 DEF Heap!Project
    <3>2. Heap!Object \in Heap!SourceShared
      BY <1>2, Referred DEF Heap!Project, Heap!Working, CacheInv, Heap!Object
    <3>3. Heap!Object \in Heap!SourceLive'
      BY <3>1, ReferredNext
    <3>4. sources'[Heap!Object] = sources[Heap!Object]
      BY <3>2, <3>3, SourcesStay
    <3> QED
      BY <3>1, <3>4
  <2>2. CASE p # cache'[index]
    <3>1. projected'[p] = projected[p]
      BY <1>2, <2>2 DEF Heap!Project
    <3>2. Heap!Elements(cache') \subseteq Heap!Elements(cache) \cup {cache'[index]}
      BY <1>2, PlacedIds DEF Heap!Project, CacheInv, IdsInv
    <3>3. index \in 1..Len(cache) => cache[index] \in Heap!Elements(cache)
      BY DEF Heap!Elements
    <3>4. Heap!Replaced(cache, index) \subseteq Heap!Elements(cache)
      BY <3>3 DEF Heap!Replaced, CacheInv
    <3>5. p \in Heap!ProjectedLive
      BY <1>2, <2>2, <3>2, <3>4 DEF Heap!Project, Heap!ProjectedLive, Heap!ProjectedShared
    <3> QED
      BY <1>1, <3>1, <3>5
  <2> QED
    BY <2>1, <2>2
<1>3. CASE Heap!Export
  <2>1. Heap!Elements(cache') \subseteq Heap!Elements(cache)
    BY <1>3, PrefixIds, SeqIsIds DEF Heap!Export, IdsInv, CacheInv, IsIds
  <2>2. p \in Heap!ProjectedLive
    BY <1>3, <2>1 DEF Heap!Export, Heap!ProjectedLive, Heap!ProjectedShared
  <2> QED
    BY <1>1, <1>3, <2>2 DEF Heap!Export, Heap!Kept
<1>4. CASE Heap!Abandon
  BY <1>4, NoIds DEF Heap!Abandon, Heap!ProjectedLive, Heap!ProjectedShared
<1>5. CASE UNCHANGED <<projected, cache, cachePool, history>>
  BY <1>1, <1>5 DEF Heap!ProjectedLive, Heap!ProjectedShared
<1> QED
  BY <1>2, <1>3, <1>4, <1>5
  DEF Heap!Next, Heap!ReadObject, Heap!EndObjects, Heap!Push, Heap!GiveUp, Heap!Begin,
      Heap!Skip, Heap!vars, Heap!workerVars

\* The objects gone through stay projected: only Project changes the cache in the middle
\* of a frame, and only at its index.
LEMMA StepCached == CacheInv /\ HeapsInv /\ IdsInv /\ [Heap!Next]_(Heap!vars) => CacheInv'
<1> SUFFICES ASSUME CacheInv, HeapsInv, IdsInv, [Heap!Next]_(Heap!vars) PROVE CacheInv'
  OBVIOUS
<1> USE DEF CacheInv
<1>1. ASSUME NEW i \in 1..Len(records'), Heap!ReadObject(i) PROVE CacheInv'
  BY <1>1 DEF Heap!ReadObject, Heap!workerVars
<1>2. CASE Heap!EndObjects \/ UNCHANGED Heap!vars
  BY <1>2 DEF Heap!EndObjects, Heap!workerVars, Heap!vars
<1>3. CASE Heap!Push
  <2>1. DOMAIN frames \subseteq DOMAIN frames' /\ \A n \in DOMAIN frames : frames'[n] = frames[n]
    BY <1>3 DEF Heap!Push
  <2> QED
    BY <1>3, <2>1 DEF Heap!Push, Heap!workerVars
<1>4. CASE Heap!GiveUp
  BY <1>4 DEF Heap!GiveUp, Heap!Fewer, Heap!Kept, Heap!workerVars
<1>5. CASE Heap!Begin
  BY <1>5 DEF Heap!Begin
<1>6. CASE Heap!Skip
  <2>1. /\ index' = index + 1 /\ index \in 1..index
        /\ UNCHANGED <<frames, now, cache, projected>>
    BY <1>6 DEF Heap!Skip
  <2>2. index \in Beyond \/ (index <= Len(cache) /\ projected[cache[index]].source = Heap!Object)
    BY <1>6 DEF Heap!Skip, Heap!SameSource
  <2>3. \A i \in 1..index' - 1 : i \in 1..index - 1 \/ i = index
    BY <2>1
  <2> QED
    BY <2>1, <2>2, <2>3 DEF Heap!Object
<1>7. CASE Heap!Project
  <2> DEFINE id == cache'[index]
  <2>1. /\ Len(cache) \in Nat /\ Len(cache) <= Len(cache') /\ index <= Len(cache')
        /\ IsIds(cache')
        /\ \A i \in 1..Len(cache) : i # index => cache'[i] = cache[i]
    BY <1>7, PlacedIds DEF Heap!Project, IdsInv
  <2>2. projected'[id].source = Heap!Object
    <3>1. id \in Heap!Elements(cache')
      BY <1>7 DEF Heap!Project, Heap!Elements
    <3>2. id \in Heap!ProjectedLive'
      BY <3>1 DEF Heap!ProjectedLive, Heap!ProjectedShared
    <3> QED
      BY <1>7, <3>2 DEF Heap!Project
  <2>3. ASSUME NEW i \in 1..Len(cache), i # index
        PROVE  i <= Len(cache') /\ projected'[cache'[i]] = projected[cache[i]]
    <3>1. i \in 1..Len(cache') /\ cache'[i] = cache[i]
      BY <2>1, <2>3, SeqIsIds DEF IsIds
    <3>2. cache[i] \in Heap!ProjectedShared
      BY DEF Heap!ProjectedShared, Heap!Elements
    <3>3. cache'[i] \in Heap!ProjectedLive'
      BY <3>1 DEF Heap!ProjectedLive, Heap!ProjectedShared, Heap!Elements
    <3> QED
      BY <3>1, <3>2, <3>3, ProjectedStay
  <2>4. \A i \in 1..index' - 1 : (i \in 1..index - 1 /\ i # index) \/ i = index
    BY <1>7 DEF Heap!Project
  <2>5. now' = now /\ now # 0 /\ UNCHANGED frames /\ index' \in Nat \ {0}
    BY <1>7 DEF Heap!Project, Heap!Working
  <2>6. ASSUME NEW i \in 1..index' - 1, i \in 1..Len(frames[now].records), i \notin Beyond
        PROVE  i <= Len(cache') /\ projected'[cache'[i]].source = frames[now].records[i]
    <3>1. CASE i = index
      BY <2>1, <2>2, <3>1 DEF Heap!Object
    <3>2. CASE i \in 1..index - 1 /\ i # index
      <4>1. i \in 1..Len(cache) /\ projected[cache[i]].source = frames[now].records[i]
        BY <2>1, <2>5, <2>6, <3>2
      <4> QED
        BY <2>3, <3>2, <4>1
    <3> QED
      BY <2>4, <3>1, <3>2
  <2> QED
    BY <2>5, <2>6
<1>8. CASE Heap!Export
  BY <1>8 DEF Heap!Export
<1>9. CASE Heap!Abandon
  BY <1>9 DEF Heap!Abandon
<1> QED
  BY <1>1, <1>2, <1>3, <1>4, <1>5, <1>6, <1>7, <1>8, <1>9 DEF Heap!Next

LEMMA HeapInvariance == Heap!Spec => []HeapInv
<1>1. HeapInv /\ [Heap!Next]_(Heap!vars) => HeapInv'
  BY StepHeaps, StepIds, StepFrames, StepCache, StepCached DEF HeapInv
<1> QED
  BY InitHeapInv, <1>1, PTL DEF Heap!Spec

-----------------------------------------------------------------------------
\* A frame holds what it was filled with until it is encoded or dropped, however the
\* reader goes on: the records that wait in it are not written over.
THEOREM FramesAreKept == Heap!Spec => []Heap!FramesHold
<1>1. HeapInv => Heap!FramesHold
  BY DEF HeapInv
<1> QED
  BY <1>1, HeapInvariance, PTL

\* What the worker exports is the projection of what the frame was filled with, though
\* it projects only the objects that are other records than in the frame before.
THEOREM ReadyFramesAreProjected == Heap!Spec => []Heap!ReadyIsProjected
<1>1. HeapInv => Heap!ReadyIsProjected
  <2> SUFFICES ASSUME HeapInv, now # 0, index > Len(frames[now].records),
                      NEW i \in 1..Len(frames[now].records) \ Beyond
               PROVE  i <= Len(cache) /\ projected[cache[i]].value = Projection(frames[now].held[i])
    BY DEF Heap!ReadyIsProjected
  <2> USE DEF HeapInv
  <2>1. now \in DOMAIN frames /\ IsIds(cache) /\ IsIds(frames[now].records)
    BY DEF CacheInv, IdsInv
  <2>2. Len(frames[now].records) \in Nat /\ Len(cache) \in Nat
    BY <2>1, SeqIsIds DEF IsIds
  <2>3. i \in 1..index - 1 /\ i \in 1..Len(frames[now].records) /\ i \notin Beyond
    BY <2>2 DEF CacheInv
  <2>4. i \in 1..Len(cache) /\ projected[cache[i]].source = frames[now].records[i]
    BY <2>2, <2>3 DEF CacheInv
  <2>5. cache[i] \in DOMAIN projected
    BY <2>4 DEF HeapsInv, Heap!ProjectedLive, Heap!ProjectedShared, Heap!Elements
  <2>6. projected[cache[i]].value = Projection(sources[frames[now].records[i]])
    BY <2>4, <2>5 DEF CacheCurrent
  <2>7. sources[frames[now].records[i]] = frames[now].held[i]
    BY <2>1, <2>3 DEF Heap!FramesHold
  <2> QED
    BY <2>4, <2>6, <2>7
<1> QED
  BY <1>1, HeapInvariance, PTL

\* What the encoder compares later ticks with, two ticks back, is not written over by
\* the projections made since.
THEOREM EncodedRecordsStay == Heap!Spec => Heap!HistoryStays
<1>1. [Heap!Next]_(Heap!vars)
        => [\A p \in history \cap history' : projected'[p] = projected[p]]_(Heap!vars)
  BY ProjectedStay DEF Heap!ProjectedShared, Heap!ProjectedLive
<1> QED
  BY <1>1, PTL DEF Heap!Spec, Heap!HistoryStays

=============================================================================
