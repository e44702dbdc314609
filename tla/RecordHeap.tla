------------------------------- MODULE RecordHeap -------------------------------
(***************************************************************************)
(* What the film encoder promises of the records that its two threads      *)
(* share, whatever the records hold and however many ticks wait.           *)
(*                                                                         *)
(* A reader keeps the objects of a tick as references to source records    *)
(* and hands each tick on as a frame, a copy of the references.  A worker  *)
(* goes through a frame, object by object, and keeps a projected record    *)
(* for each, which it only makes anew when the object is another record.   *)
(* Replaced records wait in pools to be written over.                      *)
(*                                                                         *)
(* A frame also carries, for the properties, what its records held when it *)
(* was filled.  FilmExport, which has the values, the order of the pools   *)
(* and their limits, implements this.                                      *)
(***************************************************************************)
EXTENDS Naturals, Sequences

CONSTANTS
  Projection(_),  \* of what a source record holds
  Beyond          \* indices of objects the contract does not project

VARIABLES
  records,    \* the objects of the tick being read, ids of source records
  pool,       \* replaced source records
  frames,     \* the ticks handed on, by number
  now,        \* the frame the worker goes through, or 0
  index,      \* the object of it that is next
  cache,      \* the projected records, by object
  cachePool,  \* replaced projected records
  history,    \* the projected records of the two ticks encoded last
  sources,    \* what each source record holds, by id
  projected   \* the source of each projected record, and its projection

readerVars == <<records, pool>>
workerVars == <<now, index, cache, cachePool, history>>
vars == <<readerVars, frames, workerVars, sources, projected>>

Init ==
  /\ records = <<>> /\ pool = {}
  /\ frames = [n \in {} |-> <<>>]
  /\ now = 0 /\ index = 1
  /\ cache = <<>> /\ cachePool = {} /\ history = {}
  /\ sources = [s \in {} |-> <<>>]
  /\ projected = [p \in {} |-> <<>>]

-----------------------------------------------------------------------------
Elements(ids) == {ids[i] : i \in 1..Len(ids)}

\* What the reference count of a record counts, but for the pool it is in.
ProjectedShared == Elements(cache) \cup history
ProjectedLive == ProjectedShared \cup cachePool
SourceShared ==
  Elements(records) \cup {projected[p].source : p \in ProjectedLive}
    \cup UNION {Elements(frames[n].records) : n \in DOMAIN frames}
SourceLive == SourceShared \cup pool

Kept(heap, live) == [id \in live |-> heap[id]]

Placed(ids, i, id) == IF i <= Len(ids) THEN [ids EXCEPT ![i] = id] ELSE Append(ids, id)
Replaced(ids, i) == IF i <= Len(ids) THEN {ids[i]} ELSE {}
Prefix(ids, n) == SubSeq(ids, 1, IF n <= Len(ids) THEN n ELSE Len(ids))

-----------------------------------------------------------------------------
\* An object is read into a record nobody else refers to, new or from the pool.
ReadObject(i) ==
  LET id == records'[i] IN
  /\ id \notin SourceShared
  /\ records' = Placed(records, i, id)
  /\ pool' \subseteq (pool \ {id}) \cup Replaced(records, i)
  /\ sources' = [s \in SourceLive' |-> IF s = id THEN sources'[id] ELSE sources[s]]
  /\ UNCHANGED <<frames, workerVars, projected>>

\* The tick has no more objects.
EndObjects ==
  /\ \E n \in 0..Len(records) : records' = Prefix(records, n)
  /\ sources' = Kept(sources, SourceLive')
  /\ UNCHANGED <<pool, frames, workerVars, projected>>

Held(ids) == [i \in 1..Len(ids) |-> sources[ids[i]]]

\* The tick is handed on.
Push ==
  /\ \E n \in DOMAIN frames' \ (DOMAIN frames \cup {0}) :
       frames' = [m \in DOMAIN frames \cup {n} |->
                    IF m = n THEN [records |-> records, held |-> Held(records)] ELSE frames[m]]
  /\ UNCHANGED <<readerVars, workerVars, sources, projected>>

Fewer == DOMAIN frames' \subseteq DOMAIN frames /\ frames' = Kept(frames, DOMAIN frames')

\* The reader gives up: frames it did not send yet are dropped.
GiveUp ==
  /\ Fewer /\ (now # 0 => now \in DOMAIN frames')
  /\ records' = <<>> /\ pool' = {}
  /\ sources' = Kept(sources, SourceLive')
  /\ UNCHANGED <<workerVars, projected>>

-----------------------------------------------------------------------------
Begin ==
  /\ now = 0 /\ now' \in DOMAIN frames
  /\ index' = 1
  /\ UNCHANGED <<readerVars, frames, cache, cachePool, history, sources, projected>>

Object == frames[now].records[index]
SameSource == index <= Len(cache) /\ projected[cache[index]].source = Object

Working == now # 0 /\ index <= Len(frames[now].records)

\* The object is projected already, or not at all.
Skip ==
  /\ Working
  /\ SameSource \/ index \in Beyond
  /\ index' = index + 1
  /\ UNCHANGED <<readerVars, frames, now, cache, cachePool, history, sources, projected>>

Project ==
  LET id == cache'[index] IN
  /\ Working
  /\ index \in 1..Len(cache')
  /\ id \notin ProjectedShared
  /\ cache' = Placed(cache, index, id)
  /\ cachePool' \subseteq (cachePool \ {id}) \cup Replaced(cache, index)
  /\ projected' = [p \in ProjectedLive' |->
                     IF p = id THEN [source |-> Object, value |-> Projection(sources[Object])]
                               ELSE projected[p]]
  /\ sources' = Kept(sources, SourceLive')
  /\ index' = index + 1
  /\ UNCHANGED <<readerVars, frames, now, history>>

\* The frame is encoded, or the encoder fails at it.
Export ==
  /\ now # 0 /\ index > Len(frames[now].records)
  /\ cache' = Prefix(cache, Len(frames[now].records))
  /\ history' \subseteq history \cup Elements(cache')
  /\ frames' = Kept(frames, DOMAIN frames \ {now})
  /\ now' \in DOMAIN frames' \cup {0}
  /\ index' = 1
  /\ projected' = Kept(projected, ProjectedLive')
  /\ sources' = Kept(sources, SourceLive')
  /\ UNCHANGED <<readerVars, cachePool>>

\* The worker gives up: its frames and its caches go with it.
Abandon ==
  /\ Fewer
  /\ now' = 0
  /\ cache' = <<>> /\ cachePool' = {} /\ history' = {}
  /\ projected' = Kept(projected, {})
  /\ sources' = Kept(sources, SourceLive')
  /\ UNCHANGED <<readerVars, index>>

Next ==
  \/ \E i \in 1..Len(records') : ReadObject(i)
  \/ EndObjects \/ Push \/ GiveUp
  \/ Begin \/ Skip \/ Project \/ Export \/ Abandon

Spec == Init /\ [][Next]_vars

-----------------------------------------------------------------------------
(***************************************************************************)
(* Properties.                                                             *)
(***************************************************************************)
\* A frame holds what it was filled with as long as it waits.
FramesHold ==
  \A n \in DOMAIN frames : \A i \in 1..Len(frames[n].records) :
    sources[frames[n].records[i]] = frames[n].held[i]

\* When the worker has gone through a frame, its cache holds the projection of
\* every object the frame was filled with, whichever of them it did not project
\* again and whatever the reader has read since.
ReadyIsProjected ==
  now # 0 /\ index > Len(frames[now].records) =>
    \A i \in 1..Len(frames[now].records) \ Beyond :
      i <= Len(cache) /\ projected[cache[i]].value = Projection(frames[now].held[i])

\* A projected record of a tick that was encoded stays as it is while the
\* encoder compares later ticks with it.
HistoryStays ==
  [][\A p \in history \cap history' : projected'[p] = projected[p]]_vars

=============================================================================
