--------------------------- MODULE ViewerWriterProofs ---------------------------
(***************************************************************************)
(* Theorems about ViewerWriter, for any replay, any number of workers and  *)
(* attempts, and whatever the projectors, the codec and the digest do.     *)
(***************************************************************************)
EXTENDS ViewerWriter, SequenceTheorems, FiniteSetTheorems, WellFoundedInduction, TLAPS

-----------------------------------------------------------------------------
Total == Len(replay.ticks)

\* Chunk i, counted from 0, has the ticks after this one.
Start(i) == i * Interval
Count(i) == IF Start(i + 1) <= Total THEN Interval ELSE Total - Start(i)

IsList(s) == Len(s) \in Nat /\ s = [i \in 1..Len(s) |-> s[i]]

\* What the encoder makes of a chunk of the replay.
Cut(i) ==
  Encode([k \in 1..Count(i) |-> Projected(parallel, replay.ticks[Start(i) + k])], Start(i))

\* The encoder gives bytes: a list.  (TLC checks it as part of TaskOK.)
ByteStrings ==
  \A r \in Replays, several \in BOOLEAN, first \in Nat, n \in 1..Interval :
    LET values == [k \in 1..n |-> Projected(several, r.ticks[first + k])]
        chunk == Encode(values, first)
    IN first + n <= Len(r.ticks) /\ (\A k \in 1..n : values[k] # Refused) /\ chunk.ok
         => IsList(chunk.bytes)

\* A chunk that was cut from the replay, and one that can be sent.
TaskOK(t) ==
  /\ t.index \in Nat
  /\ t.first = Start(t.index) /\ t.count = Count(t.index) /\ t.count \in 1..Interval
  /\ t.expected = [k \in 1..t.count |-> Digest(Projected(parallel, replay.ticks[t.first + k]))]
  /\ t.encoded = Cut(t.index)
  /\ t.encoded.ok => IsList(t.encoded.bytes)

SentOK(t) == TaskOK(t) /\ t.encoded.ok

\* A chunk that was validated: its bytes have its ticks.
PartOK(p) ==
  /\ p # Error
  /\ p.index \in Nat
  /\ p.first = Start(p.index) /\ p.count = Count(p.index) /\ p.count \in 1..Interval
  /\ p.digest = Cut(p.index).bytes /\ IsList(p.digest)
  /\ Faithful(p.digest, p.first, p.count)

\* Wherever a chunk is, it is one of the replay's.
WorkInv ==
  /\ replay \in Replays /\ parallel \in BOOLEAN
  /\ DOMAIN worker = Workers
  /\ IsList(tasks) /\ \A i \in 1..Len(tasks) : SentOK(tasks[i])
  /\ \A w \in Workers : worker[w][1] = "busy" => SentOK(worker[w][2])
  /\ IsList(results) /\ \A i \in 1..Len(results) : results[i] = Error \/ PartOK(results[i])
  /\ IsList(chunks) /\ \A i \in 1..Len(chunks) : PartOK(chunks[i])

\* The chunks sent have all the ticks, and none has only ticks beyond them.
Whole(n) == Total <= Start(n) /\ Start(n) < Total + Interval

Pending ==
  /\ Len(pending) \in 0..ticks
  /\ pending = [k \in 1..Len(pending) |->
                  Projected(parallel, replay.ticks[ticks - Len(pending) + k])]
  /\ \A k \in 1..Len(pending) : pending[k] # Refused

\* What was read is sent or pending, or, when a chunk is cut, in hand.
ReadInv ==
  /\ ticks \in Nat /\ dispatched \in Nat
  /\ at \in {"read", "send", "collect", "finish", "drain", "join"} => ticks \in 0..Total
  /\ at = "read" =>
       /\ Pending /\ Len(pending) < Interval
       /\ ticks = Start(dispatched) + Len(pending)
            \/ (pending = <<>> /\ ticks = Total /\ Whole(dispatched))
  /\ at = "send" =>
       /\ TaskOK(outgoing)
       /\ outgoing.index = dispatched /\ ticks = outgoing.first + outgoing.count
  /\ at \in {"send", "collect"} => pending = <<>>
  /\ at = "collect" => ticks = Start(dispatched) \/ (ticks = Total /\ Whole(dispatched))
  /\ at \in {"finish", "drain", "join"} => ticks = Total /\ Whole(dispatched)
  /\ at \in {"drain", "join"} => Total > 0
  /\ at = "join" => Len(chunks) = dispatched

\* The chunks of the replay, all of them and in their order.
Listed(list) ==
  /\ IsList(list)
  /\ Total > 0 /\ Whole(Len(list))
  /\ \A i \in 1..Len(list) : PartOK(list[i]) /\ list[i].index = i - 1

PartsInv ==
  /\ at = "describe" => ticks = Total /\ Listed(chunks)
  /\ at \in {"finalize", "copy", "rename"} =>
       /\ parts.tick_count = Total
       /\ parts.replay = ProjectedMeta(replay.meta)
       /\ Listed(parts.chunks)

\* The manifest says of the parts what they are, and where they go.
Described(manifest, list) ==
  /\ manifest.tick_count = Total
  /\ manifest.replay = ProjectedMeta(replay.meta)
  /\ Len(manifest.chunks) = Len(list)
  /\ \A i \in 1..Len(list) :
       LET c == manifest.chunks[i]
       IN /\ c.first = list[i].first /\ c.count = list[i].count /\ c.size = Len(list[i].digest)
          /\ c.offset = IF i = 1 THEN 0
                        ELSE manifest.chunks[i - 1].offset + manifest.chunks[i - 1].size

End(manifest, i) ==
  IF i = 0 THEN 0 ELSE manifest.chunks[i].offset + manifest.chunks[i].size

\* The parts copied so far are where the manifest says.
Copied(container, list) ==
  /\ container.copied \in 0..Len(list)
  /\ IsList(container.bytes)
  /\ Len(container.bytes) = End(container.manifest, container.copied)
  /\ \A i \in 1..container.copied :
       /\ End(container.manifest, i - 1) \in Nat
       /\ End(container.manifest, i) <= Len(container.bytes)
       /\ SubSeq(container.bytes, End(container.manifest, i - 1) + 1, End(container.manifest, i))
            = list[i].digest

CopyInv ==
  /\ at \in {"copy", "rename"} =>
       /\ DOMAIN partial = {"manifest", "bytes", "copied"}
       /\ Described(partial.manifest, parts.chunks)
       /\ Copied(partial, parts.chunks)
  /\ at = "copy" =>
       \A i \in 1..Len(parts.chunks) : files[parts.chunks[i].index] = parts.chunks[i].digest
  /\ at = "rename" => partial.copied = Len(parts.chunks)

IInv == WorkInv /\ ReadInv /\ PartsInv /\ CopyInv /\ OutputReplays

-----------------------------------------------------------------------------
(***************************************************************************)
(* Lists.                                                                  *)
(***************************************************************************)
LEMMA ListSeq ==
  ASSUME NEW s, IsList(s), NEW S, \A i \in 1..Len(s) : s[i] \in S
  PROVE  s \in Seq(S)
<1>1. s \in [1..Len(s) -> S] /\ Len(s) \in Nat
  BY DEF IsList
<1> QED
  BY <1>1, SeqDef

LEMMA SeqList ==
  ASSUME NEW S, NEW s \in Seq(S)
  PROVE  IsList(s)
BY LenProperties DEF IsList

LEMMA NoList == IsList(<<>>) /\ Len(<<>>) = 0
<1>1. <<>> \in Seq({}) /\ Len(<<>>) = 0
  BY EmptySeq
<1> QED
  BY <1>1, SeqList

LEMMA AppendList ==
  ASSUME NEW s, IsList(s), NEW e
  PROVE  /\ IsList(Append(s, e))
         /\ Len(Append(s, e)) = Len(s) + 1
         /\ \A i \in 1..Len(s) : Append(s, e)[i] = s[i]
         /\ Append(s, e)[Len(s) + 1] = e
<1> DEFINE S == {s[i] : i \in 1..Len(s)} \cup {e}
<1>1. s \in Seq(S) /\ e \in S
  BY ListSeq
<1> HIDE DEF S
<1>2. /\ Append(s, e) \in Seq(S)
      /\ Len(Append(s, e)) = Len(s) + 1
      /\ \A i \in 1..Len(s) : Append(s, e)[i] = s[i]
      /\ Append(s, e)[Len(s) + 1] = e
  BY <1>1, AppendProperties
<1> QED
  BY <1>2, SeqList

LEMMA ConcatList ==
  ASSUME NEW s, IsList(s), NEW t, IsList(t)
  PROVE  /\ IsList(s \o t)
         /\ Len(s \o t) = Len(s) + Len(t)
         /\ \A i \in 1..Len(s) : (s \o t)[i] = s[i]
         /\ \A i \in Len(s) + 1..Len(s) + Len(t) : (s \o t)[i] = t[i - Len(s)]
<1> DEFINE S == {s[i] : i \in 1..Len(s)} \cup {t[i] : i \in 1..Len(t)}
<1>1. s \in Seq(S) /\ t \in Seq(S) /\ Len(s) \in Nat /\ Len(t) \in Nat
  BY ListSeq DEF IsList
<1>2. /\ s \o t \in Seq(S)
      /\ Len(s \o t) = Len(s) + Len(t)
      /\ \A i \in 1..Len(s) + Len(t) : (s \o t)[i] = IF i <= Len(s) THEN s[i] ELSE t[i - Len(s)]
  BY <1>1, ConcatProperties
<1>3. IsList(s \o t)
  BY <1>2, SeqList
<1> QED
  BY <1>1, <1>2, <1>3

LEMMA TailList ==
  ASSUME NEW s, IsList(s), s # <<>>
  PROVE  /\ Len(s) \in Nat \ {0}
         /\ Head(s) = s[1]
         /\ IsList(Tail(s))
         /\ Len(Tail(s)) = Len(s) - 1
         /\ \A i \in 1..Len(Tail(s)) : Tail(s)[i] = s[i + 1]
<1> DEFINE S == {s[i] : i \in 1..Len(s)}
<1>1. s \in Seq(S)
  BY ListSeq
<1> HIDE DEF S
<1>2. Len(s) \in Nat \ {0}
  BY <1>1, EmptySeq
<1>3. Tail(s) \in Seq(S) /\ Len(Tail(s)) = Len(s) - 1
  BY <1>1, HeadTailProperties
<1>4. Tail(s) = SubSeq(s, 2, Len(s))
  BY <1>1, TailIsSubSeq
<1>5. \A i \in 2..Len(s) : s[i] \in S
  BY <1>1, <1>2, ElementOfSeq
<1>6. \A i \in 1..Len(s) - 2 + 1 : SubSeq(s, 2, Len(s))[i] = s[2 + i - 1]
  BY <1>2, <1>5, SubSeqProperties
<1>7. \A i \in 1..Len(Tail(s)) : Tail(s)[i] = s[i + 1]
  BY <1>2, <1>3, <1>4, <1>6
<1>8. Head(s) = s[1]
  BY <1>1, <1>2, HeadTailOfSubSeq, SubSeqFull
<1> QED
  BY <1>2, <1>3, <1>7, <1>8, SeqList

\* What is in a list stays where it is when more is put after it.
LEMMA SubSeqBefore ==
  ASSUME NEW s, IsList(s), NEW t, IsList(t), NEW a \in Nat, NEW b \in Int, b <= Len(s)
  PROVE  SubSeq(s \o t, a + 1, b) = SubSeq(s, a + 1, b)
<1> DEFINE S == {s[i] : i \in 1..Len(s)}
           u == SubSeq(s \o t, a + 1, b)
           v == SubSeq(s, a + 1, b)
<1>1. Len(s) \in Nat
  BY DEF IsList
<1>2. \A i \in a + 1..b : (s \o t)[i] = s[i] /\ s[i] \in S
  BY <1>1, ConcatList
<1>3. u \in Seq(S) /\ Len(u) = IF a + 1 <= b THEN b - (a + 1) + 1 ELSE 0
  BY <1>2, SubSeqProperties
<1>4. v \in Seq(S) /\ Len(v) = IF a + 1 <= b THEN b - (a + 1) + 1 ELSE 0
  BY <1>2, SubSeqProperties
<1>5. \A i \in 1..b - (a + 1) + 1 : u[i] = (s \o t)[a + 1 + i - 1] /\ v[i] = s[a + 1 + i - 1]
  BY <1>2, SubSeqProperties
<1>6. ASSUME NEW i \in 1..Len(u) PROVE u[i] = v[i]
  <2>1. i \in 1..b - (a + 1) + 1 /\ a + 1 + i - 1 \in a + 1..b
    BY <1>3
  <2> QED
    BY <1>2, <1>5, <2>1
<1>7. Len(u) = Len(v)
  BY <1>3, <1>4
<1> HIDE DEF u, v, S
<1>8. u = v
  BY <1>3, <1>4, <1>6, <1>7, SeqEqual
<1> QED
  BY <1>8 DEF u, v

LEMMA SubSeqAfter ==
  ASSUME NEW s, IsList(s), NEW t, IsList(t)
  PROVE  SubSeq(s \o t, Len(s) + 1, Len(s) + Len(t)) = t
<1> DEFINE S == {t[i] : i \in 1..Len(t)}
           m == Len(s) + 1
           n == Len(s) + Len(t)
           u == SubSeq(s \o t, m, n)
<1>1. Len(s) \in Nat /\ Len(t) \in Nat /\ m \in Int /\ n \in Int /\ t \in Seq(S)
  BY ListSeq DEF IsList
<1>2. \A i \in m..n : (s \o t)[i] = t[i - Len(s)] /\ t[i - Len(s)] \in S
  BY <1>1, ConcatList
<1>3. /\ u \in Seq(S)
      /\ Len(u) = IF m <= n THEN n - m + 1 ELSE 0
      /\ \A i \in 1..n - m + 1 : u[i] = (s \o t)[m + i - 1]
  <2>1. ASSUME NEW i \in m..n PROVE (s \o t)[i] \in S
    BY <1>2
  <2>2. SubSeq(s \o t, m, n) \in Seq(S)
    BY <1>1, <2>1, SubSeqProperties
  <2>3. Len(SubSeq(s \o t, m, n)) = IF m <= n THEN n - m + 1 ELSE 0
    BY <1>1, <2>1, SubSeqProperties
  <2>4. \A i \in 1..n - m + 1 : SubSeq(s \o t, m, n)[i] = (s \o t)[m + i - 1]
    BY <1>1, <2>1, SubSeqProperties
  <2> QED
    BY <2>2, <2>3, <2>4
<1>4. Len(u) = Len(t)
  BY <1>1, <1>3
<1>5. ASSUME NEW i \in 1..Len(u) PROVE u[i] = t[i]
  <2>1. i \in 1..n - m + 1 /\ m + i - 1 \in m..n /\ m + i - 1 - Len(s) = i
    BY <1>1, <1>4
  <2> QED
    BY <1>2, <1>3, <2>1
<1> HIDE DEF u, S
<1>6. u = t
  BY <1>1, <1>3, <1>4, <1>5, SeqEqual
<1> QED
  BY <1>6 DEF u

-----------------------------------------------------------------------------
LEMMA StartFacts ==
  /\ Start(0) = 0
  /\ \A i \in Nat : Start(i) \in Nat /\ Start(i + 1) = Start(i) + Interval
<1>1. Interval \in Nat
  BY WriterAssumption
<1> QED
  BY <1>1 DEF Start

LEMMA ReplayTicks == replay \in Replays => IsList(replay.ticks) /\ Total \in Nat
<1> SUFFICES ASSUME replay \in Replays PROVE IsList(replay.ticks) /\ Total \in Nat
  OBVIOUS
<1>1. replay.ticks \in Seq({replay.ticks[i] : i \in DOMAIN replay.ticks})
  BY WriterAssumption
<1>2. IsList(replay.ticks)
  BY <1>1, SeqList
<1> QED
  BY <1>2 DEF IsList, Total

LEMMA WorkerStates == Gone[1] # "busy" /\ Idle[1] # "busy" /\ Starting[1] # "busy"
BY DEF Gone, Idle, Starting

LEMMA InitIInv == Init => IInv
<1> SUFFICES ASSUME Init PROVE IInv
  OBVIOUS
<1>1. WorkInv
  BY NoList, WorkerStates DEF Init, WorkInv
<1>2. ReadInv /\ PartsInv /\ CopyInv
  BY DEF Init, ReadInv, PartsInv, CopyInv
<1>3. OutputReplays
  BY DEF Init, OutputReplays
<1> QED
  BY <1>1, <1>2, <1>3 DEF IInv

-----------------------------------------------------------------------------
(***************************************************************************)
(* What a step keeps.  The replay is what it is.                           *)
(***************************************************************************)
LEMMA SameChunk ==
  ASSUME UNCHANGED <<replay, parallel>>, NEW t
  PROVE  (TaskOK(t)' <=> TaskOK(t)) /\ (SentOK(t)' <=> SentOK(t)) /\ (PartOK(t)' <=> PartOK(t))
BY DEF TaskOK, SentOK, PartOK, Faithful, Cut, Count, Total

LEMMA SameContainer ==
  ASSUME UNCHANGED <<replay, parallel>>, NEW c
  PROVE  Covers(c)' <=> Covers(c)
BY DEF Covers, Faithful

LEMMA KeepOutput ==
  ASSUME OutputReplays, UNCHANGED <<replay, parallel>>, output' \in {output, None},
         at' = "done" => at = "done" /\ output' = output
  PROVE  OutputReplays'
BY SameContainer DEF OutputReplays

LEMMA KeepWork ==
  ASSUME WorkInv, UNCHANGED <<replay, parallel, tasks, worker, results, chunks>>
  PROVE  WorkInv'
BY SameChunk DEF WorkInv

LEMMA SameList ==
  ASSUME UNCHANGED <<replay, parallel>>, NEW list, Listed(list)
  PROVE  Listed(list)'
BY SameChunk DEF Listed, Whole, Total

LEMMA KeepParts ==
  ASSUME PartsInv, UNCHANGED <<replay, parallel, ticks, chunks, parts>>,
         at' = "describe" => at = "describe",
         at' \in {"finalize", "copy", "rename"} => at \in {"finalize", "copy", "rename"}
  PROVE  PartsInv'
BY SameList DEF PartsInv, Total

\* No container is being written.
LEMMA NotWriting ==
  ASSUME at' \notin {"describe", "finalize", "copy", "rename"}
  PROVE  PartsInv' /\ CopyInv'
BY DEF PartsInv, CopyInv

-----------------------------------------------------------------------------
\* An attempt ends without a container.
Ends == (\E final \in BOOLEAN : Stop(final)) /\ output' \in {output, None}

LEMMA FailEnds == Fail \/ Crash \/ IoError \/ Oversize => Ends
<1>1. Fail => Ends
  <2>1. (at \in Assembling) \in BOOLEAN
    BY DEF Assembling
  <2> QED
    BY <2>1, Zenon DEF Fail, Ends
<1>2. Crash => Ends
  BY DEF Crash, disk, Ends
<1> QED
  BY <1>1, <1>2 DEF IoError, Oversize

LEMMA EndsStep ==
  ASSUME IInv, Ends
  PROVE  IInv'
<1>1. /\ at' \in {"failed", "queued"}
      /\ worker' = [w \in Workers |-> Gone] /\ tasks' = <<>> /\ results' = <<>>
      /\ UNCHANGED <<replay, parallel, ticks, dispatched, chunks>>
      /\ output' \in {output, None}
  BY DEF Ends, Stop, extractor
<1>2. WorkInv'
  BY <1>1, NoList, SameChunk, WorkerStates DEF IInv, WorkInv
<1>3. ReadInv'
  BY <1>1 DEF IInv, ReadInv
<1>4. PartsInv' /\ CopyInv'
  BY <1>1, NotWriting
<1>5. OutputReplays'
  BY <1>1, KeepOutput DEF IInv
<1> QED
  BY <1>2, <1>3, <1>4, <1>5 DEF IInv

LEMMA BeginStep ==
  ASSUME IInv, Begin
  PROVE  IInv'
<1>1. WorkInv'
  BY NoList, WorkerStates DEF Begin, IInv, WorkInv
<1>2. ReadInv'
  <2>1. Total' \in Nat
    BY ReplayTicks DEF Begin, IInv, WorkInv, Total
  <2>2. pending' = <<>> /\ Len(pending') = 0 /\ pending' = [k \in 1..0 |-> pending'[k]]
    BY NoList DEF Begin, IsList
  <2>3. Pending'
    BY <2>2 DEF Begin, Pending
  <2> QED
    BY <2>1, <2>2, <2>3, StartFacts, WriterAssumption DEF Begin, ReadInv
<1>3. PartsInv' /\ CopyInv'
  BY NotWriting DEF Begin
<1>4. OutputReplays'
  BY KeepOutput DEF Begin, IInv
<1> QED
  BY <1>1, <1>2, <1>3, <1>4 DEF IInv

-----------------------------------------------------------------------------
(***************************************************************************)
(* The main thread cuts the ticks into chunks.                             *)
(***************************************************************************)
LEMMA FlushTask ==
  ASSUME ByteStrings, replay \in Replays, parallel \in BOOLEAN, dispatched \in Nat,
         NEW values, NEW last \in 0..Total,
         Len(values) = Count(dispatched), Len(values) \in 1..Interval,
         last - Len(values) = Start(dispatched),
         values = [k \in 1..Len(values) |->
                     Projected(parallel, replay.ticks[last - Len(values) + k])],
         \A k \in 1..Len(values) : values[k] # Refused
  PROVE  LET task == Chunk(values, last - Len(values))
         IN TaskOK(task) /\ task.index = dispatched /\ last = task.first + task.count
<1> DEFINE n == Len(values)
           first == last - n
           task == Chunk(values, first)
<1>1. n \in 1..Interval /\ first \in Nat /\ first = Start(dispatched) /\ Total \in Nat
  BY StartFacts, ReplayTicks
<1>2. values = [k \in 1..n |-> Projected(parallel, replay.ticks[first + k])]
  OBVIOUS
<1>3. first + n <= Len(replay.ticks)
  BY <1>1 DEF Total
<1>4. Encode(values, first).ok => IsList(Encode(values, first).bytes)
  <2> DEFINE cut == [k \in 1..n |-> Projected(parallel, replay.ticks[first + k])]
  <2>1. /\ first + n <= Len(replay.ticks)
        /\ \A k \in 1..n : cut[k] # Refused
        /\ Encode(cut, first).ok
        => IsList(Encode(cut, first).bytes)
    BY <1>1 DEF ByteStrings
  <2>2. values = cut
    BY <1>2
  <2> QED
    BY <1>3, <2>1, <2>2
<1>5. /\ task.index = dispatched /\ task.first = first /\ task.count = n
      /\ task.encoded = Encode(values, first)
      /\ task.expected = [k \in DOMAIN values |-> Digest(values[k])]
  BY DEF Chunk
<1>6. /\ DOMAIN values = 1..n
      /\ \A k \in 1..n : values[k] = Projected(parallel, replay.ticks[first + k])
  BY <1>2
<1>7. task.expected = [k \in 1..n |-> Digest(Projected(parallel, replay.ticks[first + k]))]
  BY <1>5, <1>6
<1>10. task.encoded = Cut(dispatched)
  BY <1>1, <1>2, <1>5 DEF Cut
<1> HIDE DEF task
<1>8. TaskOK(task)
  BY <1>1, <1>4, <1>5, <1>7, <1>10 DEF TaskOK
<1>9. last = first + n
  BY <1>1
<1> QED
  BY <1>5, <1>8, <1>9 DEF task

LEMMA AddTickStep ==
  ASSUME IInv, ByteStrings, AddTick, ~Ends
  PROVE  IInv'
<1> DEFINE tick == Projected(parallel, replay.ticks[ticks + 1])
           values == Append(pending, tick)
           n == Len(pending)
<1>1. /\ at = "read" /\ ticks < Len(replay.ticks) /\ tick # Refused
      /\ ticks' = ticks + 1
      /\ UNCHANGED <<replay, parallel, dispatched, chunks, tasks, worker, results, output>>
      /\ \/ Len(values) = Interval /\ Flush(values, ticks + 1)
         \/ Len(values) # Interval /\ pending' = values /\ at' = at
  BY FailEnds DEF AddTick, threads, disk
<1>2. /\ replay \in Replays /\ parallel \in BOOLEAN /\ dispatched \in Nat
      /\ Total \in Nat /\ ticks \in Nat /\ ticks < Total /\ Interval \in Nat \ {0}
      /\ Start(dispatched) \in Nat /\ Start(dispatched + 1) = Start(dispatched) + Interval
  BY <1>1, ReplayTicks, StartFacts, WriterAssumption DEF IInv, WorkInv, ReadInv, Total
<1>3. Pending /\ n < Interval /\ ticks = Start(dispatched) + n /\ n \in 0..ticks
  BY <1>1, <1>2 DEF IInv, ReadInv, Pending
<1>4. IsList(pending)
  <2>1. DOMAIN pending = 1..n /\ pending = [k \in DOMAIN pending |-> pending[k]]
    BY <1>3 DEF Pending
  <2> QED
    BY <1>3, <2>1 DEF IsList
<1>5. IsList(values) /\ Len(values) = n + 1
  BY <1>4, AppendList
<1>6. ASSUME NEW k \in 1..n + 1
      PROVE  /\ values[k] = Projected(parallel, replay.ticks[(ticks + 1) - (n + 1) + k])
             /\ values[k] # Refused
  <2>1. CASE k = n + 1
    <3>1. values[k] = tick
      BY <1>4, <2>1, AppendList
    <3>2. (ticks + 1) - (n + 1) + k = ticks + 1
      BY <1>2, <1>3, <2>1
    <3> QED
      BY <1>1, <3>1, <3>2
  <2>2. CASE k \in 1..n
    <3>1. values[k] = pending[k]
      BY <1>4, <2>2, AppendList
    <3>2. (ticks + 1) - (n + 1) + k = ticks - n + k
      BY <1>2, <1>3
    <3> QED
      BY <1>3, <2>2, <3>1, <3>2 DEF Pending
  <2> QED
    BY <1>3, <2>1, <2>2
<1>7. values = [k \in 1..n + 1 |-> Projected(parallel, replay.ticks[(ticks + 1) - (n + 1) + k])]
  BY <1>5, <1>6 DEF IsList
<1> HIDE DEF values, tick
<1>8. WorkInv'
  BY <1>1, KeepWork DEF IInv
<1>9. Total' = Total
  BY <1>1 DEF Total
<1>10. CASE Len(values) = Interval /\ Flush(values, ticks + 1)
  <2>1. Count(dispatched) = Interval
    BY <1>2, <1>3, <1>5, <1>10 DEF Count
  <2>2. ticks + 1 \in 0..Total /\ (ticks + 1) - Len(values) = Start(dispatched)
        /\ Len(values) \in 1..Interval
    BY <1>2, <1>3, <1>5, <1>10
  <2>9. values = [k \in 1..Len(values) |->
                    Projected(parallel, replay.ticks[(ticks + 1) - Len(values) + k])]
    BY <1>5, <1>7
  <2>3. /\ TaskOK(Chunk(values, (ticks + 1) - Len(values)))
        /\ Chunk(values, (ticks + 1) - Len(values)).index = dispatched
        /\ ticks + 1 = Chunk(values, (ticks + 1) - Len(values)).first
                         + Chunk(values, (ticks + 1) - Len(values)).count
    BY <1>2, <1>5, <1>6, <1>10, <2>1, <2>2, <2>9, FlushTask
  <2>4. /\ at' = "send" /\ pending' = <<>>
        /\ outgoing' = Chunk(values, (ticks + 1) - Len(values))
    BY <1>10 DEF Flush
  <2>5. TaskOK(outgoing)'
    BY <1>1, <2>3, <2>4, SameChunk
  <2>6. ReadInv'
    BY <1>1, <1>2, <1>9, <2>3, <2>4, <2>5 DEF ReadInv
  <2>7. PartsInv' /\ CopyInv'
    BY <2>4, NotWriting
  <2>8. OutputReplays'
    BY <1>1, <2>4, KeepOutput DEF IInv
  <2> QED
    BY <1>8, <2>6, <2>7, <2>8 DEF IInv
<1>11. CASE Len(values) # Interval /\ pending' = values /\ at' = at
  <2>1. Len(pending') = n + 1 /\ n + 1 < Interval /\ n + 1 \in 0..ticks'
    BY <1>1, <1>2, <1>3, <1>5, <1>11
  <2>7. pending' = [k \in 1..Len(pending') |->
                      Projected(parallel', replay'.ticks[ticks' - Len(pending') + k])]
    BY <1>1, <1>7, <1>11, <2>1
  <2>2. Pending'
    BY <1>5, <1>6, <1>11, <2>1, <2>7 DEF Pending
  <2>3. ticks' \in 0..Total' /\ ticks' = Start(dispatched') + Len(pending')
    BY <1>1, <1>2, <1>3, <1>9, <2>1
  <2>4. ReadInv'
    BY <1>1, <1>2, <1>11, <2>1, <2>2, <2>3 DEF ReadInv
  <2>5. PartsInv' /\ CopyInv'
    BY <1>1, <1>11, NotWriting
  <2>6. OutputReplays'
    BY <1>1, <1>11, KeepOutput DEF IInv
  <2> QED
    BY <1>8, <2>4, <2>5, <2>6 DEF IInv
<1> QED
  BY <1>1, <1>10, <1>11

LEMMA FinishTicksStep ==
  ASSUME IInv, ByteStrings, FinishTicks, ~Ends
  PROVE  IInv'
<1> DEFINE n == Len(pending)
<1>1. /\ at = "read" /\ ticks = Len(replay.ticks)
      /\ UNCHANGED <<replay, parallel, ticks, dispatched, chunks, tasks, worker, results, output>>
      /\ \/ pending # <<>> /\ Flush(pending, ticks)
         \/ pending = <<>> /\ at' = "finish"
  BY FailEnds DEF FinishTicks, threads, disk
<1>2. /\ replay \in Replays /\ parallel \in BOOLEAN /\ dispatched \in Nat
      /\ Total \in Nat /\ ticks = Total /\ Total' = Total /\ Interval \in Nat \ {0}
      /\ Start(dispatched) \in Nat /\ Start(dispatched + 1) = Start(dispatched) + Interval
  BY <1>1, ReplayTicks, StartFacts, WriterAssumption DEF IInv, WorkInv, ReadInv, Total
<1>3. Pending /\ n < Interval /\ n \in 0..ticks
  BY <1>1 DEF IInv, ReadInv, Pending
<1>4. IsList(pending)
  <2>1. DOMAIN pending = 1..n /\ pending = [k \in DOMAIN pending |-> pending[k]]
    BY <1>3 DEF Pending
  <2> QED
    BY <1>3, <2>1 DEF IsList
<1>5. WorkInv'
  BY <1>1, KeepWork DEF IInv
<1>6. at' \in {"send", "finish"}
  BY <1>1 DEF Flush
<1>7. PartsInv' /\ CopyInv' /\ OutputReplays'
  BY <1>1, <1>6, NotWriting, KeepOutput DEF IInv
<1>8. CASE pending # <<>> /\ Flush(pending, ticks)
  <2>1. n # 0
    BY <1>4, <1>8, TailList
  <2>2. ticks = Start(dispatched) + n
    BY <1>1, <1>8 DEF IInv, ReadInv
  <2>3. Count(dispatched) = n /\ n \in 1..Interval /\ ticks - n = Start(dispatched)
        /\ ticks \in 0..Total
    <3>1. n \in Nat /\ n < Interval /\ n # 0
      BY <1>2, <1>3, <2>1
    <3>2. ~(Start(dispatched + 1) <= Total) /\ Total - Start(dispatched) = n
      BY <1>2, <2>2, <3>1
    <3> QED
      BY <1>2, <3>1, <3>2 DEF Count
  <2>4. /\ TaskOK(Chunk(pending, ticks - n))
        /\ Chunk(pending, ticks - n).index = dispatched
        /\ ticks = Chunk(pending, ticks - n).first + Chunk(pending, ticks - n).count
    BY <1>2, <1>3, <2>3, FlushTask DEF Pending
  <2>5. at' = "send" /\ pending' = <<>> /\ outgoing' = Chunk(pending, ticks - n)
    BY <1>8 DEF Flush
  <2>6. TaskOK(outgoing)'
    BY <1>1, <2>4, <2>5, SameChunk
  <2>7. ReadInv'
    BY <1>1, <1>2, <2>4, <2>5, <2>6 DEF ReadInv
  <2> QED
    BY <1>5, <1>7, <2>7 DEF IInv
<1>9. CASE pending = <<>> /\ at' = "finish"
  <2>1. ticks = Start(dispatched) \/ Whole(dispatched)
    BY <1>1, <1>2, <1>9, NoList DEF IInv, ReadInv
  <2>2. Whole(dispatched)'
    BY <1>1, <1>2, <2>1 DEF Whole
  <2>3. ReadInv'
    BY <1>1, <1>2, <1>9, <2>2 DEF ReadInv
  <2> QED
    BY <1>5, <1>7, <2>3 DEF IInv
<1> QED
  BY <1>1, <1>8, <1>9

\* With a chunk sent, the ticks read are those of the chunks.
LEMMA SendStep ==
  ASSUME IInv, Send, ~Ends
  PROVE  IInv'
<1>1. /\ at = "send" /\ outgoing.encoded.ok
      /\ tasks' = Append(tasks, outgoing)
      /\ dispatched' = dispatched + 1
      /\ at' = "collect"
      /\ UNCHANGED <<replay, parallel, ticks, pending, chunks, worker, results, output>>
  BY FailEnds DEF Send, disk
<1>2. /\ replay \in Replays /\ dispatched \in Nat /\ ticks \in 0..Total
      /\ Total \in Nat /\ Total' = Total /\ Interval \in Nat \ {0}
      /\ Start(dispatched) \in Nat /\ Start(dispatched + 1) = Start(dispatched) + Interval
  BY <1>1, ReplayTicks, StartFacts, WriterAssumption DEF IInv, WorkInv, ReadInv, Total
<1>3. /\ TaskOK(outgoing) /\ outgoing.index = dispatched
      /\ ticks = outgoing.first + outgoing.count /\ pending = <<>>
  BY <1>1 DEF IInv, ReadInv
<1>4. ticks = Start(dispatched') \/ (ticks = Total /\ Whole(dispatched)')
  <2>1. /\ ticks = Start(dispatched) + Count(dispatched)
        /\ Count(dispatched) \in 1..Interval
    BY <1>3 DEF TaskOK
  <2> QED
    BY <1>1, <1>2, <2>1 DEF Count, Whole
<1>5. ReadInv'
  BY <1>1, <1>2, <1>3, <1>4 DEF ReadInv
<1>6. WorkInv'
  <2>1. SentOK(outgoing)
    BY <1>1, <1>3 DEF SentOK
  <2>2. IsList(tasks) /\ \A i \in 1..Len(tasks) : SentOK(tasks[i])
    BY DEF IInv, WorkInv
  <2>3. /\ IsList(tasks') /\ Len(tasks) \in Nat
        /\ \A i \in 1..Len(tasks') :
             (tasks[i])' = outgoing \/ \E j \in 1..Len(tasks) : (tasks[i])' = tasks[j]
    BY <1>1, <2>2, AppendList DEF IsList
  <2>4. \A i \in 1..Len(tasks') : SentOK(tasks[i])'
    BY <1>1, <2>1, <2>2, <2>3, SameChunk
  <2> QED
    BY <1>1, <2>3, <2>4, SameChunk DEF IInv, WorkInv
<1>7. PartsInv' /\ CopyInv' /\ OutputReplays'
  BY <1>1, NotWriting, KeepOutput DEF IInv
<1> QED
  BY <1>5, <1>6, <1>7 DEF IInv

LEMMA CollectStep ==
  ASSUME IInv, Collect, ~Ends
  PROVE  IInv'
<1>1. /\ at = "collect" /\ at' = "read"
      /\ \A i \in DOMAIN results : results[i] # Error
      /\ chunks' = chunks \o results
      /\ results' = <<>>
      /\ UNCHANGED <<replay, parallel, ticks, pending, dispatched, tasks, worker, output>>
  BY FailEnds DEF Collect, disk
<1>2. /\ IsList(chunks) /\ \A i \in 1..Len(chunks) : PartOK(chunks[i])
      /\ IsList(results) /\ \A i \in 1..Len(results) : results[i] = Error \/ PartOK(results[i])
  BY DEF IInv, WorkInv
<1>3. \A i \in 1..Len(results) : PartOK(results[i])
  BY <1>1, <1>2 DEF IsList
<1>4. /\ IsList(chunks')
      /\ \A i \in 1..Len(chunks') : \/ \E j \in 1..Len(chunks) : (chunks[i])' = chunks[j]
                                   \/ \E j \in 1..Len(results) : (chunks[i])' = results[j]
  <2> DEFINE m == Len(chunks)
             n == Len(results)
  <2>1. /\ IsList(chunks') /\ m \in Nat /\ n \in Nat
        /\ Len(chunks') = m + n
        /\ \A i \in 1..m : chunks'[i] = chunks[i]
        /\ \A i \in m + 1..m + n : chunks'[i] = results[i - m]
    BY <1>1, <1>2, ConcatList DEF IsList
  <2>2. ASSUME NEW i \in 1..m + n PROVE i \in 1..m \/ (i \in m + 1..m + n /\ i - m \in 1..n)
    BY <2>1
  <2> QED
    BY <2>1, <2>2
<1>5. \A i \in 1..Len(chunks') : PartOK(chunks[i])'
  BY <1>1, <1>2, <1>3, <1>4, SameChunk
<1>6. WorkInv'
  BY <1>1, <1>4, <1>5, NoList, SameChunk DEF IInv, WorkInv
<1>7. /\ ticks \in 0..Total /\ pending = <<>> /\ dispatched \in Nat /\ Total' = Total
      /\ ticks = Start(dispatched) \/ (ticks = Total /\ Whole(dispatched))
      /\ Interval \in Nat \ {0} /\ Start(dispatched) \in Nat /\ Total \in Nat
  BY <1>1, WriterAssumption, StartFacts, ReplayTicks DEF IInv, ReadInv, WorkInv, Total
<1>8. Whole(dispatched)' <=> Whole(dispatched)
  BY <1>1, <1>7 DEF Whole
<1>9. Pending' /\ Len(pending') = 0
  <2>1. pending' = [k \in 1..0 |-> Projected(parallel', replay'.ticks[ticks' - 0 + k])]
    BY <1>1, <1>7, NoList DEF IsList
  <2> QED
    BY <1>1, <1>7, <2>1, NoList DEF Pending
<1>10. ReadInv'
  BY <1>1, <1>7, <1>8, <1>9 DEF ReadInv
<1>11. PartsInv' /\ CopyInv' /\ OutputReplays'
  BY <1>1, NotWriting, KeepOutput DEF IInv
<1> QED
  BY <1>6, <1>10, <1>11 DEF IInv

LEMMA FinishStep ==
  ASSUME IInv, Finish, ~Ends
  PROVE  IInv'
<1>1. /\ at = "finish" /\ at' = "drain" /\ ticks # 0
      /\ UNCHANGED <<replay, parallel, ticks, dispatched, chunks, tasks, worker, results, output>>
  BY FailEnds DEF Finish, extractor, disk
<1>2. ticks = Total /\ Total \in Nat /\ Whole(dispatched)
  BY <1>1, ReplayTicks DEF IInv, ReadInv, WorkInv
<1>3. ReadInv'
  BY <1>1, <1>2 DEF IInv, ReadInv, Whole, Total
<1>4. WorkInv' /\ PartsInv' /\ CopyInv' /\ OutputReplays'
  BY <1>1, KeepWork, NotWriting, KeepOutput DEF IInv
<1> QED
  BY <1>3, <1>4 DEF IInv

LEMMA DrainStep ==
  ASSUME IInv, Drain, ~Ends
  PROVE  IInv'
<1>1. /\ at = "drain"
      /\ UNCHANGED <<replay, parallel, ticks, dispatched, tasks, worker, output>>
      /\ \/ /\ Len(chunks) = dispatched /\ at' = "join"
            /\ UNCHANGED <<chunks, results>>
         \/ /\ results # <<>> /\ Head(results) # Error
            /\ chunks' = Append(chunks, Head(results))
            /\ results' = Tail(results)
            /\ at' = at
  BY FailEnds DEF Drain, extractor, threads, disk
<1>2. ReadInv'
  BY <1>1 DEF IInv, ReadInv, Whole, Total
<1>3. PartsInv' /\ CopyInv' /\ OutputReplays'
  BY <1>1, NotWriting, KeepOutput DEF IInv
<1>4. CASE UNCHANGED <<chunks, results>>
  BY <1>1, <1>2, <1>3, <1>4, KeepWork DEF IInv
<1>5. CASE /\ results # <<>> /\ Head(results) # Error
           /\ chunks' = Append(chunks, Head(results))
           /\ results' = Tail(results)
  <2>1. /\ IsList(chunks) /\ \A i \in 1..Len(chunks) : PartOK(chunks[i])
        /\ IsList(results) /\ \A i \in 1..Len(results) : results[i] = Error \/ PartOK(results[i])
    BY DEF IInv, WorkInv
  <2>2. /\ Len(results) \in Nat \ {0} /\ Head(results) = results[1]
        /\ IsList(results') /\ Len(results') = Len(results) - 1
        /\ \A i \in 1..Len(results') : (results[i])' = results[i + 1]
    BY <1>5, <2>1, TailList
  <2>3. PartOK(Head(results))
    BY <1>5, <2>1, <2>2
  <2>4. /\ IsList(chunks')
        /\ \A i \in 1..Len(chunks') :
             (chunks[i])' = Head(results) \/ \E j \in 1..Len(chunks) : (chunks[i])' = chunks[j]
    BY <1>5, <2>1, AppendList DEF IsList
  <2>5. \A i \in 1..Len(chunks') : PartOK(chunks[i])'
    BY <1>1, <2>1, <2>3, <2>4, SameChunk
  <2>6. \A i \in 1..Len(results') : (results[i])' = Error \/ PartOK(results[i])'
    <3>1. \A i \in 1..Len(results') : i + 1 \in 1..Len(results)
      BY <2>2
    <3> QED
      BY <1>1, <2>1, <2>2, <3>1, SameChunk
  <2>7. WorkInv'
    BY <1>1, <2>2, <2>4, <2>5, <2>6, SameChunk DEF IInv, WorkInv, Error
  <2> QED
    BY <1>2, <1>3, <2>7 DEF IInv
<1> QED
  BY <1>1, <1>4, <1>5

\* Sorted by index and with nothing missing, the chunks are those of the replay.
LEMMA JoinStep ==
  ASSUME IInv, Join, ~Ends
  PROVE  IInv'
<1>1. PICK sorted \in InOrder(chunks) :
        /\ at = "join" /\ at' = "describe"
        /\ \A i \in DOMAIN sorted : sorted[i].index = i - 1
        /\ chunks' = sorted
        /\ UNCHANGED <<replay, parallel, ticks, dispatched, tasks, worker, results, output>>
  BY FailEnds DEF Join, threads, disk
<1>2. /\ IsList(chunks) /\ \A i \in 1..Len(chunks) : PartOK(chunks[i])
      /\ Len(chunks) \in Nat /\ DOMAIN chunks = 1..Len(chunks)
  BY DEF IInv, WorkInv, IsList
<1>3. PICK p \in [DOMAIN chunks -> DOMAIN chunks] :
        sorted = [i \in DOMAIN chunks |-> chunks[p[i]]]
  BY DEF InOrder
<1>4. /\ sorted = [i \in 1..Len(chunks) |-> sorted[i]]
      /\ \A i \in 1..Len(chunks) : PartOK(sorted[i])
  BY <1>2, <1>3
<1>5. IsList(sorted) /\ Len(sorted) = Len(chunks)
  <2>1. sorted \in Seq({sorted[i] : i \in 1..Len(chunks)})
    BY <1>2, <1>4, SeqDef
  <2>2. Len(sorted) = Len(chunks)
    BY <1>2, <1>4
  <2> QED
    BY <2>1, <2>2, SeqList
<1>6. ticks = Total /\ Total > 0 /\ Whole(Len(sorted))
  BY <1>1, <1>5 DEF IInv, ReadInv
<1>7. Listed(sorted)
  BY <1>1, <1>2, <1>3, <1>4, <1>5, <1>6 DEF Listed
<1>8. Listed(chunks)'
  <2>1. Listed(sorted)'
    BY <1>1, <1>7, SameList
  <2> QED
    BY <1>1, <2>1
<1>9. PartsInv'
  BY <1>1, <1>6, <1>8 DEF PartsInv, Total
<1>10. WorkInv'
  <2>1. \A i \in 1..Len(chunks') : PartOK(chunks[i])'
    BY <1>1, <1>4, <1>5, SameChunk
  <2> QED
    BY <1>1, <1>5, <2>1, SameChunk DEF IInv, WorkInv
<1>11. ReadInv' /\ CopyInv' /\ OutputReplays'
  BY <1>1, KeepOutput DEF IInv, ReadInv, CopyInv
<1> QED
  BY <1>9, <1>10, <1>11 DEF IInv

LEMMA DescribeStep ==
  ASSUME IInv, Describe
  PROVE  IInv'
<1>1. /\ at = "describe" /\ at' = "finalize"
      /\ parts' = [tick_count |-> ticks, chunks |-> chunks, replay |-> ProjectedMeta(replay.meta)]
      /\ UNCHANGED <<replay, parallel, ticks, dispatched, chunks, tasks, worker, results, output>>
  BY DEF Describe, extractor, threads
<1>2. ticks = Total /\ Listed(chunks)
  BY <1>1 DEF IInv, PartsInv
<1>3. Listed(chunks)'
  BY <1>1, <1>2, SameList
<1>4. /\ parts'.tick_count = Total' /\ parts'.replay = ProjectedMeta(replay'.meta)
      /\ Listed(parts.chunks)'
  BY <1>1, <1>2, <1>3 DEF Total
<1>5. PartsInv'
  BY <1>1, <1>4 DEF PartsInv
<1>6. WorkInv' /\ ReadInv' /\ CopyInv' /\ OutputReplays'
  BY <1>1, KeepWork, KeepOutput DEF IInv, ReadInv, CopyInv
<1> QED
  BY <1>5, <1>6 DEF IInv

-----------------------------------------------------------------------------
(***************************************************************************)
(* The workers.                                                            *)
(***************************************************************************)
\* While the main thread is at its place, only the chunks move.
LEMMA KeepRest ==
  ASSUME IInv, at \in Extracting,
         UNCHANGED <<replay, parallel, at, extractor, parts, partial, output>>
  PROVE  ReadInv' /\ PartsInv' /\ CopyInv' /\ OutputReplays'
<1>1. at' \notin {"finalize", "copy", "rename"} /\ at' # "done"
  BY DEF Extracting
<1>2. UNCHANGED <<ticks, pending, outgoing, dispatched, chunks>>
  BY DEF extractor
<1>3. ReadInv'
  <2>1. Pending' <=> Pending
    BY <1>2 DEF Pending
  <2>2. Whole(dispatched)' <=> Whole(dispatched)
    BY <1>2 DEF Whole, Total
  <2>3. TaskOK(outgoing)' <=> TaskOK(outgoing)
    BY <1>2, SameChunk
  <2> QED
    BY <1>2, <2>1, <2>2, <2>3 DEF IInv, ReadInv, Total
<1>4. PartsInv' /\ CopyInv' /\ OutputReplays'
  BY <1>1, <1>2, KeepParts, KeepOutput DEF IInv, CopyInv
<1> QED
  BY <1>3, <1>4

LEMMA KeepQueues ==
  ASSUME WorkInv, UNCHANGED <<replay, parallel, chunks>>,
         DOMAIN worker' = Workers,
         IsList(tasks'), \A i \in 1..Len(tasks') : SentOK(tasks[i])',
         \A w \in Workers : (worker[w][1] = "busy")' => SentOK(worker[w][2])',
         IsList(results'),
         \A i \in 1..Len(results') : (results[i] = Error)' \/ PartOK(results[i])'
  PROVE  WorkInv'
BY SameChunk DEF WorkInv

\* A worker has its task from the channel, and no other.
LEMMA OtherWorkers ==
  ASSUME WorkInv, UNCHANGED <<replay, parallel>>, NEW w \in Workers, NEW state,
         worker' = [worker EXCEPT ![w] = state],
         state[1] = "busy" => SentOK(state[2])
  PROVE  /\ DOMAIN worker' = Workers
         /\ \A v \in Workers : (worker[v][1] = "busy")' => SentOK(worker[v][2])'
<1>1. DOMAIN worker' = Workers /\ worker'[w] = state
      /\ \A v \in Workers : v # w => worker'[v] = worker[v]
  BY DEF WorkInv
<1>2. ASSUME NEW v \in Workers, (worker[v][1] = "busy")' PROVE SentOK(worker[v][2])'
  <2>1. CASE v = w
    BY <1>1, <1>2, <2>1, SameChunk
  <2>2. CASE v # w
    BY <1>1, <1>2, <2>2, SameChunk DEF WorkInv
  <2> QED
    BY <2>1, <2>2
<1> QED
  BY <1>1, <1>2

\* What is reported is an error or a chunk that was validated.
LEMMA ReportedOK ==
  ASSUME WorkInv, UNCHANGED <<replay, parallel>>, NEW message,
         results' = Append(results, message), message = Error \/ PartOK(message)
  PROVE  /\ IsList(results')
         /\ \A i \in 1..Len(results') : (results[i] = Error)' \/ PartOK(results[i])'
<1>1. /\ IsList(results)
      /\ \A i \in 1..Len(results) : results[i] = Error \/ PartOK(results[i])
  BY DEF WorkInv
<1>2. /\ IsList(results') /\ Len(results') = Len(results) + 1 /\ Len(results) \in Nat
      /\ \A i \in 1..Len(results) : results'[i] = results[i]
      /\ results'[Len(results) + 1] = message
  BY <1>1, AppendList DEF IsList
<1>3. ASSUME NEW i \in 1..Len(results') PROVE (results[i] = Error)' \/ PartOK(results[i])'
  <2>1. CASE i = Len(results) + 1
    BY <1>2, <2>1, SameChunk DEF Error
  <2>2. CASE i \in 1..Len(results)
    BY <1>1, <1>2, <2>2, SameChunk DEF Error
  <2> QED
    BY <1>2, <2>1, <2>2
<1> QED
  BY <1>2, <1>3

LEMMA QueuesOK ==
  ASSUME WorkInv, UNCHANGED <<replay, parallel>>
  PROVE  /\ tasks' = tasks => IsList(tasks') /\ \A i \in 1..Len(tasks') : SentOK(tasks[i])'
         /\ results' = results =>
              /\ IsList(results')
              /\ \A i \in 1..Len(results') : (results[i] = Error)' \/ PartOK(results[i])'
BY SameChunk DEF WorkInv, Error

LEMMA StartWorkerStep ==
  ASSUME IInv, NEW w \in Workers, StartWorker(w) \/ EndWorker(w)
  PROVE  IInv'
<1>1. /\ at \in Extracting
      /\ UNCHANGED <<replay, parallel, at, extractor, tasks, parts, partial, output>>
      /\ \E state \in {Idle, Gone} : worker' = [worker EXCEPT ![w] = state]
      /\ results' = results \/ results' = Append(results, Error)
  BY DEF StartWorker, EndWorker, Report, disk
<1>2. PICK state \in {Idle, Gone} : worker' = [worker EXCEPT ![w] = state]
  BY <1>1
<1>3. state[1] # "busy"
  BY WorkerStates
<1>4. WorkInv
  BY DEF IInv
<1>5. /\ DOMAIN worker' = Workers
      /\ \A v \in Workers : (worker[v][1] = "busy")' => SentOK(worker[v][2])'
  BY <1>1, <1>2, <1>3, <1>4, OtherWorkers
<1>6. /\ IsList(results')
      /\ \A i \in 1..Len(results') : (results[i] = Error)' \/ PartOK(results[i])'
  BY <1>1, <1>4, ReportedOK, QueuesOK
<1>7. IsList(tasks') /\ \A i \in 1..Len(tasks') : SentOK(tasks[i])'
  BY <1>1, <1>4, QueuesOK
<1>8. UNCHANGED chunks
  BY <1>1 DEF extractor
<1>9. WorkInv'
  BY <1>1, <1>4, <1>5, <1>6, <1>7, <1>8, KeepQueues
<1> QED
  BY <1>1, <1>9, KeepRest DEF IInv

LEMMA TakeTaskStep ==
  ASSUME IInv, NEW w \in Workers, TakeTask(w)
  PROVE  IInv'
<1>1. /\ at \in Extracting /\ tasks # <<>>
      /\ UNCHANGED <<replay, parallel, at, extractor, results, parts, partial, output>>
      /\ worker' = [worker EXCEPT ![w] = Busy(Head(tasks))]
      /\ tasks' = Tail(tasks)
  BY DEF TakeTask, disk
<1>2. WorkInv /\ IsList(tasks) /\ \A i \in 1..Len(tasks) : SentOK(tasks[i])
  BY DEF IInv, WorkInv
<1>3. /\ Len(tasks) \in Nat \ {0} /\ Head(tasks) = tasks[1]
      /\ IsList(tasks') /\ Len(tasks') = Len(tasks) - 1
      /\ \A i \in 1..Len(tasks') : tasks'[i] = tasks[i + 1]
  BY <1>1, <1>2, TailList
<1>4. SentOK(Head(tasks)) /\ Busy(Head(tasks))[2] = Head(tasks)
  BY <1>2, <1>3 DEF Busy
<1>5. /\ DOMAIN worker' = Workers
      /\ \A v \in Workers : (worker[v][1] = "busy")' => SentOK(worker[v][2])'
  BY <1>1, <1>2, <1>4, OtherWorkers
<1>6. ASSUME NEW i \in 1..Len(tasks') PROVE SentOK(tasks[i])'
  <2>1. i + 1 \in 1..Len(tasks)
    BY <1>3
  <2> QED
    BY <1>1, <1>2, <1>3, <2>1, SameChunk
<1>7. /\ IsList(results')
      /\ \A i \in 1..Len(results') : (results[i] = Error)' \/ PartOK(results[i])'
  BY <1>1, <1>2, QueuesOK
<1>8. UNCHANGED chunks
  BY <1>1 DEF extractor
<1>9. WorkInv'
  BY <1>1, <1>2, <1>3, <1>5, <1>6, <1>7, <1>8, KeepQueues
<1> QED
  BY <1>1, <1>9, KeepRest DEF IInv

\* What a worker validates decodes to the ticks the chunk was cut from.
LEMMA ValidatedPart ==
  ASSUME NEW task, SentOK(task), Validated(task)
  PROVE  PartOK([index |-> task.index, first |-> task.first, count |-> task.count,
                 digest |-> task.encoded.bytes])
<1> DEFINE part == [index |-> task.index, first |-> task.first, count |-> task.count,
                    digest |-> task.encoded.bytes]
           decoded == Decode(task.encoded.bytes).ticks
<1>1. /\ Len(decoded) = task.count
      /\ [k \in DOMAIN decoded |-> Digest(decoded[k])]
           = [k \in 1..task.count |-> Digest(Projected(parallel, replay.ticks[task.first + k]))]
  BY DEF SentOK, TaskOK, Validated, Lossless
<1>2. DOMAIN decoded = 1..task.count
  <2>1. DOMAIN [k \in DOMAIN decoded |-> Digest(decoded[k])]
          = DOMAIN [k \in 1..task.count |->
                      Digest(Projected(parallel, replay.ticks[task.first + k]))]
    BY <1>1
  <2> QED
    BY <2>1
<1>3. ASSUME NEW k \in 1..task.count
      PROVE  Digest(decoded[k]) = Digest(Projected(parallel, replay.ticks[task.first + k]))
  <2>1. [j \in DOMAIN decoded |-> Digest(decoded[j])][k]
          = [j \in 1..task.count |-> Digest(Projected(parallel, replay.ticks[task.first + j]))][k]
    BY <1>1
  <2> QED
    BY <1>2, <2>1
<1>4. Faithful(task.encoded.bytes, task.first, task.count)
  BY <1>1, <1>3 DEF Faithful
<1>5. part # Error
  <2>1. DOMAIN part = {"index", "first", "count", "digest"} /\ DOMAIN Error = {"failed"}
    BY DEF Error
  <2> QED
    BY <2>1
<1>6. part.index = task.index /\ part.first = task.first /\ part.count = task.count
      /\ part.digest = task.encoded.bytes
  OBVIOUS
<1> HIDE DEF part
<1>7. PartOK(part)
  BY <1>4, <1>5, <1>6 DEF PartOK, SentOK, TaskOK
<1> QED
  BY <1>7 DEF part

LEMMA ProcessStep ==
  ASSUME IInv, NEW w \in Workers, Process(w)
  PROVE  IInv'
<1> DEFINE task == worker[w][2]
           part == [index |-> task.index, first |-> task.first, count |-> task.count,
                    digest |-> task.encoded.bytes]
<1>1. /\ at \in Extracting /\ worker[w][1] = "busy"
      /\ UNCHANGED <<replay, parallel, at, extractor, tasks, parts, partial, output>>
      /\ worker' = [worker EXCEPT ![w] = Idle]
      /\ \/ Validated(task) /\ results' = Append(results, part)
         \/ results' = Append(results, Error)
  BY DEF Process, Report
<1>2. WorkInv /\ SentOK(task)
  BY <1>1 DEF IInv, WorkInv
<1>3. Validated(task) => PartOK(part)
  BY <1>2, ValidatedPart
<1> HIDE DEF part, task
<1>4. /\ IsList(results')
      /\ \A i \in 1..Len(results') : (results[i] = Error)' \/ PartOK(results[i])'
  BY <1>1, <1>2, <1>3, ReportedOK
<1>5. /\ DOMAIN worker' = Workers
      /\ \A v \in Workers : (worker[v][1] = "busy")' => SentOK(worker[v][2])'
  BY <1>1, <1>2, WorkerStates, OtherWorkers
<1>6. IsList(tasks') /\ \A i \in 1..Len(tasks') : SentOK(tasks[i])'
  BY <1>1, <1>2, QueuesOK
<1>7. UNCHANGED chunks
  BY <1>1 DEF extractor
<1>8. WorkInv'
  BY <1>1, <1>2, <1>4, <1>5, <1>6, <1>7, KeepQueues
<1> QED
  BY <1>1, <1>8, KeepRest DEF IInv

-----------------------------------------------------------------------------
(***************************************************************************)
(* The container.                                                          *)
(***************************************************************************)
LEMMA SameDescribed ==
  ASSUME UNCHANGED replay, NEW manifest, NEW list
  PROVE  Described(manifest, list)' <=> Described(manifest, list)
BY DEF Described, Total

LEMMA StartContainerStep ==
  ASSUME IInv, StartContainer, ~Ends
  PROVE  IInv'
<1> DEFINE list == parts.chunks
<1>1. /\ at = "finalize" /\ at' = "copy"
      /\ ValidParts /\ ValidManifest(Manifest)
      /\ partial' = [manifest |-> Manifest, bytes |-> <<>>, copied |-> 0]
      /\ UNCHANGED <<replay, parallel, ticks, dispatched, chunks, tasks, worker, results, files,
                     parts, output>>
  BY FailEnds DEF StartContainer, extractor, threads
<1>2. /\ parts.tick_count = Total /\ parts.replay = ProjectedMeta(replay.meta) /\ Listed(list)
      /\ Len(list) \in Nat /\ DOMAIN list = 1..Len(list)
  BY <1>1 DEF IInv, PartsInv, Listed, IsList
<1>3. Described(Manifest, list)
  BY <1>1, <1>2 DEF ValidManifest, Described
<1>4. \A i \in 1..Len(list) : files[list[i].index] = list[i].digest
  BY <1>1, <1>2 DEF ValidParts
<1>5. /\ partial'.manifest = Manifest /\ partial'.bytes = <<>> /\ partial'.copied = 0
      /\ DOMAIN partial' = {"manifest", "bytes", "copied"}
  BY <1>1
<1>6. Copied(partial', list)
  BY <1>2, <1>5, NoList DEF Copied, End
<1>7. Described(partial.manifest, parts.chunks)'
  BY <1>1, <1>3, <1>5, SameDescribed
<1>8. CopyInv'
  BY <1>1, <1>4, <1>5, <1>6, <1>7 DEF CopyInv
<1>9. WorkInv' /\ ReadInv' /\ PartsInv' /\ OutputReplays'
  BY <1>1, KeepWork, KeepParts, KeepOutput DEF IInv, ReadInv
<1> QED
  BY <1>8, <1>9 DEF IInv

LEMMA CopyChunkStep ==
  ASSUME IInv, CopyChunk
  PROVE  IInv'
<1> DEFINE list == parts.chunks
           manifest == partial.manifest
           c == partial.copied + 1
           bytes == partial.bytes
           new == list[c].digest
<1>1. /\ at = "copy" /\ at' = at /\ partial.copied < Len(list)
      /\ partial' = [partial EXCEPT !.bytes = @ \o files[list[c].index], !.copied = @ + 1]
      /\ UNCHANGED <<replay, parallel, ticks, dispatched, chunks, tasks, worker, results, files,
                     parts, output>>
  BY DEF CopyChunk, extractor, threads
<1>2. /\ Listed(list) /\ Described(manifest, list) /\ Copied(partial, list)
      /\ DOMAIN partial = {"manifest", "bytes", "copied"}
      /\ \A i \in 1..Len(list) : files[list[i].index] = list[i].digest
      /\ Len(list) \in Nat
  BY <1>1 DEF IInv, PartsInv, CopyInv, Listed, IsList
<1>3. /\ c \in 1..Len(list) /\ partial.copied \in Nat /\ c - 1 = partial.copied
      /\ IsList(bytes) /\ Len(bytes) \in Nat /\ Len(bytes) = End(manifest, c - 1)
  BY <1>1, <1>2 DEF Copied, IsList
<1>4. IsList(new) /\ Len(new) \in Nat /\ files[list[c].index] = new
  BY <1>2, <1>3 DEF Listed, PartOK, IsList
<1>5. /\ partial'.manifest = manifest /\ partial'.bytes = bytes \o new /\ partial'.copied = c
      /\ DOMAIN partial' = {"manifest", "bytes", "copied"}
  BY <1>1, <1>2, <1>4
<1>6. End(manifest, c) = Len(bytes) + Len(new)
  <2>1. /\ manifest.chunks[c].size = Len(new)
        /\ manifest.chunks[c].offset = IF c = 1 THEN 0 ELSE manifest.chunks[c - 1].offset
                                                            + manifest.chunks[c - 1].size
    BY <1>2, <1>3 DEF Described
  <2>2. manifest.chunks[c].offset = End(manifest, c - 1) /\ c # 0
    BY <1>3, <2>1 DEF End
  <2> QED
    BY <1>3, <2>1, <2>2 DEF End
<1>7. IsList(bytes \o new) /\ Len(bytes \o new) = Len(bytes) + Len(new)
  BY <1>3, <1>4, ConcatList
<1>8. \A i \in 1..partial.copied :
         /\ End(manifest, i - 1) \in Nat
         /\ End(manifest, i) <= Len(bytes)
         /\ SubSeq(bytes, End(manifest, i - 1) + 1, End(manifest, i)) = list[i].digest
  BY <1>2 DEF Copied
<1>9. new = list[c].digest /\ partial.copied = c - 1 /\ c \in Nat \ {0}
  BY <1>3
<1> HIDE DEF list, manifest, c, bytes, new
<1>10. ASSUME NEW i \in 1..c
      PROVE  /\ End(manifest, i - 1) \in Nat
             /\ End(manifest, i) <= Len(bytes \o new)
             /\ SubSeq(bytes \o new, End(manifest, i - 1) + 1, End(manifest, i)) = list[i].digest
  <2>1. CASE i = c
    <3>1. SubSeq(bytes \o new, Len(bytes) + 1, Len(bytes) + Len(new)) = new
      BY <1>3, <1>4, SubSeqAfter
    <3>2. End(manifest, i - 1) = Len(bytes) /\ End(manifest, i) = Len(bytes) + Len(new)
      BY <1>3, <1>6, <2>1
    <3>3. list[i].digest = new
      BY <1>9, <2>1
    <3> QED
      BY <1>3, <1>4, <1>7, <3>1, <3>2, <3>3
  <2>2. CASE i \in 1..c - 1
    <3>1. /\ End(manifest, i - 1) \in Nat
          /\ End(manifest, i) <= Len(bytes)
          /\ SubSeq(bytes, End(manifest, i - 1) + 1, End(manifest, i)) = list[i].digest
      BY <1>8, <1>9, <2>2
    <3>2. End(manifest, i) \in Int
      <4>1. CASE i = c - 1
        BY <1>3, <4>1
      <4>2. CASE i # c - 1
        <5>1. i + 1 \in 1..c - 1 /\ (i + 1) - 1 = i
          BY <1>9, <2>2, <4>2
        <5>2. End(manifest, (i + 1) - 1) \in Nat
          BY <1>8, <1>9, <5>1
        <5> QED
          BY <5>1, <5>2
      <4> QED
        BY <4>1, <4>2
    <3>3. SubSeq(bytes \o new, End(manifest, i - 1) + 1, End(manifest, i))
            = SubSeq(bytes, End(manifest, i - 1) + 1, End(manifest, i))
      <4>1. /\ IsList(bytes) /\ IsList(new)
            /\ End(manifest, i - 1) \in Nat /\ End(manifest, i) \in Int
            /\ End(manifest, i) <= Len(bytes)
        BY <1>3, <1>4, <3>1, <3>2
      <4> QED
        BY <4>1, SubSeqBefore
    <3>4. End(manifest, i) <= Len(bytes \o new)
      BY <1>3, <1>4, <1>7, <3>1, <3>2
    <3> QED
      BY <3>1, <3>3, <3>4
  <2>3. i = c \/ i \in 1..c - 1
    BY <1>9
  <2> QED
    BY <2>1, <2>2, <2>3
<1>11. Copied(partial', list)
  <2>1. /\ partial'.copied \in 0..Len(list)
        /\ IsList(partial'.bytes)
        /\ Len(partial'.bytes) = End(partial'.manifest, partial'.copied)
    BY <1>2, <1>3, <1>5, <1>6, <1>7
  <2>2. \A i \in 1..partial'.copied :
          /\ End(partial'.manifest, i - 1) \in Nat
          /\ End(partial'.manifest, i) <= Len(partial'.bytes)
          /\ SubSeq(partial'.bytes, End(partial'.manifest, i - 1) + 1, End(partial'.manifest, i))
               = list[i].digest
    BY <1>5, <1>10
  <2> QED
    BY <2>1, <2>2 DEF Copied
<1>12. Described(partial.manifest, parts.chunks)'
  BY <1>1, <1>2, <1>5, SameDescribed DEF list, manifest
<1>13. CopyInv'
  BY <1>1, <1>2, <1>5, <1>11, <1>12 DEF CopyInv, list
<1>14. WorkInv' /\ ReadInv' /\ PartsInv' /\ OutputReplays'
  BY <1>1, KeepWork, KeepParts, KeepOutput DEF IInv, ReadInv
<1> QED
  BY <1>13, <1>14 DEF IInv

LEMMA RemoveOutputStep ==
  ASSUME IInv, RemoveOutput
  PROVE  IInv'
<1>1. /\ at = "copy" /\ at' = "rename" /\ partial.copied = Len(parts.chunks) /\ output' = None
      /\ UNCHANGED <<replay, parallel, ticks, dispatched, chunks, tasks, worker, results, parts,
                     partial>>
  BY DEF RemoveOutput, extractor, threads
<1>2. Described(partial.manifest, parts.chunks)'
  BY <1>1, SameDescribed DEF IInv, CopyInv
<1>3. CopyInv'
  BY <1>1, <1>2 DEF IInv, CopyInv
<1>4. WorkInv' /\ ReadInv' /\ PartsInv' /\ OutputReplays'
  BY <1>1, KeepWork, KeepParts, KeepOutput DEF IInv, ReadInv
<1> QED
  BY <1>3, <1>4 DEF IInv

\* Chunk after chunk, the ticks have no gap.
After(list, i) == IF i = 0 THEN 0 ELSE list[i].first + list[i].count

LEMMA InSequence ==
  ASSUME replay \in Replays, NEW list, Listed(list)
  PROVE  /\ Len(list) \in Nat \ {0} /\ DOMAIN list = 1..Len(list)
         /\ \A i \in 1..Len(list) : list[i].first = After(list, i - 1)
         /\ After(list, Len(list)) = Total
<1> DEFINE n == Len(list)
<1>1. /\ n \in Nat /\ DOMAIN list = 1..n /\ Total \in Nat /\ Total > 0 /\ Whole(n)
      /\ Interval \in Nat \ {0}
  BY ReplayTicks, WriterAssumption DEF Listed, IsList
<1>2. n # 0
  BY <1>1, StartFacts DEF Whole
<1>3. ASSUME NEW i \in 1..n
      PROVE  /\ list[i].first = Start(i - 1) /\ list[i].count = Count(i - 1)
             /\ Count(i - 1) \in 1..Interval
             /\ i - 1 \in Nat /\ (i - 1) + 1 = i
             /\ Start(i - 1) \in Nat /\ Start(i) = Start(i - 1) + Interval
  <2>1. i - 1 \in Nat /\ (i - 1) + 1 = i
    BY <1>1
  <2>2. Start(i - 1) \in Nat /\ Start((i - 1) + 1) = Start(i - 1) + Interval
    BY <2>1, StartFacts
  <2>3. PartOK(list[i]) /\ list[i].index = i - 1
    BY DEF Listed
  <2> QED
    BY <2>1, <2>2, <2>3 DEF PartOK
<1>4. ASSUME NEW i \in 1..n
      PROVE  list[i].first = After(list, i - 1)
  <2>1. CASE i = 1
    <3>1. i - 1 = 0 /\ list[i].first = Start(i - 1)
      BY <1>3, <2>1
    <3> QED
      BY <3>1, StartFacts DEF After
  <2>2. CASE i # 1
    <3>1. i - 1 \in 1..n /\ i - 1 # 0
      BY <1>1, <2>2
    <3>2. Start(i - 1) <= Total
      BY <1>1, <1>3 DEF Count
    <3>3. /\ list[i - 1].first = Start((i - 1) - 1)
          /\ list[i - 1].count = Count((i - 1) - 1)
          /\ Start(i - 1) = Start((i - 1) - 1) + Interval
          /\ Start((i - 1) - 1) \in Nat /\ ((i - 1) - 1) + 1 = i - 1
      BY <1>3, <3>1
    <3>4. Count((i - 1) - 1) = Interval
      BY <3>2, <3>3 DEF Count
    <3>5. list[i].first = Start(i - 1)
      BY <1>3
    <3> QED
      BY <1>1, <3>1, <3>3, <3>4, <3>5 DEF After
  <2> QED
    BY <2>1, <2>2
<1>5. After(list, n) = Total
  <2>1. n \in 1..n /\ After(list, n) = list[n].first + list[n].count
    BY <1>1, <1>2 DEF After
  <2>2. /\ list[n].first = Start(n - 1) /\ list[n].count = Count(n - 1)
        /\ Start(n - 1) \in Nat /\ Start(n) = Start(n - 1) + Interval /\ (n - 1) + 1 = n
        /\ Count(n - 1) \in 1..Interval
    BY <1>3, <2>1
  <2> HIDE DEF n
  <2> QED
    BY <1>1, <2>1, <2>2 DEF Count, Whole
<1> QED
  BY <1>1, <1>2, <1>4, <1>5

LEMMA CopiedAll ==
  ASSUME replay \in Replays, NEW container, NEW list, Listed(list),
         Described(container.manifest, list), Copied(container, list), container.copied = Len(list)
  PROVE  Covers(container)
<1> DEFINE m == container.manifest
           n == Len(list)
           next(i) == IF i = 0 THEN 0 ELSE m.chunks[i].first + m.chunks[i].count
<1>1. n \in Nat \ {0} /\ Len(m.chunks) = n /\ m.tick_count = Total
  BY InSequence DEF Described
<1>2. ASSUME NEW i \in 1..n
      PROVE  /\ m.chunks[i].first = list[i].first /\ m.chunks[i].count = list[i].count
             /\ m.chunks[i].offset = End(m, i - 1)
             /\ Faithful(list[i].digest, m.chunks[i].first, m.chunks[i].count)
  <2>1. PartOK(list[i])
    BY DEF Listed
  <2>2. /\ m.chunks[i].first = list[i].first /\ m.chunks[i].count = list[i].count
        /\ m.chunks[i].offset = IF i = 1 THEN 0 ELSE m.chunks[i - 1].offset + m.chunks[i - 1].size
    BY DEF Described
  <2>3. m.chunks[i].offset = End(m, i - 1)
    BY <1>1, <2>2 DEF End
  <2> QED
    BY <2>1, <2>2, <2>3 DEF PartOK
<1>3. \A i \in 0..n : next(i) = After(list, i)
  BY <1>1, <1>2 DEF After
<1>4. \A i \in 1..n : m.chunks[i].first = next(i - 1)
  <2>1. \A i \in 1..n : i - 1 \in 0..n
    BY <1>1
  <2> QED
    BY <1>2, <1>3, <2>1, InSequence
<1>5. next(n) = Total
  BY <1>1, <1>3, InSequence
<1>6. /\ End(m, n) = Len(container.bytes)
      /\ \A i \in 1..n : SubSeq(container.bytes, End(m, i - 1) + 1, End(m, i)) = list[i].digest
  BY DEF Copied
<1> QED
  BY <1>1, <1>2, <1>4, <1>5, <1>6 DEF Covers, End

LEMMA RenameStep ==
  ASSUME IInv, Rename
  PROVE  IInv'
<1>1. /\ at = "rename" /\ at' = "done"
      /\ output' = [manifest |-> partial.manifest, bytes |-> partial.bytes]
      /\ UNCHANGED <<replay, parallel, ticks, dispatched, chunks, tasks, worker, results, parts>>
  BY DEF Rename, extractor, threads
<1>2. /\ replay \in Replays /\ Listed(parts.chunks) /\ Described(partial.manifest, parts.chunks)
      /\ Copied(partial, parts.chunks) /\ partial.copied = Len(parts.chunks)
  BY <1>1 DEF IInv, WorkInv, PartsInv, CopyInv
<1>3. Covers(partial)
  BY <1>2, CopiedAll
<1>4. output'.manifest = partial.manifest /\ output'.bytes = partial.bytes /\ output' # None
  <2>1. DOMAIN output' = {"manifest", "bytes"} /\ DOMAIN None = {"none"}
    BY <1>1 DEF None
  <2> QED
    BY <1>1, <2>1
<1>5. Covers(output')
  BY <1>3, <1>4 DEF Covers
<1>6. Covers(output)'
  BY <1>1, <1>5, SameContainer
<1>7. OutputReplays'
  BY <1>1, <1>2, <1>4, <1>6 DEF OutputReplays, Described, Total
<1>8. WorkInv' /\ ReadInv' /\ PartsInv' /\ CopyInv'
  BY <1>1, KeepWork, NotWriting DEF IInv, ReadInv
<1> QED
  BY <1>7, <1>8 DEF IInv

-----------------------------------------------------------------------------
LEMMA StepIInv ==
  ASSUME ByteStrings
  PROVE  IInv /\ [Next]_vars => IInv'
<1> SUFFICES ASSUME IInv, [Next]_vars PROVE IInv'
  OBVIOUS
<1>1. CASE Ends
  BY <1>1, EndsStep
<1>2. CASE Main /\ ~Ends
  BY <1>2, BeginStep, AddTickStep, FinishTicksStep, SendStep, CollectStep, FinishStep, DrainStep,
     JoinStep, DescribeStep, StartContainerStep, CopyChunkStep, RemoveOutputStep, RenameStep
  DEF Main
<1>3. ASSUME NEW w \in Workers, Work(w) PROVE IInv'
  BY <1>3, StartWorkerStep, TakeTaskStep, ProcessStep DEF Work
<1>4. CASE UNCHANGED vars
  <2>1. UNCHANGED <<replay, parallel, at, ticks, pending, outgoing, dispatched, chunks, tasks,
                    closed, worker, results, files, parts, partial, output>>
    BY <1>4 DEF vars, extractor, threads, disk
  <2>2. WorkInv'
    BY <2>1, KeepWork DEF IInv
  <2>3. PartsInv' /\ OutputReplays'
    BY <2>1, KeepParts, KeepOutput DEF IInv
  <2>4. ReadInv'
    <3>1. Pending' <=> Pending
      BY <2>1 DEF Pending
    <3>2. Whole(dispatched)' <=> Whole(dispatched)
      BY <2>1 DEF Whole, Total
    <3>3. TaskOK(outgoing)' <=> TaskOK(outgoing)
      BY <2>1, SameChunk
    <3> QED
      BY <2>1, <3>1, <3>2, <3>3 DEF IInv, ReadInv, Total
  <2>5. CopyInv'
    <3>1. Described(partial.manifest, parts.chunks)' <=> Described(partial.manifest, parts.chunks)
      BY <2>1, SameDescribed
    <3> QED
      BY <2>1, <3>1 DEF IInv, CopyInv
  <2> QED
    BY <2>2, <2>3, <2>4, <2>5 DEF IInv
<1> QED
  BY <1>1, <1>2, <1>3, <1>4, FailEnds DEF Next

LEMMA Invariance ==
  ASSUME ByteStrings
  PROVE  Spec => []IInv
<1>1. IInv /\ [Next]_vars => IInv'
  BY StepIInv
<1> QED
  BY InitIInv, <1>1, PTL DEF Spec

\* Whatever the codec and the projectors do, however the workers take turns and
\* wherever attempts fail or the process dies: a container there is replays the ticks
\* of the source in their order and each once, as far as a digest tells, with no gap
\* in its ticks or its bytes; and one is there when the handler says so.
THEOREM ContainersReplay ==
  ASSUME ByteStrings
  PROVE  Spec => []OutputReplays
<1>1. IInv => OutputReplays
  BY DEF IInv
<1> QED
  BY Invariance, <1>1, PTL

-----------------------------------------------------------------------------
(***************************************************************************)
(* What makes an attempt fail.                                             *)
(***************************************************************************)
\* The replay is within the limits of ticks and bytes, its ticks and metadata can be
\* projected, and the codec reads every chunk back as it was.
Flawless ==
  /\ ~Bulky(replay)
  /\ Total \in 1..MaxTicks
  /\ \A k \in 1..Total : Projected(parallel, replay.ticks[k]) # Refused
  /\ SafeMeta(replay.meta) /\ ProjectedMeta(replay.meta) # Refused
  /\ \A i \in 0..Total - 1 : Start(i) < Total =>
       /\ Cut(i).ok
       /\ Validated([first |-> Start(i), count |-> Count(i), encoded |-> Cut(i),
                     expected |-> [k \in 1..Count(i) |->
                                     Digest(Projected(parallel, replay.ticks[Start(i) + k]))]])

\* An attempt at such a replay fails by a fault of its own (a crash, zstd, a file),
\* one for each attempt that failed.  However the workers take turns, it is neither
\* the channel, nor the count or the sequence of the results (finish_workers), nor
\* the checks of the parts and the manifest (validate_parts, validate_manifest).
OnlyFaultsFail == at \in {"queued", "failed"} /\ Flawless => attempt <= faults

Elements(s) == {s[i] : i \in 1..Len(s)}

\* A file of a chunk is always the same bytes, and what is reported has one.
FilesInv ==
  /\ \A i \in DOMAIN files : files[i] = Cut(i).bytes
  /\ at \in Extracting =>
       \A p \in Elements(results) \cup Elements(chunks) : p = Error \/ p.index \in DOMAIN files
  /\ at = "finalize" => \A p \in Elements(parts.chunks) : p.index \in DOMAIN files

BusyWorkers == {w \in Workers : worker[w][1] = "busy"}

\* The chunks sent, wherever they are.
Around ==
  Elements(tasks) \cup {worker[w][2] : w \in BusyWorkers} \cup Elements(results) \cup Elements(chunks)

\* None is lost and none is there twice.
CountInv ==
  /\ Error \notin Elements(results)
  /\ \A w \in Workers : worker[w] = Gone => closed /\ tasks = <<>>
  /\ Len(chunks) + Len(results) + Len(tasks) + Cardinality(BusyWorkers) = dispatched
  /\ \A n \in 0..dispatched - 1 : \E c \in Around : c.index = n

Running == Extracting \ {"describe"}

\* A flawless replay and no fault in this attempt yet.
Spared == Flawless /\ faults < attempt

BudgetInv ==
  /\ attempt \in Nat /\ faults \in Nat
  /\ at \in Running => (closed <=> at \in {"drain", "join"})
  /\ Flawless => attempt <= faults + 1
  /\ OnlyFaultsFail
  /\ at \in Running /\ Spared => CountInv

RunInv == IInv /\ FilesInv /\ BudgetInv

-----------------------------------------------------------------------------
LEMMA ElementsOf ==
  /\ Elements(<<>>) = {}
  /\ \A s : IsList(s) /\ Len(s) = 0 => Elements(s) = {}
  /\ \A s, e : IsList(s) => Elements(Append(s, e)) = Elements(s) \cup {e}
  /\ \A s, t : IsList(s) /\ IsList(t) => Elements(s \o t) = Elements(s) \cup Elements(t)
  /\ \A s : IsList(s) /\ s # <<>> => Elements(s) = Elements(Tail(s)) \cup {Head(s)}
<1>1. Elements(<<>>) = {} /\ \A s : Len(s) = 0 => Elements(s) = {}
  BY NoList DEF Elements
<1>2. ASSUME NEW s, NEW e, IsList(s) PROVE Elements(Append(s, e)) = Elements(s) \cup {e}
  <2>1. /\ Len(s) \in Nat /\ Len(Append(s, e)) = Len(s) + 1
        /\ \A i \in 1..Len(s) : Append(s, e)[i] = s[i]
        /\ Append(s, e)[Len(s) + 1] = e
    BY <1>2, AppendList DEF IsList
  <2>2. 1..Len(s) + 1 = 1..Len(s) \cup {Len(s) + 1}
    BY <2>1
  <2> QED
    BY <2>1, <2>2 DEF Elements
<1>3. ASSUME NEW s, NEW t, IsList(s), IsList(t)
      PROVE  Elements(s \o t) = Elements(s) \cup Elements(t)
  <2> DEFINE m == Len(s)
             n == Len(t)
  <2>1. /\ m \in Nat /\ n \in Nat /\ Len(s \o t) = m + n
        /\ \A i \in 1..m : (s \o t)[i] = s[i]
        /\ \A i \in m + 1..m + n : (s \o t)[i] = t[i - m]
    BY <1>3, ConcatList DEF IsList
  <2>2. \A i \in 1..m + n : i \in 1..m \/ (i \in m + 1..m + n /\ i - m \in 1..n)
    BY <2>1
  <2>3. \A i \in 1..m : i \in 1..m + n
    BY <2>1
  <2>4. \A i \in 1..n : i + m \in m + 1..m + n /\ i + m \in 1..m + n /\ (i + m) - m = i
    BY <2>1
  <2>5. ASSUME NEW x \in Elements(s \o t) PROVE x \in Elements(s) \cup Elements(t)
    BY <2>1, <2>2, <2>5 DEF Elements
  <2>6. ASSUME NEW x \in Elements(s) PROVE x \in Elements(s \o t)
    BY <2>1, <2>3, <2>6 DEF Elements
  <2>7. ASSUME NEW x \in Elements(t) PROVE x \in Elements(s \o t)
    <3>1. PICK i \in 1..n : x = t[i]
      BY <2>7 DEF Elements
    <3>2. (s \o t)[i + m] = x
      BY <2>1, <2>4, <3>1
    <3> QED
      BY <2>1, <2>4, <3>2 DEF Elements
  <2> QED
    BY <2>5, <2>6, <2>7
<1>4. ASSUME NEW s, IsList(s), s # <<>> PROVE Elements(s) = Elements(Tail(s)) \cup {Head(s)}
  <2>1. /\ Len(s) \in Nat \ {0} /\ Head(s) = s[1] /\ Len(Tail(s)) = Len(s) - 1
        /\ \A i \in 1..Len(Tail(s)) : Tail(s)[i] = s[i + 1]
    BY <1>4, TailList
  <2>2. \A i \in 1..Len(s) : i = 1 \/ (i - 1 \in 1..Len(s) - 1 /\ (i - 1) + 1 = i)
    BY <2>1
  <2>3. 1 \in 1..Len(s) /\ \A i \in 1..Len(s) - 1 : i + 1 \in 1..Len(s)
    BY <2>1
  <2>4. ASSUME NEW x \in Elements(s) PROVE x \in Elements(Tail(s)) \cup {Head(s)}
    <3>1. PICK i \in 1..Len(s) : x = s[i]
      BY <2>4 DEF Elements
    <3>2. CASE i = 1
      BY <2>1, <3>1, <3>2
    <3>3. CASE i - 1 \in 1..Len(s) - 1 /\ (i - 1) + 1 = i
      <4>1. Tail(s)[i - 1] = x
        BY <2>1, <3>1, <3>3
      <4> QED
        BY <2>1, <3>3, <4>1 DEF Elements
    <3> QED
      BY <2>2, <3>2, <3>3
  <2>5. ASSUME NEW x \in Elements(Tail(s)) PROVE x \in Elements(s)
    BY <2>1, <2>3, <2>5 DEF Elements
  <2>6. Head(s) \in Elements(s)
    BY <2>1, <2>3 DEF Elements
  <2> QED
    BY <2>4, <2>5, <2>6
<1> QED
  BY <1>1, <1>2, <1>3, <1>4

\* Induction, over a set.
LEMMA SetInduction ==
  ASSUME NEW T, 0 \in T, \A k \in Nat : k \in T => k + 1 \in T
  PROVE  Nat \subseteq T
<1> SUFFICES ASSUME Nat \ T # {} PROVE FALSE
  OBVIOUS
<1>1. PICK m \in Nat \ T : \A k \in Nat \ T : ~(<<k, m>> \in OpToRel(<, Nat))
  BY NatLessThanWellFounded, WFMin
<1>2. \A k \in Nat \ T : ~(k < m)
  BY <1>1 DEF OpToRel
<1>3. m # 0 /\ m - 1 \in Nat /\ (m - 1) + 1 = m
  OBVIOUS
<1>4. m - 1 \in T
  BY <1>2, <1>3
<1> QED
  BY <1>3, <1>4

\* As many numbers, in order, as there are below n, and all of these: nothing else.
LEMMA SortedIdentity ==
  ASSUME NEW n \in Nat, NEW f \in [1..n -> Nat],
         \A i, j \in 1..n : i < j => f[i] <= f[j],
         \A m \in 0..n - 1 : \E i \in 1..n : f[i] = m
  PROVE  \A i \in 1..n : f[i] = i - 1
<1> DEFINE Low == {k \in Nat : k < n => f[k + 1] <= k}
           High == {k \in Nat : k < n => f[n - k] >= n - k - 1}
<1>1. 0 \in Low
  <2> SUFFICES ASSUME 0 < n PROVE f[1] <= 0
    OBVIOUS
  <2>1. PICK j \in 1..n : f[j] = 0
    OBVIOUS
  <2>2. 1 \in 1..n /\ (j = 1 \/ 1 < j)
    OBVIOUS
  <2> QED
    BY <2>1, <2>2
<1>2. ASSUME NEW k \in Nat, k \in Low PROVE k + 1 \in Low
  <2> SUFFICES ASSUME k + 1 < n PROVE f[k + 2] <= k + 1
    OBVIOUS
  <2>1. k + 1 \in 1..n /\ k + 2 \in 1..n /\ f[k + 1] <= k /\ f[k + 1] \in Nat
    BY <1>2
  <2>2. PICK j \in 1..n : f[j] = k + 1
    BY <2>1
  <2>3. ~(j <= k + 1)
    <3>1. j <= k + 1 => f[j] <= f[k + 1]
      BY <2>1
    <3> QED
      BY <2>1, <2>2, <3>1
  <2>4. j = k + 2 \/ k + 2 < j
    BY <2>3
  <2> QED
    BY <2>1, <2>2, <2>4
<1>3. 0 \in High
  <2> SUFFICES ASSUME 0 < n PROVE f[n] >= n - 1
    OBVIOUS
  <2>1. PICK j \in 1..n : f[j] = n - 1
    OBVIOUS
  <2>2. n \in 1..n /\ (j = n \/ j < n)
    OBVIOUS
  <2> QED
    BY <2>1, <2>2
<1>4. ASSUME NEW k \in Nat, k \in High PROVE k + 1 \in High
  <2> SUFFICES ASSUME k + 1 < n PROVE f[n - (k + 1)] >= n - (k + 1) - 1
    OBVIOUS
  <2> DEFINE i == n - k
  <2>1. i \in 1..n /\ i - 1 \in 1..n /\ f[i] >= i - 1 /\ n - (k + 1) = i - 1
    BY <1>4
  <2>2. PICK j \in 1..n : f[j] = i - 2
    BY <2>1
  <2>3. ~(i <= j)
    <3>1. i <= j => f[i] <= f[j]
      BY <2>1
    <3>2. f[i] \in Nat
      BY <2>1
    <3> QED
      BY <2>1, <2>2, <3>1, <3>2
  <2>4. j = i - 1 \/ j < i - 1
    BY <2>1, <2>3
  <2>5. f[j] <= f[i - 1] /\ f[i - 1] \in Nat
    BY <2>1, <2>4
  <2> HIDE DEF i
  <2> QED
    BY <2>1, <2>2, <2>5
<1>5. Nat \subseteq Low
  <2> HIDE DEF Low
  <2> QED
    BY <1>1, <1>2, SetInduction
<1>6. Nat \subseteq High
  <2> HIDE DEF High
  <2> QED
    BY <1>3, <1>4, SetInduction
<1>7. ASSUME NEW i \in 1..n PROVE f[i] = i - 1
  <2>1. i - 1 \in Nat /\ i - 1 < n /\ n - i \in Nat /\ n - i < n /\ (i - 1) + 1 = i /\ n - (n - i) = i
    OBVIOUS
  <2>2. f[i] <= i - 1
    BY <1>5, <2>1
  <2>3. f[i] >= i - 1
    BY <1>6, <2>1
  <2> QED
    BY <2>2, <2>3
<1> QED
  BY <1>7

\* Where the handler's manifest puts the parts.
Offsets(list) ==
  CHOOSE f : f =
    [i \in DOMAIN list |-> IF i = 1 THEN 0 ELSE f[i - 1] + Len(list[i - 1].digest)]
LEMMA OffsetsAre ==
  ASSUME NEW list, NEW n \in Nat, DOMAIN list = 1..n
  PROVE  Offsets(list) =
           [i \in 1..n |-> IF i = 1 THEN 0 ELSE Offsets(list)[i - 1] + Len(list[i - 1].digest)]
<1> DEFINE Is(f, k) == f = [i \in 1..k |-> IF i = 1 THEN 0 ELSE f[i - 1] + Len(list[i - 1].digest)]
           T == {k \in Nat : \E f : Is(f, k)}
<1>1. 0 \in T
  <2>1. Is([i \in 1..0 |-> 0], 0)
    OBVIOUS
  <2> QED
    BY <2>1
<1>2. ASSUME NEW k \in Nat, k \in T PROVE k + 1 \in T
  <2>1. PICK f : Is(f, k)
    BY <1>2
  <2> DEFINE g == [i \in 1..k + 1 |-> IF i = 1 THEN 0 ELSE f[i - 1] + Len(list[i - 1].digest)]
  <2>2. \A i \in 1..k : g[i] = f[i]
    BY <2>1
  <2>3. \A i \in 1..k + 1 : i # 1 => i - 1 \in 1..k /\ g[i - 1] = f[i - 1]
    <3> HIDE DEF g
    <3>1. \A i \in 1..k + 1 : i # 1 => i - 1 \in 1..k
      OBVIOUS
    <3> QED
      BY <2>2, <3>1
  <2>4. \A i \in 1..k + 1 : g[i] = IF i = 1 THEN 0 ELSE g[i - 1] + Len(list[i - 1].digest)
    BY <2>3
  <2>5. Is(g, k + 1)
    <3>1. g = [i \in 1..k + 1 |-> g[i]]
      OBVIOUS
    <3> HIDE DEF g
    <3> QED
      BY <2>4, <3>1
  <2>6. \E h : Is(h, k + 1)
    BY <2>5
  <2> QED
    BY <2>6
<1>3. n \in T
  <2> HIDE DEF T
  <2> QED
    BY <1>1, <1>2, SetInduction
<1>4. PICK f : Is(f, n)
  BY <1>3
<1> QED
  BY <1>4 DEF Offsets

-----------------------------------------------------------------------------
LEMMA SameCut ==
  ASSUME UNCHANGED <<replay, parallel>>
  PROVE  (Flawless' <=> Flawless) /\ \A i : Cut(i)' = Cut(i)
<1>1. \A i : Cut(i)' = Cut(i)
  BY DEF Cut, Count, Total
<1>2. Flawless' <=> Flawless
  BY DEF Flawless, Validated, Lossless, Cut, Count, Total
<1> QED
  BY <1>1, <1>2

\* A worker finds nothing wrong with a chunk of a flawless replay.
LEMMA TaskIsSound ==
  ASSUME replay \in Replays, Flawless, NEW t, TaskOK(t)
  PROVE  t.encoded.ok /\ Validated(t)
<1> DEFINE i == t.index
           u == [first |-> Start(i), count |-> Count(i), encoded |-> Cut(i),
                 expected |-> [k \in 1..Count(i) |->
                                 Digest(Projected(parallel, replay.ticks[Start(i) + k]))]]
<1>1. /\ i \in Nat /\ Count(i) \in 1..Interval /\ Total \in Nat /\ Interval \in Nat \ {0}
      /\ Start(i) \in Nat /\ Start(i + 1) = Start(i) + Interval
  BY StartFacts, ReplayTicks, WriterAssumption DEF TaskOK
<1>2. Start(i) < Total
  BY <1>1 DEF Count
<1>3. i <= Start(i)
  BY <1>1 DEF Start
<1>4. i \in 0..Total - 1
  BY <1>1, <1>2, <1>3
<1>5. Cut(i).ok /\ Validated(u)
  BY <1>2, <1>4 DEF Flawless
<1>6. t.first = u.first /\ t.count = u.count /\ t.encoded = u.encoded /\ t.expected = u.expected
  BY DEF TaskOK
<1>7. u.encoded = Cut(i)
  OBVIOUS
<1> HIDE DEF u
<1> QED
  BY <1>5, <1>6, <1>7 DEF Validated, Lossless

LEMMA Lists ==
  ASSUME IInv
  PROVE  /\ IsList(tasks) /\ IsList(results) /\ IsList(chunks)
         /\ Len(tasks) \in Nat /\ Len(results) \in Nat /\ Len(chunks) \in Nat
         /\ dispatched \in Nat /\ replay \in Replays /\ DOMAIN worker = Workers
         /\ \A t \in Elements(tasks) : TaskOK(t)
         /\ \A p \in Elements(results) : p = Error \/ PartOK(p)
         /\ \A p \in Elements(chunks) : PartOK(p)
BY DEF IInv, WorkInv, ReadInv, IsList, Elements, SentOK

LEMMA BusyFinite == IsFiniteSet(BusyWorkers) /\ Cardinality(BusyWorkers) \in Nat
BY WriterAssumption, FS_Subset, FS_CardinalityType DEF BusyWorkers

LEMMA SameCount ==
  ASSUME CountInv, UNCHANGED <<chunks, tasks, worker, results, dispatched>>, closed => closed'
  PROVE  CountInv'
<1>1. Error' = Error /\ Gone' = Gone
  BY DEF Error, Gone
<1>2. UNCHANGED <<Around, BusyWorkers>> /\ UNCHANGED Elements(results)
  BY DEF Around, BusyWorkers, Elements
<1> QED
  BY <1>1, <1>2 DEF CountInv

\* A step that is neither a fault nor the end of an attempt.
LEMMA KeepBudget ==
  ASSUME BudgetInv, UNCHANGED <<replay, parallel, attempt, faults>>,
         at' \notin {"queued", "failed"},
         at' \in Running => (closed' <=> at' \in {"drain", "join"}),
         at' \in Running /\ Spared => CountInv'
  PROVE  BudgetInv'
BY SameCut DEF BudgetInv, OnlyFaultsFail, Spared

\* A fault is one for this attempt.
LEMMA FaultBudget ==
  ASSUME BudgetInv, UNCHANGED <<replay, parallel, attempt>>, faults' = faults + 1,
         at' \in Running => at \in Running /\ at' = at /\ closed' = closed
  PROVE  BudgetInv'
BY SameCut DEF BudgetInv, OnlyFaultsFail, Spared

LEMMA FailBudget ==
  ASSUME BudgetInv, Fail, UNCHANGED faults, ~Spared
  PROVE  BudgetInv'
<1>1. at' \in {"queued", "failed"} /\ UNCHANGED <<replay, parallel, attempt>>
  BY DEF Fail, Stop
<1> QED
  BY <1>1, SameCut DEF BudgetInv, OnlyFaultsFail, Spared, Running, Extracting

LEMMA EndsFiles ==
  ASSUME FilesInv, Fail \/ Crash \/ IoError \/ Oversize
  PROVE  FilesInv'
<1>1. /\ at' \in {"queued", "failed"} /\ UNCHANGED <<replay, parallel>>
      /\ files' = files \/ files' = <<>>
  BY DEF Fail, Crash, IoError, Oversize, Stop, disk
<1>2. DOMAIN <<>> = {}
  OBVIOUS
<1> QED
  BY <1>1, <1>2, SameCut DEF FilesInv, Extracting

\* A step of the main thread or the finalizer leaves the files.
LEMMA KeepFiles ==
  ASSUME FilesInv, UNCHANGED <<replay, parallel, files>>,
         at' \in Extracting =>
           /\ at \in Extracting
           /\ Elements(results)' \cup Elements(chunks)' \subseteq Elements(results) \cup Elements(chunks),
         at' # "finalize"
  PROVE  FilesInv'
BY SameCut DEF FilesInv, Error

-----------------------------------------------------------------------------
(***************************************************************************)
(* No check of the main thread or of the finalizer fails, unless there was *)
(* a fault.                                                                *)
(***************************************************************************)
Ended == at' \in {"queued", "failed"}

LEMMA ReadingGoesOn ==
  ASSUME IInv, Flawless, AddTick \/ FinishTicks \/ Finish
  PROVE  ~Ended
<1>1. CASE AddTick
  <2>1. /\ ticks \in Nat /\ Total \in 1..MaxTicks /\ ticks < Total /\ MaxTicks \in Nat
        /\ at = "read"
    BY <1>1, WriterAssumption DEF AddTick, Flawless, IInv, ReadInv, Total
  <2>2. Projected(parallel, replay.ticks[ticks + 1]) # Refused /\ ~(ticks >= MaxTicks)
    BY <2>1 DEF Flawless
  <2>3. at' \in {"read", "send"}
    BY <1>1, <2>1, <2>2 DEF AddTick, Flush
  <2> QED
    BY <2>3 DEF Ended
<1>2. CASE FinishTicks
  <2>1. at' \in {"send", "finish"}
    BY <1>2 DEF FinishTicks, Flush, Flawless
  <2> QED
    BY <2>1 DEF Ended
<1>3. CASE Finish
  <2>1. ticks = Total /\ Total # 0
    BY <1>3 DEF Finish, Flawless, IInv, ReadInv
  <2>2. at' = "drain"
    BY <1>3, <2>1 DEF Finish, Flawless
  <2> QED
    BY <2>2 DEF Ended
<1> QED
  BY <1>1, <1>2, <1>3

\* There is a worker to send to, and the channel is open.
LEMMA SendingGoesOn ==
  ASSUME RunInv, Spared, Send
  PROVE  ~Ended
<1>1. at = "send" /\ at \in Running
  BY DEF Send, Running, Extracting
<1>2. outgoing.encoded.ok
  BY <1>1, Lists, TaskIsSound DEF RunInv, IInv, ReadInv, Spared
<1>3. \A w \in Workers : worker[w] # Gone
  BY <1>1 DEF RunInv, BudgetInv, CountInv
<1>4. at' = "collect"
  BY <1>2, <1>3, WriterAssumption DEF Send
<1> QED
  BY <1>4 DEF Ended

\* Every chunk sent comes back, none as an error.
LEMMA CollectingGoesOn ==
  ASSUME RunInv, Spared, Collect \/ Drain
  PROVE  ~Ended
<1>1. /\ CountInv /\ IsList(results) /\ IsList(tasks) /\ dispatched \in Nat
      /\ Len(results) \in Nat /\ Len(tasks) \in Nat /\ Len(chunks) \in Nat
  BY Lists DEF RunInv, BudgetInv, Collect, Drain, Running, Extracting
<1>2. \A i \in 1..Len(results) : results[i] # Error
  BY <1>1 DEF CountInv, Elements
<1>3. CASE Collect
  <2>1. ~ \E i \in DOMAIN results : results[i] = Error
    BY <1>1, <1>2 DEF IsList
  <2> QED
    BY <1>3, <2>1 DEF Collect, Ended
<1>4. CASE Drain
  <2>1. Len(chunks) <= dispatched
    BY <1>1, BusyFinite DEF CountInv
  <2>2. CASE Len(chunks) = dispatched
    BY <1>4, <2>2 DEF Drain, Ended
  <2>3. CASE Len(chunks) < dispatched /\ results # <<>>
    <3>1. Head(results) # Error
      BY <1>1, <1>2, <2>3, TailList
    <3>2. at' = at /\ at = "drain"
      BY <1>1, <1>4, <2>3, <3>1 DEF Drain
    <3> QED
      BY <3>2 DEF Ended
  <2>4. CASE Len(chunks) < dispatched /\ results = <<>>
    <3>1. SUFFICES ASSUME \A w \in Workers : worker[w] = Gone PROVE FALSE
      BY <1>1, <1>4, <2>4 DEF Drain
    <3>2. tasks = <<>>
      BY <1>1, <3>1, WriterAssumption DEF CountInv
    <3>3. BusyWorkers = {}
      BY <3>1, WorkerStates DEF BusyWorkers
    <3> QED
      BY <1>1, <2>4, <3>2, <3>3, NoList, FS_EmptySet DEF CountInv
  <2> QED
    BY <1>1, <2>1, <2>2, <2>3, <2>4
<1> QED
  BY <1>3, <1>4

\* In their order, as many chunks as were sent, and each of them, are 0, 1, 2...
LEMMA JoiningGoesOn ==
  ASSUME RunInv, Spared, Join
  PROVE  ~Ended
<1> DEFINE m == Len(chunks)
<1>1. /\ CountInv /\ m = dispatched /\ m \in Nat /\ IsList(chunks)
      /\ Len(results) \in Nat /\ Len(tasks) \in Nat /\ IsList(results) /\ IsList(tasks)
      /\ \A p \in Elements(chunks) : PartOK(p)
  BY Lists DEF RunInv, IInv, ReadInv, BudgetInv, Join, Running, Extracting
<1>2. Len(results) = 0 /\ Len(tasks) = 0 /\ BusyWorkers = {}
  BY <1>1, BusyFinite, FS_EmptySet DEF CountInv
<1>3. Around = Elements(chunks)
  <2>1. Elements(results) = {} /\ Elements(tasks) = {}
    BY <1>1, <1>2, ElementsOf
  <2>2. {worker[w][2] : w \in BusyWorkers} = {}
    BY <1>2
  <2> QED
    BY <2>1, <2>2 DEF Around
<1>4. \A n \in 0..m - 1 : \E j \in 1..m : chunks[j].index = n
  <2>1. ASSUME NEW n \in 0..m - 1 PROVE \E j \in 1..m : chunks[j].index = n
    <3>1. PICK c \in Elements(chunks) : c.index = n
      BY <1>1, <1>3 DEF CountInv
    <3> QED
      BY <3>1 DEF Elements
  <2> QED
    BY <2>1
<1>5. ASSUME NEW sorted \in InOrder(chunks)
      PROVE  \A i \in DOMAIN sorted : sorted[i].index = i - 1
  <2>1. DOMAIN chunks = 1..m
    BY <1>1 DEF IsList
  <2>2. PICK p \in [1..m -> 1..m] :
          /\ sorted = [i \in 1..m |-> chunks[p[i]]]
          /\ \A i, j \in 1..m : i < j => p[i] # p[j] /\ chunks[p[i]].index <= chunks[p[j]].index
    BY <2>1 DEF InOrder
  <2>3. p \in Surjection(1..m, 1..m)
    <3>1. \A i, j \in 1..m : p[i] = p[j] => i = j
      <4>1. \A i, j \in 1..m : i = j \/ i < j \/ j < i
        OBVIOUS
      <4> QED
        BY <2>2, <4>1
    <3>2. p \in Injection(1..m, 1..m)
      BY <3>1 DEF Injection, IsInjective
    <3>3. IsFiniteSet(1..m)
      BY <1>1, FS_Interval
    <3> QED
      BY <3>2, <3>3, FS_Injection
  <2> DEFINE f == [i \in 1..m |-> chunks[p[i]].index]
  <2>4. f \in [1..m -> Nat]
    <3>1. \A i \in 1..m : chunks[p[i]] \in Elements(chunks)
      BY DEF Elements
    <3> QED
      BY <1>1, <3>1 DEF PartOK
  <2>5. \A n \in 0..m - 1 : \E i \in 1..m : f[i] = n
    <3>1. ASSUME NEW n \in 0..m - 1 PROVE \E i \in 1..m : f[i] = n
      <4>1. PICK j \in 1..m : chunks[j].index = n
        BY <1>4
      <4>2. PICK i \in 1..m : p[i] = j
        BY <2>3 DEF Surjection
      <4> QED
        BY <4>1, <4>2
    <3> QED
      BY <3>1
  <2>6. \A i, j \in 1..m : i < j => f[i] <= f[j]
    BY <2>2
  <2>7. \A i \in 1..m : f[i] = sorted[i].index
    BY <2>2
  <2> HIDE DEF f
  <2>8. \A i \in 1..m : f[i] = i - 1
    BY <1>1, <2>4, <2>5, <2>6, SortedIdentity
  <2> QED
    BY <2>2, <2>7, <2>8
<1>6. at' = "describe"
  BY <1>5 DEF Join
<1> QED
  BY <1>6 DEF Ended

\* The parts are the chunks in sequence, in their files, and the manifest is theirs.
LEMMA FinalizingGoesOn ==
  ASSUME RunInv, Spared, StartContainer
  PROVE  ~Ended
<1> DEFINE list == parts.chunks
           n == Len(list)
<1>1. /\ at = "finalize" /\ replay \in Replays /\ Listed(list) /\ parts.tick_count = Total
      /\ Total \in 1..MaxTicks /\ ~Bulky(replay)
  BY DEF StartContainer, RunInv, IInv, WorkInv, PartsInv, Spared, Flawless
<1>2. /\ n \in Nat \ {0} /\ DOMAIN list = 1..n
      /\ \A i \in 1..n : list[i].first = After(list, i - 1)
      /\ After(list, n) = Total
  BY <1>1, InSequence
<1>3. ASSUME NEW i \in 1..n
      PROVE  /\ list[i].index = i - 1 /\ list[i].count \in 1..Interval
             /\ list[i].index \in DOMAIN files /\ files[list[i].index] = list[i].digest
             /\ Len(list[i].digest) \in Nat
  <2>1. PartOK(list[i]) /\ list[i].index = i - 1
    BY <1>1 DEF Listed
  <2>2. list[i] \in Elements(list)
    BY DEF Elements
  <2>3. list[i].index \in DOMAIN files
    BY <1>1, <2>2 DEF RunInv, FilesInv
  <2>4. files[list[i].index] = Cut(list[i].index).bytes
    BY <2>3 DEF RunInv, FilesInv
  <2> QED
    BY <2>1, <2>3, <2>4 DEF PartOK, IsList
<1>4. ValidParts
  BY <1>1, <1>2, <1>3 DEF ValidParts, After
<1>5. ValidManifest(Manifest)
  <2> DEFINE o == Offsets(list)
             cs == [i \in 1..n |->
                      [index |-> list[i].index, first |-> list[i].first, count |-> list[i].count,
                       digest |-> list[i].digest, size |-> Len(list[i].digest), offset |-> o[i]]]
  <2>1. Manifest = [tick_count |-> parts.tick_count, replay |-> parts.replay, chunks |-> cs]
    BY <1>2 DEF Manifest, Offsets
  <2>2. \A i \in 1..n : o[i] = IF i = 1 THEN 0 ELSE o[i - 1] + Len(list[i - 1].digest)
    BY <1>2, OffsetsAre
  <2>3. Len(cs) = n
    BY <1>2
  <2>4. \A i \in 1..n : i = 1 \/ i - 1 \in 1..n
    BY <1>2
  <2> HIDE DEF o
  <2>5. \A i \in 1..n :
          /\ cs[i].index = list[i].index /\ cs[i].first = list[i].first /\ cs[i].count = list[i].count
          /\ cs[i].digest = list[i].digest /\ cs[i].size = Len(list[i].digest)
          /\ cs[i].offset = IF i = 1 THEN 0 ELSE cs[i - 1].offset + cs[i - 1].size
    BY <2>2, <2>4
  <2> HIDE DEF cs
  <2> QED
    BY <1>2, <2>1, <2>3, <2>5 DEF ValidManifest
<1>6. at' = "copy"
  BY <1>1, <1>4, <1>5 DEF StartContainer
<1> QED
  BY <1>6 DEF Ended

-----------------------------------------------------------------------------
LEMMA MainEnds ==
  ASSUME Main, Ended
  PROVE  Fail /\ UNCHANGED faults
<1>1. CASE AddTick
  BY <1>1 DEF AddTick, Flush, Ended
<1>2. CASE FinishTicks \/ Send \/ Collect \/ Finish
  BY <1>2 DEF FinishTicks, Flush, Send, Collect, Finish, Ended
<1>3. CASE Drain
  BY <1>3 DEF Drain, Ended
<1>4. CASE Join \/ StartContainer
  BY <1>4 DEF Join, StartContainer, Ended
<1>5. CASE Begin \/ Describe \/ CopyChunk \/ RemoveOutput \/ Rename
  BY <1>5 DEF Begin, Describe, CopyChunk, RemoveOutput, Rename, Ended
<1> QED
  BY <1>1, <1>2, <1>3, <1>4, <1>5 DEF Main

LEMMA EndedStep ==
  ASSUME RunInv, Main, Ended
  PROVE  FilesInv' /\ BudgetInv'
<1>1. Fail /\ UNCHANGED faults
  BY MainEnds
<1>2. ~Spared
  <2>1. ~(Begin \/ Describe \/ CopyChunk \/ RemoveOutput \/ Rename)
    BY DEF Begin, Describe, CopyChunk, RemoveOutput, Rename, Ended
  <2> QED
    BY <2>1, ReadingGoesOn, SendingGoesOn, CollectingGoesOn, JoiningGoesOn, FinalizingGoesOn
    DEF Main, RunInv, Spared
<1> QED
  BY <1>1, <1>2, EndsFiles, FailBudget DEF RunInv

\* Every attempt that was started again had its fault.
LEMMA BeginRun ==
  ASSUME RunInv, Begin
  PROVE  FilesInv' /\ BudgetInv'
<1>1. /\ at = "queued" /\ at' = "read" /\ closed' = FALSE
      /\ dispatched' = 0 /\ chunks' = <<>> /\ tasks' = <<>> /\ results' = <<>> /\ files' = <<>>
      /\ worker' = [w \in Workers |-> Starting]
      /\ attempt' = attempt + 1
      /\ UNCHANGED <<replay, parallel, faults>>
  BY DEF Begin
<1>2. Elements(results)' = {} /\ Elements(chunks)' = {}
  BY <1>1, ElementsOf
<1>3. FilesInv'
  <2>1. DOMAIN files' = {}
    BY <1>1
  <2> QED
    BY <1>1, <1>2, <2>1 DEF FilesInv
<1>4. BusyWorkers' = {}
  BY <1>1, WorkerStates DEF BusyWorkers
<1>5. CountInv'
  <2>1. \A w \in Workers : (worker[w] # Gone)'
    <3>1. Starting # Gone
      BY DEF Starting, Gone
    <3> QED
      BY <1>1, <3>1 DEF Gone
  <2>2. (Len(chunks) + Len(results) + Len(tasks) + Cardinality(BusyWorkers) = dispatched)'
    BY <1>1, <1>4, NoList, FS_EmptySet
  <2>3. \A n \in 0..dispatched' - 1 : FALSE
    BY <1>1
  <2> QED
    BY <1>2, <2>1, <2>2, <2>3 DEF CountInv
<1>6. (at \in Running => (closed <=> at \in {"drain", "join"}))'
  BY <1>1
<1>7. attempt' \in Nat /\ faults' \in Nat /\ (Flawless => attempt <= faults + 1)'
  BY <1>1, SameCut DEF RunInv, BudgetInv, OnlyFaultsFail
<1>8. OnlyFaultsFail'
  BY <1>1 DEF OnlyFaultsFail
<1> QED
  BY <1>3, <1>5, <1>6, <1>7, <1>8 DEF BudgetInv

LEMMA ReadRun ==
  ASSUME RunInv, ~Ended, AddTick \/ FinishTicks \/ Finish
  PROVE  FilesInv' /\ BudgetInv'
<1>1. ~Fail
  BY DEF Fail, Stop, Ended
<1>2. /\ at \in Running \ {"drain", "join"} /\ at' \in Running
      /\ closed' <=> at' \in {"drain", "join"}
      /\ UNCHANGED <<replay, parallel, dispatched, chunks, tasks, worker, results, files, attempt,
                     faults>>
  <2>1. at \in Running \ {"drain", "join"} /\ (closed <=> at \in {"drain", "join"})
    BY DEF AddTick, FinishTicks, Finish, Running, Extracting, RunInv, BudgetInv
  <2>2. CASE AddTick
    BY <1>1, <2>1, <2>2 DEF AddTick, Flush, threads, disk, Running, Extracting
  <2>3. CASE FinishTicks
    BY <1>1, <2>1, <2>3 DEF FinishTicks, Flush, threads, disk, Running, Extracting
  <2>4. CASE Finish
    BY <1>1, <2>1, <2>4 DEF Finish, extractor, disk, Running, Extracting
  <2> QED
    BY <2>2, <2>3, <2>4
<1>3. at \in Extracting /\ at' # "finalize" /\ UNCHANGED <<Elements(results), Elements(chunks)>>
  BY <1>2 DEF Running, Extracting, Elements
<1>4. FilesInv'
  BY <1>2, <1>3, KeepFiles DEF RunInv
<1>5. closed => closed'
  BY <1>2 DEF RunInv, BudgetInv
<1>6. Spared => CountInv'
  BY <1>2, <1>5, SameCount DEF RunInv, BudgetInv
<1>7. BudgetInv'
  BY <1>2, <1>6, KeepBudget DEF RunInv, Ended
<1> QED
  BY <1>4, <1>7

LEMMA SendRun ==
  ASSUME RunInv, ~Ended, Send
  PROVE  FilesInv' /\ BudgetInv'
<1>1. /\ at = "send" /\ at' = "collect"
      /\ tasks' = Append(tasks, outgoing)
      /\ dispatched' = dispatched + 1
      /\ UNCHANGED <<replay, parallel, chunks, closed, worker, results, files, attempt, faults>>
  BY DEF Send, Fail, Stop, Ended, disk
<1>2. at \in Running /\ at' \in Running /\ ~closed
  BY <1>1 DEF Running, Extracting, RunInv, BudgetInv
<1>3. UNCHANGED <<Elements(results), Elements(chunks), BusyWorkers>>
      /\ UNCHANGED {worker[w][2] : w \in BusyWorkers}
  BY <1>1 DEF Elements, BusyWorkers
<1>4. FilesInv'
  BY <1>1, <1>2, <1>3, KeepFiles DEF RunInv, Running
<1>5. ASSUME Spared PROVE CountInv'
  <2>1. /\ CountInv /\ IsList(tasks) /\ outgoing.index = dispatched /\ dispatched \in Nat
        /\ Len(tasks) \in Nat /\ Len(results) \in Nat /\ Len(chunks) \in Nat
    BY <1>1, <1>2, <1>5, Lists DEF RunInv, BudgetInv, IInv, ReadInv
  <2>2. Elements(tasks)' = Elements(tasks) \cup {outgoing} /\ Len(tasks') = Len(tasks) + 1
    BY <1>1, <2>1, ElementsOf, AppendList
  <2>3. Around' = Around \cup {outgoing}
    BY <1>3, <2>2 DEF Around
  <2>4. (Len(chunks) + Len(results) + Len(tasks) + Cardinality(BusyWorkers) = dispatched)'
    BY <1>1, <1>3, <2>1, <2>2, BusyFinite DEF CountInv
  <2>5. ASSUME NEW n \in 0..dispatched' - 1 PROVE \E c \in Around' : c.index = n
    <3>1. n = dispatched \/ n \in 0..dispatched - 1
      BY <1>1, <2>1
    <3> QED
      BY <2>1, <2>3, <3>1 DEF CountInv
  <2>6. \A w \in Workers : (worker[w] # Gone)' /\ (Error \notin Elements(results))'
    BY <1>1, <1>2, <1>3, <2>1 DEF CountInv, Gone, Error
  <2>7. (Error \notin Elements(results))'
    BY <1>3, <2>1 DEF CountInv, Error
  <2> QED
    BY <2>4, <2>5, <2>6, <2>7 DEF CountInv
<1>6. BudgetInv'
  BY <1>1, <1>2, <1>5, KeepBudget DEF RunInv, Ended
<1> QED
  BY <1>4, <1>6

\* The results become chunks.
LEMMA CollectRun ==
  ASSUME RunInv, ~Ended, Collect \/ Drain
  PROVE  FilesInv' /\ BudgetInv'
<1>1. /\ at \in {"collect", "drain"} /\ at' \in {"read", "drain", "join"}
      /\ at = "collect" <=> at' = "read"
      /\ UNCHANGED <<replay, parallel, dispatched, tasks, closed, worker, files, attempt, faults>>
      /\ \/ chunks' = chunks \o results /\ results' = <<>>
         \/ results # <<>> /\ chunks' = Append(chunks, Head(results)) /\ results' = Tail(results)
         \/ chunks' = chunks /\ results' = results
  <2>1. ~Fail
    BY DEF Fail, Stop, Ended
  <2>2. CASE Collect
    BY <2>1, <2>2 DEF Collect, disk
  <2>3. CASE Drain
    BY <2>1, <2>3 DEF Drain, extractor, threads, disk
  <2> QED
    BY <2>2, <2>3
<1>2. at \in Running /\ at' \in Running /\ at \in Extracting /\ at' # "finalize"
  BY <1>1 DEF Running, Extracting
<1>3. /\ Elements(results)' \cup Elements(chunks)' = Elements(results) \cup Elements(chunks)
      /\ Elements(results)' \subseteq Elements(results)
      /\ Len(chunks') + Len(results') = Len(chunks) + Len(results)
  <2>1. IsList(results) /\ IsList(chunks) /\ Len(results) \in Nat /\ Len(chunks) \in Nat
    BY Lists DEF RunInv
  <2>2. CASE chunks' = chunks \o results /\ results' = <<>>
    BY <2>1, <2>2, ElementsOf, ConcatList, NoList
  <2>3. CASE results # <<>> /\ chunks' = Append(chunks, Head(results)) /\ results' = Tail(results)
    <3>1. /\ Elements(results) = Elements(results)' \cup {Head(results)}
          /\ Elements(chunks)' = Elements(chunks) \cup {Head(results)}
      BY <2>1, <2>3, ElementsOf
    <3>2. Len(chunks') = Len(chunks) + 1 /\ Len(results') = Len(results) - 1
      BY <2>1, <2>3, AppendList, TailList
    <3> QED
      BY <2>1, <3>1, <3>2
  <2>4. CASE chunks' = chunks /\ results' = results
    BY <2>4 DEF Elements
  <2> QED
    BY <1>1, <2>2, <2>3, <2>4
<1>4. FilesInv'
  BY <1>1, <1>2, <1>3, KeepFiles DEF RunInv
<1>5. ASSUME Spared PROVE CountInv'
  <2>1. CountInv
    BY <1>2, <1>5 DEF RunInv, BudgetInv
  <2>2. UNCHANGED <<Elements(tasks), BusyWorkers>> /\ UNCHANGED {worker[w][2] : w \in BusyWorkers}
    BY <1>1 DEF Elements, BusyWorkers
  <2>3. Around' = Around
    BY <1>3, <2>2 DEF Around
  <2>4. (Len(chunks) + Len(results) + Len(tasks) + Cardinality(BusyWorkers) = dispatched)'
    BY <1>1, <1>3, <2>1, <2>2 DEF CountInv
  <2>5. (Error \notin Elements(results))'
    BY <1>3, <2>1 DEF CountInv, Error
  <2>6. \A w \in Workers : (worker[w] = Gone => closed /\ tasks = <<>>)'
    BY <1>1, <2>1 DEF CountInv, Gone
  <2> QED
    BY <1>1, <2>1, <2>3, <2>4, <2>5, <2>6 DEF CountInv
<1>6. at' \in Running => (closed' <=> at' \in {"drain", "join"})
  BY <1>1, <1>2 DEF RunInv, BudgetInv
<1>7. BudgetInv'
  BY <1>1, <1>5, <1>6, KeepBudget DEF RunInv, Ended
<1> QED
  BY <1>4, <1>7

LEMMA JoinRun ==
  ASSUME RunInv, ~Ended, Join \/ Describe
  PROVE  FilesInv' /\ BudgetInv'
<1>1. /\ at \in Extracting /\ at' \in {"describe", "finalize"}
      /\ UNCHANGED <<replay, parallel, files, attempt, faults>>
      /\ \/ Join /\ at' = "describe" /\ results' = results
         \/ Describe /\ at' = "finalize" /\ UNCHANGED <<results, chunks>>
  BY DEF Join, Describe, Fail, Stop, Ended, extractor, threads, disk, Extracting
<1>2. BudgetInv'
  BY <1>1, KeepBudget DEF RunInv, Running, Extracting
<1>3. CASE Join /\ at' = "describe" /\ results' = results
  <2>1. chunks' \in InOrder(chunks)
    BY <1>1, <1>3 DEF Join, Fail, Stop
  <2>2. IsList(chunks) /\ DOMAIN chunks = 1..Len(chunks) /\ Len(chunks) \in Nat
    BY Lists DEF RunInv, IsList
  <2>3. PICK p \in [1..Len(chunks) -> 1..Len(chunks)] :
          chunks' = [i \in 1..Len(chunks) |-> chunks[p[i]]]
    BY <2>1, <2>2 DEF InOrder
  <2>4. Len(chunks') = Len(chunks)
    BY <2>2, <2>3
  <2>5. Elements(chunks)' \subseteq Elements(chunks) /\ UNCHANGED Elements(results)
    BY <1>3, <2>3, <2>4 DEF Elements
  <2> QED
    BY <1>1, <1>2, <1>3, <2>5, KeepFiles DEF RunInv
<1>4. CASE Describe /\ at' = "finalize" /\ UNCHANGED <<results, chunks>>
  <2>1. parts'.chunks = chunks
    BY <1>4 DEF Describe
  <2>2. \A p \in Elements(chunks) : PartOK(p) /\ p.index \in DOMAIN files
    <3>1. \A p \in Elements(chunks) : p = Error \/ p.index \in DOMAIN files
      BY <1>1 DEF RunInv, FilesInv
    <3> QED
      BY <3>1, Lists DEF RunInv, PartOK
  <2>3. \A p \in Elements(parts.chunks)' : p.index \in DOMAIN files'
    BY <1>1, <2>1, <2>2 DEF Elements
  <2>4. FilesInv'
    BY <1>1, <1>4, <2>3, SameCut DEF RunInv, FilesInv, Extracting
  <2> QED
    BY <1>2, <2>4
<1> QED
  BY <1>1, <1>3, <1>4

LEMMA ContainerRun ==
  ASSUME RunInv, ~Ended, StartContainer \/ CopyChunk \/ RemoveOutput \/ Rename
  PROVE  FilesInv' /\ BudgetInv'
<1>1. /\ at' \in {"copy", "rename", "done"}
      /\ UNCHANGED <<replay, parallel, files, attempt, faults>>
  BY DEF StartContainer, CopyChunk, RemoveOutput, Rename, Fail, Stop, Ended, extractor, threads
<1> QED
  BY <1>1, KeepFiles, KeepBudget DEF RunInv, Running, Extracting

-----------------------------------------------------------------------------
LEMMA BusyChange ==
  ASSUME DOMAIN worker = Workers, NEW w \in Workers, NEW state,
         worker' = [worker EXCEPT ![w] = state]
  PROVE  /\ state[1] = "busy" => BusyWorkers' = BusyWorkers \cup {w}
         /\ state[1] # "busy" => BusyWorkers' = BusyWorkers \ {w}
         /\ worker'[w] = state
         /\ \A v \in Workers : v # w => worker'[v] = worker[v]
<1>1. worker'[w] = state /\ \A v \in Workers : v # w => worker'[v] = worker[v]
  OBVIOUS
<1>2. \A v \in Workers : v \in BusyWorkers' <=> worker'[v][1] = "busy"
  BY DEF BusyWorkers
<1>3. \A v \in Workers : v \in BusyWorkers <=> worker[v][1] = "busy"
  BY DEF BusyWorkers
<1>4. BusyWorkers \subseteq Workers /\ BusyWorkers' \subseteq Workers
  BY DEF BusyWorkers
<1>5. CASE state[1] = "busy"
  <2>1. \A v : v \in BusyWorkers' <=> v \in BusyWorkers \cup {w}
    BY <1>1, <1>2, <1>3, <1>4, <1>5
  <2> QED
    BY <1>1, <1>5, <2>1
<1>6. CASE state[1] # "busy"
  <2>1. \A v : v \in BusyWorkers' <=> v \in BusyWorkers \ {w}
    BY <1>1, <1>2, <1>3, <1>4, <1>6
  <2> QED
    BY <1>1, <1>6, <2>1
<1> QED
  BY <1>5, <1>6

LEMMA StartWorkerRun ==
  ASSUME RunInv, NEW w \in Workers, StartWorker(w)
  PROVE  FilesInv' /\ BudgetInv'
<1>1. /\ at \in Extracting /\ worker[w] = Starting
      /\ UNCHANGED <<replay, parallel, at, dispatched, chunks, tasks, closed, files, parts, attempt>>
      /\ \/ worker' = [worker EXCEPT ![w] = Idle] /\ UNCHANGED <<results, faults>>
         \/ faults' = faults + 1 /\ results' = Append(results, Error)
  BY DEF StartWorker, Report, extractor, disk
<1>2. IsList(results) /\ DOMAIN worker = Workers
  BY Lists DEF RunInv
<1>3. FilesInv'
  <2>1. Elements(results)' \subseteq Elements(results) \cup {Error}
    BY <1>1, <1>2, ElementsOf DEF Elements
  <2>2. Elements(chunks)' = Elements(chunks) /\ Error' = Error /\ at # "finalize"
    BY <1>1 DEF Elements, Error, Extracting
  <2> QED
    BY <1>1, <2>1, <2>2, SameCut DEF RunInv, FilesInv
<1>4. CASE faults' = faults + 1
  BY <1>1, <1>3, <1>4, FaultBudget DEF RunInv
<1>5. CASE worker' = [worker EXCEPT ![w] = Idle] /\ UNCHANGED <<results, faults>>
  <2>1. ASSUME at \in Running, Spared PROVE CountInv'
    <3>1. CountInv
      BY <2>1 DEF RunInv, BudgetInv
    <3>2. BusyWorkers' = BusyWorkers
      <4>1. w \notin BusyWorkers
        BY <1>1, WorkerStates DEF BusyWorkers
      <4>2. BusyWorkers' = BusyWorkers \ {w}
        BY <1>2, <1>5, BusyChange, WorkerStates
      <4> QED
        BY <4>1, <4>2
    <3>3. \A v \in BusyWorkers : v # w /\ v \in Workers
      BY <1>1, WorkerStates DEF BusyWorkers
    <3>4. Around' = Around
      <4>1. \A v \in BusyWorkers : worker'[v] = worker[v]
        BY <1>2, <1>5, <3>3, BusyChange
      <4>2. {worker'[v][2] : v \in BusyWorkers} = {worker[v][2] : v \in BusyWorkers}
        BY <4>1
      <4> QED
        BY <1>1, <1>5, <3>2, <4>2 DEF Around, Elements
    <3>5. \A v \in Workers : (worker[v] = Gone => closed /\ tasks = <<>>)'
      <4>1. \A v \in Workers : worker'[v] = worker[v] \/ worker'[v] = Idle
        BY <1>2, <1>5, BusyChange
      <4>2. Idle # Gone
        BY DEF Idle, Gone
      <4> QED
        BY <1>1, <3>1, <4>1, <4>2 DEF CountInv, Gone
    <3>6. (Error \notin Elements(results))'
      BY <1>5, <3>1 DEF CountInv, Error, Elements
    <3> QED
      BY <1>1, <1>5, <3>1, <3>2, <3>4, <3>5, <3>6 DEF CountInv
  <2> QED
    BY <1>1, <1>3, <1>5, <2>1, KeepBudget DEF RunInv, BudgetInv, Running, Extracting
<1> QED
  BY <1>1, <1>4, <1>5

LEMMA EndWorkerRun ==
  ASSUME RunInv, NEW w \in Workers, EndWorker(w)
  PROVE  FilesInv' /\ BudgetInv'
<1>1. /\ at \in Extracting /\ worker[w] = Idle /\ tasks = <<>> /\ closed
      /\ UNCHANGED <<replay, parallel, at, dispatched, chunks, tasks, closed, results, files, parts,
                     attempt, faults>>
      /\ worker' = [worker EXCEPT ![w] = Gone]
  BY DEF EndWorker, extractor, disk
<1>2. DOMAIN worker = Workers
  BY Lists DEF RunInv
<1>3. FilesInv'
  <2>1. at' # "finalize" /\ UNCHANGED <<Elements(results), Elements(chunks)>>
    BY <1>1 DEF Elements, Extracting
  <2> QED
    BY <1>1, <2>1, KeepFiles DEF RunInv
<1>4. ASSUME at \in Running, Spared PROVE CountInv'
  <2>1. CountInv
    BY <1>4 DEF RunInv, BudgetInv
  <2>2. BusyWorkers' = BusyWorkers
    <3>1. w \notin BusyWorkers
      BY <1>1, WorkerStates DEF BusyWorkers
    <3>2. BusyWorkers' = BusyWorkers \ {w}
      BY <1>1, <1>2, BusyChange, WorkerStates
    <3> QED
      BY <3>1, <3>2
  <2>3. \A v \in BusyWorkers : v # w /\ v \in Workers
    BY <1>1, WorkerStates DEF BusyWorkers
  <2>4. Around' = Around
    <3>1. \A v \in BusyWorkers : worker'[v] = worker[v]
      BY <1>1, <1>2, <2>3, BusyChange
    <3>2. {worker'[v][2] : v \in BusyWorkers} = {worker[v][2] : v \in BusyWorkers}
      BY <3>1
    <3> QED
      BY <1>1, <2>2, <3>2 DEF Around, Elements
  <2>5. \A v \in Workers : (worker[v] = Gone => closed /\ tasks = <<>>)'
    BY <1>1
  <2>6. (Error \notin Elements(results))'
    BY <1>1, <2>1 DEF CountInv, Error, Elements
  <2> QED
    BY <1>1, <2>1, <2>2, <2>4, <2>5, <2>6 DEF CountInv
<1> QED
  BY <1>1, <1>3, <1>4, KeepBudget DEF RunInv, BudgetInv, Running, Extracting

LEMMA TakeTaskRun ==
  ASSUME RunInv, NEW w \in Workers, TakeTask(w)
  PROVE  FilesInv' /\ BudgetInv'
<1>1. /\ at \in Extracting /\ worker[w] = Idle /\ tasks # <<>>
      /\ UNCHANGED <<replay, parallel, at, dispatched, chunks, closed, results, files, parts,
                     attempt, faults>>
      /\ worker' = [worker EXCEPT ![w] = Busy(Head(tasks))]
      /\ tasks' = Tail(tasks)
  BY DEF TakeTask, extractor, disk
<1>2. /\ DOMAIN worker = Workers /\ IsList(tasks) /\ dispatched \in Nat
      /\ Len(tasks) \in Nat /\ Len(results) \in Nat /\ Len(chunks) \in Nat
  BY Lists DEF RunInv
<1>3. FilesInv'
  <2>1. at' # "finalize" /\ UNCHANGED <<Elements(results), Elements(chunks)>>
    BY <1>1 DEF Elements, Extracting
  <2> QED
    BY <1>1, <2>1, KeepFiles DEF RunInv
<1>4. ASSUME at \in Running, Spared PROVE CountInv'
  <2>1. CountInv
    BY <1>4 DEF RunInv, BudgetInv
  <2>2. Busy(Head(tasks))[1] = "busy" /\ Busy(Head(tasks))[2] = Head(tasks)
    BY DEF Busy
  <2>3. /\ BusyWorkers' = BusyWorkers \cup {w} /\ w \notin BusyWorkers
        /\ worker'[w] = Busy(Head(tasks))
    BY <1>1, <1>2, <2>2, BusyChange, WorkerStates DEF BusyWorkers
  <2>4. Cardinality(BusyWorkers') = Cardinality(BusyWorkers) + 1
    BY <2>3, BusyFinite, FS_AddElement
  <2>5. Len(tasks') = Len(tasks) - 1 /\ Elements(tasks) = Elements(tasks)' \cup {Head(tasks)}
    BY <1>1, <1>2, TailList, ElementsOf
  <2>6. \A c \in Around : c \in Around'
    <3>1. \A v \in BusyWorkers : v \in BusyWorkers' /\ worker'[v] = worker[v]
      <4>1. \A v \in BusyWorkers : v # w /\ v \in Workers
        BY <2>3 DEF BusyWorkers
      <4> QED
        BY <1>1, <1>2, <2>3, <4>1, BusyChange
    <3>2. \A c \in {worker[v][2] : v \in BusyWorkers} : c \in {worker'[v][2] : v \in BusyWorkers'}
      BY <3>1
    <3>3. Head(tasks) \in {worker'[v][2] : v \in BusyWorkers'}
      BY <2>2, <2>3
    <3>4. UNCHANGED <<Elements(results), Elements(chunks)>>
      BY <1>1 DEF Elements
    <3> QED
      BY <2>5, <3>2, <3>3, <3>4 DEF Around
  <2>7. \A v \in Workers : (worker[v] # Gone)'
    <3>1. \A v \in Workers : worker[v] # Gone
      BY <1>1, <2>1 DEF CountInv
    <3>2. Busy(Head(tasks)) # Gone
      BY <2>2, WorkerStates
    <3>3. \A v \in Workers : worker'[v] = worker[v] \/ worker'[v] = Busy(Head(tasks))
      BY <1>1, <1>2, BusyChange
    <3> QED
      BY <3>1, <3>2, <3>3 DEF Gone
  <2>8. (Len(chunks) + Len(results) + Len(tasks) + Cardinality(BusyWorkers) = dispatched)'
    BY <1>1, <1>2, <2>1, <2>4, <2>5, BusyFinite DEF CountInv
  <2>9. (Error \notin Elements(results))'
    BY <1>1, <2>1 DEF CountInv, Error, Elements
  <2> QED
    BY <1>1, <2>1, <2>6, <2>7, <2>8, <2>9 DEF CountInv
<1> QED
  BY <1>1, <1>3, <1>4, KeepBudget DEF RunInv, BudgetInv, Running, Extracting

\* The worker writes the file before it reports the part.
LEMMA ProcessRun ==
  ASSUME RunInv, NEW w \in Workers, Process(w)
  PROVE  FilesInv' /\ BudgetInv'
<1> DEFINE task == worker[w][2]
           part == [index |-> task.index, first |-> task.first, count |-> task.count,
                    digest |-> task.encoded.bytes]
           new == [i \in DOMAIN files \cup {task.index} |->
                     IF i = task.index THEN task.encoded.bytes ELSE files[i]]
           Passed == /\ Validated(task) /\ files' = new /\ results' = Append(results, part)
                     /\ UNCHANGED faults
           Lossy == /\ ~Validated(task) /\ files' = files /\ results' = Append(results, Error)
                    /\ UNCHANGED faults
           Faulty == faults' = faults + 1 /\ files' = files /\ results' = Append(results, Error)
<1>1. /\ at \in Extracting /\ worker[w][1] = "busy"
      /\ UNCHANGED <<replay, parallel, at, dispatched, chunks, tasks, closed, parts, attempt>>
      /\ worker' = [worker EXCEPT ![w] = Idle]
      /\ Passed \/ Lossy \/ Faulty
  BY DEF Process, Report, extractor
<1>2. /\ DOMAIN worker = Workers /\ IsList(results) /\ dispatched \in Nat /\ replay \in Replays
      /\ Len(tasks) \in Nat /\ Len(results) \in Nat /\ Len(chunks) \in Nat
      /\ \A p \in Elements(results) : p = Error \/ PartOK(p)
  BY Lists DEF RunInv
<1>3. TaskOK(task)
  BY <1>1 DEF RunInv, IInv, WorkInv, SentOK
<1>4. part.index = task.index /\ part # Error
  <2>1. DOMAIN part = {"index", "first", "count", "digest"} /\ DOMAIN Error = {"failed"}
    BY DEF Error
  <2> QED
    BY <2>1
<1>5. task.encoded.bytes = Cut(task.index).bytes
  BY <1>3 DEF TaskOK
<1>6. DOMAIN new = DOMAIN files \cup {task.index} /\ \A i \in DOMAIN new : new[i] = Cut(i).bytes
  BY <1>5 DEF RunInv, FilesInv
<1> HIDE DEF part, task, new
<1>7. /\ Elements(chunks)' = Elements(chunks) /\ Error' = Error /\ at' # "finalize"
      /\ at' \in Extracting
  BY <1>1 DEF Elements, Error, Extracting
<1>8. /\ Passed => Elements(results)' = Elements(results) \cup {part}
      /\ Lossy \/ Faulty => Elements(results)' = Elements(results) \cup {Error}
      /\ Len(results') = Len(results) + 1
  BY <1>1, <1>2, ElementsOf, AppendList
<1>9. FilesInv'
  <2>1. /\ \A i \in DOMAIN files' : files'[i] = Cut(i).bytes
        /\ DOMAIN files \subseteq DOMAIN files'
        /\ Passed => task.index \in DOMAIN files'
    BY <1>1, <1>6 DEF RunInv, FilesInv
  <2>2. \A p \in Elements(results)' \cup Elements(chunks)' : p = Error \/ p.index \in DOMAIN files'
    <3>1. \A p \in Elements(results) \cup Elements(chunks) : p = Error \/ p.index \in DOMAIN files
      BY <1>1 DEF RunInv, FilesInv
    <3>2. Elements(results)' \subseteq Elements(results) \cup {Error}
          \/ (Passed /\ Elements(results)' = Elements(results) \cup {part})
      BY <1>1, <1>8
    <3> QED
      BY <1>4, <1>7, <2>1, <3>1, <3>2
  <2>3. \A i : Cut(i)' = Cut(i)
    BY <1>1, SameCut
  <2> QED
    BY <1>7, <2>1, <2>2, <2>3 DEF FilesInv
<1>10. CASE Faulty
  BY <1>1, <1>9, <1>10, FaultBudget DEF RunInv
<1>11. CASE Passed \/ Lossy
  <2>1. ASSUME at \in Running, Spared PROVE CountInv'
    <3>1. CountInv
      BY <2>1 DEF RunInv, BudgetInv
    <3>2. Passed
      BY <1>2, <1>3, <1>11, <2>1, TaskIsSound DEF Spared
    <3>3. /\ BusyWorkers' = BusyWorkers \ {w} /\ w \in BusyWorkers
          /\ \A v \in Workers : v # w => worker'[v] = worker[v]
          /\ worker'[w] = Idle
      BY <1>1, <1>2, BusyChange, WorkerStates DEF BusyWorkers
    <3>4. Cardinality(BusyWorkers') = Cardinality(BusyWorkers) - 1
      BY <3>3, BusyFinite, FS_RemoveElement
    <3>5. ASSUME NEW c \in Around PROVE \E d \in Around' : d.index = c.index
      <4>1. CASE c = task
        BY <1>4, <1>8, <3>2, <4>1 DEF Around
      <4>2. CASE c # task /\ c \in {worker[v][2] : v \in BusyWorkers}
        <5>1. PICK v \in BusyWorkers : c = worker[v][2]
          BY <4>2
        <5>2. v # w /\ v \in Workers
          BY <4>2, <5>1 DEF task, BusyWorkers
        <5>3. v \in BusyWorkers' /\ worker'[v][2] = c
          BY <3>3, <5>1, <5>2
        <5> QED
          BY <5>3 DEF Around
      <4>3. CASE c \in Elements(tasks) \cup Elements(results) \cup Elements(chunks)
        <5>1. Elements(tasks)' = Elements(tasks)
          BY <1>1 DEF Elements
        <5>2. c \in Around'
          BY <1>7, <1>8, <3>2, <4>3, <5>1 DEF Around
        <5> QED
          BY <5>2
      <4> QED
        BY <4>1, <4>2, <4>3 DEF Around
    <3>6. \A n \in 0..dispatched' - 1 : \E d \in Around' : d.index = n
      BY <1>1, <3>1, <3>5 DEF CountInv
    <3>7. \A v \in Workers : (worker[v] = Gone => closed /\ tasks = <<>>)'
      <4>1. Idle # Gone
        BY DEF Idle, Gone
      <4> QED
        BY <1>1, <3>1, <3>3, <4>1 DEF CountInv, Gone
    <3>8. (Len(chunks) + Len(results) + Len(tasks) + Cardinality(BusyWorkers) = dispatched)'
      BY <1>1, <1>2, <1>8, <3>1, <3>4, BusyFinite DEF CountInv
    <3>9. (Error \notin Elements(results))'
      BY <1>4, <1>7, <1>8, <3>1, <3>2 DEF CountInv
    <3> QED
      BY <3>6, <3>7, <3>8, <3>9 DEF CountInv
  <2>2. at' \notin {"queued", "failed"} /\ at' = at /\ UNCHANGED <<closed, faults>>
    BY <1>1, <1>11 DEF Extracting
  <2> QED
    BY <1>1, <1>9, <2>1, <2>2, KeepBudget DEF RunInv, BudgetInv
<1> QED
  BY <1>1, <1>10, <1>11

LEMMA FaultRun ==
  ASSUME RunInv, Crash \/ IoError
  PROVE  FilesInv' /\ BudgetInv'
<1>1. /\ at' \in {"queued", "failed"} /\ faults' = faults + 1
      /\ UNCHANGED <<replay, parallel, attempt>>
  BY DEF Crash, IoError, Fail, Stop
<1> QED
  BY <1>1, EndsFiles, FaultBudget DEF RunInv, Running, Extracting

\* An artifact beyond the limits is none of a flawless replay.
LEMMA OversizeRun ==
  ASSUME RunInv, Oversize
  PROVE  FilesInv' /\ BudgetInv'
<1>1. Fail /\ UNCHANGED faults /\ ~Spared
  BY DEF Oversize, Spared, Flawless
<1> QED
  BY <1>1, EndsFiles, FailBudget DEF RunInv

LEMMA InitRun == Init => RunInv
<1> SUFFICES ASSUME Init PROVE RunInv
  OBVIOUS
<1>1. FilesInv
  <2>1. DOMAIN <<>> = {}
    OBVIOUS
  <2> QED
    BY <2>1 DEF Init, FilesInv, Extracting
<1>2. BudgetInv
  BY DEF Init, BudgetInv, OnlyFaultsFail, Running, Extracting
<1> QED
  BY <1>1, <1>2, InitIInv DEF RunInv

LEMMA StepRun ==
  ASSUME ByteStrings
  PROVE  RunInv /\ [Next]_vars => RunInv'
<1> SUFFICES ASSUME RunInv, [Next]_vars PROVE FilesInv' /\ BudgetInv'
  BY StepIInv DEF RunInv
<1>1. CASE Main /\ Ended
  BY <1>1, EndedStep
<1>2. CASE Main /\ ~Ended
  BY <1>2, BeginRun, ReadRun, SendRun, CollectRun, JoinRun, ContainerRun DEF Main
<1>3. CASE Crash \/ IoError
  BY <1>3, FaultRun
<1>4. CASE Oversize
  BY <1>4, OversizeRun
<1>5. ASSUME NEW w \in Workers, Work(w) PROVE FilesInv' /\ BudgetInv'
  BY <1>5, StartWorkerRun, TakeTaskRun, EndWorkerRun, ProcessRun DEF Work
<1>6. CASE UNCHANGED vars
  <2>1. UNCHANGED <<replay, parallel, at, dispatched, chunks, tasks, closed, worker, results, files,
                    parts, attempt, faults>>
    BY <1>6 DEF vars, extractor, threads, disk
  <2>2. UNCHANGED <<Elements(results), Elements(chunks), Elements(parts.chunks)>> /\ Error' = Error
    BY <2>1 DEF Elements, Error
  <2>3. FilesInv'
    BY <2>1, <2>2, SameCut DEF RunInv, FilesInv
  <2>4. BudgetInv'
    BY <2>1, SameCut, SameCount DEF RunInv, BudgetInv, OnlyFaultsFail, Spared
  <2> QED
    BY <2>3, <2>4
<1> QED
  BY <1>1, <1>2, <1>3, <1>5, <1>6, <1>4 DEF Next

\* A replay that is within the limits of ticks and bytes, that can be projected and
\* that the codec reads back gets its container, unless each of the attempts met a
\* fault: no check of the extractor's main thread and of the finalizer is ever what a
\* replay is lost by.
THEOREM FlawlessIsWritten ==
  ASSUME ByteStrings
  PROVE  Spec => []OnlyFaultsFail
<1>1. RunInv /\ [Next]_vars => RunInv'
  BY StepRun
<1>2. RunInv => OnlyFaultsFail
  BY DEF RunInv, BudgetInv
<1> QED
  BY InitRun, <1>1, <1>2, PTL DEF Spec

=============================================================================
