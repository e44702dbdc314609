------------------------------ MODULE ViewerDelta ------------------------------
(***************************************************************************)
(* The delta codec of native/src/viewer.rs: encode_chunk writes a keyframe *)
(* and then each tick as a patch of the tick before it, predicting floats  *)
(* from the two ticks before; the reader undoes it.                        *)
(*                                                                         *)
(* A value is a tuple: <<"null">>, <<"true">>, <<"false">>, <<"num", n>>,   *)
(* <<"str", s>>, <<"arr", items>> or <<"obj", members>>, members being      *)
(* pairs of a key and a value in their order.  A number n is the bit       *)
(* pattern of an f64 of Float32Bits + 1 bits; it is exact as an f32 when    *)
(* its last bit is 0.  A stream is a sequence of bytes, each a tag, a name *)
(* or a number; only varints and packed bits are cut to ByteBits bits.     *)
(***************************************************************************)
EXTENDS Integers, Sequences, SequencesExt, Bitwise

CONSTANTS
  ByteBits,      \* bits in a byte; a varint byte carries one bit less
  Float32Bits,   \* bits in an f32
  IntegerOf,     \* the integers among the f64 patterns, without -0
  Extrapolate,   \* f32 patterns b, p |-> the f32 pattern nearest 2p - b
  MaxSafe,       \* SAFE_INTEGER_MAX
  MaxDepth,      \* MAX_JSON_DEPTH
  KeyframeInterval

Absent == <<"absent">>   \* no value to patch
Words32 == 2 ^ Float32Bits

IsNumber(v) == v[1] = "num"
ExactFloat32(n) == n % 2 = 0
Bits32(n) == n \div 2
Float32(bits) == <<"num", 2 * bits>>
IsInteger(n) == n \in DOMAIN IntegerOf
Abs(i) == IF i < 0 THEN -i ELSE i

Member(v, key) ==
  IF v[1] = "obj" /\ \E e \in Range(v[2]) : e[1] = key
    THEN (CHOOSE e \in Range(v[2]) : e[1] = key)[2]
    ELSE Absent

Item(v, i) == IF v[1] = "arr" /\ i <= Len(v[2]) THEN v[2][i] ELSE Absent

\* FoldLeft, which TLC evaluates in as many steps as there are items.
Fold(Op(_, _), base, items) ==
  LET upto[n \in 0..Len(items)] == IF n = 0 THEN base ELSE Op(upto[n - 1], items[n])
  IN upto[Len(items)]

\* Op of each item, in their order.
Each(items, Op(_)) == Fold(LAMBDA done, item : Append(done, Op(item)), <<>>, items)
Upto(n) == [i \in 1..n |-> i]

Keys(v) == {e[1] : e \in Range(v[2])}

\* What the semantic digest tells apart: the order of members is not a value.
RECURSIVE Semantic(_)
Semantic(v) ==
  CASE v[1] = "arr" -> <<"arr", Each(v[2], Semantic)>>
    [] v[1] = "obj" -> <<"obj", [k \in Keys(v) |-> Semantic(Member(v, k))]>>
    [] OTHER -> v

DeltaSame(previous, next) == Semantic(previous) = Semantic(next)

-----------------------------------------------------------------------------
(***************************************************************************)
(* Integers and float residuals.                                           *)
(***************************************************************************)
RECURSIVE VaruintBytes(_)
VaruintBytes(n) ==
  LET base == 2 ^ (ByteBits - 1)
  IN IF n < base THEN <<n>> ELSE <<(n % base) + base>> \o VaruintBytes(n \div base)

VaruintLength(n) == Len(VaruintBytes(n))

\* signed_difference, and its inverse.
Zigzag(i) == IF i >= 0 THEN 2 * i ELSE 2 * (-i) - 1
Unzigzag(n) == IF n % 2 = 0 THEN n \div 2 ELSE -((n + 1) \div 2)

\* signed_uint32_difference: the difference modulo 2^32, nearest to 0.
WrappedDifference(from, to) ==
  LET d == to - from
  IN CASE d > Words32 \div 2 - 1 -> d - Words32
       [] d < -(Words32 \div 2) -> d + Words32
       [] OTHER -> d

Modes == <<"xor", "difference", "bit_prediction", "value_prediction">>

\* The pattern a residual of this mode starts from.
BaseBits(mode, before, previous) ==
  CASE mode = "bit_prediction" -> (2 * Bits32(previous) - Bits32(before)) % Words32
    [] mode = "value_prediction" -> Extrapolate[Bits32(before), Bits32(previous)]
    [] OTHER -> Bits32(previous)

FloatResidual(mode, before, previous, next) ==
  LET base == BaseBits(mode, before, previous)
  IN IF mode = "xor" THEN base ^^ Bits32(next) ELSE Zigzag(WrappedDifference(base, Bits32(next)))

PatchedFloat32(mode, before, previous, residual) ==
  LET base == BaseBits(mode, before, previous)
  IN IF mode = "xor" THEN base ^^ residual ELSE (base + Unzigzag(residual)) % Words32

BitWidth(n) == IF n = 0 THEN 0 ELSE CHOOSE k \in 1..Float32Bits : 2 ^ (k - 1) <= n /\ n < 2 ^ k

Ceil(a, b) == (a + b - 1) \div b

\* Packed residuals: their bits, low ones first, cut into bytes; and back.
PackedBytes(residuals, width) ==
  LET bit(j) == IF j < width * Len(residuals)
                  THEN (residuals[(j \div width) + 1] \div 2 ^ (j % width)) % 2 ELSE 0
      byte(i) == Fold(LAMBDA sum, j : sum + bit(i * ByteBits + j) * 2 ^ j, 0,
                          [k \in 1..ByteBits |-> k - 1])
  IN Each(Upto(Ceil(width * Len(residuals), ByteBits)), LAMBDA i : byte(i - 1))

UnpackedResiduals(bytes, width, count) ==
  LET bit(j) == (bytes[(j \div ByteBits) + 1] \div 2 ^ (j % ByteBits)) % 2
      residual(i) == Fold(LAMBDA sum, j : sum + bit(i * width + j) * 2 ^ j, 0,
                              [k \in 1..width |-> k - 1])
  IN Each(Upto(count), LAMBDA i : residual(i - 1))

-----------------------------------------------------------------------------
(***************************************************************************)
(* The writer: its bytes, and the strings it may refer to by index.        *)
(***************************************************************************)
Writer == [ok |-> TRUE, bytes |-> <<>>, strings |-> <<>>]

Put(w, bytes) == [w EXCEPT !.bytes = @ \o bytes]

PutVaruint(w, n) ==
  IF n > MaxSafe THEN [w EXCEPT !.ok = FALSE] ELSE Put(w, VaruintBytes(n))

\* Every name is one byte long.
PutString(w, s) ==
  IF s \in Range(w.strings)
    THEN PutVaruint(w, 2 * ((CHOOSE i \in DOMAIN w.strings : w.strings[i] = s) - 1))
    ELSE LET new == Put(PutVaruint(w, 2 * 1 + 1), <<s>>)
         IN [new EXCEPT !.strings = Append(@, s)]

WriteNumber(w, n) ==
  CASE IsInteger(n) /\ Abs(IntegerOf[n]) <= MaxSafe ->
         PutVaruint(Put(w, <<"integer", IF IntegerOf[n] < 0 THEN 1 ELSE 0>>), Abs(IntegerOf[n]))
    [] OTHER ->
         Put(w, IF ExactFloat32(n) THEN <<"float32", Bits32(n)>> ELSE <<"float64", n>>)

RECURSIVE WriteValue(_, _)
WriteValue(w, v) ==
  CASE IsNumber(v) -> WriteNumber(w, v[2])
    [] v[1] = "str" -> PutString(Put(w, <<"string">>), v[2])
    [] v[1] = "arr" ->
         Fold(LAMBDA x, item : WriteValue(x, item),
                  PutVaruint(Put(w, <<"array">>), Len(v[2])), v[2])
    [] v[1] = "obj" ->
         Fold(LAMBDA x, e : WriteValue(PutString(x, e[1]), e[2]),
                  PutVaruint(Put(w, <<"object">>), Len(v[2])), v[2])
    [] OTHER -> Put(w, <<v[1]>>)

\* The first of the cheapest: a later candidate must be strictly better.
Cheapest(candidates, Cost(_)) ==
  candidates[CHOOSE i \in DOMAIN candidates :
               \A j \in DOMAIN candidates :
                 IF j < i THEN Cost(candidates[i]) < Cost(candidates[j])
                          ELSE Cost(candidates[i]) <= Cost(candidates[j])]

\* write_number_xor: the bytes between the first and the last that differ.
WriteNumberXor(w, previous, next) ==
  LET xor == previous ^^ next
      byte(i) == (xor \div 2 ^ (i * ByteBits)) % 2 ^ ByteBits
      changed == {i \in 0..Ceil(Float32Bits + 1, ByteBits) - 1 : byte(i) # 0}
      low == CHOOSE i \in changed : \A j \in changed : i <= j
      high == CHOOSE i \in changed : \A j \in changed : j <= i
  IN Put(w, <<"number_xor", low, high - low>> \o Each(Upto(high - low + 1), LAMBDA i : byte(low + i - 1)))

WriteNumberDelta(w, before, previous, next) ==
  LET integers == /\ {previous, next} \subseteq DOMAIN IntegerOf
                  /\ Abs(IntegerOf[previous]) <= MaxSafe
                  /\ Abs(IntegerOf[next]) <= MaxSafe
                  /\ Abs(IntegerOf[next] - IntegerOf[previous]) <= MaxSafe \div 2
      predictable == IsNumber(before) /\ ExactFloat32(before[2])
      history == IF predictable THEN before[2] ELSE 0
      residual(mode) == FloatResidual(mode, history, previous, next)
      mode == Cheapest(IF predictable THEN Modes ELSE SubSeq(Modes, 1, 2),
                       LAMBDA m : VaruintLength(residual(m)))
  IN CASE integers ->
            PutVaruint(Put(w, <<"integer_difference">>),
                       Zigzag(IntegerOf[next] - IntegerOf[previous]))
       [] ~integers /\ ExactFloat32(previous) /\ ExactFloat32(next) ->
            PutVaruint(Put(w, <<mode>>), residual(mode))
       [] OTHER -> WriteNumberXor(w, previous, next)

\* An array of numbers that f32 holds exactly.
ExactFloat32Array(v) ==
  v[1] = "arr" /\ \A item \in Range(v[2]) : IsNumber(item) /\ ExactFloat32(item[2])

Numbers(v) == Each(v[2], LAMBDA item : item[2])

\* float_candidate: the residuals of a mode, and how they are written cheapest.
Candidate(mode, residuals, width, varints) ==
  LET packed == 2 + Ceil(width * Len(residuals), ByteBits)
  IN [mode |-> mode, residuals |-> residuals, width |-> width, packed |-> 4 * packed <= 3 * varints,
      bytes |-> IF 4 * packed <= 3 * varints THEN packed ELSE varints]

Sized(mode, residuals) ==
  Candidate(mode, residuals, Fold(LAMBDA m, n : IF BitWidth(n) > m THEN BitWidth(n) ELSE m, 0, residuals),
            Fold(LAMBDA sum, n : sum + VaruintLength(n), 0, residuals))

FloatCandidate(mode, before, previous, next) ==
  Sized(mode, Each(Upto(Len(next)), LAMBDA i :
                FloatResidual(mode, IF before = <<>> THEN 0 ELSE before[i], previous[i], next[i])))

WriteCandidate(w, c) ==
  IF c.packed THEN Put(w, <<"dense_packed", c.mode, c.width>> \o PackedBytes(c.residuals, c.width))
              ELSE Fold(PutVaruint, Put(w, <<"dense", c.mode>>), c.residuals)

WriteFloats(w, before, previous, next) ==
  LET predictable == ExactFloat32Array(before) /\ Len(before[2]) = Len(previous[2])
      history == IF predictable THEN Numbers(before) ELSE <<>>
      candidate(mode) == FloatCandidate(mode, history, Numbers(previous), Numbers(next))
      modes == IF predictable THEN Modes ELSE SubSeq(Modes, 1, 2)
  IN WriteCandidate(w, Cheapest(Each(modes, candidate), LAMBDA c : c.bytes))

\* delta_same, delta by kind, or a replacement.
RECURSIVE WriteDelta(_, _, _, _)
WriteDelta(w, before, previous, next) ==
  LET same == DeltaSame(previous, next)
      both(kind) == previous[1] = kind /\ next[1] = kind
      changed == IF both("arr")
                   THEN SelectSeq(Upto(Len(next[2])),
                                  LAMBDA i : ~DeltaSame(Item(previous, i), next[2][i]))
                   ELSE <<>>
      equalLength == both("arr") /\ Len(previous[2]) = Len(next[2])
      item(x, i) == WriteDelta(x, Item(before, i), Item(previous, i), next[2][i])
      member(x, e) == WriteDelta(PutString(x, e[1]), Member(before, e[1]),
                                 Member(previous, e[1]), e[2])
  IN CASE same -> Put(w, <<"same">>)
       [] ~same /\ both("num") -> WriteNumberDelta(w, before, previous[2], next[2])
       [] ~same /\ equalLength /\ next[2] # <<>>
            /\ ExactFloat32Array(previous) /\ ExactFloat32Array(next) ->
              WriteFloats(w, before, previous, next)
       [] ~same /\ equalLength /\ 2 * Len(changed) > Len(next[2])
            /\ ~(ExactFloat32Array(previous) /\ ExactFloat32Array(next)) ->
              Fold(item, Put(w, <<"dense_array">>), Upto(Len(next[2])))
       [] ~same /\ both("arr")
            /\ ~(equalLength /\ (\/ 2 * Len(changed) > Len(next[2])
                                 \/ ExactFloat32Array(previous) /\ ExactFloat32Array(next))) ->
              Fold(LAMBDA x, i : item(PutVaruint(x, i - 1), i),
                       PutVaruint(PutVaruint(Put(w, <<"array_patch">>), Len(next[2])), Len(changed)),
                       changed)
       [] ~same /\ both("obj") ->
            LET deleted == SelectSeq(previous[2], LAMBDA e : e[1] \notin Keys(next))
                patched == SelectSeq(next[2],
                             LAMBDA e : ~DeltaSame(Member(previous, e[1]), e[2]))
                names == Fold(LAMBDA x, e : PutString(x, e[1]),
                           PutVaruint(Put(w, <<"object_patch">>), Len(deleted)), deleted)
            IN Fold(member, PutVaruint(names, Len(patched)), patched)
       [] OTHER -> WriteValue(Put(w, <<"replace">>), next)

EncodeChunk(ticks, firstTick) ==
  LET header == PutVaruint(PutVaruint(Put(Writer, <<"HSRD", 1>>), firstTick), Len(ticks))
      before(i) == IF i > 2 THEN ticks[i - 2] ELSE Absent
  IN Fold(LAMBDA w, i : IF i = 1 THEN WriteValue(w, ticks[1])
                                     ELSE WriteDelta(w, before(i), ticks[i - 1], ticks[i]),
              header, Upto(Len(ticks)))

-----------------------------------------------------------------------------
(***************************************************************************)
(* The reader.  A reading is a record of what was read and the reader      *)
(* after it; Then goes on with both, unless there was an error.            *)
(***************************************************************************)
Reader(bytes) == [ok |-> TRUE, bytes |-> bytes, at |-> 1, strings |-> <<>>]

Got(v, r) == [v |-> v, r |-> r]
Bad(r) == Got(Absent, [r EXCEPT !.ok = FALSE])

Then(reading, Next(_, _)) ==
  IF reading.r.ok THEN Next(reading.v, reading.r) ELSE Bad(reading.r)

ReadByte(r) ==
  IF r.ok /\ r.at <= Len(r.bytes) THEN Got(r.bytes[r.at], [r EXCEPT !.at = @ + 1]) ELSE Bad(r)

RECURSIVE ReadVaruintAt(_, _, _)
ReadVaruintAt(r, factor, sum) ==
  LET base == 2 ^ (ByteBits - 1)
  IN Then(ReadByte(r), LAMBDA b, s :
       IF b >= base THEN ReadVaruintAt(s, factor * base, sum + (b - base) * factor)
                    ELSE Got(sum + b * factor, s))

ReadVaruint(r) == ReadVaruintAt(r, 1, 0)

ReadString(r) ==
  Then(ReadVaruint(r), LAMBDA token, s :
    IF token % 2 = 1
      THEN Then(ReadByte(s), LAMBDA name, t : Got(name, [t EXCEPT !.strings = Append(@, name)]))
      ELSE IF token \div 2 + 1 \in DOMAIN s.strings THEN Got(s.strings[token \div 2 + 1], s)
                                                    ELSE Bad(s))

\* count readings by Read, collected in order.
ReadMany(r, count, Read(_, _)) ==
  Fold(LAMBDA acc, i :
         Then(acc, LAMBDA done, s : Then(Read(s, i), LAMBDA v, t : Got(Append(done, v), t))),
       Got(<<>>, r), Upto(count))

ReadBytes(r, count) == ReadMany(r, count, LAMBDA s, i : ReadByte(s))

\* The integer a varint pattern stands for, as a number.
IntegerValue(i) == <<"num", CHOOSE n \in DOMAIN IntegerOf : IntegerOf[n] = i>>

RECURSIVE ReadValue(_, _)

ReadMember(r, depth) ==
  Then(ReadString(r), LAMBDA key, s :
    Then(ReadValue(s, depth + 1), LAMBDA v, t : Got(<<key, v>>, t)))

ReadTagged(tag, r, depth) ==
  CASE tag \in {"null", "false", "true"} -> Got(<<tag>>, r)
    [] tag = "integer" ->
         Then(ReadByte(r), LAMBDA negative, s : Then(ReadVaruint(s), LAMBDA n, t :
           Got(IntegerValue(IF negative = 1 THEN -n ELSE n), t)))
    [] tag = "float32" -> Then(ReadByte(r), LAMBDA bits, s : Got(Float32(bits), s))
    [] tag = "float64" -> Then(ReadByte(r), LAMBDA bits, s : Got(<<"num", bits>>, s))
    [] tag = "string" -> Then(ReadString(r), LAMBDA name, s : Got(<<"str", name>>, s))
    [] tag = "array" ->
         Then(ReadVaruint(r), LAMBDA n, s :
           Then(ReadMany(s, n, LAMBDA t, i : ReadValue(t, depth + 1)), LAMBDA items, t :
             Got(<<"arr", items>>, t)))
    [] tag = "object" ->
         Then(ReadVaruint(r), LAMBDA n, s :
           Then(ReadMany(s, n, LAMBDA t, i : ReadMember(t, depth)), LAMBDA entries, t :
             Got(<<"obj", entries>>, t)))
    [] OTHER -> Bad(r)

ReadValue(r, depth) ==
  IF depth > MaxDepth THEN Bad(r)
                      ELSE Then(ReadByte(r), LAMBDA tag, s : ReadTagged(tag, s, depth))

ReadNumberXor(r, previous) ==
  Then(ReadByte(r), LAMBDA low, s : Then(ReadByte(s), LAMBDA span, t :
    Then(ReadBytes(t, span + 1), LAMBDA bytes, u :
      IF ~IsNumber(previous) THEN Bad(u)
      ELSE Got(<<"num", previous[2] ^^ Fold(LAMBDA sum, i : sum + bytes[i] * 2 ^ ((low + i - 1) * ByteBits),
                                            0, Upto(Len(bytes)))>>, u))))

ReadIntegerDifference(r, previous) ==
  Then(ReadVaruint(r), LAMBDA difference, s :
    IF ~IsNumber(previous) THEN Bad(s)
    ELSE IF ~IsInteger(previous[2]) THEN Bad(s)
    ELSE Got(IntegerValue(IntegerOf[previous[2]] + Unzigzag(difference)), s))

\* Wrong on purpose: the prediction of the writer is not the reader's.
ReadFloat32FromPrevious(r, mode, before, previous) ==
  Then(ReadVaruint(r), LAMBDA residual, s :
    IF ~IsNumber(previous) THEN Bad(s)
    ELSE Got(Float32(PatchedFloat32(IF mode = "xor" THEN mode ELSE "difference",
                                    previous[2], previous[2], residual)), s))

Predicted(mode) == mode \in {"bit_prediction", "value_prediction"}

ReadFloat32(r, mode, before, previous) ==
  LET usable(v) == IsNumber(v) /\ ExactFloat32(v[2])
  IN Then(ReadVaruint(r), LAMBDA residual, s :
       IF ~usable(previous) \/ (Predicted(mode) /\ ~usable(before)) THEN Bad(s)
       ELSE Got(Float32(PatchedFloat32(mode, IF Predicted(mode) THEN before[2] ELSE 0,
                                       previous[2], residual)), s))

\* The residuals of a dense float array: a varint for each, or packed bits.
ReadResiduals(r, count, packed) ==
  IF packed
    THEN Then(ReadByte(r), LAMBDA width, s :
           Then(ReadBytes(s, Ceil(width * count, ByteBits)), LAMBDA bytes, t :
             Got(UnpackedResiduals(bytes, width, count), t)))
    ELSE ReadMany(r, count, LAMBDA s, i : ReadVaruint(s))

ReadFloats(r, before, previous, packed) ==
  LET count == Len(previous[2])
      usable == /\ ExactFloat32Array(previous)
                /\ before[1] = "arr" => ExactFloat32Array(before) /\ Len(before[2]) = count
      patched(mode, residuals, i) ==
        Float32(PatchedFloat32(mode, IF Predicted(mode) THEN before[2][i][2] ELSE 0,
                               previous[2][i][2], residuals[i]))
  IN Then(ReadByte(r), LAMBDA mode, s :
       IF ~usable \/ (Predicted(mode) /\ before[1] # "arr") THEN Bad(s)
       ELSE Then(ReadResiduals(s, count, packed), LAMBDA residuals, t :
              Got(<<"arr", Each(Upto(count), LAMBDA i : patched(mode, residuals, i))>>, t)))

\* The members that stay, patched in their place; new ones are appended.
WithMember(v, e) ==
  IF e[1] \in Keys(v) THEN <<"obj", Each(v[2], LAMBDA old : IF old[1] = e[1] THEN e ELSE old)>>
                      ELSE <<"obj", Append(v[2], e)>>

RECURSIVE ReadPatchedValue(_, _, _, _)

ReadMemberPatch(r, before, previous, depth) ==
  Then(ReadString(r), LAMBDA key, s :
    Then(ReadPatchedValue(s, Member(before, key), Member(previous, key), depth + 1), LAMBDA v, t :
      Got(<<key, v>>, t)))

ReadObjectPatch(r, before, previous, depth) ==
  Then(ReadVaruint(r), LAMBDA deletions, s :
    Then(ReadMany(s, deletions, LAMBDA t, i : ReadString(t)), LAMBDA deleted, t :
      Then(ReadVaruint(t), LAMBDA changes, u :
        Then(ReadMany(u, changes, LAMBDA x, i : ReadMemberPatch(x, before, previous, depth)),
             LAMBDA patches, x :
          Got(Fold(WithMember, <<"obj", SelectSeq(previous[2], LAMBDA e : e[1] \notin Range(deleted))>>,
                   patches), x)))))

ReadItemPatch(r, before, previous, depth) ==
  Then(ReadVaruint(r), LAMBDA index, s :
    Then(ReadPatchedValue(s, Item(before, index + 1), Item(previous, index + 1), depth + 1),
         LAMBDA v, t : Got(<<index + 1, v>>, t)))

\* The items of a patched array: every one was there before or is in a patch.
PatchedItems(r, previous, length, patches) ==
  LET patched == {p[1] : p \in Range(patches)}
      at(i) == IF i \in patched THEN (CHOOSE p \in Range(patches) : p[1] = i)[2] ELSE previous[2][i]
  IN IF ~(patched \subseteq 1..length /\ 1..length \subseteq patched \cup DOMAIN previous[2])
       THEN Bad(r) ELSE Got(<<"arr", Each(Upto(length), at)>>, r)

ReadArrayPatch(r, before, previous, depth) ==
  Then(ReadVaruint(r), LAMBDA length, s :
    Then(ReadVaruint(s), LAMBDA changes, t :
      Then(ReadMany(t, changes, LAMBDA x, i : ReadItemPatch(x, before, previous, depth)),
           LAMBDA patches, u : PatchedItems(u, previous, length, patches))))

ReadDenseArray(r, before, previous, depth) ==
  Then(ReadMany(r, Len(previous[2]), LAMBDA s, i :
         ReadPatchedValue(s, Item(before, i), previous[2][i], depth + 1)),
       LAMBDA items, s : Got(<<"arr", items>>, s))

ReadPatch(tag, r, before, previous, depth) ==
  CASE tag = "same" -> IF previous = Absent THEN Bad(r) ELSE Got(previous, r)
    [] tag = "replace" -> ReadValue(r, depth)
    [] tag = "number_xor" -> ReadNumberXor(r, previous)
    [] tag = "integer_difference" -> ReadIntegerDifference(r, previous)
    [] tag \in Range(Modes) -> ReadFloat32(r, tag, before, previous)
    [] tag = "object_patch" /\ previous[1] = "obj" -> ReadObjectPatch(r, before, previous, depth)
    [] tag = "array_patch" /\ previous[1] = "arr" -> ReadArrayPatch(r, before, previous, depth)
    [] tag = "dense_array" /\ previous[1] = "arr" -> ReadDenseArray(r, before, previous, depth)
    [] tag \in {"dense", "dense_packed"} /\ previous[1] = "arr" ->
         ReadFloats(r, before, previous, tag = "dense_packed")
    [] OTHER -> Bad(r)

ReadPatchedValue(r, before, previous, depth) ==
  IF depth > MaxDepth THEN Bad(r)
  ELSE Then(ReadByte(r), LAMBDA tag, s : ReadPatch(tag, s, before, previous, depth))

\* A tick after those read before it in the chunk.
ReadTick(r, done) ==
  IF done = <<>> THEN ReadValue(r, 1)
  ELSE ReadPatchedValue(r, IF Len(done) = 1 THEN Absent ELSE done[Len(done) - 1], Last(done), 1)

ReadTicks(r, count) ==
  Fold(LAMBDA acc, i :
         Then(acc, LAMBDA done, s : Then(ReadTick(s, done), LAMBDA v, t : Got(Append(done, v), t))),
       Got(<<>>, r), Upto(count))

ReadChunk(r) ==
  Then(ReadBytes(r, 2), LAMBDA magic, s :
    Then(ReadVaruint(s), LAMBDA first, t :
      Then(ReadVaruint(t), LAMBDA count, u :
        IF magic # <<"HSRD", 1>> \/ count \notin 1..KeyframeInterval THEN Bad(u)
        ELSE Then(ReadTicks(u, count), LAMBDA ticks, x : Got([first |-> first, ticks |-> ticks], x)))))

\* decode_chunk_semantic_hash: the ticks, when all bytes were read without error.
Undecodable == [first |-> 0, ticks |-> <<>>]

Complete(reading) ==
  IF reading.r.ok /\ reading.r.at = Len(reading.r.bytes) + 1 THEN reading.v ELSE Undecodable

DecodeChunk(bytes) == Complete(ReadChunk(Reader(bytes)))

=============================================================================
