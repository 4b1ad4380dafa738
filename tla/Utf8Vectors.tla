---------------------------- MODULE Utf8Vectors ----------------------------
(***************************************************************************)
(* The UTF-8 encoder of dumps_to_bytes() in each of its builds.            *)
(*                                                                         *)
(* Utf8Text says what bytes are written for a str; here is how a build     *)
(* finds out where a run of characters of one class ends.  Every lane of a *)
(* vector is compared with the limits of the class, by the comparisons     *)
(* that the instruction set has (signed ones on x86, where a number that   *)
(* is not above a limit may be negative; or a saturated subtraction, of    *)
(* which any bit may be set), and the result is searched for the first     *)
(* lane that is marked (any bit, or the sign bits of the bytes alone).     *)
(* The vector is stored whole in the meantime.  What is left at the end of *)
(* the str is read as its last whole vector, shifted, and masked (SSE2,    *)
(* NEON, AVX2), or by a masked load (AVX-512).                             *)
(*                                                                         *)
(* A character is its code point, a byte the code point and which byte of  *)
(* its UTF-8 or of its escape it is.  `raw' is as in Utf8Text.             *)
(***************************************************************************)
EXTENDS LaneMasks

CONSTANT EncodedStrs    \* bound: EncodedStrs[isa][kind], sequences of code points

ASSUME EncodedStrsAssumption == DOMAIN EncodedStrs = Isas

VARIABLES
    encoding,   \* a str: [state, isa, kind, raw, compact], the state one of
                \* "none", "begun", "written"
    source,     \* its code points
    encoded     \* what was stored

encodingVars == <<encoding, source, encoded>>

-----------------------------------------------------------------------------
\* A character.
CodePoints == 0 .. 1114111

ByteCount(v) == CASE v < 128 -> 1 [] v < 2048 -> 2 [] v < 65536 -> 3 [] OTHER -> 4
IsSurrogate(v) == 55296 <= v /\ v <= 57343
MustEscape(raw, v) == ~raw /\ (v < 32 \/ v \in {34, 92})
ControlJump(v) == IF v \in {8, 9, 10, 12, 13, 34, 92} THEN 2 ELSE 6

Utf8Bytes(v, n) == [i \in 1 .. n |-> <<v, i>>]
EscapeBytes(v) == [i \in 1 .. ControlJump(v) |-> <<v, "escape", i>>]

\* What is stored: the bytes, how far the stores reach, the first and the last unit
\* that a vector was loaded from, and whether it goes on.
Output(text, reach, first, last, ok) ==
    [text |-> text, reach |-> reach, first |-> first, last |-> last, ok |-> ok]
NoOutput == Output(<<>>, 0, 1, 1, TRUE)

\* A load of the units `first' to `last', of which nothing is stored yet.
Loaded(first, last) == Output(<<>>, 0, first, last, TRUE)

Undefined == Output(<<"undefined">>, 0, 1, 1, FALSE)

Join(a, b) ==
    IF ~a.ok THEN a
    ELSE Output(a.text \o b.text, Max({a.reach, Len(a.text) + b.reach}),
                Min({a.first, b.first}), Max({a.last, b.last}), b.ok)

\* encode_one_ucs1, 2, 4 and encode_one_*_noescape
EncodeAlone(raw, v) ==
    IF MustEscape(raw, v) THEN Output(EscapeBytes(v), 8, 1, 1, TRUE)
    ELSE IF IsSurrogate(v) THEN Output(<<>>, 0, 1, 1, FALSE)
    ELSE Output(Utf8Bytes(v, ByteCount(v)), ByteCount(v), 1, 1, TRUE)

\* v is in the class of a run of n bytes each.
OfClass(raw, n, v) == ByteCount(v) = n /\ ~MustEscape(raw, v) /\ ~IsSurrogate(v)

\* The first `done' units of a vector, converted to n bytes each, of a store that
\* reaches further; the vector was loaded from `first' to `last'.
ConvertedUnits(n, units, done, reach, first, last) ==
    Output(FlattenSeq([i \in 1 .. done |-> Utf8Bytes(units[i], n)]), reach, first, last, TRUE)

\* Stores as pairs of an offset and a width.
Reach(stores) == Max({w[1] + w[2] : w \in stores})

-----------------------------------------------------------------------------
\* The stores of a vector converted to n bytes a unit; the ones of UCS-1 are the
\* vector itself.
Sse2Ucs2Stores(n) ==
    CASE n = 1 -> {<<0, 8>>} [] n = 2 -> {<<0, 16>>} [] n = 3 -> {<<0, 16>>, <<16, 8>>}
Sse2Ucs4Stores(n) ==
    CASE n = 1 -> {<<0, 4>>} [] n = 2 -> {<<0, 8>>} [] n = 3 -> {<<0, 12>>}
NeonUcs2Stores(n) ==
    CASE n = 1 -> {<<0, 8>>} [] n = 2 -> {<<0, 16>>} [] n = 3 -> {<<0, 12>>, <<12, 12>>}
NeonUcs4Stores(n) ==
    CASE n = 1 -> {<<0, 4>>} [] n = 2 -> {<<0, 8>>} [] n = 3 -> {<<0, 12>>}
Avx2Ucs2Stores(n) ==
    CASE n = 1 -> {<<0, 16>>} [] n = 2 -> {<<0, 32>>}
      [] n = 3 -> {<<0, 16>>, <<16, 8>>, <<24, 16>>, <<40, 8>>}
Avx2Ucs4Stores(n) ==
    CASE n = 1 -> {<<0, 8>>} [] n = 2 -> {<<0, 16>>} [] n = 3 -> {<<0, 16>>, <<16, 8>>}

\* Of AVX-512 the lanes of a masked store.
Avx512Ucs2Stores(n) ==
    CASE n = 1 -> {<<0, 32>>} [] n = 2 -> {<<0, 64>>}
      [] n = 3 -> {<<0, 24>>, <<48, 24>>, <<24, 24>>, <<72, 24>>}
Avx512Ucs4Stores(n) ==
    CASE n = 1 -> {<<0, 16>>} [] n = 2 -> {<<0, 32>>} [] n = 3 -> {<<0, 24>>, <<24, 24>>}

StoresOf(isa, kind, n) ==
    CASE kind = 1 -> {<<0, VectorWidth(isa)>>}
      [] kind = 2 /\ isa \in {"sse2", "sse4"} -> Sse2Ucs2Stores(n)
      [] kind = 4 /\ isa \in {"sse2", "sse4"} -> Sse2Ucs4Stores(n)
      [] kind = 2 /\ isa = "neon" -> NeonUcs2Stores(n)
      [] kind = 4 /\ isa = "neon" -> NeonUcs4Stores(n)
      [] kind = 2 /\ isa = "avx2" -> Avx2Ucs2Stores(n)
      [] kind = 4 /\ isa = "avx2" -> Avx2Ucs4Stores(n)
      [] kind = 2 /\ isa = "avx512" -> Avx512Ucs2Stores(n)
      [] kind = 4 /\ isa = "avx512" -> Avx512Ucs4Stores(n)

-----------------------------------------------------------------------------
\* The whole vectors of a str.

\* How a loop finds the end of a run: the mask of a unit, and whether only its signs
\* are looked at.
Loop(signs, mask) == [signs |-> signs, mask |-> mask]

\* One turn of a loop for runs of n bytes a character, from unit q on: how many
\* units belong to the run, and what was stored.
Turn(isa, kind, n, s, q, loop) ==
    LET lanes == Lanes(isa, kind)
        units == SubSeq(s, q, q + lanes - 1)
        marks == [d \in 0 .. lanes - 1 |-> loop.mask[units[d + 1]]]
        found == Found(marks, loop.signs)
        done == IF NoneMarked(marks) \/ found = {} THEN lanes ELSE Min(found)
    IN  [all |-> NoneMarked(marks),
         done |-> done,
         out |-> IF ~NoneMarked(marks) /\ found = {} THEN Undefined
                 ELSE ConvertedUnits(n, units, done, Reach(StoresOf(isa, kind, n)), q, q + lanes - 1)]

\* The checks that dumps_to_bytes() makes of a vector, each with its loop.  Only
\* x86 up to AVX2 has a movemask.
AsciiInUcs1(isa) ==
    Loop(isa # "neon",
         [v \in CodePoints |-> Flag(v \in {34, 92}) \cup Flag(Above(1, 32, v))])

AsciiInUcs1Raw(isa) ==
    Loop(isa # "neon", [v \in CodePoints |-> Flag(Above(1, 0, v))])

AsciiInUcs2(isa) ==
    Loop(isa # "neon", [v \in CodePoints |->
        Flag(v \in {34, 92}) \cup
        (IF isa \in X86 THEN Flag(Above(2, 32, v)) \cup Flag(Above(2, v, 127))
         ELSE Flag(v < 32) \cup Flag(v > 127))])

AsciiInUcs2Raw(isa) ==
    Loop(isa # "neon", [v \in CodePoints |->
        IF isa \in X86 THEN Flag(Above(2, 0, v)) \cup Flag(Above(2, v, 127))
        ELSE Flag(v < 0) \cup Flag(v > 127)])

\* Mutant: only the comparison with the upper limit is a signed one.
TwoBytesInUcs2Mut(isa) ==
    Loop(isa # "neon",
         [v \in CodePoints |-> Flag(v < 128) \cup Flag(Above(2, v, 2047))])

TwoBytesInUcs2(isa) ==
    Loop(isa # "neon", [v \in CodePoints |->
        IF isa \in X86 \ {"avx512"} THEN Flag(Above(2, 128, v)) \cup Flag(Above(2, v, 2047))
        ELSE Flag(v < 128) \cup Flag(v > 2047)])

\* Not by the signs: a difference is searched for here.
ThreeBytesInUcs2(isa) ==
    Loop(FALSE, [v \in CodePoints |->
        IF isa \in X86 \ {"avx512"}
        THEN SaturatedMinus(2048, v) \cup Flag(Above(2, v, 55295) /\ Above(2, 57344, v))
        ELSE Flag(v < 2048) \cup Flag(v > 55295 /\ v < 57344)])

AsciiInUcs4(isa) ==
    Loop(isa # "neon", [v \in CodePoints |->
        Flag(v \in {34, 92}) \cup Flag(v < 32) \cup Flag(v > 127)])

AsciiInUcs4Raw(isa) ==
    Loop(isa # "neon", [v \in CodePoints |-> Flag(v < 0) \cup Flag(v > 127)])

TwoBytesInUcs4(isa) ==
    Loop(isa # "neon", [v \in CodePoints |-> Flag(v < 128) \cup Flag(v > 2047)])

ThreeBytesInUcs4(isa) ==
    Loop(isa # "neon", [v \in CodePoints |->
        Flag(v < 2048) \cup Flag(v > 55295 /\ v < 57344) \cup Flag(v > 65535)])

\* The loop for runs of n bytes a character.
LoopOf(isa, kind, raw, n) ==
    CASE kind = 1 -> IF raw THEN AsciiInUcs1Raw(isa) ELSE AsciiInUcs1(isa)
      [] kind = 2 /\ n = 1 -> IF raw THEN AsciiInUcs2Raw(isa) ELSE AsciiInUcs2(isa)
      [] kind = 2 /\ n = 2 -> TwoBytesInUcs2(isa)
      [] kind = 2 /\ n = 3 -> ThreeBytesInUcs2(isa)
      [] kind = 4 /\ n = 1 -> IF raw THEN AsciiInUcs4Raw(isa) ELSE AsciiInUcs4(isa)
      [] kind = 4 /\ n = 2 -> TwoBytesInUcs4(isa)
      [] kind = 4 /\ n = 3 -> ThreeBytesInUcs4(isa)

\* Vectors while there are units for one: enter[v] is the loop that is entered at v,
\* 0 to write v alone; rest[q] what is done at the end, less than a vector.
WholeVectors(isa, kind, raw, s, enter, rest) ==
    LET lanes == Lanes(isa, kind)
        from[q \in 1 .. Len(s) + 1, n \in 0 .. 3] ==
            LET turn == Turn(isa, kind, n, s, q, LoopOf(isa, kind, raw, n))
            IN  IF q > Len(s) THEN NoOutput
                ELSE IF q + lanes - 1 > Len(s) THEN rest[q]
                ELSE IF n = 0
                THEN IF enter[s[q]] = 0 THEN Join(EncodeAlone(raw, s[q]), from[q + 1, 0])
                     ELSE from[q, enter[s[q]]]
                ELSE IF turn.all THEN Join(turn.out, from[q + lanes, n])
                ELSE Join(turn.out,
                          Join(EncodeAlone(raw, s[q + turn.done]), from[q + turn.done + 1, 0]))
    IN  from[1, 0]

-----------------------------------------------------------------------------
\* The end of a str, less than a vector: the builds that read its last vector.

\* The 128-bit builds: the vector shifted by what was written of it.
StoreShifted(isa, kind, s, n, len, done) ==
    LET lanes == Lanes(isa, kind)
        start == Len(s) - lanes + 1
    IN  ConvertedUnits(n, ShiftDown(Load(s, start, lanes), lanes - len), done,
                  Reach(StoresOf(isa, kind, n)), start, Len(s))

StoreHalves(kind, s, n, len, done) ==
    LET halves == Halves(kind, s, len)
    IN  ConvertedUnits(n, halves.units, done, Reach(StoresOf("avx2", kind, n)), halves.first, Len(s))

StoreHeadAndTail(kind, s, n, len, done) ==
    LET two == HeadAndTail(kind, s, len)
    IN  ConvertedUnits(n, two.units, done, Len(two.units), two.first, Len(s))

\* AVX2, two bytes from UCS-4: the bytes are shifted.
StoreBytesShifted(s, n, len, done) ==
    StoreShifted("avx2", 4, s, n, len, done)

StoreAvx2Ucs4(s, n, len, done) ==
    IF n = 2 THEN StoreBytesShifted(s, n, len, done) ELSE StoreHalves(4, s, n, len, done)

\* What is left, of which `done' units belong to the run, as each build stores it.
StoreRest(isa, kind, s, n, len, done) ==
    CASE isa # "avx2" -> StoreShifted(isa, kind, s, n, len, done)
      [] isa = "avx2" /\ kind = 1 -> StoreHeadAndTail(1, s, n, len, done)
      [] isa = "avx2" /\ kind = 2 -> StoreHalves(2, s, n, len, done)
      [] isa = "avx2" /\ kind = 4 -> StoreAvx2Ucs4(s, n, len, done)

\* The unit that ended a run.  Where the compiler is told that it cannot be one of
\* the class, it must not be; and what is not ASCII in UCS-1 takes two bytes.
EndOfRun(kind, raw, n, v) ==
    IF kind = 1 /\ raw THEN ConvertedUnits(2, <<v>>, 1, 2, 1, 1)
    ELSE IF OfClass(raw, n, v) THEN Undefined
    ELSE EncodeAlone(raw, v)

\* How the end of a str is looked at: the classes whose mask only the signs are looked
\* at of, the units that are written as characters, and the masks of the others.
End(signs, alone, mask) == [signs |-> signs, alone |-> alone, mask |-> mask]

\* bytes_write_ucs*_trailing but for AVX-512, from unit p on.  The last whole vector
\* is loaded once, and masked anew for what is left; those that are `alone' are written
\* as characters.
LastVector(isa, kind, raw, s, p, end) ==
    LET lanes == Lanes(isa, kind)
        start == Len(s) - lanes + 1
        from[len \in 0 .. Len(s) - p + 1] ==
            LET v == s[Len(s) - len + 1]
                n == IF kind = 1 THEN 1 ELSE ByteCount(v)
                marks == [d \in HighMask(VectorWidth(isa), kind, len) |->
                             end.mask[n, UnitAt(s, start + d)]]
                found == Found(marks, n \in end.signs)
                done == Min(found)
            IN  IF len = 0 THEN NoOutput
                ELSE IF kind # 1 /\ (len = 1 \/ MustEscape(raw, v) \/ end.alone[v])
                THEN Join(EncodeAlone(raw, v), from[len - 1])
                ELSE IF NoneMarked(marks) THEN StoreRest(isa, kind, s, n, len, len)
                ELSE IF found = {} THEN Undefined
                ELSE Join(StoreRest(isa, kind, s, n, len, done - (lanes - len)),
                          Join(EndOfRun(kind, raw, n, UnitAt(s, start + done)),
                               from[lanes - done - 1]))
    IN  Join(Loaded(start, Len(s)), from[Len(s) - p + 1])

\* x86 and UCS-2: no comparison but these; its 3-byte class is no interval of signed
\* numbers, and below it is told by a difference.
NotThreeBytesX86(v) == SaturatedMinus(2048, v) \cup Flag(Above(2, v, 55295) /\ Above(2, 57344, v))

\* UCS-4: a comparison is as good as any, for no code point is negative.
NotOfClassUcs4(raw, n, v) ==
    CASE n = 1 -> (IF raw THEN {} ELSE EscapedLane(v) \cup Flag(v < 32)) \cup Flag(v > 127)
      [] n = 2 -> Flag(v < 128) \cup Flag(v > 2047)
      [] n = 3 -> Flag(v < 2048) \cup Flag(v > 55295 /\ v < 57344) \cup Flag(v > 65535)

FourBytes == [v \in CodePoints |-> ByteCount(v) = 4]

-----------------------------------------------------------------------------
\* SSE2; without SSSE3 no shuffle writes three bytes.
AloneInSse(isa, v) == ByteCount(v) = 4 \/ (isa = "sse2" /\ ByteCount(v) = 3)

SseUcs1Trailing(isa) ==
    End({1}, [v \in CodePoints |-> FALSE],
        [n \in 1 .. 3, v \in CodePoints |-> EscapedLane(v) \cup Flag(Above(1, 32, v))])

SseUcs1RawTrailing(isa) ==
    End({1}, [v \in CodePoints |-> FALSE],
        [n \in 1 .. 3, v \in CodePoints |-> Flag(Above(1, 0, v))])

SseUcs2Trailing(isa) ==
    End({}, [v \in CodePoints |-> AloneInSse(isa, v)],
        [n \in 1 .. 3, v \in CodePoints |->
            CASE n = 1 -> EscapedLane(v) \cup SaturatedMinus(32, v) \cup SaturatedMinus(v, 127)
              [] n = 2 -> SaturatedMinus(128, v) \cup SaturatedMinus(v, 2047)
              [] n = 3 -> NotThreeBytesX86(v)])

SseUcs2RawTrailing(isa) ==
    End({}, [v \in CodePoints |-> AloneInSse(isa, v)],
        [n \in 1 .. 3, v \in CodePoints |->
            CASE n = 1 -> SaturatedMinus(0, v) \cup SaturatedMinus(v, 127)
              [] n = 2 -> SaturatedMinus(128, v) \cup SaturatedMinus(v, 2047)
              [] n = 3 -> NotThreeBytesX86(v)])

SseUcs4Trailing(isa) ==
    End(1 .. 3, [v \in CodePoints |-> AloneInSse(isa, v)],
        [n \in 1 .. 3, v \in CodePoints |-> NotOfClassUcs4(FALSE, n, v)])

SseUcs4RawTrailing(isa) ==
    End(1 .. 3, [v \in CodePoints |-> AloneInSse(isa, v)],
        [n \in 1 .. 3, v \in CodePoints |-> NotOfClassUcs4(TRUE, n, v)])

-----------------------------------------------------------------------------
\* NEON has every comparison, and any bit of a mask is found.
NeonUcs1Trailing(isa) ==
    End({}, [v \in CodePoints |-> FALSE],
        [n \in 1 .. 3, v \in CodePoints |-> EscapedLane(v) \cup Flag(Above(1, 32, v))])

NeonUcs1RawTrailing(isa) ==
    End({}, [v \in CodePoints |-> FALSE],
        [n \in 1 .. 3, v \in CodePoints |-> Flag(v >= 128)])

NeonUcs2Trailing(isa) ==
    End({}, FourBytes,
        [n \in 1 .. 3, v \in CodePoints |->
            CASE n = 1 -> EscapedLane(v) \cup Flag(32 > v) \cup Flag(v > 127)
              [] n = 2 -> Flag(128 > v) \cup Flag(v > 2047)
              [] n = 3 -> Flag(2048 > v) \cup Flag(Above(2, v, 55295) /\ Above(2, 57344, v))])

NeonUcs2RawTrailing(isa) ==
    End({}, FourBytes,
        [n \in 1 .. 3, v \in CodePoints |->
            CASE n = 1 -> Flag(v >= 128)
              [] n = 2 -> Flag(128 > v) \cup Flag(v >= 2048)
              [] n = 3 -> Flag(2048 > v) \cup Flag(Above(2, v, 55295) /\ Above(2, 57344, v))])

NeonUcs4Trailing(isa) ==
    End({}, FourBytes,
        [n \in 1 .. 3, v \in CodePoints |-> NotOfClassUcs4(FALSE, n, v)])

NeonUcs4RawTrailing(isa) ==
    End({}, FourBytes,
        [n \in 1 .. 3, v \in CodePoints |-> NotOfClassUcs4(TRUE, n, v)])

-----------------------------------------------------------------------------
\* AVX2 shifts no vector across its halves.
Avx2Ucs1Trailing(isa) ==
    End({1}, [v \in CodePoints |-> FALSE],
        [n \in 1 .. 3, v \in CodePoints |-> EscapedLane(v) \cup Flag(Above(1, 32, v))])

Avx2Ucs1RawTrailing(isa) ==
    End({1}, [v \in CodePoints |-> FALSE],
        [n \in 1 .. 3, v \in CodePoints |-> Flag(Above(1, 0, v))])

Avx2Ucs2Trailing(isa) ==
    End({1, 2}, FourBytes,
        [n \in 1 .. 3, v \in CodePoints |->
            CASE n = 1 -> EscapedLane(v) \cup Flag(Above(2, 32, v)) \cup Flag(Above(2, v, 127))
              [] n = 2 -> Flag(Above(2, 128, v)) \cup Flag(Above(2, v, 2047))
              [] n = 3 -> NotThreeBytesX86(v)])

Avx2Ucs2RawTrailing(isa) ==
    End({1, 2}, FourBytes,
        [n \in 1 .. 3, v \in CodePoints |->
            CASE n = 1 -> Flag(Above(2, 0, v)) \cup Flag(Above(2, v, 127))
              [] n = 2 -> Flag(Above(2, 128, v)) \cup Flag(Above(2, v, 2047))
              [] n = 3 -> NotThreeBytesX86(v)])

Avx2Ucs4Trailing(isa) ==
    End(1 .. 3, FourBytes,
        [n \in 1 .. 3, v \in CodePoints |-> NotOfClassUcs4(FALSE, n, v)])

Avx2Ucs4RawTrailing(isa) ==
    End(1 .. 3, FourBytes,
        [n \in 1 .. 3, v \in CodePoints |-> NotOfClassUcs4(TRUE, n, v)])

-----------------------------------------------------------------------------
\* m >> (done_count + 1)
Remaining(marked, done) == {d - done - 1 : d \in {e \in marked : e > done}}

\* bytes_write_ucs*_trailing of AVX-512.  `marked' are the lanes of the mask, which
\* goes on to be used, shifted, if the class of the next character is the same; in a
\* run of ASCII it is the character written alone whose class is looked at, so that
\* there the mask is made again.
MaskedLoads(kind, raw, s, p, mask) ==
    LET Fresh(n, len) == {d \in 0 .. len - 1 : mask[n, s[Len(s) - len + 1 + d]] # {}}
        Store(n, len, done) ==
            ConvertedUnits(n, Load(s, Len(s) - len + 1, Lanes("avx512", kind)), done,
                      Reach(StoresOf("avx512", kind, n)), Len(s) - len + 1, Len(s))
        \* n is 0 where the class is chosen, and `single' if one unit is written alone there
        from[len \in 0 .. Len(s) - p + 1, n \in 0 .. 3, single \in BOOLEAN,
             marked \in SUBSET (0 .. Len(s) - p)] ==
            LET v == s[Len(s) - len + 1]
                class == IF kind = 1 THEN 1 ELSE ByteCount(v)
                done == Min(marked)
                rest == len - done - 1
                ended == s[Len(s) - len + 1 + done]
                next == s[Len(s) - rest + 1]
                same == CASE kind = 1 -> TRUE
                          [] kind # 1 /\ n = 1 -> OfClass(raw, 1, ended)
                          [] kind # 1 /\ n > 1 -> OfClass(raw, n, next)
            IN  IF len = 0 THEN NoOutput
                ELSE IF n = 0
                THEN IF kind # 1 /\ ((len = 1 /\ single) \/ MustEscape(raw, v) \/ class = 4)
                     THEN Join(EncodeAlone(raw, v), from[len - 1, 0, TRUE, {}])
                     ELSE from[len, class, FALSE, Fresh(class, len)]
                ELSE IF marked = {} THEN Store(n, len, len)
                ELSE Join(Store(n, len, done), Join(EndOfRun(kind, raw, n, ended),
                         IF rest > 0 /\ same THEN from[rest, n, FALSE, Remaining(marked, done)]
                         ELSE from[rest, 0, FALSE, {}]))
    IN  from[Len(s) - p + 1, 0, TRUE, {}]

Avx512Ucs1Trailing(isa) ==
    [n \in 1 .. 3, v \in CodePoints |-> EscapedLane(v) \cup Flag(Above(1, 32, v))]

Avx512Ucs1RawTrailing(isa) ==
    [n \in 1 .. 3, v \in CodePoints |-> Flag(Above(1, 0, v))]

Avx512Ucs2Trailing(isa) ==
    [n \in 1 .. 3, v \in CodePoints |->
        CASE n = 1 -> EscapedLane(v) \cup Flag(32 > v) \cup Flag(v > 127)
          [] n = 2 -> Flag(128 > v) \cup Flag(v > 2047)
          [] n = 3 -> Flag(2048 > v) \cup Flag(v > 55295 /\ 57344 > v)]

Avx512Ucs2RawTrailing(isa) ==
    [n \in 1 .. 3, v \in CodePoints |->
        CASE n = 1 -> Flag(v >= 128)
          [] n = 2 -> Flag(128 > v) \cup Flag(v > 2047)
          [] n = 3 -> Flag(2048 > v) \cup Flag(v > 55295 /\ 57344 > v)]

Avx512Ucs4Trailing(isa) ==
    [n \in 1 .. 3, v \in CodePoints |-> NotOfClassUcs4(FALSE, n, v)]

Avx512Ucs4RawTrailing(isa) ==
    [n \in 1 .. 3, v \in CodePoints |-> NotOfClassUcs4(TRUE, n, v)]

-----------------------------------------------------------------------------
\* bytes_write_ucs1_trailing, ... of the builds
EndOf(isa, kind, raw) ==
    CASE isa \in {"sse2", "sse4"} /\ kind = 1 -> IF raw THEN SseUcs1RawTrailing(isa) ELSE SseUcs1Trailing(isa)
      [] isa \in {"sse2", "sse4"} /\ kind = 2 -> IF raw THEN SseUcs2RawTrailing(isa) ELSE SseUcs2Trailing(isa)
      [] isa \in {"sse2", "sse4"} /\ kind = 4 -> IF raw THEN SseUcs4RawTrailing(isa) ELSE SseUcs4Trailing(isa)
      [] isa = "neon" /\ kind = 1 -> IF raw THEN NeonUcs1RawTrailing(isa) ELSE NeonUcs1Trailing(isa)
      [] isa = "neon" /\ kind = 2 -> IF raw THEN NeonUcs2RawTrailing(isa) ELSE NeonUcs2Trailing(isa)
      [] isa = "neon" /\ kind = 4 -> IF raw THEN NeonUcs4RawTrailing(isa) ELSE NeonUcs4Trailing(isa)
      [] isa = "avx2" /\ kind = 1 -> IF raw THEN Avx2Ucs1RawTrailing(isa) ELSE Avx2Ucs1Trailing(isa)
      [] isa = "avx2" /\ kind = 2 -> IF raw THEN Avx2Ucs2RawTrailing(isa) ELSE Avx2Ucs2Trailing(isa)
      [] isa = "avx2" /\ kind = 4 -> IF raw THEN Avx2Ucs4RawTrailing(isa) ELSE Avx2Ucs4Trailing(isa)

MaskOf(isa, kind, raw) ==
    CASE kind = 1 -> IF raw THEN Avx512Ucs1RawTrailing(isa) ELSE Avx512Ucs1Trailing(isa)
      [] kind = 2 -> IF raw THEN Avx512Ucs2RawTrailing(isa) ELSE Avx512Ucs2Trailing(isa)
      [] kind = 4 -> IF raw THEN Avx512Ucs4RawTrailing(isa) ELSE Avx512Ucs4Trailing(isa)

Trailing(isa, kind, raw, s, p) ==
    IF isa = "avx512" THEN MaskedLoads(kind, raw, s, p, MaskOf(isa, kind, raw))
    ELSE LastVector(isa, kind, raw, s, p, EndOf(isa, kind, raw))

\* bytes_write_ucs1, 2 and 4 and their raw variants; rest[q] is the trailing from q on.
WriteUcs1(isa, s, rest) ==
    WholeVectors(isa, 1, FALSE, s,
        [v \in CodePoints |-> IF v < 128 /\ ~MustEscape(FALSE, v) THEN 1 ELSE 0], rest)

WriteUcs1Raw(isa, s, rest) ==
    WholeVectors(isa, 1, TRUE, s, [v \in CodePoints |-> IF v < 128 THEN 1 ELSE 0], rest)

\* Three bytes have a loop where the vector is wide or can be shuffled.
Loops(isa) == IF isa \in {"sse4", "avx2", "avx512"} THEN 1 .. 3 ELSE 1 .. 2
EnterLoop(isa, v) == IF ByteCount(v) \in Loops(isa) THEN ByteCount(v) ELSE 0

WriteUcs2(isa, s, rest) ==
    WholeVectors(isa, 2, FALSE, s, [v \in CodePoints |-> EnterLoop(isa, v)], rest)

WriteUcs2Raw(isa, s, rest) ==
    WholeVectors(isa, 2, TRUE, s, [v \in CodePoints |-> EnterLoop(isa, v)], rest)

WriteUcs4(isa, s, rest) ==
    WholeVectors(isa, 4, FALSE, s, [v \in CodePoints |-> EnterLoop(isa, v)], rest)

WriteUcs4Raw(isa, s, rest) ==
    WholeVectors(isa, 4, TRUE, s, [v \in CodePoints |-> EnterLoop(isa, v)], rest)

\* encode_bytes_ucs1_scalar and the others
WriteScalar(raw, s) ==
    LET from[q \in 1 .. Len(s) + 1] ==
            IF q > Len(s) THEN NoOutput ELSE Join(EncodeAlone(raw, s[q]), from[q + 1])
    IN  from[1]

\* Mutant: 16 bytes are thought to be enough, as the stores of AVX2 load them; the
\* mask is made of a whole vector.
ByCharactersMut(isa, kind, compact, s) == isa # "avx512" /\ ~compact /\ Len(s) < 16 \div kind

\* A str that is not compact has its characters in a block of their own, in front of
\* which nothing can be read.
ByCharacters(isa, kind, compact, s) == isa # "avx512" /\ ~compact /\ Len(s) < Lanes(isa, kind)

\* bytes_write_ucs*_str, _key and the raw ones
WriteStr(isa, kind, raw, compact, s) ==
    IF ByCharacters(isa, kind, compact, s) THEN WriteScalar(raw, s)
    ELSE LET rest == [q \in 1 .. Len(s) |-> Trailing(isa, kind, raw, s, q)]
         IN  CASE kind = 1 -> IF raw THEN WriteUcs1Raw(isa, s, rest) ELSE WriteUcs1(isa, s, rest)
               [] kind = 2 -> IF raw THEN WriteUcs2Raw(isa, s, rest) ELSE WriteUcs2(isa, s, rest)
               [] kind = 4 -> IF raw THEN WriteUcs4Raw(isa, s, rest) ELSE WriteUcs4(isa, s, rest)

-----------------------------------------------------------------------------
\* Bytes of the widest class that a trailing vector of the kind is stored as.
Widest(isa, kind) ==
    CASE kind = 1 -> VectorWidth(isa)
      [] kind = 2 -> 3 * (VectorWidth(isa) \div 2)
      [] kind = 4 -> 3 * (VectorWidth(isa) \div 4)

\* What write_cache_impl allocates.
CacheRoom(isa, kind, len) ==
    LET most == CASE kind = 1 -> 2 [] kind = 2 -> 3 [] kind = 4 -> 4
    IN  most * len + Widest(isa, kind) - most

\* What b_buf_apd_str_rsv_idt and b_buf_apd_key_rsv_idt reserve.
JsonStrRoom(isa, len) == 1 + 6 * len + Max({16 - 6} \cup {Widest(isa, k) - 6 : k \in {1, 2, 4}})

\* What is read in front of the characters belongs to the str.
Before(kind, compact) == IF compact THEN HeaderBytes \div kind ELSE 0

-----------------------------------------------------------------------------
Places == [state : {"begun"}, isa : Isas, kind : {1, 2, 4}, raw : BOOLEAN, compact : BOOLEAN]

NoEncoding ==
    /\ encoding = [state |-> "none", isa |-> "sse2", kind |-> 1, raw |-> FALSE, compact |-> TRUE]
    /\ source = <<>> /\ encoded = NoOutput

EncodingInit == encoding \in Places /\ source = <<>> /\ encoded = NoOutput

EncodingNext ==
    /\ encoding.state = "begun"
    /\ \E s \in EncodedStrs[encoding.isa][encoding.kind] :
        /\ source' = s
        /\ encoded' = WriteStr(encoding.isa, encoding.kind, encoding.raw, encoding.compact, s)
    /\ encoding' = [encoding EXCEPT !.state = "written"]

-----------------------------------------------------------------------------
\* A surrogate ends the encoding.
Encodable(s) ==
    LET bad == {i \in DOMAIN s : IsSurrogate(s[i])}
    IN  IF bad = {} THEN s ELSE SubSeq(s, 1, Min(bad) - 1)

TextOf(raw, s) ==
    FlattenSeq([i \in DOMAIN s |-> IF MustEscape(raw, s[i]) THEN EscapeBytes(s[i])
                                   ELSE Utf8Bytes(s[i], ByteCount(s[i]))])

\* In every build, whatever comparison its vectors make and however the result is
\* searched, a str is written as its characters one by one would be, up to the first
\* surrogate, which no run may take up.
EncodedIsTheText ==
    encoding.state = "written" =>
        /\ encoded.text = TextOf(encoding.raw, Encodable(source))
        /\ encoded.ok = (Encodable(source) = source)

\* No build stores behind what is reserved for a str of the build, nor loads a vector,
\* be it to store of it or to mask what is to be stored, from outside of the str's own
\* memory.
EncodedFits ==
    encoding.state = "written" =>
        /\ IF encoding.raw THEN encoded.reach <= CacheRoom(encoding.isa, encoding.kind, Len(source))
           ELSE 1 + Max({encoded.reach, Len(encoded.text) + 2}) <= JsonStrRoom(encoding.isa, Len(source))
        /\ encoded.first >= 1 - Before(encoding.kind, encoding.compact)
        /\ encoded.last <= Len(source)
=============================================================================
