----------------------------- MODULE StrVectors -----------------------------
(***************************************************************************)
(* What a str document is read by in each of its builds: decode_str and    *)
(* decode_str_with_escape with the vectors they load, do_decode_escape,    *)
(* the words, and fast_skip_spaces.                                        *)
(*                                                                         *)
(* StringDecode has the same string with its buffer, and knows characters  *)
(* by their width alone; here they are code points, and every load is a    *)
(* step: four vectors, one, or the units behind the last whole vector.     *)
(* What of a vector lies behind the end of the string, in front of it or   *)
(* in front of the document must not be taken for a part of it.  A         *)
(* document is a compact str: its header is in front of it, and a zero     *)
(* behind it.                                                              *)
(***************************************************************************)
EXTENDS LaneMasks

CONSTANTS
    StrDocuments,   \* bound: for vectors of n lanes StrDocuments[n], from the first quote on
    Words,          \* bound: documents with something like a word
    Spaces,         \* bound: documents that start with a space
    HeaderUnits     \* bound: the units in front of a document

ASSUME StrDocumentsAssumption ==
    \A isa \in Isas, kind \in {1, 2, 4} : Lanes(isa, kind) \in DOMAIN StrDocuments

VARIABLES
    reading,    \* the call: its state, the document's kind, and whether it is a key
    memory,     \* units of the header, and the document
    cursor,     \* cur or src
    chars,      \* the characters in front of it
    copying,    \* [width, ascii, escape] of decode_str_with_escape; width 0: not yet
    seen,       \* the largest lane of maxvec
    loads       \* first and last unit that was loaded

strVars == <<reading, memory, cursor, chars, copying, seen, loads>>

Lane == Lanes(reading.isa, reading.kind)
Left4 == 4 * Lane
Remain == Len(memory) + 1 - cursor

NotCopying == [width |-> 0, ascii |-> TRUE, escape |-> 0]

NoReading ==
    /\ reading = [state |-> "none", isa |-> "sse4", kind |-> 1, ascii |-> TRUE, key |-> FALSE]
    /\ memory = <<>> /\ cursor = 1 /\ chars = <<>> /\ copying = NotCopying /\ seen = 0
    /\ loads = [first |-> 1, last |-> 0]

WidthOf(v) == IF v < 256 THEN 1 ELSE IF v < 65536 THEN 2 ELSE 4

\* How wide a str of these characters is; 0 is for ASCII.
KindOfText(s) ==
    LET most == Max({0} \cup Range(s))
    IN  IF most < 128 THEN 0 ELSE WidthOf(most)

\* What is read, behind as much of the header as a vector.
InMemory(d, unit) ==
    /\ KindOfText(d) = IF reading.ascii THEN 0 ELSE reading.kind
    /\ memory = [i \in 1 .. Lane |-> unit] \o d
    /\ loads = [first |-> Lane + 1, last |-> 0]

StrInit ==
    /\ chars = <<>> /\ copying = NotCopying /\ seen = 0
    /\ \E isa \in Isas, kind \in {1, 2, 4}, ascii \in BOOLEAN, key \in BOOLEAN :
          /\ ascii => kind = 1
          /\ \/ /\ reading = [state |-> "string", isa |-> isa, kind |-> kind, ascii |-> ascii, key |-> key]
                /\ \E d \in StrDocuments[Lane], unit \in HeaderUnits : InMemory(d, unit)
                /\ cursor = Lane + 2
             \/ /\ reading = [state |-> "word", isa |-> isa, kind |-> kind, ascii |-> ascii, key |-> FALSE]
                /\ ~key /\ \E d \in Words : InMemory(d, 0)
                /\ cursor = Lane + 1
             \/ /\ reading = [state |-> "spaces", isa |-> isa, kind |-> kind, ascii |-> ascii, key |-> FALSE]
                /\ ~key /\ \E d \in Spaces : InMemory(d, 0)
                /\ cursor = Lane + 1

-----------------------------------------------------------------------------
\* Escapes.

\* What do_decode_escape returns; 0 is the size of an error.
Escape(val, size) == [val |-> val, size |-> size]
EscapeError == Escape(0, 0)

\* The characters behind the backslash, and what they stand for
ShortEscape == (34 :> 34) @@ (92 :> 92) @@ (47 :> 47) @@ (98 :> 8) @@ (102 :> 12)
                @@ (110 :> 10) @@ (114 :> 13) @@ (116 :> 9)

\* hex_conv_table, 240 if there is no such digit.
HexConvTable(v) ==
    CASE v \in 48 .. 57 -> v - 48
      [] v \in 65 .. 70 -> v - 55
      [] v \in 97 .. 102 -> v - 87
      [] OTHER -> 240

\* Mutant: a unit that is not a byte is taken for its lower one.
VerifyEscapeHexMut(kind, s, q) == q + 4 <= Len(s) + 1

\* verify_escape_hex of the four units at q: the table has 256 entries.
VerifyEscapeHex(kind, s, q) ==
    /\ q + 4 <= Len(s) + 1
    /\ kind # 1 => \A i \in 0 .. 3 : UnitAt(s, q + i) < 256

\* to_hex; a nibble that is set in the table means that one is no digit.
ToHex(s, q) ==
    LET c == [i \in 0 .. 3 |-> HexConvTable(UnitAt(s, q + i) % 256)]
    IN  [ok |-> \A i \in 0 .. 3 : c[i] < 16,
         val |-> 4096 * c[0] + 256 * c[1] + 16 * c[2] + c[3]]

HexAt(kind, s, q) == VerifyEscapeHex(kind, s, q) /\ ToHex(s, q).ok

\* do_decode_escape of the backslash at p
DecodeEscape(kind, s, p) ==
    LET c == UnitAt(s, p + 1)
        hi == ToHex(s, p + 2).val
        lo == ToHex(s, p + 8).val
    IN  IF c \in DOMAIN ShortEscape THEN Escape(ShortEscape[c], 2)
        ELSE IF c # 117 \/ ~HexAt(kind, s, p + 2) THEN EscapeError
        ELSE IF hi \div 2048 # 27 THEN Escape(hi, 6)
        ELSE IF hi \div 1024 = 54 /\ p + 12 <= Len(s) + 1
                /\ UnitAt(s, p + 6) = 92 /\ UnitAt(s, p + 7) = 117
                /\ HexAt(kind, s, p + 8) /\ lo \div 1024 = 55
        THEN Escape(65536 + 1024 * (hi % 1024) + (lo % 1024), 12)
        ELSE EscapeError

-----------------------------------------------------------------------------
\* Loads.

\* get_escape_anymask of a vector
Marks(vec) ==
    [d \in 0 .. Len(vec) - 1 |-> EscapeMask(reading.isa, reading.kind, vec[d + 1])]

\* low_mask
LowMask(vec, n) == [d \in 1 .. Len(vec) |-> IF d <= n THEN vec[d] ELSE 0]

\* Four vectors, or one.
Vectors4(n) == [k \in 1 .. n |-> Load(memory, cursor + (k - 1) * Lane, Lane)]

\* escape_anymask_to_done_count and joined4_: the vector with the first mark, and the
\* lane in it.
FirstMark(masks) ==
    LET k == Min({j \in DOMAIN masks : ~NoneMarked(masks[j])})
    IN  [vector |-> k, lane |-> Min(Found(masks[k], FALSE))]

\* _track_max: the vectors in front of the mark, and the lanes in front of it.
\* Mutant: of its vector all lanes.
LargestBeforeMut(vecs, k, lane) == Max({seen} \cup UNION {Range(vecs[j]) : j \in 1 .. k})

LargestBefore(vecs, k, lane) ==
    Max({seen} \cup UNION {Range(vecs[j]) : j \in 1 .. k - 1} \cup Range(LowMask(vecs[k], lane)))

LoadsUnits(first, last) ==
    loads' = [first |-> Min({first, loads.first}), last |-> Max({last, loads.last})]

\* An ASCII document has no maxvec.
Tracked(largest) == seen' = IF reading.ascii THEN 0 ELSE largest

\* run is what was read in front of p; the string goes on there.
GoesOn(run, p) ==
    /\ chars' = chars \o run /\ cursor' = p
    /\ UNCHANGED <<reading, copying>>

Fails(p) ==
    /\ reading' = [reading EXCEPT !.state = "failed"] /\ cursor' = p
    /\ UNCHANGED <<chars, copying>>

\* decode_str_with_escape, process_escape_*: the buffer gets as wide as the escape.
Widen(val) ==
    copying' = [width |-> Max({copying.width, reading.kind, WidthOf(val)}),
                ascii |-> copying.ascii /\ val < 128,
                escape |-> Max({copying.escape, val})]

\* The unit at p stopped the run.
Stops(run, p) ==
    LET e == DecodeEscape(reading.kind, memory, p)
    IN  CASE UnitAt(memory, p) = 34 ->
                /\ reading' = [reading EXCEPT !.state = "done"]
                /\ chars' = chars \o run /\ cursor' = p + 1
                /\ UNCHANGED copying
          [] UnitAt(memory, p) = 92 /\ e.size > 0 ->
                /\ chars' = chars \o run \o <<e.val>> /\ cursor' = p + e.size
                /\ Widen(e.val)
                /\ UNCHANGED reading
          [] OTHER -> Fails(p)

\* n vectors.
ReadVectors(n) ==
    LET vecs == Vectors4(n)
        masks == [k \in 1 .. n |-> Marks(vecs[k])]
        mark == FirstMark(masks)
        done == (mark.vector - 1) * Lane + mark.lane
    IN  /\ IF \A k \in 1 .. n : NoneMarked(masks[k])
           THEN /\ GoesOn(FlattenSeq(vecs), cursor + n * Lane)
                /\ Tracked(LargestBefore(vecs, n, Lane))
           ELSE /\ Stops(SubSeq(FlattenSeq(vecs), 1, done), cursor + done)
                /\ Tracked(LargestBefore(vecs, mark.vector, mark.lane))
        /\ LoadsUnits(cursor, cursor + n * Lane - 1)

\* CAN_LOOP4; a key is scanned by single vectors, and copied by four.
ReadLoop4 ==
    /\ reading.state = "string" /\ Remain >= Left4
    /\ ~reading.key \/ copying.width # 0
    /\ ReadVectors(4)
    /\ UNCHANGED memory

\* CAN_LOOP
ReadLoop ==
    /\ reading.state = "string" /\ Remain >= Lane
    /\ Remain < Left4 \/ (reading.key /\ copying.width = 0)
    /\ ReadVectors(1)
    /\ UNCHANGED memory

\* _decode_str_trailing_read_src_impl: the lanes, and which of them are looked at.
\* Mutant: the lanes in front of the units, or behind them, are looked at too.
LookedAtMut(isa, kind, rest) == 0 .. Lanes(isa, kind) - 1

LookedAt(isa, kind, rest) ==
    IF isa = "avx2" THEN HighMask(VectorWidth(isa), kind, rest) ELSE 0 .. rest - 1

LastUnits ==
    LET start == Len(memory) - Lane + 1
        back == Load(memory, start, Lane)
    IN  CASE reading.isa = "avx512" ->
                [vec |-> LowMask(Load(memory, cursor, Lane), Remain), first |-> cursor]
          [] reading.isa = "avx2" ->
                [vec |-> [d \in 1 .. Lane |->
                             IF d - 1 \in HighMask(32, reading.kind, Remain) THEN back[d] ELSE 0],
                 first |-> start]
          [] reading.isa \in {"sse4", "neon"} -> [vec |-> ShiftDown(back, Lane - Remain), first |-> start]

\* What the copy is made of: the vector itself, by AVX2 two halves.
CopiedUnits(last) ==
    CASE reading.isa # "avx2" -> last
      [] copying.width = reading.kind -> HeadAndTail(reading.kind, memory, Remain)
      [] OTHER -> Halves(reading.kind, memory, Remain)

\* _decode_str_trailing_decoder_impl; without a copy the text is still in the document.
ReadTrailing ==
    LET last == LastUnits
        looked == LookedAt(reading.isa, reading.kind, Remain)
        marked == {d \in Found(Marks(last.vec), FALSE) : d \in looked}
        lane == Min(marked)
        done == IF reading.isa = "avx2" THEN lane - (Lane - Remain) ELSE lane
        stored == IF copying.width = 0 THEN [units |-> SubSeq(memory, cursor, Len(memory)), first |-> cursor]
                  ELSE IF reading.isa # "avx2" THEN [units |-> last.vec, first |-> last.first]
                  ELSE CopiedUnits(last)
    IN  /\ reading.state = "string" /\ 0 < Remain /\ Remain < Lane
        /\ IF marked = {}
           THEN Fails(cursor + Lane) /\ UNCHANGED seen
           ELSE /\ Stops(SubSeq(stored.units, 1, done), cursor + done)
                /\ Tracked(LargestBefore(<<last.vec>>, 1, lane))
        /\ LoadsUnits(Min({last.first, stored.first}), Len(memory))
        /\ UNCHANGED memory

\* "Unexpected end of string"
ReadPastEnd ==
    /\ reading.state = "string" /\ Remain = 0
    /\ Fails(cursor)
    /\ UNCHANGED <<memory, seen, loads>>

-----------------------------------------------------------------------------
\* checkmax: no lane is above the limit.
CheckMax(isa, kind, largest, limit) ==
    CASE isa \in {"neon", "avx512"} -> ~(largest > limit)
      [] isa \in {"sse4", "avx2"} /\ kind < 4 -> SaturatedMinus(largest, limit) = {}
      [] isa \in {"sse4", "avx2"} /\ kind = 4 -> ~Above(4, largest, limit)

\* 0 is for ASCII; a str that is as wide as the document is made as small as can be.
LimitsKept(call, largest) == {limit \in {127, 255, 65535} : CheckMax(call.isa, call.kind, largest, limit)}

NarrowestKind(kind, fits) ==
    IF kind = 4 /\ 65535 \notin fits THEN 4
    ELSE IF kind >= 2 /\ 255 \notin fits THEN 2
    ELSE IF 127 \notin fits THEN 1
    ELSE 0

\* make_unicode_from_src
KindOfSource(call, largest) ==
    IF call.ascii THEN 0 ELSE NarrowestKind(call.kind, LimitsKept(call, largest))

\* done_ucs1 and the others: neither a vector nor an escape may need it.
KindOfCopy(call, copy, largest) ==
    IF copy.width > call.kind THEN copy.width
    ELSE IF call.ascii THEN (IF copy.ascii THEN 0 ELSE 1)
    ELSE NarrowestKind(call.kind, {limit \in LimitsKept(call, largest) : copy.escape <= limit})

KindOf(call, copy, largest) ==
    IF copy.width = 0 THEN KindOfSource(call, largest) ELSE KindOfCopy(call, copy, largest)

-----------------------------------------------------------------------------
\* Words.  Those that are compared with units are in lower case, of the two others
\* the bit of the case is masked out of each unit first.
WordTrue == <<116, 114, 117, 101>>
WordFalse == <<97, 108, 115, 101>>
WordNull == <<110, 117, 108, 108>>
WordInf == <<73, 78, 70, 73, 78, 73, 84, 89>>
WordNan == <<78, 65, 78>>

WithoutCase(v) == IF (v \div 32) % 2 = 1 THEN v - 32 ELSE v

Spelled4(s, p, word) == Load(s, p, 4) = word
SpelledAnyCase(s, p, word) == [i \in DOMAIN word |-> WithoutCase(UnitAt(s, p + i - 1))] = word

\* A result of _read_true and the others: how long the word is, 0 if it is not there,
\* and how many units are loaded.
ReadTrue(s, p) ==
    IF p + 4 > Len(s) + 1 THEN <<0, 0>> ELSE <<IF Spelled4(s, p, WordTrue) THEN 4 ELSE 0, 4>>

\* One unit more is compared than is there for sure.
ReadFalse(s, p) ==
    IF p + 4 > Len(s) + 1 THEN <<0, 0>> ELSE <<IF Spelled4(s, p + 1, WordFalse) THEN 5 ELSE 0, 5>>

ReadNull(s, p) ==
    IF p + 4 > Len(s) + 1 THEN <<0, 0>> ELSE <<IF Spelled4(s, p, WordNull) THEN 4 ELSE 0, 4>>

ReadInf(s, p) ==
    IF p + 8 > Len(s) + 1 THEN <<0, 0>> ELSE <<IF SpelledAnyCase(s, p, WordInf) THEN 8 ELSE 0, 8>>

ReadNan(s, p) ==
    IF p + 3 > Len(s) + 1 THEN <<0, 0>> ELSE <<IF SpelledAnyCase(s, p, WordNan) THEN 3 ELSE 0, 4>>

\* One after the other, until one is there.
Either(a, b) == <<IF a[1] > 0 THEN a[1] ELSE b[1], IF a[1] > 0 THEN a[2] ELSE Max({a[2], b[2]})>>

\* loads_root_single at a word
ReadAnyWord(s, p) ==
    CASE UnitAt(s, p) = 116 -> ReadTrue(s, p)
      [] UnitAt(s, p) = 102 -> ReadFalse(s, p)
      [] UnitAt(s, p) = 110 -> Either(ReadNull(s, p), ReadNan(s, p))
      [] OTHER -> Either(ReadInf(s, p), ReadNan(s, p))

MatchWord ==
    LET word == ReadAnyWord(memory, cursor)
    IN  /\ reading.state = "word"
        /\ reading' = [reading EXCEPT !.state = IF word[1] > 0 THEN "matched" ELSE "failed"]
        /\ cursor' = cursor + word[1]
        /\ LoadsUnits(cursor, cursor + word[2] - 1)
        /\ UNCHANGED <<memory, chars, copying, seen>>

-----------------------------------------------------------------------------
\* fast_skip_spaces: whole vectors while there is another unit behind them, and then
\* two by two.
SkipSpaces(s, start, lanes) ==
    LET pairs[p \in start .. Len(s) + 1] ==
            IF p + 2 <= Len(s) + 1 /\ s[p] = 32 /\ s[p + 1] = 32 THEN pairs[p + 2]
            ELSE IF UnitAt(s, p) = 32 THEN p + 1 ELSE p
        from[p \in start .. Len(s) + 1] ==
            LET other == {d \in 0 .. lanes - 1 : s[p + d] # 32}
            IN  IF p >= Len(s) + 1 - lanes THEN pairs[p]
                ELSE IF other = {} THEN from[p + lanes]
                ELSE p + Min(other)
    IN  from[start]

SkipAllSpaces ==
    /\ reading.state = "spaces"
    /\ reading' = [reading EXCEPT !.state = "skipped"]
    /\ cursor' = SkipSpaces(memory, cursor, Lane)
    /\ LoadsUnits(cursor, cursor')
    /\ UNCHANGED <<memory, chars, copying, seen>>

StrNext ==
    \/ ReadLoop4 \/ ReadLoop \/ ReadTrailing \/ ReadPastEnd
    \/ MatchWord \/ SkipAllSpaces

-----------------------------------------------------------------------------
(* What JSON says that a string is, character by character. *)

IsHex(v) == v \in 48 .. 57 \cup 65 .. 70 \cup 97 .. 102
HexDigit(v) == IF v < 58 THEN v - 48 ELSE (v % 32) + 9

\* The value of \uXXXX at p, or one that no character has.
CodeUnit(s, p) ==
    IF p + 5 <= Len(s) /\ s[p] = 92 /\ s[p + 1] = 117 /\ \A i \in 2 .. 5 : IsHex(s[p + i])
    THEN FoldLeft(LAMBDA v, i : 16 * v + HexDigit(s[p + i]), 0, <<2, 3, 4, 5>>)
    ELSE 65536

\* The characters from p up to the next quote, and whether there is one.
TextFrom(s, start) ==
    LET go[p \in start .. Len(s) + 1] ==
            LET special == {i \in p .. Len(s) : s[i] < 32 \/ s[i] \in {34, 92}}
                q == Min(special)
                unit == CodeUnit(s, q)
                pair == CodeUnit(s, q + 6)
                Then(val, next) == [go[next] EXCEPT !.text = SubSeq(s, p, q - 1) \o <<val>> \o @]
            IN  IF special = {} \/ s[q] < 32 THEN [valid |-> FALSE, text |-> <<>>, next |-> 0]
                ELSE IF s[q] = 34 THEN [valid |-> TRUE, text |-> SubSeq(s, p, q - 1), next |-> q + 1]
                ELSE IF UnitAt(s, q + 1) \in DOMAIN ShortEscape THEN Then(ShortEscape[s[q + 1]], q + 2)
                ELSE IF unit \notin 55296 .. 57343 /\ unit < 65536 THEN Then(unit, q + 6)
                ELSE IF unit \in 55296 .. 56319 /\ pair \in 56320 .. 57343
                THEN Then(65536 + 1024 * (unit - 55296) + pair - 56320, q + 12)
                ELSE [valid |-> FALSE, text |-> <<>>, next |-> 0]
    IN  go[start]

Cased(word) == {word, [i \in DOMAIN word |-> word[i] + 32], [word EXCEPT ![2] = @ + 32]}
WordsOfJson == {WordTrue, <<102>> \o WordFalse, WordNull}
BeginsWith(s, p, word) == p + Len(word) - 1 <= Len(s) /\ SubSeq(s, p, p + Len(word) - 1) = word

\* In every build a string is read as the characters that JSON says it has, up to its
\* own quote, or refused; and made as narrow as its characters let it be, whatever
\* lies in the vectors around it.  Words and spaces end where they end.
StrIsTheText ==
    /\ reading.state \in {"done", "failed"} /\ memory # <<>> /\ memory[Lane + 1] = 34 =>
          LET is == TextFrom(memory, Lane + 2)
          IN  /\ (reading.state = "done") = is.valid
              /\ is.valid => /\ chars = is.text /\ cursor = is.next
                             /\ KindOf(reading, copying, seen) = KindOfText(is.text)
    /\ reading.state \in {"matched", "failed"} /\ memory # <<>> /\ memory[Lane + 1] # 34 =>
          LET is == {w \in WordsOfJson \cup Cased(WordInf) \cup Cased(WordNan) :
                        BeginsWith(memory, Lane + 1, w)}
          IN  IF is = {} THEN reading.state = "failed"
              ELSE reading.state = "matched" /\ \A w \in is : cursor = Lane + 1 + Len(w)
    /\ reading.state = "skipped" =>
          /\ \A i \in Lane + 1 .. cursor - 1 : memory[i] = 32
          /\ UnitAt(memory, cursor) # 32

\* Nothing is loaded but of the str: its header, its characters and the zero behind.
StrLoadsInside ==
    loads.last > 0 =>
        /\ loads.first >= Lane + 1 - HeaderBytes \div reading.kind
        /\ loads.last <= Len(memory) + 1
=============================================================================
