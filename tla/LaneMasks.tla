------------------------------ MODULE LaneMasks ------------------------------
(***************************************************************************)
(* The vectors of characters that the encoders and the decoder of each     *)
(* build look at: how a unit is compared, how the lanes that are marked    *)
(* are searched for the first one, and how less than a vector is loaded.   *)
(*                                                                         *)
(* A vector is a sequence of units, a mask the sets of numbers that its    *)
(* lanes are or'ed together from.                                          *)
(***************************************************************************)
EXTENDS Integers, SequencesExt

CONSTANTS
    Isas,           \* the builds; "sse2" is one without SSSE3
    HeaderBytes     \* in front of the characters of a compact str: of the shortest header,
                    \* that of an ASCII str

ASSUME LaneMasksAssumption ==
    /\ Isas \subseteq {"sse2", "sse4", "neon", "avx2", "avx512"}
    /\ HeaderBytes \in Nat

X86 == {"sse2", "sse4", "avx2", "avx512"}
VectorWidth(isa) == CASE isa = "avx2" -> 32 [] isa = "avx512" -> 64 [] OTHER -> 16

\* READ_BATCH_COUNT
Lanes(isa, kind) == VectorWidth(isa) \div kind

-----------------------------------------------------------------------------
\* The lanes of a mask are sets of numbers that are or'ed together, of a comparison
\* all ones or nothing.
AllOnes == 65535
Flag(b) == IF b THEN {AllOnes} ELSE {}

\* unsigned_saturate_minus
SaturatedMinus(a, b) == IF a > b THEN {a - b} ELSE {}

\* signed_cmpgt: what a unit is as a signed number.
AsSigned(kind, v) ==
    CASE kind = 1 -> IF v >= 128 THEN v - 256 ELSE v
      [] kind = 2 -> IF v >= 32768 THEN v - 65536 ELSE v
      [] kind = 4 -> v
Above(kind, a, b) == AsSigned(kind, a) > AsSigned(kind, b)

\* The top bit of one of the lane's bytes, all that movemask sees.
HasSign(x) == x % 256 >= 128 \/ x \div 256 >= 128

\* Mutant: the sign bits of any mask will do.
FoundMut(marks, signs) == {d \in DOMAIN marks : \E x \in marks[d] : HasSign(x)}

\* The lanes that escape_mask_to_done_count finds, and with `signs'
\* escape_mask_to_done_count_no_eq0.
Found(marks, signs) ==
    {d \in DOMAIN marks : IF signs THEN \E x \in marks[d] : HasSign(x) ELSE marks[d] # {}}

\* testz of a mask
NoneMarked(marks) == \A d \in DOMAIN marks : marks[d] = {}

-----------------------------------------------------------------------------
\* What JSON escapes in a string.
EscapedLane(v) == Flag(v \in {34, 92})

\* Mutant: what is less than 32 is told by a signed comparison.
EscapeMaskMut(isa, from, v) == EscapedLane(v) \cup Flag(Above(from, 32, v))

\* get_escape_mask, get_escape_bitmask.  x86 has neither an unsigned comparison
\* below AVX-512 nor a saturated subtraction of 32 bits.
EscapeMask(isa, from, v) ==
    EscapedLane(v) \cup
    (CASE isa \in {"neon", "avx512"} -> Flag(v < 32)
       [] isa \in X86 \ {"avx512"} /\ from < 4 -> SaturatedMinus(32, v)
       [] isa \in X86 \ {"avx512"} /\ from = 4 -> Flag(AsSigned(4, v) > -1 /\ Above(4, 32, v)))

-----------------------------------------------------------------------------
\* Less than a vector, at the end of a str.

\* Units are read in front of the str too.
UnitAt(s, i) == IF i \in 1 .. Len(s) THEN s[i] ELSE 0

\* The lanes of a vector that is loaded at unit i, and shifted down by k lanes.
Load(s, i, lanes) == [d \in 1 .. lanes |-> UnitAt(s, i + d - 1)]
ShiftDown(vec, k) == [d \in 1 .. Len(vec) |-> IF d + k <= Len(vec) THEN vec[d + k] ELSE 0]

\* The rows of _TailmaskTable_8: from byte r on.
TailMask(width, r) == {b \in 0 .. width - 1 : b >= r}

\* high_mask: the lanes of the last `len' units.
HighMask(width, kind, len) ==
    {d \in 0 .. width \div kind - 1 : d * kind \in TailMask(width, width - len * kind)}

\* AVX2, two halves: the second one is the end of the str, or past it.
Halves(kind, s, len) ==
    LET half == 16 \div kind
        q == Len(s) - len + 1
        tail == Len(s) - half + 1
        low == IF tail < q THEN ShiftDown(Load(s, tail, half), q - tail) ELSE Load(s, q, half)
        high == IF tail < q THEN Load(s, tail, half)
                ELSE ShiftDown(Load(s, tail, half), half - (tail - q))
    IN  [units |-> low \o high, first |-> Min({tail, q})]

\* AVX2 with nothing to convert: the last half, and the first one over it.
HeadAndTail(kind, s, len) ==
    LET half == 16 \div kind
        q == Len(s) - len + 1
        shift == IF len < half THEN half - len ELSE 0
        offset == IF len < half THEN 0 ELSE len - half
        head == ShiftDown(Load(s, q - shift, half), shift)
        tail == Load(s, Len(s) - half + 1, half)
    IN  [units |-> [d \in 1 .. offset + half |-> IF d <= half THEN head[d] ELSE tail[d - offset]],
         first |-> Min({q - shift, Len(s) - half + 1})]
=============================================================================
