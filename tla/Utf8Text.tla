------------------------------ MODULE Utf8Text ------------------------------
(***************************************************************************)
(* What dumps_to_bytes() writes for the characters of one str, and how far *)
(* its vector stores reach.                                                *)
(*                                                                         *)
(* A run of characters of one class is converted by whole vectors, stored  *)
(* whole; the writer advances by what belongs to the run.  The character   *)
(* that ends a run is written alone, and the class of the next one chooses *)
(* the loop again.  What is left, less than a vector, is read as the end   *)
(* of the last vector of the str and written in the same way.  A str less  *)
(* than a vector that is not compact is written character by character.    *)
(*                                                                         *)
(* A character is its class, a byte the class and which byte of the        *)
(* character it is.  An argument `raw' tells the two variants of every     *)
(* function apart: the JSON text, and the UTF-8 that is cached, which is   *)
(* not escaped.                                                            *)
(***************************************************************************)
EXTENDS Integers, SequencesExt

CONSTANT VectorBytes        \* bytes of a SIMD vector

ASSUME VectorBytesAssumption == VectorBytes \in {16, 32}

Chars == {"ascii", "quote", "control", "two", "three", "surrogate", "four"}
Kinds == {1, 2, 4}

\* READ_BATCH_COUNT: the characters of a vector.
Batch(kind) == VectorBytes \div kind

\* The characters that a str in JSON has as 2 or 6, by _ControlJump.
Escape == [quote |-> 2, control |-> 6]
IsEscaped(raw, c) == ~raw /\ c \in DOMAIN Escape

\* The bytes of a character as UTF-8.
Size(c) == CASE c \in {"ascii", "quote", "control"} -> 1
             [] c = "two" -> 2
             [] c \in {"three", "surrogate"} -> 3
             [] c = "four" -> 4

Bytes(c) == [i \in 1 .. Size(c) |-> <<c, i>>]
Escaped(c) == [i \in 1 .. Escape[c] |-> <<c, "escape", i>>]

-----------------------------------------------------------------------------
\* A piece of output: its bytes, how far its stores reach, and whether every
\* character could be encoded.
Piece(text, reach, ok) == [text |-> text, reach |-> reach, ok |-> ok]
Nothing == Piece(<<>>, 0, TRUE)

\* a, and b unless a failed.
Then(a, b) ==
    IF ~a.ok THEN a
    ELSE Piece(a.text \o b.text, Max({a.reach, Len(a.text) + b.reach}), b.ok)

\* Mutant: surrogates are written as any character of three bytes.
EncodeOneMut(raw, c) ==
    IF IsEscaped(raw, c) THEN Piece(Escaped(c), 8, TRUE) ELSE Piece(Bytes(c), Size(c), TRUE)

\* encode_one_ucs1, 2, 4 and encode_one_*_noescape: an escape is copied from a
\* table of 8 bytes each.
EncodeOne(raw, c) ==
    IF IsEscaped(raw, c) THEN Piece(Escaped(c), 8, TRUE)
    ELSE Piece(Bytes(c), Size(c), c # "surrogate")

\* A vector is stored at n bytes for each of its characters, of which the first
\* ones, `chars', belong to the run.
EncodeRun(kind, n, chars) ==
    Piece(FlattenSeq([i \in 1 .. Len(chars) |-> Bytes(chars[i])]), n * Batch(kind), TRUE)

-----------------------------------------------------------------------------
\* The loops over runs, named by the bytes of their characters.  Of a character
\* of UCS-1 only ASCII has one, none of UCS-4 those of four bytes.

\* The loop that bytes_write_ucs1, 2 and 4 enter for c; 0 is encode_one.
LoopFor(kind, raw, c) ==
    CASE kind = 1 -> IF Size(c) = 1 /\ ~IsEscaped(raw, c) THEN 1 ELSE 0
      [] kind = 2 -> Size(c)
      [] kind = 4 -> IF Size(c) <= 3 THEN Size(c) ELSE 0

\* The one that bytes_write_ucs*_trailing takes for c with more behind it.
TrailingFor(kind, raw, c) ==
    IF kind = 1 THEN 1
    ELSE IF IsEscaped(raw, c) \/ Size(c) = 4 THEN 0 ELSE Size(c)

\* c belongs to a run of n bytes: check_ascii_in_*, check_2bytes_in_*, ...
InRun(raw, n, c) == Size(c) = n /\ ~IsEscaped(raw, c) /\ c # "surrogate"

\* The characters of s from p to q that begin a run of n.
RunLength(raw, s, p, q, n) ==
    LET ends == {i \in p .. q : ~InRun(raw, n, s[i])}
    IN  IF ends = {} THEN q - p + 1 ELSE Min(ends) - p

\* encode_bytes_ucs*_scalar
EncodeScalar(raw, s) ==
    LET from[p \in 1 .. Len(s) + 1] ==
            IF p > Len(s) THEN Nothing ELSE Then(EncodeOne(raw, s[p]), from[p + 1])
    IN  from[1]

\* bytes_write_ucs*_trailing: s from p on, less than a vector.
EncodeTrailing(kind, raw, s, p) ==
    LET from[q \in p .. Len(s) + 1] ==
            LET n == TrailingFor(kind, raw, s[q])
                d == RunLength(raw, s, q, Len(s), n)
                run == EncodeRun(kind, n, SubSeq(s, q, q + d - 1))
            IN  IF q > Len(s) THEN Nothing
                ELSE IF n = 0 \/ (kind # 1 /\ q = Len(s))
                THEN Then(EncodeOne(raw, s[q]), from[q + 1])
                ELSE IF q + d > Len(s) THEN run
                ELSE Then(run, Then(EncodeOne(raw, s[q + d]), from[q + d + 1]))
    IN  from[p]

\* bytes_write_ucs1, 2 and 4: at q, in the loop for characters of n bytes, or 0
\* before one was chosen.
EncodeVectors(kind, raw, s) ==
    LET from[x \in (1 .. Len(s) + 1) \X (0 .. 3)] ==
            LET q == x[1]
                n == x[2]
                last == q + Batch(kind) - 1
                d == RunLength(raw, s, q, last, n)
                run == EncodeRun(kind, n, SubSeq(s, q, q + d - 1))
            IN  IF last > Len(s) THEN EncodeTrailing(kind, raw, s, q)
                ELSE IF n = 0
                THEN LET loop == LoopFor(kind, raw, s[q])
                     IN  IF loop = 0 THEN Then(EncodeOne(raw, s[q]), from[<<q + 1, 0>>])
                         ELSE from[<<q, loop>>]
                ELSE IF d = Batch(kind) THEN Then(run, from[<<q + d, n>>])
                ELSE Then(run, Then(EncodeOne(raw, s[q + d]), from[<<q + d + 1, 0>>]))
    IN  from[<<1, 0>>]

\* bytes_write_ucs*_str, _key and their raw variants.
Encode(kind, raw, compact, s) ==
    IF ~compact /\ Len(s) < Batch(kind) THEN EncodeScalar(raw, s)
    ELSE EncodeVectors(kind, raw, s)

-----------------------------------------------------------------------------
\* A byte of UTF-8 that a str in JSON escapes.
EscapedByte(b) == b[1] \in DOMAIN Escape

\* encode_unicode_impl, and bytes_write_ascii for UTF-8 or ASCII: units of one
\* width copied by vectors of `batch', the last of which is read as the end of
\* the str; units above 127 pass.
CopyEscaping(batch, u) ==
    LET from[q \in 1 .. Len(u) + 1] ==
            LET last == Min({q + batch - 1, Len(u)})
                ends == {i \in q .. last : EscapedByte(u[i])}
                e == IF ends = {} THEN last + 1 ELSE Min(ends)
                run == Piece(SubSeq(u, q, e - 1), batch, TRUE)
            IN  IF q > Len(u) THEN Nothing
                ELSE IF ends = {} THEN Then(run, from[e])
                ELSE Then(run, Then(EncodeOne(FALSE, u[e][1]), from[e + 1]))
    IN  from[1]

\* b_buf_apd_ascii_str, b_buf_apd_ascii_key
EncodeAscii(compact, s) ==
    IF ~compact /\ Len(s) < VectorBytes THEN EncodeScalar(FALSE, s)
    ELSE CopyEscaping(VectorBytes, [i \in 1 .. Len(s) |-> Bytes(s[i])[1]])

-----------------------------------------------------------------------------
MaxUtf8Bytes == [k \in Kinds |-> CASE k = 1 -> 2 [] k = 2 -> 3 [] k = 4 -> 4]
MaxJsonBytes == 6

\* The widest store of a trailing vector of each kind.
WidestStore == [k \in Kinds |-> CASE k = 1 -> VectorBytes
                                  [] k = 2 -> 3 * Batch(2)
                                  [] k = 4 -> 3 * Batch(4)]

\* Mutant: no room for a whole vector at the end.
RawRoomMut(kind, len) == MaxUtf8Bytes[kind] * len

\* What write_cache_impl allocates: __excess_bytes_write_ucs*_raw_utf8_trailing.
RawRoom(kind, len) == MaxUtf8Bytes[kind] * len + WidestStore[kind] - MaxUtf8Bytes[kind]

\* What b_buf_apd_str_rsv_idt reserves for a str, its quotes and the comma.
JsonRoom(len) ==
    1 + MaxJsonBytes * len + Max({WidestStore[k] - MaxJsonBytes : k \in Kinds})
=============================================================================
