----------------------------- MODULE Utf8Blocks -----------------------------
(***************************************************************************)
(* The UTF-8 of a bytes document, decoded in blocks: decode_bytes_block    *)
(* for each width of the characters that it writes, and the loop of        *)
(* decode_bytes_utf8 that goes from one width to the next.                 *)
(*                                                                         *)
(* A block of 16 bytes that is nothing but ASCII, or nothing but           *)
(* characters of 2, of 3 or of 4 bytes, is checked and converted at once;  *)
(* one of ASCII and characters of 2 bytes by a table, if there is one; any *)
(* other, and what may stop the string, byte by byte for a while.  The     *)
(* check of a block that is mixed looks three nibbles up and intersects    *)
(* the errors that each of them allows.                                    *)
(*                                                                         *)
(* StringDecode has the string around this and its escapes, its characters *)
(* known by their width alone; here bytes are numbers.  The document is    *)
(* what is behind the opening quote.  Behind it there is a zero, and then  *)
(* whatever an earlier document has left in the buffer.                    *)
(***************************************************************************)
EXTENDS Integers, SequencesExt

CONSTANTS
    Machines,   \* "x64", which has the table, or "neon"
    Utf8Texts,  \* bound: the bytes of strings
    StaleBytes  \* bound: what the buffer is full of

ASSUME MachinesAssumption == Machines \subseteq {"x64", "neon"}

VARIABLES
    machine,
    stale,      \* the byte that is behind the document and its zero
    bytes,
    utf8,       \* [status, level, src, ascii]: the loop's state, cur_ucs_level, how far
                \* it has read, and is_ascii
    decoded,    \* the code points
    loaded,     \* the last byte that was loaded
    behind      \* characters stored behind the writer

blockVars == <<machine, stale, bytes, utf8, decoded, loaded, behind>>

-----------------------------------------------------------------------------
\* A block of 16 bytes.
ByteAt(d, i) == IF i <= Len(d) THEN d[i] ELSE IF i = Len(d) + 1 THEN 0 ELSE stale
Block(d, p) == [i \in 0 .. 15 |-> ByteAt(d, p + i)]
Positions == 0 .. 15

IsStop(b) == b < 32 \/ b \in {34, 92}
HasStop(x) == \E i \in Positions : IsStop(x[i])
AllAscii(x) == \A i \in Positions : x[i] < 128
AnyAbove(x, limit) == \E i \in Positions : x[i] > limit

IsContinuation(b) == b \div 64 = 2

\* utf8_end_of_cp_bitmask_128: the bytes that no continuation follows.
EndOfCp(x, next) ==
    {i \in Positions : ~IsContinuation(IF i = 15 THEN next ELSE x[i + 1])}

\* shuffle_128: the bytes at the places of a row; 255 is for a zero.
Shuffled(x, row) == [k \in DOMAIN row |-> IF row[k] > 15 THEN 0 ELSE x[row[k]]]

-----------------------------------------------------------------------------
\* utf8_block_has_error_128: what can be wrong with a pair of bytes, as far as the
\* nibbles of the first and the high nibble of the second tell.  "large1000" stands
\* for an overlong character of 4 bytes too.
PrevHigh(h) ==
    CASE h < 8 -> {"long"}
      [] h \in 8 .. 11 -> {"conts"}
      [] h = 12 -> {"short", "overlong2"}
      [] h = 13 -> {"short"}
      [] h = 14 -> {"short", "overlong3", "surrogate"}
      [] h = 15 -> {"short", "large", "large1000"}

Carry == {"short", "long", "conts"}

PrevLow(l) ==
    Carry \cup
    (CASE l = 0 -> {"overlong3", "overlong2", "large1000"}
       [] l = 1 -> {"overlong2"}
       [] l \in 2 .. 3 -> {}
       [] l = 4 -> {"large"}
       [] l = 13 -> {"large", "large1000", "surrogate"}
       [] l \in (5 .. 15) \ {13} -> {"large", "large1000"})

CurHigh(h) ==
    CASE h = 8 -> {"long", "overlong2", "conts", "overlong3", "large1000"}
      [] h = 9 -> {"long", "overlong2", "conts", "overlong3", "large"}
      [] h \in 10 .. 11 -> {"long", "overlong2", "conts", "surrogate", "large"}
      [] h \notin 8 .. 11 -> {"short"}

\* A third or fourth byte has to follow, and nothing but such a byte may be the second
\* of two continuations.
BlockHasError(x) ==
    LET Prev(k, i) == IF i >= k THEN x[i - k] ELSE 0
        Special(i) == PrevHigh(Prev(1, i) \div 16) \cap PrevLow(Prev(1, i) % 16) \cap CurHigh(x[i] \div 16)
        Must23(i) == Prev(2, i) - 96 >= 128 \/ Prev(3, i) - 112 >= 128
    IN  \E i \in Positions :
            \/ Special(i) \ {"conts"} # {}
            \/ Must23(i) # ("conts" \in Special(i))

-----------------------------------------------------------------------------
\* The blocks of characters of one length.
Swap2(k) == <<2 * k + 1, 2 * k>>
Rev3(k) == <<3 * k + 2, 3 * k + 1, 3 * k, 255>>
Rev4(k) == <<4 * k + 3, 4 * k + 2, 4 * k + 1, 4 * k>>

\* utf8_compose_upto2_128, upto3 and 4: the last byte of the character is the first.
ComposeUpto2(b) == (b[1] % 128) + (b[2] % 32) * 64
ComposeUpto3(b) == (b[1] % 128) + (b[2] % 64) * 64 + (b[3] % 16) * 4096
Compose4(b) == (b[1] % 64) + (b[2] % 64) * 64 + (b[3] % 64) * 4096 + (b[4] % 8) * 262144

Seq2x8(x) == [k \in 1 .. 8 |-> ComposeUpto2(Shuffled(x, Swap2(k - 1)))]
Seq3x4(x) == [k \in 1 .. 4 |-> ComposeUpto3(Shuffled(x, Rev3(k - 1)))]
Seq4x4(x) == [k \in 1 .. 4 |-> Compose4(Shuffled(x, Rev4(k - 1)))]

\* Mutant: overlong characters of two bytes pass.
Seq2x8HasErrorMut(x) ==
    \E i \in Positions : IF i % 2 = 0 THEN x[i] \notin 192 .. 223 ELSE x[i] \notin 128 .. 191

Seq2x8HasError(x) ==
    \E i \in Positions : IF i % 2 = 0 THEN x[i] \notin 194 .. 223 ELSE x[i] \notin 128 .. 191

Seq3x4HasError(x) ==
    \E k \in 0 .. 3 :
        LET v == Seq3x4(x)[k + 1]
        IN  x[3 * k] \div 16 # 14 \/ v <= 2047 \/ v \div 2048 = 27

\* Below 0x10000 the difference wraps around.
Seq4x4HasError(x) ==
    \E k \in 0 .. 3 : x[4 * k] \div 8 # 30 \/ Seq4x4(x)[k + 1] - 65536 \notin 0 .. 1048575

-----------------------------------------------------------------------------
\* _Utf8ToUcsIndex and _Utf8ToUcsShuffle: for the ends among the first 12 bytes, the
\* bytes of the first six characters and how many these are; there is no such row
\* unless each is one or two.
UpTo12(ends) == {i \in ends : i < 12}

Utf8ToUcsShuffle(ends) ==
    LET e[k \in 1 .. 6] == CHOOSE i \in ends : Cardinality({j \in ends : j < i}) = k - 1
        Single(k) == e[k] = (IF k = 1 THEN 0 ELSE e[k - 1] + 1)
    IN  [k \in 1 .. 6 |-> IF Single(k) THEN <<e[k], 255>> ELSE <<e[k], e[k] - 1>>]

\* Mutant: what lies between the sixth character and the 12th byte is skipped.
Utf8ToUcsLengthMut(ends) == 12

Utf8ToUcsLength(ends) ==
    CHOOSE n \in 1 .. 12 :
        n - 1 \in ends /\ Cardinality({i \in ends : i < n}) = 6

\* get_bitmask_from_u8_128 has a bit for every byte above 127.
ByTable(x) ==
    /\ machine = "x64" /\ utf8.level # 4
    /\ Cardinality({i \in Positions : x[i] >= 128}) >= 12
    /\ ~AnyAbove(x, 223)

-----------------------------------------------------------------------------
\* Single characters: utf8_is_seq_2, 3 and 4 of the four bytes at p, and to_b2_unicode,
\* to_b3_unicode, to_b4_unicode.
IsSeq2(d, p) ==
    /\ ByteAt(d, p) \div 32 = 6 /\ IsContinuation(ByteAt(d, p + 1))
    /\ (ByteAt(d, p) % 32) \div 2 # 0

IsSeq3(d, p) ==
    LET low == ByteAt(d, p) % 16
        bit == (ByteAt(d, p + 1) \div 32) % 2
    IN  /\ ByteAt(d, p) \div 16 = 14
        /\ IsContinuation(ByteAt(d, p + 1)) /\ IsContinuation(ByteAt(d, p + 2))
        /\ <<low, bit>> \notin {<<0, 0>>, <<13, 1>>}

IsSeq4(d, p) ==
    LET low == ByteAt(d, p) % 8
        bits == (ByteAt(d, p + 1) \div 16) % 4
    IN  /\ ByteAt(d, p) \div 8 = 30
        /\ \A i \in 1 .. 3 : IsContinuation(ByteAt(d, p + i))
        /\ <<low, bits>> # <<0, 0>>
        /\ low < 4 \/ (low % 4 = 0 /\ bits = 0)

SeqLength(d, p) == CASE IsSeq2(d, p) -> 2 [] IsSeq3(d, p) -> 3 [] IsSeq4(d, p) -> 4 [] OTHER -> 0

Composed(d, p) ==
    CASE IsSeq2(d, p) -> ComposeUpto2(<<ByteAt(d, p + 1) % 64, ByteAt(d, p)>>)
      [] IsSeq3(d, p) -> ComposeUpto3(<<ByteAt(d, p + 2) % 64, ByteAt(d, p + 1), ByteAt(d, p)>>)
      [] IsSeq4(d, p) -> Compose4([i \in 1 .. 4 |-> ByteAt(d, p + 4 - i)])

\* What a character of n bytes needs, and what a width has.
Fits(level, v) == CASE level = 1 -> v < 256 [] level = 2 -> v < 65536 [] level = 4 -> TRUE

\* Where decoding has got to, and what it stored.
Reached(status, src, chars, ascii, last, more) ==
    [status |-> status, src |-> src, text |-> chars, ascii |-> ascii, last |-> last, more |-> more]

Following(chars, ascii, last, more, r) ==
    [r EXCEPT !.text = chars \o @, !.ascii = ascii /\ @, !.last = Max({last, @}), !.more = Max({more, @})]

\* decode_bytes_block_scalar: behind the limit only a run goes on, of characters that
\* are no longer than the last.
BlockScalar(level, d, p, limit) ==
    LET go[q \in p .. Len(d) + 8, run \in 0 .. 4] ==
            LET b == ByteAt(d, q)
                n == SeqLength(d, q)
            IN  IF q >= limit /\ ~(n \in 2 .. run /\ Fits(level, Composed(d, q)))
                THEN Reached("continue", q, <<>>, TRUE, q, 0)
                ELSE IF b = 34 THEN Reached("end", q, <<>>, TRUE, q, 0)
                ELSE IF b = 92 THEN Reached("escape", q, <<>>, TRUE, q, 0)
                ELSE IF b < 32 THEN Reached("invalid", q, <<>>, TRUE, q, 0)
                ELSE IF b < 128 THEN Following(<<b>>, TRUE, q, 0, go[q + 1, 0])
                ELSE IF n = 0 THEN Reached("invalid", q, <<>>, TRUE, q + 3, 0)
                ELSE IF ~Fits(level, Composed(d, q))
                THEN Reached("promote", q, <<>>, TRUE, q + 3, 0)
                ELSE Following(<<Composed(d, q)>>, level # 1, q + 3, 0, go[q + n, n])
    IN  go[p, 0]

\* _PromoteAbove
PromoteAbove(level) == CASE level = 1 -> 195 [] level = 2 -> 239 [] level = 4 -> 255

\* _MinScalarBudget, _MaxScalarBudget
MinScalarBudget == 32
MaxScalarBudget == 256

\* How many characters of a block are converted, by which bytes; 0 if it is done byte
\* by byte.
ConvertedBlock(level, x, ends) ==
    CASE ends = {1, 3, 5, 7, 9, 11, 13, 15} ->
            [text |-> Seq2x8(x), taken |-> 16, error |-> Seq2x8HasError(x), more |-> 0]
      [] level = 4 /\ ends = {3, 7, 11, 15} ->
            [text |-> Seq4x4(x), taken |-> 16, error |-> Seq4x4HasError(x), more |-> 0]
      [] level # 1 /\ UpTo12(ends) = {2, 5, 8, 11} ->
            [text |-> Seq3x4(x), taken |-> 12, error |-> Seq3x4HasError(x), more |-> 0]
      [] OTHER ->
            IF ~ByTable(x) THEN [text |-> <<>>, taken |-> 0, error |-> FALSE, more |-> 0]
            ELSE IF BlockHasError(x) THEN [text |-> <<>>, taken |-> 1, error |-> TRUE, more |-> 0]
            ELSE [text |-> [k \in 1 .. 6 |-> ComposeUpto2(Shuffled(x, Utf8ToUcsShuffle(ends)[k]))],
                  taken |-> Utf8ToUcsLength(ends), error |-> FALSE, more |-> 2]

\* decode_bytes_block, from p on
DecodeBytesBlock(level, d, p) ==
    LET from[q \in p .. Len(d) + 8, budget \in MinScalarBudget .. MaxScalarBudget] ==
            LET x == Block(d, q)
                converted == ConvertedBlock(level, x, EndOfCp(x, ByteAt(d, q + 16)))
                scalar == BlockScalar(level, d, q, q + budget)
                wider == IF budget < MaxScalarBudget THEN 2 * budget ELSE budget
            IN  IF HasStop(x) \/ (~AllAscii(x) /\ AnyAbove(x, PromoteAbove(level)))
                THEN Following(<<>>, TRUE, q + 15, 0, BlockScalar(level, d, q, Len(d) + 2))
                ELSE IF AllAscii(x)
                THEN Following([k \in 1 .. 16 |-> x[k - 1]], TRUE, q + 15, 0, from[q + 16, budget])
                ELSE IF converted.error
                THEN Reached("invalid", q, <<>>, level # 1, q + 16, 0)
                ELSE IF converted.taken > 0
                THEN Following(converted.text, level # 1, q + 16, converted.more,
                               from[q + converted.taken, MinScalarBudget])
                ELSE IF scalar.status # "continue" THEN Following(<<>>, level # 1, q + 16, 0, scalar)
                ELSE Following(scalar.text, level # 1, Max({q + 16, scalar.last}), 0,
                               from[scalar.src, wider])
    IN  from[p, MinScalarBudget]

-----------------------------------------------------------------------------
NoBlocks ==
    /\ machine = "x64" /\ stale = 0 /\ bytes = <<>> /\ decoded = <<>> /\ loaded = 0 /\ behind = 0
    /\ utf8 = [status |-> "none", level |-> 1, src |-> 1, ascii |-> TRUE]

BlocksInit ==
    /\ machine \in Machines /\ stale \in StaleBytes /\ bytes \in Utf8Texts
    /\ decoded = <<>> /\ loaded = 0 /\ behind = 0
    /\ utf8 = [status |-> "continue", level |-> 1, src |-> 1, ascii |-> TRUE]

\* utf8_lead_min_ucs_level
LeadLevel(b) == IF b < 196 THEN 1 ELSE IF b < 240 THEN 2 ELSE 4

\* decode_loop_u8, u16 and u32
DecodeBlocks ==
    /\ utf8.status = "continue"
    /\ LET r == DecodeBytesBlock(utf8.level, bytes, utf8.src)
           promote == r.status = "promote"
       IN  /\ utf8' = [status |-> IF promote THEN "continue" ELSE r.status,
                       level |-> IF promote THEN LeadLevel(ByteAt(bytes, r.src)) ELSE utf8.level,
                       src |-> r.src,
                       ascii |-> utf8.ascii /\ r.ascii]
           /\ decoded' = decoded \o r.text
           /\ loaded' = Max({loaded, r.last})
           /\ behind' = Max({behind, r.more})
    /\ UNCHANGED <<machine, stale, bytes>>

-----------------------------------------------------------------------------
(* What the bytes are: Unicode's table of well-formed sequences. *)

WellFormed ==
    {<<194 .. 223, 128 .. 191>>,
     <<{224}, 160 .. 191, 128 .. 191>>, <<225 .. 236, 128 .. 191, 128 .. 191>>,
     <<{237}, 128 .. 159, 128 .. 191>>, <<238 .. 239, 128 .. 191, 128 .. 191>>,
     <<{240}, 144 .. 191, 128 .. 191, 128 .. 191>>,
     <<241 .. 243, 128 .. 191, 128 .. 191, 128 .. 191>>,
     <<{244}, 128 .. 143, 128 .. 191, 128 .. 191>>}

FormAt(d, p) == {f \in WellFormed : \A i \in DOMAIN f : ByteAt(d, p + i - 1) \in f[i]}

\* The bytes that come before the first one that ends the string, as characters.
CharactersOf(d) ==
    LET go[q \in 1 .. Len(d) + 4] ==
            LET b == ByteAt(d, q)
                form == CHOOSE f \in FormAt(d, q) : TRUE
                n == Len(form)
                lead == b - (CASE n = 2 -> 192 [] n = 3 -> 224 [] n = 4 -> 240)
                value == FoldLeft(LAMBDA v, i : 64 * v + ByteAt(d, q + i) - 128, lead,
                                  [i \in 1 .. n - 1 |-> i])
            IN  IF IsStop(b) THEN [text |-> <<>>, at |-> q, valid |-> TRUE]
                ELSE IF b < 128 THEN [go[q + 1] EXCEPT !.text = <<b>> \o @]
                ELSE IF FormAt(d, q) = {} THEN [text |-> <<>>, at |-> q, valid |-> FALSE]
                ELSE [go[q + n] EXCEPT !.text = <<value>> \o @]
    IN  go[1]

\* A string is decoded to the characters of its UTF-8 and up to the byte that ends it,
\* whichever blocks it falls into, with the width and the is_ascii of the widest of
\* them; bytes that are not well formed are refused, wherever in a block they are.
Utf8IsDecoded ==
    utf8.status \notin {"none", "continue"} =>
        LET is == CharactersOf(bytes)
            b == ByteAt(bytes, is.at)
            widest == Max({0} \cup Range(is.text))
        IN  IF ~is.valid \/ b < 32 THEN utf8.status = "invalid"
            ELSE /\ utf8.status = (IF b = 34 THEN "end" ELSE "escape")
                 /\ utf8.src = is.at
                 /\ decoded = is.text
                 /\ utf8.level = (IF widest < 256 THEN 1 ELSE IF widest < 65536 THEN 2 ELSE 4)
                 /\ utf8.level = 1 => utf8.ascii = (widest < 128)

\* No more is loaded than a vector and a byte from the zero behind the document on, and
\* no more stored behind the writer than two characters.
BlocksInside == loaded <= Len(bytes) + 17 /\ behind <= 2
=============================================================================
