---------------------------- MODULE CopyVectors ----------------------------
(***************************************************************************)
(* The copying of a str into the text of dumps() in each of its builds.    *)
(*                                                                         *)
(* Characters keep their code points, at the width of the str or a wider   *)
(* one; those that JSON escapes are replaced by 2 or 6 of a table.  There  *)
(* is one class of characters only, so that every build has one loop: a    *)
(* vector is compared with what is escaped, stored whole, and left behind  *)
(* up to the first marked lane.  What is less than a vector at the end is  *)
(* read as the last whole vector of the str, or by a masked load.          *)
(*                                                                         *)
(* Units and outputs are those of Utf8Vectors; `from' is the bytes of a    *)
(* unit of the str, `to' of one of the text.                               *)
(***************************************************************************)
EXTENDS Utf8Vectors

-----------------------------------------------------------------------------
\* The marked lanes of a vector.
Marked(isa, from, units) == {d \in DOMAIN units : EscapeMask(isa, from, units[d]) # {}}

\* The character that a lane was marked for, by the 8 of an entry in ControlEscapeTable.
\* The code asserts that it is one.
Escape8(v) == IF MustEscape(FALSE, v) THEN EncodeAlone(FALSE, v) ELSE Undefined

-----------------------------------------------------------------------------
\* cvt_to_dst: the stores of a vector, as units of the text.
SseCopyStores(from, to) ==
    CASE from = to -> {<<0, 16 \div to>>}
      [] from = 1 /\ to = 2 -> {<<0, 8>>, <<8, 8>>}
      [] from = 1 /\ to = 4 -> {<<0, 4>>, <<4, 4>>, <<8, 4>>, <<12, 4>>}
      [] from = 2 /\ to = 4 -> {<<0, 4>>, <<4, 4>>}

Avx2CopyStores(from, to) ==
    CASE from = to -> {<<0, 32 \div to>>}
      [] from = 1 /\ to = 2 -> {<<0, 16>>, <<16, 16>>}
      [] from = 1 /\ to = 4 -> {<<0, 8>>, <<8, 8>>, <<16, 8>>, <<24, 8>>}
      [] from = 2 /\ to = 4 -> {<<0, 8>>, <<8, 8>>}

Avx512CopyStores(from, to) ==
    CASE from = to -> {<<0, 64 \div to>>}
      [] from = 1 /\ to = 2 -> {<<0, 32>>, <<32, 32>>}
      [] from = 1 /\ to = 4 -> {<<0, 16>>, <<16, 16>>, <<32, 16>>, <<48, 16>>}
      [] from = 2 /\ to = 4 -> {<<0, 16>>, <<16, 16>>}

\* NEON: _addr_cvt, unit by unit.
NeonCopyStores(from) == {<<i, 1>> : i \in 0 .. 16 \div from - 1}

CopyStores(isa, from, to) ==
    CASE isa \in {"sse2", "sse4"} -> SseCopyStores(from, to)
      [] isa = "neon" -> NeonCopyStores(from)
      [] isa = "avx2" -> Avx2CopyStores(from, to)
      [] isa = "avx512" -> Avx512CopyStores(from, to)

\* `done' of the units, of a vector loaded from `first' to `last'.
CopiedUnits(isa, from, to, units, done, first, last) ==
    ConvertedUnits(1, units, done, Reach(CopyStores(isa, from, to)), first, last)

\* encode_unicode_loop; rest[q] is what follows at q, less than a vector.
CopyWhole(isa, from, to, s, rest) ==
    LET lanes == Lanes(isa, from)
        go[q \in 1 .. Len(s) + 1] ==
            LET last == q + lanes - 1
                units == SubSeq(s, q, last)
                marked == Marked(isa, from, units)
                done == Min(marked) - 1
            IN  IF q > Len(s) THEN NoOutput
                ELSE IF last > Len(s) THEN rest[q]
                ELSE IF marked = {}
                THEN Join(CopiedUnits(isa, from, to, units, lanes, q, last), go[last + 1])
                ELSE Join(CopiedUnits(isa, from, to, units, done, q, last),
                          Join(Escape8(s[q + done]), go[q + done + 1]))
    IN  go[1]

-----------------------------------------------------------------------------
\* encode_trailing_copy_with_cvt, encode_tail_escaped but for AVX-512, from unit p on:
\* the last vector is loaded whole, and its lanes are marked once; store[len, done] is
\* what is stored when `len' are left, `done' of which are not escaped.
CopyLast(isa, from, s, p, store) ==
    LET lanes == Lanes(isa, from)
        start == Len(s) - lanes + 1
        marked == {d - 1 : d \in Marked(isa, from, Load(s, start, lanes))}
        go[len \in 0 .. Len(s) - p + 1] ==
            LET left == marked \cap HighMask(VectorWidth(isa), from, len)
                done == Min(left)
            IN  IF len = 0 THEN NoOutput
                ELSE IF left = {} THEN store[len, len]
                ELSE Join(store[len, done - (lanes - len)],
                          Join(Escape8(UnitAt(s, start + done)), go[lanes - done - 1]))
    IN  Join(Loaded(start, Len(s)), go[Len(s) - p + 1])

\* The 128-bit builds: the vector is shifted by what was copied of it.
CopyShifted(isa, from, to, s, len, done) ==
    LET lanes == Lanes(isa, from)
        start == Len(s) - lanes + 1
        units == ShiftDown(Load(s, start, lanes), lanes - len)
    IN  CopiedUnits(isa, from, to, units, done, start, Len(s))

SseCopy(isa, from, to, s) ==
    CopyWhole(isa, from, to, s, [q \in 1 .. Len(s) |->
        CopyLast(isa, from, s, q, [len \in 1 .. Len(s), done \in 0 .. Len(s) |->
            CopyShifted(isa, from, to, s, len, done)])])

NeonCopy(from, to, s) ==
    CopyWhole("neon", from, to, s, [q \in 1 .. Len(s) |->
        CopyLast("neon", from, s, q, [len \in 1 .. Len(s), done \in 0 .. Len(s) |->
            CopyShifted("neon", from, to, s, len, done)])])

\* avx2_trailing_cvt to a wider unit.
CopyHalves(from, to, s, len, done) ==
    LET halves == Halves(from, s, len)
    IN  CopiedUnits("avx2", from, to, halves.units, done, halves.first, Len(s))

Avx2Copy(from, to, s) ==
    CopyWhole("avx2", from, to, s, [q \in 1 .. Len(s) |->
        CopyLast("avx2", from, s, q, [len \in 1 .. Len(s), done \in 0 .. Len(s) |->
            IF from = to THEN StoreHeadAndTail(from, s, 1, len, done)
            ELSE CopyHalves(from, to, s, len, done)])])

\* AVX-512: loads masked by what is left, and a mask made once, of which what was
\* copied is shifted out.
CopyMasked(from, to, s, p) ==
    LET lanes == Lanes("avx512", from)
        store(len, done) ==
            CopiedUnits("avx512", from, to, Load(s, Len(s) - len + 1, lanes), done,
                        Len(s) - len + 1, Len(s))
        go[len \in 0 .. Len(s) - p + 1, marked \in SUBSET (0 .. Len(s) - p)] ==
            LET done == Min(marked)
            IN  IF len = 0 THEN NoOutput
                ELSE IF marked = {} THEN store(len, len)
                ELSE Join(store(len, done),
                          Join(Escape8(s[Len(s) - len + 1 + done]),
                               go[len - done - 1, Remaining(marked, done)]))
        all == {d - 1 : d \in Marked("avx512", from, SubSeq(s, p, Len(s)))}
    IN  go[Len(s) - p + 1, all]

Avx512Copy(from, to, s) ==
    CopyWhole("avx512", from, to, s, [q \in 1 .. Len(s) |-> CopyMasked(from, to, s, q)])

\* encode_scalar: a character below 256 is copied from ControlEscapeTable, with the
\* 8 that an entry has.
CopyScalar(s) ==
    LET go[q \in 1 .. Len(s) + 1] ==
            IF q > Len(s) THEN NoOutput
            ELSE Join(IF MustEscape(FALSE, s[q]) THEN Escape8(s[q])
                      ELSE Output(<<<<s[q], 1>>>>, IF s[q] > 255 THEN 1 ELSE 8, 1, 1, TRUE), go[q + 1])
    IN  go[1]

\* encode_unicode_impl of a build.
CopyVectors(isa, from, to, s) ==
    CASE isa \in {"sse2", "sse4"} -> SseCopy(isa, from, to, s)
      [] isa = "neon" -> NeonCopy(from, to, s)
      [] isa = "avx2" -> Avx2Copy(from, to, s)
      [] isa = "avx512" -> Avx512Copy(from, to, s)

\* u_buf_apd_str_impl, u_buf_apd_key_impl: the characters between the quotes.
CopyStr(isa, from, to, compact, s) ==
    IF ByCharacters(isa, from, compact, s) THEN CopyScalar(s) ELSE CopyVectors(isa, from, to, s)
=============================================================================
