----------------------------- MODULE LongCopies -----------------------------
(***************************************************************************)
(* Copies of many characters: long_cvt to another width, long_back_cvt to  *)
(* a wider one in the same memory (_srw_long_cvt.inl.h), the small         *)
(* conversions that they begin and end with (part_cvt.h, part_back_cvt.h), *)
(* and ssrjson_memcpy_simd (memcpy.h), by which the bytes of a document    *)
(* are copied to a buffer of the decoder too.                              *)
(*                                                                         *)
(* A copy is a sequence of pieces, each loaded as a whole and stored       *)
(* before the next one is loaded.  A character is known by its index.      *)
(***************************************************************************)
EXTENDS Integers, SequencesExt

CONSTANTS
    Vectors,    \* bytes of a vector, in the builds
    Counts,     \* bound: how many characters are copied
    Offsets,    \* bound: addresses, in bytes behind a multiple of 64
    Gaps        \* bound: bytes from the source to a destination in the same memory

ASSUME VectorsAssumption == Vectors \subseteq {16, 32, 64}

VARIABLES
    copy,       \* the call; its state is "none", "called" or "done"
    pieces      \* [n, store, load, at]: n characters from index at on, and the
                \* alignments that its store and its load take for granted

copyVars == <<copy, pieces>>

Call(how, vector, from, to, count, dst, src, gap) ==
    [state |-> "called", how |-> how, vector |-> vector, from |-> from, to |-> to,
     count |-> count, dst |-> dst, src |-> src, gap |-> gap]

NoCopy ==
    /\ copy = [Call("memcpy", 16, 1, 1, 0, 0, 0, 0) EXCEPT !.state = "none"]
    /\ pieces = <<>>

Memcpys(hows) ==
    {Call(h, v, 1, 1, n, d, s, 0) :
        h \in hows, v \in Vectors, n \in Counts, d \in Offsets, s \in Offsets}
Cvts(how, gaps) ==
    {Call(how, v, f, t, n, d, 0, g) :
        v \in Vectors, f \in {1, 2, 4}, t \in {1, 2, 4}, n \in Counts, d \in Offsets, g \in gaps}

\* ssrjson_decode_bytes: the copy is put as far behind a vector as the document is.
\* Mutant: it is put at the start of the buffer.
AlignOffsetMut(c) == 0

AlignOffset(c) == c.src % c.vector

\* Characters are aligned to their width.
CopyInit ==
    /\ pieces = <<>>
    /\ \/ \E c \in Memcpys({"memcpy"}) : copy = c
       \/ \E c \in Memcpys({"document"}) : copy = [c EXCEPT !.dst = AlignOffset(c)]
       \/ \E c \in Cvts("forward", {0}) : c.from # c.to /\ c.dst % c.to = 0 /\ copy = c
       \/ \E c \in Cvts("backward", Gaps) : c.from < c.to /\ c.dst % c.to = 0 /\ copy = c

-----------------------------------------------------------------------------
\* Pieces, not placed yet.
Piece(n, store, load) == [n |-> n, store |-> store, load |-> load]

\* n as a sum of powers of two below most
Bits(n, most) == SelectSeq(<<1, 2, 4, 8, 16, 32>>, LAMBDA b : b < most /\ (n \div b) % 2 = 1)

Times(p, n) == [i \in 1 .. n |-> p]

\* 1, 2 and 4 characters are converted one by one if the wider ones do not fill 16
\* bytes.
OneByOne(wider, n) == n * wider < 16

\* 8 of them and more by the vectors that hold the wider ones.
PerVector(vector, wider) == vector \div wider

\* __small_cvt, __small_back_cvt
SmallCvt(c, count, most) ==
    LET wider == Max({c.from, c.to})
        Each(n) == IF OneByOne(wider, n) THEN 1 ELSE Min({n, PerVector(c.vector, wider)})
        bits == Bits(count, most)
    IN  FlattenSeq([i \in DOMAIN bits |->
            Times(Piece(Each(bits[i]), 1, 1), bits[i] \div Each(bits[i]))])

\* The head up to where the destination is aligned, whole vectors of the source, four
\* of them in a row, and the rest.
HeadBodyTail(c, head, store) ==
    LET batch == c.vector \div c.from
        rest == c.count - head
    IN  SmallCvt(c, head, c.vector \div c.to)
            \o Times(Piece(batch, store, 1), rest \div batch)
            \o SmallCvt(c, rest % batch, batch)

\* Mutant: the characters behind the last vector, as when copying back.
HeadOfCvtMut(c) == Min({c.count, (c.dst % c.vector) \div c.to})

HeadOfCvt(c) ==
    IF c.dst % c.vector = 0 THEN 0
    ELSE Min({c.count, (c.vector - (c.dst % c.vector)) \div c.to})

LongCvt(c) ==
    IF c.to > c.from THEN HeadBodyTail(c, HeadOfCvt(c), c.vector) ELSE HeadBodyTail(c, 0, 1)

LongBackCvt(c) ==
    LET end == c.dst + c.count * c.to
    IN  HeadBodyTail(c, Min({c.count, (end % c.vector) \div c.to}), c.vector)

-----------------------------------------------------------------------------
\* __ssrjson_short_memcpy_small_first, with or without aligned stores, and
\* _large_first: a piece for each bit.
SmallFirst(n, vector) == [i \in DOMAIN Bits(n, vector) |-> Piece(Bits(n, vector)[i], 1, 1)]

SmallFirstAligned(n, vector) ==
    [i \in DOMAIN Bits(n, vector) |-> Piece(Bits(n, vector)[i], Bits(n, vector)[i], 1)]

LargeFirst(n, vector) == Reverse(SmallFirstAligned(n, vector))

\* ssrjson_memcpy_aligned_store_power2 and _aligned_all_power2 of four vectors and of
\* one.  Four are as aligned as one: that much the types that are used promise too much.
AlignedStore(vector, times) == Piece(times * vector, vector, 1)
AlignedAll(vector, times) == Piece(times * vector, vector, vector)

\* A document's source is not looked at: it is aligned where the destination is.
MemcpySimd(c) ==
    LET w == c.vector
        off == c.dst % w
        head == IF off = 0 THEN 0 ELSE w - off
        n == c.count - head
        Body(times) == IF c.how # "document" /\ (c.src + head) % w # 0
                       THEN AlignedStore(w, times) ELSE AlignedAll(w, times)
    IN  IF off # 0 /\ head >= c.count THEN SmallFirst(c.count, w)
        ELSE SmallFirstAligned(head, w)
                \o Times(Body(4), n \div (4 * w)) \o Times(Body(1), (n % (4 * w)) \div w)
                \o LargeFirst(n % w, w)

-----------------------------------------------------------------------------
\* Characters before each piece, in the order they are copied in
Preceding(ps) == LET before[i \in 1 .. Len(ps)] == IF i = 1 THEN 0 ELSE before[i - 1] + ps[i - 1].n
              IN  before

\* The pieces from the first character on, or back from the last.
\* Mutant: a conversion in the same memory goes forward too.
PlacedMut(c, ps) ==
    [i \in DOMAIN ps |-> [n |-> ps[i].n, store |-> 1, load |-> 1, at |-> Preceding(ps)[i]]]

Placed(c, ps) ==
    LET before == Preceding(ps)
    IN  [i \in DOMAIN ps |->
            [n |-> ps[i].n, store |-> ps[i].store, load |-> ps[i].load,
             at |-> IF c.how = "backward" THEN c.count - before[i] - ps[i].n ELSE before[i]]]

CopyNext ==
    /\ copy.state = "called"
    /\ copy' = [copy EXCEPT !.state = "done"]
    /\ pieces' = Placed(copy, CASE copy.how = "forward" -> LongCvt(copy)
                                [] copy.how = "backward" -> LongBackCvt(copy)
                                [] OTHER -> MemcpySimd(copy))

\* _alloc_aligned_b_buf; mutant: with room for one vector.
RequiredSizeMut(count, vector) == ((count + vector + 4 + vector - 1) \div vector) * vector

RequiredSize(count, vector) == ((count + 2 * vector + 4 + vector - 1) \div vector) * vector

-----------------------------------------------------------------------------
DstOf(p) == copy.gap + p.at * copy.to .. copy.gap + (p.at + p.n) * copy.to - 1
SrcOf(p) == p.at * copy.from .. (p.at + p.n) * copy.from - 1

\* Every character is copied, and once, by the pieces of head, vectors and tail
\* together; one that is copied back in the same memory is read before its bytes are
\* written over.
CopiesAreTheSource ==
    copy.state = "done" =>
        /\ \A i \in 0 .. copy.count - 1 :
              Cardinality({k \in DOMAIN pieces : i \in pieces[k].at .. pieces[k].at + pieces[k].n - 1}) = 1
        /\ \A k \in DOMAIN pieces : pieces[k].at \in 0 .. copy.count - pieces[k].n
        /\ copy.how = "backward" =>
              \A k \in DOMAIN pieces : \A j \in 1 .. k - 1 : DstOf(pieces[j]) \cap SrcOf(pieces[k]) = {}

\* Aligned loads and stores are at aligned addresses, whatever the two addresses and
\* the count; and behind a document and its zero a whole vector and a byte can be
\* loaded.
CopiesAreAligned ==
    copy.state = "done" =>
        /\ \A k \in DOMAIN pieces :
              /\ (copy.dst + pieces[k].at * copy.to) % pieces[k].store = 0
              /\ (copy.src + pieces[k].at * copy.from) % pieces[k].load = 0
        /\ copy.how = "document" =>
              copy.dst + copy.count + copy.vector + 1 <= RequiredSize(copy.count, copy.vector)
=============================================================================
