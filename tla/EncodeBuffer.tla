---------------------------- MODULE EncodeBuffer ----------------------------
(***************************************************************************)
(* The buffer dumps() writes a str to: how it grows, what happens when the *)
(* characters become wider in the middle of the document, and how it turns *)
(* into the str that is returned.                                          *)
(*                                                                         *)
(* The buffer is written with characters of 1 byte until a string needs 2  *)
(* or 4 bytes.  The text so far stays where it is, in its narrow form;     *)
(* unicode_info remembers its length, and the writer jumps to where the    *)
(* next character will be when all are wide.  At the end the narrow parts  *)
(* are widened in place, the last one first, each from its end.  A str of  *)
(* ASCII has a shorter header than others, so widening also moves text.    *)
(*                                                                         *)
(* `mem' holds the bytes of the buffer: byte b of a character i of the     *)
(* document that was written with w bytes is <<i, w, b>>, and whatever     *)
(* else was written or never set is Junk.  The vector code stores past the *)
(* end of what it writes, anywhere in what it reserved: that much is junk  *)
(* after every write.  That no token writes more than it reserved is       *)
(* Appends'; which token comes after which is EncoderWalk's: a container   *)
(* ends only after a comma.                                                *)
(*                                                                         *)
(* Pointers are offsets from `head'; blocks counts the blocks the call has *)
(* allocated, text the characters of the document, and kind their width.   *)
(***************************************************************************)
EXTENDS Integers, Sequences

CONSTANTS
    AsciiStart,     \* sizeof(PyASCIIObject)
    CompactStart,   \* sizeof(PyCompactUnicodeObject)
    InitSize,       \* SSRJSON_ENCODE_DST_BUFFER_INIT_SIZE
    Sizes,          \* InitSize doubled, up to the limit RESERVE_MAX sets
    MaxText,        \* bound: characters of the document
    MaxToken,       \* bound: characters written at a time
    MaxSlack        \* bound: characters reserved beyond those

ASSUME HeadersAssumption ==
    AsciiStart \in Nat /\ CompactStart \in Nat /\ 0 < AsciiStart /\ AsciiStart <= CompactStart
ASSUME SizesAssumption ==
    /\ InitSize \in Sizes /\ Sizes \subseteq Nat /\ CompactStart <= InitSize
    /\ \A s \in Sizes : s = InitSize \/ \E r \in Sizes : r < s /\ s = 2 * r
ASSUME BoundsAssumption == MaxText \in Nat /\ MaxToken \in Nat \ {0} /\ MaxSlack \in Nat

VARIABLES
    pc,
    head,    \* u_buf_info.head: "block", or "null"
    cap,     \* u_buf_info.end
    mem,
    writer,
    level,   \* cur_ucs_type
    info,    \* info[k]: ascii_size, u8_size, u16_size for k = 0, 1, 2
    jobs,    \* the widenings that are left
    comma,   \* the last character is the comma after a value
    text,
    kind,
    blocks

vars == <<pc, head, cap, mem, writer, level, info, jobs, comma, text, kind, blocks>>

Levels == {0, 1, 2, 4}              \* 0 is ASCII
Narrow == {0, 1, 2}
Width(k) == IF k = 0 THEN 1 ELSE k
Start(k) == IF k = 0 THEN AsciiStart ELSE CompactStart
Wider(j, k) == IF j < k THEN k ELSE j
Junk == <<0, 0, 0>>
Byte == Nat \X Nat \X Nat
Job == [src : Nat, dst : Nat, from : {1, 2}, to : {1, 2, 4}, left : Nat]

TypeOK ==
    /\ pc \in {"start", "walk", "single", "widen", "fit", "done", "failed", "returned", "wild"}
    /\ head \in {"block", "null"} /\ cap \in Nat
    /\ mem \in [0 .. cap - 1 -> Byte]
    /\ writer \in Nat
    /\ level \in Levels /\ kind \in Levels
    /\ info \in [Narrow -> Nat]
    /\ jobs \in Seq(Job)
    /\ comma \in BOOLEAN /\ text \in Nat /\ blocks \in Nat

Init ==
    /\ pc = "start" /\ head = "null" /\ cap = 0 /\ mem = [b \in {} |-> Junk] /\ writer = 0
    /\ level = 0 /\ info = [k \in Narrow |-> 0] /\ jobs = <<>>
    /\ comma = FALSE /\ text = 0 /\ kind = 0 /\ blocks = 0

-----------------------------------------------------------------------------
(* Memory. *)

\* n characters of w bytes from `at' on, the first being character i.
Put(m, at, w, i, n) ==
    [b \in DOMAIN m |-> IF b \in at .. at + n * w - 1
                        THEN <<i + (b - at) \div w, w, (b - at) % w>> ELSE m[b]]

Clobbered(m, at, n) == [b \in DOMAIN m |-> IF b \in at .. at + n - 1 THEN Junk ELSE m[b]]

\* What realloc to size n makes of m.
Resized(m, n) == [b \in 0 .. n - 1 |-> IF b \in DOMAIN m THEN m[b] ELSE Junk]

\* Character i is at `at', with w bytes.
Holds(m, at, w, i) == \A b \in 0 .. w - 1 : at + b \in DOMAIN m /\ m[at + b] = <<i, w, b>>

\* The character read from w bytes at `at'; 0 if these are no whole character.
CharAt(m, at, w) == IF Holds(m, at, w, m[at][1]) THEN m[at][1] ELSE 0

-----------------------------------------------------------------------------
\* The characters up to the writer, which the code computes from the pointers.
Chars == (writer - Start(level)) \div Width(level)

\* The characters of the levels below k.
Before(k) == (IF k > 0 THEN info[0] ELSE 0) + (IF k > 1 THEN info[1] ELSE 0)
           + (IF k > 2 THEN info[2] ELSE 0)

\* Mutant: the position is kept in bytes.
MemorizedWriterMut(k) == CompactStart + Chars

\* memorize_*_to_*: the writer and unicode_info at level k, which is wider.
MemorizedWriter(k) == CompactStart + Chars * k
MemorizedInfo == [info EXCEPT ![level] = Chars - Before(level)]

\* Mutant: the size asked for instead of the writer's offset and the size.
EnoughMut(at, n) == n

\* u_buf_reserve: the size that n bytes from `at' on need.
Enough(at, n) == at + n

\* Mutant: the failed realloc has overwritten the pointer.
HeadAfterFailureMut == "null"

\* _u_buf_reserve works on a copy of u_buf_info.
HeadAfterFailure == head

\* The size after reserving: the first of those doubled that is enough.
GrowsTo(size, n) ==
    IF size <= cap THEN n = cap
    ELSE n \in Sizes /\ n >= size /\ \A s \in Sizes : s >= size => n <= s

\* `goto fail': the limit is reached, or realloc fails.
ReserveFails(at, n) ==
    /\ Enough(at, n) > cap
    /\ pc' = "failed" /\ head' = HeadAfterFailure
    /\ UNCHANGED <<cap, mem, jobs, comma, text, kind, blocks>>

\* n characters are reserved and then m of them written from `at' on, the first
\* being character i of the document.
Write(at, w, i, n, m) ==
    /\ GrowsTo(Enough(at, n * w), cap')
    /\ mem' = Put(Clobbered(Resized(mem, cap'), at + m * w, (n - m) * w), at, w, i, m)
    /\ writer' = at + m * w
    /\ text' = i + m - 1 /\ text' <= MaxText
    /\ UNCHANGED <<pc, head, jobs, blocks>>

-----------------------------------------------------------------------------
\* init_u_buf, or the malloc of a call that has a str to encode: then the level
\* is the str's from the start.
Allocates ==
    /\ pc = "start"
    /\ head' = "block" /\ cap' = InitSize /\ blocks' = 1
    /\ mem' = Resized(mem, InitSize)
    /\ \/ pc' = "walk" /\ UNCHANGED <<level, kind>>
       \/ pc' = "single" /\ level' \in Levels /\ kind' = level'
    /\ writer' = Start(level')
    /\ UNCHANGED <<info, jobs, comma, text>>

NoBuffer ==
    /\ pc = "start"
    /\ pc' = "failed"
    /\ UNCHANGED <<head, cap, mem, writer, level, info, jobs, comma, text, kind, blocks>>

\* A string of characters up to width k, or a key, which a colon follows.  A
\* wider one changes the level before anything is reserved.
AppendStr ==
    /\ pc = "walk"
    /\ \E k \in Levels, m \in 1 .. MaxToken, slack \in 0 .. MaxSlack :
        /\ level' = Wider(level, k)
        /\ info' = IF k > level THEN MemorizedInfo ELSE info
        /\ LET at == IF k > level THEN MemorizedWriter(k) ELSE writer
               w  == Width(level')
           IN  \/ /\ Write(at, w, text + 1, m + slack, m)
                  /\ kind' = Wider(kind, k) /\ comma' \in BOOLEAN
               \/ ReserveFails(at, (m + slack) * w) /\ writer' = 0

\* The only string of a document that is one.
AppendSingle ==
    /\ pc = "single" /\ text = 0
    /\ \E m \in 1 .. MaxToken, slack \in 0 .. MaxSlack :
        \/ /\ Write(writer, Width(level), 1, m + slack, m)
           /\ comma' = TRUE /\ UNCHANGED <<kind, level, info>>
        \/ /\ ReserveFails(writer, (m + slack) * Width(level))
           /\ writer' = 0 /\ UNCHANGED <<level, info>>

\* An opening bracket, or a value that is no string, with its comma.
AppendOther ==
    /\ pc = "walk"
    /\ \E m \in 1 .. MaxToken, slack \in 0 .. MaxSlack :
        \/ /\ Write(writer, Width(level), text + 1, m + slack, m)
           /\ comma' \in BOOLEAN /\ UNCHANGED kind
        \/ ReserveFails(writer, (m + slack) * Width(level)) /\ writer' = 0
    /\ UNCHANGED <<level, info>>

\* An int whose reservation fails: encode_process_val returns NULL and leaves
\* jump_flag as it was, uninitialized.  The caller goes to fail, or on with NULL
\* for the writer.
IntReserveFails ==
    /\ pc = "walk"
    /\ \E n \in 1 .. MaxToken + MaxSlack : Enough(writer, n * Width(level)) > cap
    /\ pc' \in {"failed", "wild"} /\ writer' = 0
    /\ UNCHANGED <<head, cap, mem, level, info, jobs, comma, text, kind, blocks>>

LastComma == writer - Width(level)

\* The end of a container takes the place of the last comma.
Close ==
    /\ pc = "walk" /\ comma
    /\ \E slack \in 0 .. MaxSlack :
        \/ Write(LastComma, Width(level), text, 2 + slack, 2) /\ UNCHANGED <<comma, kind>>
        \/ ReserveFails(LastComma, (2 + slack) * Width(level)) /\ writer' = 0
    /\ UNCHANGED <<level, info>>

\* A numpy array is written with characters of 1 byte; at a wider level there is
\* room made for the wide ones afterwards, and they are widened in place.
AppendNdarray ==
    /\ pc = "walk" /\ Width(level) > 1
    /\ \E m \in 1 .. MaxToken, slack \in 0 .. MaxSlack :
        \/ /\ \E n \in Sizes : GrowsTo(Enough(writer, m + slack), n) /\
                               IF Enough(writer, m * level) <= n THEN cap' = n
                               ELSE GrowsTo(Enough(writer, m * level), cap')
           /\ mem' = Put(Clobbered(Resized(mem, cap'), writer + m, slack), writer, 1, text + 1, m)
           /\ jobs' = <<[src |-> writer, dst |-> writer, from |-> 1, to |-> level, left |-> m]>>
           /\ writer' = writer + m * level
           /\ text' = text + m /\ text' <= MaxText
           /\ pc' = "widen" /\ comma' = TRUE
           /\ UNCHANGED <<head, kind, blocks>>
        \/ ReserveFails(writer, m + slack) /\ writer' = 0
        \/ ReserveFails(writer, m * level) /\ writer' = 0
    /\ UNCHANGED <<level, info>>

-----------------------------------------------------------------------------
\* Mutant: the narrowest part first.
WideningMutOrder == <<0, 1, 2>>

\* The order in which the parts are widened.
Widening == <<2, 1, 0>>

\* ascii_elevate*, ucs1_elevate*, ucs2_elevate4 to the level of the result.
Elevate(k) == [src |-> Start(k) + Before(k) * Width(k), dst |-> CompactStart + Before(k) * level,
               from |-> Width(k), to |-> level, left |-> info[k]]

\* The widening of the part at level k, if there is one.
Part(k) == IF k < level /\ info[k] > 0 THEN <<Elevate(k)>> ELSE <<>>

\* `success:' the last comma is dropped and the parts that are narrower than the
\* result are widened.
Finish ==
    /\ pc \in {"walk", "single"} /\ comma
    /\ pc' = "widen"
    /\ writer' = LastComma /\ text' = text - 1 /\ comma' = FALSE
    /\ jobs' = Part(Widening[1]) \o (Part(Widening[2]) \o Part(Widening[3]))
    /\ UNCHANGED <<head, cap, mem, level, info, kind, blocks>>

\* Mutant: the count is one off.
BatchMutCount(j, n) == [src |-> j.src + (j.left - n) * j.from, dst |-> j.dst + (j.left - n) * j.to,
                        rest |-> [j EXCEPT !.left = @ - n - 1]]

\* The last n characters of a job, and what is left of it then.
Batch(j, n) == [src |-> j.src + (j.left - n) * j.from, dst |-> j.dst + (j.left - n) * j.to,
                rest |-> [j EXCEPT !.left = @ - n]]

\* m with n characters read from `src' and then written to `dst'.
Widened(m, src, dst, from, to, n) ==
    [b \in DOMAIN m |-> IF b \in dst .. dst + n * to - 1
                        THEN LET i == CharAt(m, src + ((b - dst) \div to) * from, from)
                             IN  IF i = 0 THEN Junk ELSE <<i, to, (b - dst) % to>>
                        ELSE m[b]]

\* long_back_cvt: a batch is read whole before it is written, and is as long as a
\* vector of the CPU or what is left.  memmove has one batch for all.
Widen ==
    /\ pc = "widen" /\ jobs # <<>>
    /\ LET j == Head(jobs)
       IN  \E n \in IF j.from = j.to THEN {j.left} ELSE 1 .. j.left :
            LET b == Batch(j, n)
            IN  /\ mem' = Widened(mem, b.src, b.dst, j.from, j.to, n)
                /\ jobs' = (IF b.rest.left = 0 THEN <<>> ELSE <<b.rest>>) \o Tail(jobs)
    /\ UNCHANGED <<pc, head, cap, writer, level, info, comma, text, kind, blocks>>

\* After the last widening the walk goes on behind the array, or the buffer is
\* cut.
WidenEnd ==
    /\ pc = "widen" /\ jobs = <<>>
    /\ pc' = IF comma THEN "walk" ELSE "fit"
    /\ UNCHANGED <<head, cap, mem, writer, level, info, jobs, comma, text, kind, blocks>>

\* Mutant: the header of an ASCII str is taken for that of others.
FitSizeMut(n) == CompactStart + (n + 1) * Width(level)

\* resize_to_fit_pyunicode: n characters and a terminator.
FitSize(n) == Start(level) + (n + 1) * Width(level)

Fit ==
    /\ pc = "fit"
    /\ \/ /\ pc' = "done"
          /\ cap' = FitSize(Chars)
          /\ mem' = Clobbered(Resized(mem, cap'), Start(level) + Chars * Width(level), Width(level))
       \/ pc' = "failed" /\ UNCHANGED <<cap, mem>>
    /\ UNCHANGED <<head, writer, level, info, jobs, comma, text, kind, blocks>>

\* `fail:'
FreeBuffer ==
    /\ pc = "failed"
    /\ pc' = "returned"
    /\ IF head = "block" THEN head' = "null" /\ blocks' = blocks - 1 ELSE UNCHANGED <<head, blocks>>
    /\ UNCHANGED <<cap, mem, writer, level, info, jobs, comma, text, kind>>

Returned == pc \in {"done", "returned", "wild"} /\ UNCHANGED vars

Next ==
    \/ Allocates \/ NoBuffer
    \/ AppendStr \/ AppendSingle \/ AppendOther \/ IntReserveFails \/ Close \/ AppendNdarray
    \/ Finish \/ Widen \/ WidenEnd \/ Fit \/ FreeBuffer \/ Returned

Spec == Init /\ [][Next]_vars

-----------------------------------------------------------------------------
(* What the buffer must keep true. *)

\* The level character i was written at.
LevelOf(i) ==
    CHOOSE k \in Levels : Before(k) < i /\ (k = level \/ (k \in Narrow /\ i <= Before(k) + info[k]))

\* Between two tokens each character of the document is where it was written:
\* at its index, counted with the width of its level.  Neither growth, nor what
\* vector stores leave behind the writer, nor a change of the width loses one.
TextHeld ==
    pc \in {"walk", "single"} =>
        \A i \in 1 .. text :
            LET k == LevelOf(i)
            IN  Holds(mem, Start(k) + (i - 1) * Width(k), Width(k), i)

\* The str that is returned has the characters of the document, in order, with
\* the width of the widest of them, and its terminator.
ResultIsTheText ==
    pc = "done" =>
        /\ level = kind
        /\ cap = Start(kind) + (text + 1) * Width(kind)
        /\ \A i \in 1 .. text : Holds(mem, Start(kind) + (i - 1) * Width(kind), Width(kind), i)

\* Nothing is written past the end of the buffer: neither a token, nor by
\* widening, nor the terminator.
WritesInside ==
    /\ pc \in {"walk", "single", "widen", "fit"} => writer <= cap
    /\ \A i \in 1 .. Len(jobs) : jobs[i].dst + jobs[i].left * jobs[i].to <= cap
    /\ pc = "fit" => writer + Width(level) <= cap

\* "Resizes to a smaller size": cutting the buffer never makes it larger.
FitShrinks == [][pc = "fit" => cap' <= cap]_vars

\* "realloc failed when encoding, the original buffer is still valid": a call
\* that raises frees its buffer, and one that succeeds returns it.
BufferFreed ==
    /\ pc \in {"done", "returned"} => blocks = (IF pc = "done" THEN 1 ELSE 0)
    /\ blocks > 0 => head = "block"

\* The assert `check_unicode_writer_valid(writer, u_buf_info)' after every token:
\* the writer points into the buffer.
WriterValid == pc \in {"walk", "single", "wild"} => writer >= Start(0) /\ writer <= cap
=============================================================================
