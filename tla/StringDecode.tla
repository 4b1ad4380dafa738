---------------------------- MODULE StringDecode ----------------------------
(***************************************************************************)
(* Decoding of one JSON string: decode_str and decode_str_with_escape for  *)
(* the four kinds of str documents, loads_bytes and decode_bytes_utf8 for  *)
(* bytes.                                                                  *)
(*                                                                         *)
(* As long as there is no escape (and no byte above 127 in a bytes         *)
(* document) the string is only scanned, in vectors, and then made from    *)
(* the document.  The first escape copies what was scanned to a buffer, at *)
(* the width that escape needs; from then on every vector is stored whole  *)
(* and the writer advanced by what of it belongs to the string.  A wider   *)
(* character does not widen what is in the buffer: the writer goes on at   *)
(* the same index of a wider array, and u8size and u16size remember how    *)
(* many characters lie below, one and two bytes wide.                      *)
(*                                                                         *)
(* A character is its class: 0 is ASCII, 1 Latin-1, 2 the rest of the BMP, *)
(* 3 what is beyond.  The document is made up as it is read: `ahead' is a  *)
(* run of characters of one class and what stops it.  The strings of keys  *)
(* are decoded alike but for the scan by four vectors and the cache.       *)
(***************************************************************************)
EXTENDS Integers, FiniteSetsExt

CONSTANTS
    Sources,        \* the kinds of documents: some of AllSources
    VectorBytes,    \* bytes of a SIMD vector: 16, 32 or 64
    TailPadding,    \* _TailPadding
    StaticBytes,    \* SSRJSON_STRING_BUFFER_SIZE
    FailingReserve, \* the sources for which the buffer may not be allocated
    Lengths,        \* bound: lengths of documents, in units
    Runs,           \* bound: lengths of runs, in characters
    MaxStops        \* bound: escapes and changes of class in a string

AllSources == {"ascii", "ucs1", "ucs2", "ucs4", "utf8"}
Classes == 0 .. 3
Widths == {1, 2, 4}

ASSUME SourcesAssumption == Sources \subseteq AllSources /\ FailingReserve \subseteq Sources
ASSUME VectorAssumption ==
    /\ VectorBytes \in {16, 32, 64}
    /\ TailPadding \in Nat /\ StaticBytes \in Nat /\ MaxStops \in Nat
    /\ Lengths \subseteq Nat \ {0} /\ Runs \subseteq Nat

VARIABLES
    source,     \* the kind of the document
    len,        \* its length
    pos,        \* src: the units read
    ahead,      \* the run of characters at pos and what stops it
    stops,      \* stops so far, for the bound
    at,         \* "none", "scan", "copy", "done" or "failed"
    capacity,   \* bytes of the buffer from string_buffer_head on; -1: there is none
    width,      \* of the array written to: decode_state_size
    writer,     \* index of the next character
    u8size, u16size,
    isAscii,    \* is_ascii
    maxvec,     \* the largest class seen in vectors, max_escape in escapes
    maxEscape,
    result,     \* the str made: its class and length, and read[w], the number of
                \* its characters taken from the buffer as w bytes
    text,       \* text[c]: characters of class c in the string so far
    stored,     \* stored[w]: characters that were put in the buffer as w bytes
    reach       \* bytes from the head of the buffer that were stored to

svars == <<source, len, pos, ahead, stops, at, capacity, width, writer, u8size, u16size,
           isAscii, maxvec, maxEscape, result, text, stored, reach>>

Larger(a, b) == IF a > b THEN a ELSE b
Smaller(a, b) == IF a < b THEN a ELSE b

ByteWidth(c) == IF c <= 1 THEN 1 ELSE IF c = 2 THEN 2 ELSE 4

\* The width of the document's units, and their number in a vector.
UnitBytes(s) == IF s = "ucs4" THEN 4 ELSE IF s = "ucs2" THEN 2 ELSE 1
Batch == VectorBytes \div UnitBytes(source)

\* The classes a kind of document holds unescaped, with the units they take.
Plain(s) == CASE s = "ascii" -> {<<0, 1>>}
              [] s = "ucs1"  -> {0, 1} \X {1}
              [] s = "ucs2"  -> {0, 1, 2} \X {1}
              [] s = "ucs4"  -> Classes \X {1}
              [] s = "utf8"  -> {<<0, 1>>, <<1, 2>>, <<2, 2>>, <<2, 3>>, <<3, 4>>}

\* What do_decode_escape accepts: the class of the character and the size.
Escapes == {<<0, 2>>, <<0, 6>>, <<1, 6>>, <<2, 6>>, <<3, 12>>}

\* What may lie ahead at position p: a run and then a quote, an escape, in a
\* bytes document a run of another class, something that is not allowed in a
\* string (a control character, a bad escape, bad UTF-8), or the end.
Ahead(p) ==
    LET left == len - p
        runs == {r \in [n : Runs, class : Classes, per : 1 .. 4] :
                    /\ <<r.class, r.per>> \in Plain(source)
                    /\ r.n * r.per <= left
                    /\ r.n = 0 => r.class = 0}
        with(r, kind, class, size) ==
            [n |-> r.n, class |-> r.class, per |-> r.per, kind |-> kind, value |-> class, size |-> size]
    IN  {with(r, kind, 0, 1) : r \in {x \in runs : x.n * x.per < left}, kind \in {"quote", "bad"}}
        \cup (IF stops >= MaxStops THEN {} ELSE
              {with(re[1], "escape", re[2][1], re[2][2]) :
                  re \in {x \in runs \X Escapes : x[1].n * x[1].per + x[2][2] <= left}}
              \cup {with(r, "other", 0, 0) :
                  r \in {x \in runs : source = "utf8" /\ x.n > 0 /\ x.n * x.per < left}})
        \cup {[n |-> left \div pc[2], class |-> pc[1], per |-> pc[2],
               kind |-> "end", value |-> 0, size |-> 0] :
                  pc \in {x \in Plain(source) : left % x[2] = 0}}

NoAhead == [n |-> 0, class |-> 0, per |-> 1, kind |-> "end", value |-> 0, size |-> 0]
NoneWide == [w \in Widths |-> 0]

StringInit ==
    /\ source \in Sources /\ len \in Lengths
    /\ pos = 0 /\ stops = 0 /\ at = "none" /\ ahead = NoAhead
    /\ capacity = -1 /\ width = 0 /\ writer = 0
    /\ u8size = 0 /\ u16size = 0
    /\ isAscii = TRUE /\ maxvec = 0 /\ maxEscape = 0
    /\ result = [class |-> 0, length |-> 0, read |-> NoneWide]
    /\ text = [c \in Classes |-> 0] /\ stored = NoneWide /\ reach = 0

-----------------------------------------------------------------------------
\* The buffer: four bytes a character and padding at both ends, in the
\* context if that is large enough.  From its head on it has the capacity that
\* is left without the padding in front.

PaddingOf(s) == IF s = "utf8" THEN 4 * VectorBytes ELSE TailPadding

\* Mutant: room for two bytes a character.
BufferBytesMut == 2 * len + 2 * PaddingOf(source)

BufferBytes == 4 * len + 2 * PaddingOf(source)

Capacity == (IF BufferBytes > StaticBytes THEN BufferBytes ELSE StaticBytes) - PaddingOf(source)

MayFailReserve == source \in FailingReserve /\ BufferBytes > StaticBytes

\* A document that starts with a quote.  loads_root_single does not look at
\* what check_and_reserve_str_buffer returns: it goes on without a buffer.
StringStart ==
    /\ at = "none"
    /\ pos' = 1
    /\ ahead' \in Ahead(1)
    /\ \/ /\ capacity' = Capacity
          /\ at' = "scan"
       \/ /\ MayFailReserve
          /\ capacity' = -1
          /\ at' = IF source = "utf8" THEN "failed" ELSE "scan"
    /\ UNCHANGED <<source, len, stops, width, writer, u8size, u16size, isAscii, maxvec,
                   maxEscape, result, text, stored, reach>>

-----------------------------------------------------------------------------
\* Vectors.

Left == len - pos

\* The units of the next load: four vectors, one, or the trailing units.
LoadedStr == IF Left >= 4 * Batch THEN 4 * Batch ELSE IF Left >= Batch THEN Batch ELSE Left

\* loads_bytes takes two vectors one by one first, and never less than one.
LoadedUtf8 ==
    IF pos - 1 >= 2 * Batch /\ Left >= 3 * Batch THEN 4 * Batch ELSE Batch

Loaded == IF source = "utf8" THEN LoadedUtf8 ELSE LoadedStr

\* The units of the run ahead.  What stops it is seen when it is in the load;
\* behind a bytes document there is a zero, behind a str nothing is loaded.
RunUnits == ahead.n * ahead.per
InLoad == RunUnits < Loaded /\ (source = "utf8" \/ ahead.kind # "end")

Plus(f, i, n) == [f EXCEPT ![i] = @ + n]

\* n units of the run are read, in a str with track_max.
Read(n) ==
    /\ text' = Plus(text, ahead.class, n \div ahead.per)
    /\ maxvec' = IF n > 0 /\ source # "utf8" THEN Larger(maxvec, ahead.class) ELSE maxvec

\* As much of it, and then the escape that stops it.
ReadEscape(n) ==
    /\ text' = Plus(Plus(text, ahead.class, n \div ahead.per), ahead.value, 1)
    /\ maxvec' = IF n > 0 /\ source # "utf8" THEN Larger(maxvec, ahead.class) ELSE maxvec

\* A str of the kind of class c is made from n characters.
Made(c, n, read) ==
    /\ at' = "done"
    /\ result' = [class |-> c, length |-> n, read |-> read]

\* What is ahead of the new position.
Look == ahead' \in Ahead(pos)'

-----------------------------------------------------------------------------
\* Scanning: no escape so far, in a bytes document nothing above 127.

\* The vectors hold nothing but characters of the run; the trailing units
\* of a str without a stop are an error.
ScanVector ==
    /\ at = "scan" /\ ~InLoad
    /\ source = "utf8" => ahead.class = 0
    /\ Read(Loaded)
    /\ pos' = pos + Loaded
    /\ ahead' = [ahead EXCEPT !.n = @ - Loaded]
    /\ at' = IF source # "utf8" /\ Left < Batch THEN "failed" ELSE at
    /\ UNCHANGED <<source, len, stops, capacity, width, writer, u8size, u16size, isAscii,
                   maxEscape, result, stored, reach>>

\* The string ends: it is made from the document, of the kind of the largest
\* character that was seen.
ScanQuote ==
    /\ at = "scan" /\ InLoad /\ ahead.kind = "quote"
    /\ source = "utf8" => ahead.class = 0
    /\ Read(RunUnits)
    /\ pos' = pos + RunUnits + 1
    /\ Made(maxvec', pos + RunUnits - 1, NoneWide)
    /\ UNCHANGED <<source, len, ahead, stops, capacity, width, writer, u8size, u16size,
                   isAscii, maxEscape, stored, reach>>

ScanFails ==
    /\ at = "scan" /\ InLoad /\ ahead.kind \in {"bad", "end"}
    /\ source = "utf8" => ahead.class = 0
    /\ Read(RunUnits)
    /\ pos' = pos + RunUnits
    /\ at' = "failed"
    /\ UNCHANGED <<source, len, ahead, stops, capacity, width, writer, u8size, u16size,
                   isAscii, maxEscape, result, stored, reach>>

\* The first escape of a str: what was scanned is copied at the width of the
\* escape, at least that of the document.
FirstWidth(value) == Larger(ByteWidth(value), UnitBytes(source))

FirstEscape ==
    LET n == pos + RunUnits - 1
        w == FirstWidth(ahead.value)
    IN  /\ at = "scan" /\ InLoad /\ ahead.kind = "escape" /\ source # "utf8"
        /\ ReadEscape(RunUnits)
        /\ maxEscape' = ahead.value
        /\ isAscii' = (ahead.value = 0)
        /\ width' = w
        /\ writer' = n + 1
        /\ stored' = [stored EXCEPT ![w] = n + 1]
        /\ reach' = (n + 1) * w
        /\ pos' = pos + RunUnits + ahead.size
        /\ stops' = stops + 1
        /\ at' = "copy"
        /\ UNCHANGED <<source, len, capacity, u8size, u16size, result>>
        /\ Look

\* A bytes document is copied from the first escape or byte above 127 on.
CopyUtf8 ==
    LET run == IF ahead.class = 0 THEN RunUnits ELSE 0
    IN  /\ at = "scan" /\ source = "utf8"
        /\ \/ ahead.class # 0
           \/ InLoad /\ ahead.kind = "escape"
        /\ pos' = pos + run
        /\ ahead' = IF ahead.class = 0 THEN [ahead EXCEPT !.n = 0] ELSE ahead
        /\ text' = Plus(text, 0, run)
        /\ width' = 1
        /\ writer' = pos' - 1
        /\ stored' = [stored EXCEPT ![1] = pos' - 1]
        /\ reach' = pos' - 1
        /\ isAscii' = TRUE
        /\ at' = "copy"
        /\ UNCHANGED <<source, len, stops, capacity, u8size, u16size, maxvec, maxEscape, result>>

\* In a bytes document another run may follow.
NextRun ==
    /\ at \in {"scan", "copy"} /\ ahead.kind = "other" /\ stops < MaxStops
    /\ \/ at = "scan" /\ ahead.class = 0 /\ InLoad
       \/ at = "copy" /\ ahead.n = 0
    /\ pos' = pos + RunUnits
    /\ text' = Plus(text, ahead.class, ahead.n)
    /\ stops' = stops + 1
    /\ UNCHANGED <<source, len, at, capacity, width, writer, u8size, u16size, isAscii, maxvec,
                   maxEscape, result, stored, reach>>
    /\ Look

-----------------------------------------------------------------------------
\* Copying.

\* Mutant: u16size is not reduced by the one-byte part.
WidenedMut(w, n) ==
    /\ width' = w
    /\ u8size' = IF width = 1 /\ w > 1 THEN n ELSE u8size
    /\ u16size' = IF width = 2 /\ w = 4 THEN n ELSE u16size

\* At index n the writer goes on w bytes wide.
Widened(w, n) ==
    /\ width' = w
    /\ u8size' = IF width = 1 /\ w > 1 THEN n ELSE u8size
    /\ u16size' = IF width = 2 /\ w = 4 THEN n - u8size ELSE u16size

\* n characters are put in the buffer w bytes wide, by stores of `touched' units.
Stored(n, w, touched) ==
    /\ writer' = writer + n
    /\ stored' = Plus(stored, w, n)
    /\ reach' = Larger(reach, (writer + touched) * w)

\* The units the next store of a str takes: the trailing one a whole vector.
Touched == IF Left >= Batch THEN Loaded ELSE Batch

CopyVector ==
    /\ at = "copy" /\ source # "utf8" /\ ~InLoad
    /\ Read(Loaded)
    /\ pos' = pos + Loaded
    /\ ahead' = [ahead EXCEPT !.n = @ - Loaded]
    /\ Stored(Loaded, width, Touched)
    /\ at' = IF Left < Batch THEN "failed" ELSE at
    /\ UNCHANGED <<source, len, stops, capacity, width, u8size, u16size, isAscii, maxEscape, result>>

\* A run of a bytes document, in blocks and by single characters, that fits
\* the width; a block leaves at most two characters it does not advance over.
CopyRun ==
    /\ at = "copy" /\ source = "utf8" /\ ahead.n > 0
    /\ ByteWidth(ahead.class) <= width
    /\ pos' = pos + RunUnits
    /\ text' = Plus(text, ahead.class, ahead.n)
    /\ ahead' = [ahead EXCEPT !.n = 0]
    /\ Stored(ahead.n, width, ahead.n + 2)
    /\ isAscii' = (isAscii /\ ~(width = 1 /\ ahead.class = 1))
    /\ UNCHANGED <<source, len, stops, at, capacity, width, u8size, u16size, maxvec, maxEscape, result>>

\* DECODE_LOOPSTATE_PROMOTE
Promote ==
    /\ at = "copy" /\ source = "utf8" /\ ahead.n > 0
    /\ ByteWidth(ahead.class) > width
    /\ Widened(ByteWidth(ahead.class), writer)
    /\ UNCHANGED <<source, len, pos, ahead, stops, at, capacity, writer, isAscii, maxvec,
                   maxEscape, result, text, stored, reach>>

\* What stops the run is reached, with the run's last load.
AtStop == at = "copy" /\ (IF source = "utf8" THEN ahead.n = 0 ELSE InLoad)
LastTouched == IF source = "utf8" THEN 0 ELSE Touched

\* An escape: its character is stored at the width it needs if that is wider.
CopyEscape ==
    LET n == writer + ahead.n
        w == Larger(width, ByteWidth(ahead.value))
    IN  /\ AtStop /\ ahead.kind = "escape"
        /\ ReadEscape(RunUnits)
        /\ Widened(w, n)
        /\ writer' = n + 1
        /\ stored' = Plus(Plus(stored, width, ahead.n), w, 1)
        /\ reach' = Larger(Larger(reach, (writer + LastTouched) * width), (n + 1) * w)
        /\ isAscii' = (isAscii /\ ~(w = 1 /\ ahead.value = 1))
        /\ maxEscape' = Larger(maxEscape, ahead.value)
        /\ pos' = pos + RunUnits + ahead.size
        /\ stops' = stops + 1
        /\ UNCHANGED <<source, len, at, capacity, result>>
        /\ Look

CopyFails ==
    /\ AtStop /\ ahead.kind \in {"bad", "end"}
    /\ Read(RunUnits)
    /\ Stored(ahead.n, width, LastTouched)
    /\ pos' = pos + RunUnits
    /\ at' = "failed"
    /\ UNCHANGED <<source, len, ahead, stops, capacity, width, u8size, u16size, isAscii,
                   maxEscape, result>>

\* The class of the str: is_ascii from an ASCII or bytes document, otherwise
\* what is left of the width when no vector and no escape needed it.
CopiedClass(s, w, ascii, seen) ==
    CASE w = 1 /\ s \in {"ascii", "utf8"} -> IF ascii THEN 0 ELSE 1
      [] w = 1 /\ s = "ucs1" -> Smaller(seen, 1)
      [] w = 2 -> IF s = "ucs2" THEN Smaller(seen, 2) ELSE 2
      [] w = 4 -> IF s = "ucs4" THEN seen ELSE 3

\* It is put together from the parts of the buffer, as many as were counted.
Parts(w, n) == [v \in Widths |->
    CASE v > w -> 0
      [] v = w -> n - (IF w > 1 THEN u8size ELSE 0) - (IF w > 2 THEN u16size ELSE 0)
      [] v = 1 /\ w > 1 -> u8size
      [] v = 2 /\ w > 2 -> u16size]

CopyQuote ==
    LET n == writer + ahead.n
    IN  /\ AtStop /\ ahead.kind = "quote"
        /\ Read(RunUnits)
        /\ Stored(ahead.n, width, LastTouched)
        /\ pos' = pos + RunUnits + 1
        /\ Made(CopiedClass(source, width, isAscii, Larger(maxEscape, maxvec')), n, Parts(width, n))
        /\ UNCHANGED <<source, len, ahead, stops, capacity, width, u8size, u16size, isAscii,
                       maxEscape>>

StringStep ==
    \/ ScanVector \/ ScanQuote \/ ScanFails \/ FirstEscape \/ CopyUtf8 \/ NextRun
    \/ CopyVector \/ CopyRun \/ Promote \/ CopyEscape \/ CopyFails \/ CopyQuote

-----------------------------------------------------------------------------
\* The characters of the text t.
TotalOf(t) == t[0] + t[1] + t[2] + t[3]

\* The str made has as many characters as the string, is of the narrowest kind
\* that holds them, and every character that went through the buffer is taken
\* from it at the width at which it was stored there.
ResultIsTheString ==
    at = "done" =>
        LET present == {c \in Classes : text[c] > 0}
        IN  /\ result.length = TotalOf(text)
            /\ result.class = (IF present = {} THEN 0 ELSE Max(present))
            /\ result.read = stored

\* Nothing is stored outside the buffer that was reserved, by the trailing
\* stores of whole vectors either, nor without one.
StoresInside == reach > 0 => reach <= capacity
=============================================================================
