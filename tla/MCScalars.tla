----------------------------- MODULE MCScalars -----------------------------
(***************************************************************************)
(* Scalar documents for TLC.  Numbers: a word of 7 bits, two safe digits,  *)
(* so that integers of two and three digits lie on both sides of every     *)
(* limit, and texts put together from parts, the malformed ones included.  *)
(* Strings of UTF-8: characters at the limits of their length, one kind    *)
(* and two, around the sizes of blocks, and what is not well formed.       *)
(* Strings of a str: what stops a vector, at its ends and those of four.   *)
(***************************************************************************)
EXTENDS Readers

IntegerParts == {<<>>, <<"0">>, <<"0", "1">>, <<"5">>, <<"6", "4">>, <<"6", "5">>, <<"9", "9">>,
                 <<"1", "2", "7">>, <<"1", "2", "8">>, <<"1", "0", "5">>, <<"1", "2", "0", "0">>,
                 <<"1", "0", "4", "9">>}
FractionParts == {<<>>, <<".">>, <<".", "0">>, <<".", "5">>, <<".", "0", "0">>, <<".", "0", "6">>,
                  <<".", "4", "9">>, <<".", "5", "0", "1">>, <<".", "0", "0", "0", "7">>}
ExponentParts == {<<>>, <<"e">>, <<"e", "+">>, <<"e", "0">>, <<"E", "-", "1">>, <<"e", "+", "0", "3">>,
                  <<"e", "-", "7">>, <<"e", "1", "1">>, <<"e", "-", "1", "0">>}
TailParts == {<<>>, <<" ">>, <<" ", "5">>, <<".">>, <<"-">>}

MCNumbers == {t \in {s \o i \o f \o e \o t : s \in {<<>>, <<"-">>}, i \in IntegerParts,
                f \in FractionParts, e \in ExponentParts, t \in TailParts} :
                    t # <<>> /\ (IsDigit(t[1]) \/ t[1] = "-")}
MCMinDecExp == -4

-----------------------------------------------------------------------------
Repeat(c, n) == FlattenSeq([i \in 1 .. n |-> c])

TwoBytes == {<<194, 128>>, <<195, 191>>, <<223, 191>>}
Characters ==
    {<<65>>, <<127>>, <<196, 128>>, <<224, 160, 128>>, <<237, 159, 191>>, <<238, 128, 128>>,
     <<239, 191, 191>>, <<240, 144, 128, 128>>, <<244, 143, 191, 191>>} \cup TwoBytes
Malformed ==
    {<<128>>, <<191>>, <<192, 128>>, <<193, 191>>, <<194, 65>>, <<223>>, <<224, 159, 191>>,
     <<224, 160>>, <<237, 160, 128>>, <<239, 191>>, <<240, 143, 191, 191>>, <<244, 143, 191>>,
     <<244, 144, 128, 128>>, <<245, 128, 128, 128>>, <<255>>, <<31>>}

\* One kind, two in turn, and characters of two bytes with one or two of one.
Alike == {Repeat(<<65>>, k) \o Repeat(c, n) \o b :
            k \in {0, 3, 15}, c \in Characters, n \in {1, 4, 8}, b \in Malformed \cup {<<>>}}
Mixed == {Repeat(c \o d, n) \o b :
            c \in Characters, d \in Characters, n \in {4, 6}, b \in {<<>>, <<223>>}}
Nearly == {Repeat(c, i) \o d \o Repeat(c, j) \o b \o c :
            c \in TwoBytes, i \in 0 .. 7, d \in {<<65>>, <<65, 127>>}, j \in {0, 3, 5, 7},
            b \in {<<65>>, <<195>>, <<128>>, <<193, 191>>, <<192, 128>>}}
MCUtf8Texts ==
    {t \o <<34>> : t \in Alike \cup Mixed \cup Nearly} \cup Alike \cup {t \o <<92>> : t \in Mixed}

-----------------------------------------------------------------------------
MCIsas == {"sse4", "neon", "avx2", "avx512"}

Many(v, n) == [i \in 1 .. n |-> v]

\* An escape of four digits.
U(a, b, c, d) == <<92, 117, a, b, c, d>>
HighSurrogate == U(100, 56, 48, 68)
LowSurrogate == U(68, 67, 52, 102)
Stopping ==
    {<<92, 110>>, <<92, 34>>, <<92, 120>>, <<31>>, U(48, 48, 52, 49), U(48, 48, 102, 70),
     U(48, 49, 48, 48), U(48, 304, 52, 49), U(48, 48, 71, 49),
     HighSurrogate \o LowSurrogate, HighSurrogate \o U(48, 48, 52, 49), LowSurrogate,
     U(48, 49, 48, 48) \o <<99>> \o HighSurrogate \o LowSurrogate}
Unfinished == {<<>>, <<92>>, <<92, 117, 48, 48>>, HighSurrogate, HighSurrogate \o <<92, 117, 100, 99, 48>>}
Wide == {<<65>>, <<200>>, <<300>>, <<70000>>}

\* What stops the vectors, and the end behind it; the end in a vector, with something behind it.
Stopped(n) == {<<34>> \o Many(65, k) \o b \o Many(66, j) \o <<34>> \o w :
                 k \in {0, n - 2, 4 * n - 1}, b \in Stopping, j \in {2, n}, w \in Wide}
Ended(n) == {<<34>> \o w \o Many(65, k) \o b \o q \o v :
                 w \in Wide, k \in {0, n - 2, n - 1, 4 * n - 2, 5 * n}, b \in Unfinished,
                 q \in {<<>>, <<34>>}, v \in {<<>>, <<70000>>}}
MCStrDocuments == [n \in {4, 8, 16, 32, 64} |-> Stopped(n) \cup Ended(n)]

AllWords == WordsOfJson \cup Cased(WordInf) \cup Cased(WordNan)
Beginnings == UNION {{SubSeq(w, 1, k) : k \in DOMAIN w} : w \in AllWords}
MCWords == {w \o t : w \in Beginnings, t \in {<<>>, <<44>>} \cup Wide}
MCSpaces == {Many(32, k) \o t : k \in {1, 2, 3, 15, 16, 33, 64, 67}, t \in {<<>>, <<44>>, <<44, 32>>} \cup Wide}
NoDocuments == [n \in {} |-> {}]

-----------------------------------------------------------------------------
\* What the text says, independently of how it is read: the longest prefix
\* that is a JSON number, and its value all * 10^exp.

RunOf(d, p) == PastDigits(d, p) - p
IntegerEnd(d, c) ==
    IF At(d, c) = "0" THEN c + 1 ELSE IF RunOf(d, c) > 0 THEN PastDigits(d, c) ELSE 0
FractionEnd(d, p) ==
    IF At(d, p) = "." /\ RunOf(d, p + 1) > 0 THEN PastDigits(d, p + 1) ELSE p
ExponentEnd(d, p) ==
    LET q == IF IsSign(At(d, p + 1)) THEN p + 2 ELSE p + 1
    IN  IF IsExp(At(d, p)) /\ RunOf(d, q) > 0 THEN PastDigits(d, q) ELSE p

\* n is what the text d is read as.
SaysTheText(d, n) ==
    LET neg == At(d, 1) = "-"
        c == IF neg THEN 2 ELSE 1
        i == IntegerEnd(d, c)
        f == FractionEnd(d, i)
        e == ExponentEnd(d, f)
        q == IF IsSign(At(d, f + 1)) THEN f + 2 ELSE f + 1
        lit == IF e = f THEN 0 ELSE Spelled(d, q, e)
        all == Spelled(d, c, f)
        exp == (IF At(d, f + 1) = "-" THEN -lit ELSE lit) - (IF f = i THEN 0 ELSE f - i - 1)
        integral == e = i
    IN  IF i = 0 THEN n.kind = "error"
        ELSE /\ n.kind = "error" => IsDigit(At(d, e)) \/ At(d, e) = "." \/ IsExp(At(d, e))
             /\ n.kind # "error" => n.next = e
             /\ n.kind = "int" =>
                    integral /\ n.sig = (IF neg THEN -all ELSE all)
                    /\ (IF neg THEN all <= HalfWord ELSE all <= WordMax)
             /\ n.kind \in {"float", "zero", "inf"} /\ integral =>
                    (IF neg THEN all > HalfWord ELSE all > WordMax)
             /\ n.kind = "zero" =>
                    all = 0 \/ (exp <= MinDecExp /\ all < 10 ^ Min({8, MinDecExp - exp}))
             /\ n.kind = "inf" =>
                    all > 0 /\ (exp > MaxDecExp \/ all > 10 ^ (MaxDecExp - exp))
             /\ n.kind = "float" =>
                    LET unit == 10 ^ (n.exp - exp)
                    IN  /\ n.exp >= exp
                        /\ n.cut <=> n.sig * unit # all
                        /\ 2 * (n.sig * unit - all) <= unit
                        /\ 2 * (all - n.sig * unit) <= unit

\* What loads_number makes of a text is what the text says: it takes the longest
\* prefix that is a number and fails only if that cannot be all; an integer
\* that fits i64 or u64 is an int and no other is; a float is the exact value,
\* or rounded to half a unit and marked as cut.
NumberIsTheLiteral == literal # <<>> => SaysTheText(literal, number)

\* Numbers are what their text says, strings the characters of their bytes or of the
\* vectors they are read by, and a copy is what was copied.
ReadIsTheText == NumberIsTheLiteral /\ Utf8IsDecoded /\ CopiesAreTheSource /\ StrIsTheText
=============================================================================
