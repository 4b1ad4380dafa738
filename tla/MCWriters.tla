----------------------------- MODULE MCWriters -----------------------------
(***************************************************************************)
(* Documents for TLC.  Strs of up to three runs of characters of one class *)
(* each, of lengths around that of a vector of the kind; arrays of up to   *)
(* three dimensions, empty ones in every place among them; the tokens of   *)
(* dumps(), whose strs differ in what is escaped; and, for every build,    *)
(* strs of code points on both sides of each limit that a vector compares  *)
(* with, as long as one vector or two of the build and its kind.           *)
(***************************************************************************)
EXTENDS Writers

CONSTANTS t1, t2, s1, b1, b2, b3

MCThreads == {t1, t2}
MCStrs == {s1}
MCBuffers == {b1, b2, b3}

OfKind(kind) ==
    CASE kind = 1 -> {"ascii", "quote", "control", "two"}
      [] kind = 2 -> {"ascii", "control", "two", "three", "surrogate"}
      [] kind = 4 -> {"ascii", "quote", "two", "three", "surrogate", "four"}

RunLengths(kind) == {1, Batch(kind) - 1, Batch(kind) + 1}

Run(c, n) == [i \in 1 .. n |-> c]
Texts(kind) ==
    {Run(c[1], n[1]) \o Run(c[2], n[2]) \o Run(c[3], m) :
        c \in [1 .. 3 -> OfKind(kind)], n \in [1 .. 2 -> RunLengths(kind)], m \in {0, 1}}

\* The smallest kind that can hold the characters is the one Python gives them.
Holds(kind, cs) ==
    CASE kind = 1 -> TRUE
      [] kind = 2 -> cs \cap {"two", "three", "surrogate"} # {}
      [] kind = 4 -> "four" \in cs

\* A str that is not compact differs only if it is less than a vector.
StrsOf(kind) ==
    {[kind |-> kind, ascii |-> kind = 1 /\ "two" \notin Range(s), compact |-> compact, chars |-> s] :
        s \in {u \in Texts(kind) : Holds(kind, Range(u))}, compact \in BOOLEAN}

\* One that is too short to be cached, one whose UTF-8 is shorter than a vector,
\* one that is copied from its UTF-8, and one that has none.
MCContended ==
    {[kind |-> 2, ascii |-> FALSE, compact |-> TRUE, chars |-> s] :
        s \in {Run("three", 2), Run("ascii", 7) \o Run("two", 1),
               Run("three", 7) \o Run("control", 1), Run("three", 7) \o Run("surrogate", 1)}}

MCValues ==
    LET all == MCContended \cup
               UNION {{v \in StrsOf(k) : v.compact \/ Len(v.chars) < Batch(k)} : k \in Kinds}
    IN  {[v EXCEPT !.chars = @ \o <<>>] : v \in all}

MCShapes == {<<0>>, <<1>>, <<4>>, <<0, 2>>, <<2, 0>>, <<1, 3>>, <<3, 1>>, <<2, 2>>,
             <<2, 0, 2>>, <<2, 1, 2>>, <<1, 2, 2>>, <<1, 1, 1>>}

\* The two sides of every limit.
Limits(kind) ==
    {31, 32, 34, 127, 128, 255} \cup
    (IF kind = 1 THEN {}
     ELSE {2047, 2048, 32767, 32768, 55295, 55296, 57343, 57344, 65535}) \cup
    (IF kind = 4 THEN {65536} ELSE {})

\* One of each class and of each sign.
OfClasses(kind) == Limits(kind) \cap {31, 127, 128, 2047, 32768, 55296, 65536}

MCIsas == {"sse2", "sse4", "neon", "avx2", "avx512"}

\* For dumps(), a character is escaped or not; 33 at most are in a row.
MCAppendedStrs ==
    [isa \in MCIsas |-> [kind \in Kinds |->
        LET lanes == Lanes(isa, kind)
            plain == CASE kind = 1 -> 255 [] kind = 2 -> 32768 [] kind = 4 -> 65536
            first == {Run(31, 1)} \cup {Run(plain, n) : n \in {1, lanes - 1, lanes + 1}}
            second == {Run(31, 1), Run(32, 2), Run(34, Min({lanes + 1, 33}))}
            texts == {<<>>} \cup {a \o b \o Run(92, m) : a \in first, b \in second, m \in {0, 1}}
        IN  {s \in [compact : BOOLEAN, chars : {t \o <<>> : t \in texts}] :
                s.compact \/ Len(s.chars) < lanes}]]

\* bound: a character that no loop takes is written 33 times at most.
\* Python gives a str the smallest kind that holds it; an ASCII str is not written
\* by these functions, but its characters may well end one that is not ASCII.
MCEncodedStrs ==
    [isa \in MCIsas |-> [kind \in {1, 2, 4} |->
        LET lanes == Lanes(isa, kind)
            least == CASE kind = 1 -> 128 [] kind = 2 -> 256 [] kind = 4 -> 65536
            often == {1, lanes - 2, lanes - 1, 2 * lanes + 1}
            pairs == {Run(least, m) \o Run(v, k) \o <<w>> :
                         v \in Limits(kind), w \in Limits(kind), m \in {0, 1}, k \in {n \in often : n <= 33}}
                     \cup {Run(least, 1) \o Run(v, k) \o <<w>> :
                         v \in {32, 127}, w \in Limits(kind), k \in often}
            triples == {Run(c[1], m[1]) \o Run(c[2], m[2]) \o <<c[3]>> :
                           c \in [1 .. 3 -> OfClasses(kind)], m \in {1, Min({lanes - 1, 31})} \X {1, 2}}
        IN  {s \o <<>> : s \in {t \in pairs \cup triples : \E i \in DOMAIN t : t[i] >= least}}]]

Symmetry == Permutations(MCThreads) \cup Permutations(MCBuffers)
=============================================================================
