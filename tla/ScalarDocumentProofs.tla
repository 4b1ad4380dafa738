------------------------ MODULE ScalarDocumentProofs ------------------------
(***************************************************************************)
(* What is decoded of a string, for documents of any length, any runs and  *)
(* any number of escapes and changes of class, and what is left when a     *)
(* scalar document ends.                                                   *)
(*                                                                         *)
(* Of the characters read so far the invariant knows how many there are,   *)
(* which class is the largest (maxvec and maxEscape in a str, the width in *)
(* a bytes document), and how many lie in the buffer at each width.        *)
(***************************************************************************)
EXTENDS Readers, TLAPS

\* What lies ahead: it fits what is left of the document.
AheadRec == [n : Nat, class : Classes, per : 1 .. 4, value : Classes, size : Nat,
             kind : {"quote", "bad", "escape", "other", "end"}]

Looking ==
    /\ pos \in Nat \ {0} /\ pos <= len
    /\ ahead \in AheadRec /\ <<ahead.class, ahead.per>> \in Plain(source)
    /\ RunUnits \in Nat /\ pos + RunUnits <= len
    /\ ahead.kind \in {"quote", "bad", "other"} => pos + RunUnits < len
    /\ ahead.kind = "escape" => pos + RunUnits + ahead.size <= len /\ ahead.size >= 2
    /\ ahead.kind = "other" => source = "utf8"
    /\ ahead.kind = "end" => pos + RunUnits = len

\* m is the largest class of the characters t, 0 if there are none.
SeenIn(t, m) == (\A c \in Classes : t[c] > 0 => c <= m) /\ (m > 0 => t[m] > 0)

\* The classes a str of each kind may hold.
FitsKind(c) ==
    /\ source = "ascii" => c = 0
    /\ source = "ucs1" => c <= 1
    /\ source = "ucs2" => c <= 2

\* n characters were put in the buffer, the last of them w bytes wide: u of one byte
\* and v of two before those that are wider.
StoredAs(st, w, n, u, v) ==
    /\ st \in [Widths -> Nat] /\ n \in Nat /\ u \in Nat /\ v \in Nat
    /\ w = 1 => st[1] = n /\ st[2] = 0 /\ st[4] = 0 /\ u = 0 /\ v = 0
    /\ w = 2 => st[1] = u /\ st[2] + u = n /\ st[4] = 0 /\ v = 0
    /\ w = 4 => st[1] = u /\ st[2] = v /\ st[4] + u + v = n

TextTyped == text \in [Classes -> Nat] /\ maxvec \in Classes /\ maxEscape \in Classes

\* No escape so far: the characters are those of the document.
Scanning ==
    /\ stored = NoneWide /\ reach = 0 /\ u8size = 0 /\ u16size = 0
    /\ maxEscape = 0 /\ TotalOf(text) = pos - 1
    /\ SeenIn(text, maxvec) /\ FitsKind(maxvec)
    /\ source = "utf8" => maxvec = 0

\* The width of the buffer of a str is that of its units or of an escape.
StrWidth ==
    /\ SeenIn(text, Larger(maxEscape, maxvec)) /\ FitsKind(maxvec)
    /\ width >= UnitBytes(source) /\ width >= ByteWidth(maxEscape)
    /\ width = UnitBytes(source) \/ width = ByteWidth(maxEscape)
    /\ width = 1 => (isAscii <=> maxEscape = 0)

\* That of a bytes document is the least for its characters, with the run ahead if the
\* buffer was just widened for it.
Utf8Width ==
    /\ \A c \in Classes : text[c] > 0 => ByteWidth(c) <= width
    /\ width = 1 => (isAscii <=> text[1] = 0)
    /\ width = 2 => text[2] > 0 \/ (ahead.n > 0 /\ ahead.class = 2)
    /\ width = 4 => text[3] > 0 \/ (ahead.n > 0 /\ ahead.class = 3)

Copying ==
    /\ width \in Widths /\ writer = TotalOf(text) /\ isAscii \in BOOLEAN
    /\ StoredAs(stored, width, writer, u8size, u16size)
    /\ IF source = "utf8" THEN Utf8Width ELSE StrWidth

StringInv ==
    /\ source \in AllSources /\ len \in Nat \ {0}
    /\ at \in {"none", "scan", "copy"} => TextTyped
    /\ at = "none" => /\ stored = NoneWide /\ reach = 0 /\ u8size = 0 /\ u16size = 0
                      /\ maxEscape = 0 /\ maxvec = 0 /\ \A c \in Classes : text[c] = 0
    /\ at \in {"scan", "copy"} => Looking
    /\ at = "scan" => Scanning
    /\ at = "copy" => Copying
    /\ ResultIsTheString

-----------------------------------------------------------------------------
(* Counting characters. *)

LEMMA TotalMore ==
    ASSUME NEW t \in [Classes -> Nat], NEW c \in Classes, NEW n \in Nat
    PROVE  Plus(t, c, n) \in [Classes -> Nat] /\ TotalOf(Plus(t, c, n)) = TotalOf(t) + n
           /\ TotalOf(t) \in Nat
  BY DEF Plus, TotalOf, Classes

\* The largest class when n characters of class c follow.
LEMMA SeenMore ==
    ASSUME NEW t \in [Classes -> Nat], NEW m \in Classes, SeenIn(t, m), NEW c \in Classes, NEW n \in Nat
    PROVE  SeenIn(Plus(t, c, n), IF n > 0 THEN Larger(m, c) ELSE m)
<1>1. \A b \in Classes : Plus(t, c, n)[b] = IF b = c THEN t[b] + n ELSE t[b]
  BY DEF Plus
<1>2. \A b \in Classes : t[b] \in Nat /\ b \in Nat
  BY DEF Classes
<1>3. m \in Nat /\ Larger(m, c) \in {m, c} /\ m <= Larger(m, c) /\ c <= Larger(m, c)
  BY <1>2 DEF Larger
<1> QED
  BY <1>1, <1>2, <1>3 DEF SeenIn

Present(t) == {c \in Classes : t[c] > 0}

\* Its class is what the str is made of.
LEMMA SeenIsMax ==
    ASSUME NEW t \in [Classes -> Nat], NEW m \in Classes, SeenIn(t, m)
    PROVE  m = (IF Present(t) = {} THEN 0 ELSE Max(Present(t)))
<1>1. \A c \in Present(t) : c <= m /\ c \in Nat
  BY DEF SeenIn, Classes, Present
<1>2. m \in Nat
  BY DEF Classes
<1>3. CASE Present(t) = {}
  BY <1>2, <1>3 DEF SeenIn, Present
<1>4. CASE Present(t) # {}
  <2>1. m \in Present(t)
    <3>1. CASE m > 0
      BY <3>1 DEF SeenIn, Present
    <3>2. CASE ~(m > 0)
      <4>1. PICK c \in Present(t) : c <= m
        BY <1>1, <1>4
      <4> QED
        BY <1>1, <1>2, <3>2, <4>1
    <3> QED
      BY <3>1, <3>2
  <2>2. \A x \in Present(t) : (\A y \in Present(t) : x >= y) <=> x = m
    BY <1>1, <1>2, <2>1
  <2>3. Max(Present(t)) = m
    BY <2>1, <2>2 DEF Max
  <2> QED
    BY <1>4, <2>3
<1> QED
  BY <1>3, <1>4

\* n more characters of the width of the buffer.
LEMMA StoreMore ==
    ASSUME NEW st, NEW w \in Widths, NEW n, NEW u, NEW v, StoredAs(st, w, n, u, v), NEW k \in Nat
    PROVE  StoredAs(Plus(st, w, k), w, n + k, u, v)
<1>1. st \in [Widths -> Nat] /\ n \in Nat /\ u \in Nat /\ v \in Nat
  BY DEF StoredAs
<1>2. /\ Plus(st, w, k) \in [Widths -> Nat]
      /\ \A x \in Widths : Plus(st, w, k)[x] = IF x = w THEN st[x] + k ELSE st[x]
  BY <1>1 DEF Plus
<1>3. st[1] \in Nat /\ st[2] \in Nat /\ st[4] \in Nat
  BY <1>1 DEF Widths
<1> QED
  BY <1>1, <1>2, <1>3 DEF StoredAs, Widths

\* The buffer goes on wider: what is there is counted in u and v.
LEMMA StoreWider ==
    ASSUME NEW st, NEW w \in Widths, NEW n, NEW u, NEW v, StoredAs(st, w, n, u, v),
           NEW x \in Widths, w <= x
    PROVE  StoredAs(st, x, n, IF w = 1 /\ x > 1 THEN n ELSE u, IF w = 2 /\ x = 4 THEN n - u ELSE v)
<1>1. st[1] \in Nat /\ st[2] \in Nat /\ st[4] \in Nat /\ n \in Nat /\ u \in Nat /\ v \in Nat
  BY DEF StoredAs, Widths
<1> QED
  BY <1>1 DEF StoredAs, Widths

\* CopyQuote takes the parts of the buffer that are there.
LEMMA PartsAreStored ==
    ASSUME NEW st, NEW w \in Widths, NEW n, StoredAs(st, w, n, u8size, u16size)
    PROVE  Parts(w, n) = st
<1>1. st \in [Widths -> Nat] /\ st[1] \in Nat /\ st[2] \in Nat /\ st[4] \in Nat
      /\ n \in Nat /\ u8size \in Nat /\ u16size \in Nat
  BY DEF StoredAs, Widths
<1>2. ASSUME NEW x \in Widths PROVE Parts(w, n)[x] = st[x]
  BY <1>1 DEF Parts, StoredAs, Widths
<1>3. Parts(w, n) = [x \in Widths |-> st[x]]
  <2> DEFINE F(v) == CASE v > w -> 0
                       [] v = w -> n - (IF w > 1 THEN u8size ELSE 0) - (IF w > 2 THEN u16size ELSE 0)
                       [] v = 1 /\ w > 1 -> u8size
                       [] v = 2 /\ w > 2 -> u16size
  <2>1. Parts(w, n) = [x \in Widths |-> F(x)]
    BY Zenon DEF Parts
  <2>2. \A x \in Widths : Parts(w, n)[x] = F(x)
    <3> HIDE DEF F
    <3> QED
      BY <2>1
  <2> HIDE DEF F
  <2> QED
    BY <1>2, <2>1, <2>2
<1> QED
  BY <1>1, <1>3

-----------------------------------------------------------------------------
(* What lies ahead. *)

LEMMA PlainTyped ==
    ASSUME source \in AllSources, NEW c, NEW p, <<c, p>> \in Plain(source)
    PROVE  /\ c \in Classes /\ p \in 1 .. 4 /\ FitsKind(c)
           /\ source # "utf8" => p = 1
           /\ c = 0 => p = 1
<1>1. CASE source = "ascii"
  BY <1>1 DEF Plain, Classes, FitsKind
<1>2. CASE source = "ucs1"
  BY <1>2 DEF Plain, Classes, FitsKind
<1>3. CASE source = "ucs2"
  BY <1>3 DEF Plain, Classes, FitsKind
<1>4. CASE source = "ucs4"
  BY <1>4 DEF Plain, Classes, FitsKind
<1>5. CASE source = "utf8"
  BY <1>5 DEF Plain, Classes, FitsKind
<1> QED
  BY <1>1, <1>2, <1>3, <1>4, <1>5 DEF AllSources

\* The run n characters long, of p units each.
LEMMA Products ==
    ASSUME NEW n \in Nat, NEW p \in 1 .. 4
    PROVE  /\ n * p \in Nat /\ n <= n * p
           /\ p = 1 => n * p = n
           /\ n = 0 => n * p = 0
<1>1. p = 1 \/ p = 2 \/ p = 3 \/ p = 4
  OBVIOUS
<1> QED
  BY <1>1

LEMMA Quotients ==
    ASSUME NEW m \in Nat, NEW p \in 1 .. 4, m % p = 0
    PROVE  (m \div p) * p = m /\ m \div p \in Nat
<1>1. p = 1 \/ p = 2 \/ p = 3 \/ p = 4
  OBVIOUS
<1> QED
  BY <1>1

LEMMA LooksAt ==
    (/\ source \in AllSources /\ pos \in Nat \ {0} /\ len \in Nat /\ pos <= len
     /\ ahead \in Ahead(pos)) => Looking
<1> SUFFICES ASSUME source \in AllSources, pos \in Nat \ {0}, len \in Nat, pos <= len,
                    ahead \in Ahead(pos)
             PROVE  Looking
  OBVIOUS
<1> DEFINE left == len - pos
           runs == {r \in [n : Runs, class : Classes, per : 1 .. 4] :
                       /\ <<r.class, r.per>> \in Plain(source)
                       /\ r.n * r.per <= left
                       /\ r.n = 0 => r.class = 0}
           with(r, kind, class, size) ==
               [n |-> r.n, class |-> r.class, per |-> r.per, kind |-> kind, value |-> class, size |-> size]
           Is(n, c, p, k, v, z) ==
               /\ ahead = [n |-> n, class |-> c, per |-> p, kind |-> k, value |-> v, size |-> z]
               /\ n \in Nat /\ <<c, p>> \in Plain(source) /\ n * p <= left
               /\ v \in Classes /\ z \in Nat
               /\ k \in {"quote", "bad", "escape", "other", "end"}
               /\ k \in {"quote", "bad", "other"} => n * p < left
               /\ k = "escape" => n * p + z <= left /\ z >= 2
               /\ k = "other" => source = "utf8"
               /\ k = "end" => n * p = left
<1>1. left \in Nat /\ Runs \subseteq Nat
  BY VectorAssumption
<1>2. \A r \in runs : r.n \in Nat /\ <<r.class, r.per>> \in Plain(source) /\ r.n * r.per <= left
                      /\ r.n * r.per \in Nat
  <2> SUFFICES ASSUME NEW r \in runs
               PROVE  /\ r.n \in Nat /\ <<r.class, r.per>> \in Plain(source)
                      /\ r.n * r.per <= left /\ r.n * r.per \in Nat
    OBVIOUS
  <2>1. r.n \in Nat /\ r.per \in 1 .. 4
    BY <1>1
  <2>2. r.n * r.per \in Nat
    BY <2>1, Products
  <2>3. <<r.class, r.per>> \in Plain(source) /\ r.n * r.per <= left
    OBVIOUS
  <2> HIDE DEF runs, left
  <2> QED
    BY <2>1, <2>2, <2>3
<1>3. \A re \in runs \X Escapes : re[1] \in runs /\ re[2][1] \in Classes /\ re[2][2] \in Nat
                                  /\ re[2][2] >= 2
  BY DEF Escapes, Classes
<1>4. \/ \E r \in runs, kind \in {"quote", "bad"} :
             r.n * r.per < left /\ ahead = with(r, kind, 0, 1)
      \/ \E re \in runs \X Escapes :
             re[1].n * re[1].per + re[2][2] <= left /\ ahead = with(re[1], "escape", re[2][1], re[2][2])
      \/ \E r \in runs :
             source = "utf8" /\ r.n * r.per < left /\ ahead = with(r, "other", 0, 0)
      \/ \E pc \in Plain(source) :
             /\ left % pc[2] = 0
             /\ ahead = [n |-> left \div pc[2], class |-> pc[1], per |-> pc[2],
                         kind |-> "end", value |-> 0, size |-> 0]
  <2> DEFINE stopped == {with(r, kind, 0, 1) : r \in {x \in runs : x.n * x.per < left},
                                               kind \in {"quote", "bad"}}
             escaped == {with(re[1], "escape", re[2][1], re[2][2]) :
                            re \in {x \in runs \X Escapes : x[1].n * x[1].per + x[2][2] <= left}}
             another == {with(r, "other", 0, 0) :
                            r \in {x \in runs : source = "utf8" /\ x.n > 0 /\ x.n * x.per < left}}
             ended == {[n |-> left \div pc[2], class |-> pc[1], per |-> pc[2],
                        kind |-> "end", value |-> 0, size |-> 0] :
                            pc \in {x \in Plain(source) : left % x[2] = 0}}
  <2>6. Ahead(pos) = stopped \cup (IF stops >= MaxStops THEN {} ELSE escaped \cup another) \cup ended
    BY DEF Ahead
  <2>1. ahead \in stopped \cup (IF stops >= MaxStops THEN {} ELSE escaped \cup another) \cup ended
    <3> HIDE DEF stopped, escaped, another, ended
    <3> QED
      BY <2>6
  <2> HIDE DEF runs, left, with
  <2>2. CASE ahead \in stopped
    BY <2>2
  <2>3. CASE ahead \in escaped
    BY <2>3
  <2>4. CASE ahead \in another
    BY <2>4
  <2>5. CASE ahead \in ended
    BY <2>5
  <2> HIDE DEF stopped, escaped, another, ended
  <2> QED
    BY <2>1, <2>2, <2>3, <2>4, <2>5, Zenon
<1>5. \E n, c, p, k, v, z : Is(n, c, p, k, v, z)
  <2>0. 0 \in Classes /\ 0 \in Nat /\ 1 \in Nat
    BY DEF Classes
  <2>1. ASSUME NEW r \in runs, NEW kind \in {"quote", "bad"}, r.n * r.per < left,
               ahead = with(r, kind, 0, 1)
        PROVE  Is(r.n, r.class, r.per, kind, 0, 1)
    <3> HIDE DEF runs, left
    <3> QED
      BY <1>2, <2>0, <2>1
  <2>2. ASSUME NEW re \in runs \X Escapes, re[1].n * re[1].per + re[2][2] <= left,
               ahead = with(re[1], "escape", re[2][1], re[2][2])
        PROVE  Is(re[1].n, re[1].class, re[1].per, "escape", re[2][1], re[2][2])
    <3> HIDE DEF runs, left
    <3> QED
      BY <1>2, <1>3, <2>2
  <2>3. ASSUME NEW r \in runs, source = "utf8", r.n * r.per < left, ahead = with(r, "other", 0, 0)
        PROVE  Is(r.n, r.class, r.per, "other", 0, 0)
    <3> HIDE DEF runs, left
    <3> QED
      BY <1>2, <2>0, <2>3
  <2>4. ASSUME NEW pc \in Plain(source), left % pc[2] = 0,
               ahead = [n |-> left \div pc[2], class |-> pc[1], per |-> pc[2],
                        kind |-> "end", value |-> 0, size |-> 0]
        PROVE  Is(left \div pc[2], pc[1], pc[2], "end", 0, 0)
    <3>1. pc = <<pc[1], pc[2]>>
      BY DEF Plain, AllSources, Classes
    <3>2. pc[2] \in 1 .. 4
      BY <3>1, PlainTyped
    <3>3. (left \div pc[2]) * pc[2] = left /\ left \div pc[2] \in Nat
      BY <1>1, <2>4, <3>2, Quotients
    <3> HIDE DEF left
    <3> QED
      BY <1>1, <2>0, <2>4, <3>1, <3>3
  <2> HIDE DEF runs, left, with, Is
  <2> QED
    BY <1>4, <2>1, <2>2, <2>3, <2>4
<1>6. PICK n, c, p, k, v, z : Is(n, c, p, k, v, z)
  BY <1>5
<1>7. c \in Classes /\ p \in 1 .. 4 /\ n * p \in Nat
  BY <1>6, PlainTyped, Products
<1>8. /\ ahead.n = n /\ ahead.class = c /\ ahead.per = p /\ ahead.kind = k /\ ahead.value = v
      /\ ahead.size = z /\ ahead \in AheadRec
  BY <1>6, <1>7 DEF AheadRec
<1>9. RunUnits = n * p
  BY <1>8 DEF RunUnits
<1> QED
  BY <1>1, <1>6, <1>7, <1>8, <1>9 DEF Looking

LEMMA LooksAtNext ==
    (/\ source \in AllSources /\ pos \in Nat \ {0} /\ len \in Nat /\ pos <= len
     /\ ahead \in Ahead(pos))' => Looking'
  BY LooksAt, PTL

\* The run ahead, in units and in characters.
LEMMA RunAhead ==
    ASSUME source \in AllSources, Looking
    PROVE  /\ ahead.n \in Nat /\ ahead.class \in Classes /\ ahead.per \in 1 .. 4
           /\ ahead.value \in Classes /\ ahead.size \in Nat
           /\ FitsKind(ahead.class) /\ ahead.n <= RunUnits /\ RunUnits \in Nat
           /\ source # "utf8" => ahead.per = 1
           /\ ahead.class = 0 => ahead.per = 1
           /\ ahead.per = 1 => RunUnits = ahead.n
           /\ ahead.n = 0 => RunUnits = 0
<1>1. ahead.n \in Nat /\ ahead.class \in Classes /\ ahead.per \in 1 .. 4
      /\ ahead.value \in Classes /\ ahead.size \in Nat
  BY DEF Looking, AheadRec
<1>2. /\ FitsKind(ahead.class)
      /\ source # "utf8" => ahead.per = 1
      /\ ahead.class = 0 => ahead.per = 1
  BY PlainTyped DEF Looking
<1>3. /\ ahead.n * ahead.per \in Nat /\ ahead.n <= ahead.n * ahead.per
      /\ ahead.per = 1 => ahead.n * ahead.per = ahead.n
      /\ ahead.n = 0 => ahead.n * ahead.per = 0
  BY <1>1, Products
<1> QED
  BY <1>1, <1>2, <1>3 DEF RunUnits

-----------------------------------------------------------------------------
(* What is read, and what is loaded. *)

LEMMA Loads ==
    ASSUME source \in AllSources, pos \in Nat, len \in Nat, pos <= len
    PROVE  /\ Batch \in Nat /\ Batch >= 4 /\ UnitBytes(source) \in Widths
           /\ Batch <= VectorBytes /\ Loaded \in Nat /\ Left \in Nat
           /\ source # "utf8" => Loaded <= Left
<1>1. Batch \in Nat /\ Batch >= 4 /\ UnitBytes(source) \in Widths /\ Batch <= VectorBytes
  BY VectorAssumption DEF Batch, UnitBytes, Widths
<1>2. Left \in Nat
  BY DEF Left
<1> QED
  BY <1>1, <1>2 DEF Loaded, LoadedStr, LoadedUtf8

\* k characters of the run, in units of one.
LEMMA ReadMore ==
    ASSUME source \in AllSources, Looking, TextTyped, NEW k \in Nat, Read(k), ahead.per = 1 \/ k = 0
    PROVE  /\ text' = Plus(text, ahead.class, k)
           /\ text' \in [Classes -> Nat] /\ maxvec' \in Classes
           /\ TotalOf(text') = TotalOf(text) + k
           /\ FitsKind(maxvec) => FitsKind(maxvec')
           /\ source = "utf8" => maxvec' = maxvec
<1>1. ahead.class \in Classes /\ ahead.per \in 1 .. 4 /\ FitsKind(ahead.class)
  BY RunAhead
<1>2. k \div ahead.per = k
  BY <1>1
<1>3. text' = Plus(text, ahead.class, k)
  BY <1>2 DEF Read
<1>4. text' \in [Classes -> Nat] /\ TotalOf(text') = TotalOf(text) + k
  BY <1>1, <1>3, TotalMore DEF TextTyped
<1>5. /\ maxvec' \in Classes
      /\ FitsKind(maxvec) => FitsKind(maxvec')
      /\ source = "utf8" => maxvec' = maxvec
  BY <1>1 DEF Read, Larger, FitsKind, TextTyped
<1> QED
  BY <1>3, <1>4, <1>5

\* The largest class, with that of the escapes.
LEMMA ReadSeen ==
    ASSUME source \in AllSources \ {"utf8"}, Looking, TextTyped, NEW k \in Nat, Read(k),
           ahead.per = 1 \/ k = 0, NEW e \in Classes, SeenIn(text, Larger(e, maxvec))
    PROVE  SeenIn(text', Larger(e, maxvec'))
<1>1. ahead.class \in Classes /\ maxvec \in Classes /\ text \in [Classes -> Nat]
  BY RunAhead DEF TextTyped
<1>2. text' = Plus(text, ahead.class, k)
  BY ReadMore
<1>3. Larger(e, maxvec) \in Classes
  BY <1>1 DEF Larger
<1>4. SeenIn(text', IF k > 0 THEN Larger(Larger(e, maxvec), ahead.class) ELSE Larger(e, maxvec))
  BY <1>1, <1>2, <1>3, SeenMore
<1>5. maxvec' = IF k > 0 THEN Larger(maxvec, ahead.class) ELSE maxvec
  BY DEF Read
<1>6. (IF k > 0 THEN Larger(Larger(e, maxvec), ahead.class) ELSE Larger(e, maxvec)) = Larger(e, maxvec')
  BY <1>1, <1>5 DEF Larger, Classes
<1> QED
  BY <1>4, <1>6

\* The run ahead is read in part.
LEMMA LessAhead ==
    ASSUME source \in AllSources, len \in Nat, Looking, ahead.per = 1, NEW k \in Nat, k <= ahead.n,
           ahead' = [ahead EXCEPT !.n = @ - k], pos' = pos + k, UNCHANGED <<source, len>>
    PROVE  Looking' /\ RunUnits' = RunUnits - k
<1>1. ahead \in AheadRec /\ ahead.n \in Nat /\ RunUnits = ahead.n /\ pos \in Nat \ {0}
  BY RunAhead DEF Looking
<1>2. /\ ahead' \in AheadRec /\ ahead'.n = ahead.n - k /\ ahead'.per = 1 /\ ahead'.class = ahead.class
      /\ ahead'.kind = ahead.kind /\ ahead'.size = ahead.size
  BY <1>1 DEF AheadRec
<1>3. RunUnits' = ahead'.n
  BY <1>1, <1>2 DEF RunUnits
<1>4. Plain(source)' = Plain(source)
  BY DEF Plain
<1>5. ahead.size \in Nat /\ len \in Nat
  BY <1>1 DEF AheadRec, Looking
<1>6. RunUnits' = RunUnits - k /\ RunUnits' \in Nat /\ pos' + RunUnits' = pos + RunUnits
      /\ pos' \in Nat \ {0} /\ pos' <= len
  BY <1>1, <1>2, <1>3 DEF Looking
<1>7. <<ahead'.class, ahead'.per>> \in Plain(source)'
  BY <1>1, <1>2, <1>4 DEF Looking
<1>8. /\ ahead.kind \in {"quote", "bad", "other"} => pos + RunUnits < len
      /\ ahead.kind = "escape" => pos + RunUnits + ahead.size <= len /\ ahead.size >= 2
      /\ ahead.kind = "other" => source = "utf8"
      /\ ahead.kind = "end" => pos + RunUnits = len
      /\ pos + RunUnits <= len
  BY DEF Looking
<1> QED
  BY <1>1, <1>2, <1>5, <1>6, <1>7, <1>8 DEF Looking

LEMMA ReadSeenScan ==
    ASSUME source \in AllSources, Looking, TextTyped, NEW k \in Nat, Read(k), ahead.per = 1,
           SeenIn(text, maxvec), source = "utf8" => maxvec = 0 /\ ahead.class = 0
    PROVE  SeenIn(text', maxvec')
<1>1. maxvec \in Classes /\ text \in [Classes -> Nat] /\ 0 \in Classes
  BY DEF TextTyped, Classes
<1>2. \A m \in Classes : Larger(0, m) = m
  BY DEF Larger, Classes
<1>3. CASE source # "utf8"
  <2>1. maxvec' \in Classes
    BY ReadMore
  <2>2. SeenIn(text', Larger(0, maxvec'))
    BY <1>1, <1>2, <1>3, ReadSeen
  <2> QED
    BY <1>2, <2>1, <2>2
<1>4. CASE source = "utf8"
  <2>1. text' = Plus(text, ahead.class, k) /\ maxvec' = maxvec
    BY <1>4, ReadMore
  <2>2. SeenIn(text', IF k > 0 THEN Larger(maxvec, ahead.class) ELSE maxvec)
    BY <1>1, <1>4, <2>1, SeenMore
  <2> QED
    BY <1>1, <1>2, <1>4, <2>1, <2>2
<1> QED
  BY <1>3, <1>4

-----------------------------------------------------------------------------
(* The steps. *)

LEMMA NowFailed ==
    ASSUME StringInv, UNCHANGED <<source, len>>, at' = "failed"
    PROVE  StringInv'
<1>1. ResultIsTheString'
  BY DEF ResultIsTheString
<1>2. source \in AllSources /\ len \in Nat \ {0}
  BY DEF StringInv
<1>3. at' \notin {"none", "scan", "copy"} /\ at' # "none" /\ at' # "scan" /\ at' # "copy"
  OBVIOUS
<1> QED
  BY <1>1, <1>2, <1>3 DEF StringInv

LEMMA NowDone ==
    ASSUME StringInv, UNCHANGED <<source, len>>, at' = "done", ResultIsTheString'
    PROVE  StringInv'
  BY DEF StringInv

LEMMA StillReads ==
    ASSUME StringInv, UNCHANGED <<source, len>>, at' \in {"scan", "copy"},
           TextTyped', Looking', at' = "scan" => Scanning', at' = "copy" => Copying'
    PROVE  StringInv'
<1>1. ResultIsTheString'
  BY DEF ResultIsTheString
<1>2. source \in AllSources /\ len \in Nat \ {0}
  BY DEF StringInv
<1> QED
  BY <1>1, <1>2 DEF StringInv

\* What is known while the string is read.
LEMMA Reading ==
    ASSUME StringInv, at \in {"scan", "copy"}
    PROVE  /\ source \in AllSources /\ len \in Nat \ {0} /\ pos \in Nat \ {0} /\ pos <= len
           /\ Looking /\ TextTyped
           /\ at = "scan" => Scanning
           /\ at = "copy" => Copying
           /\ Batch \in Nat /\ Batch >= 4 /\ UnitBytes(source) \in Widths /\ Batch <= VectorBytes
           /\ Loaded \in Nat /\ Left \in Nat /\ Left = len - pos
           /\ ~InLoad /\ ahead.per = 1 => Loaded <= ahead.n
<1>1. /\ source \in AllSources /\ len \in Nat \ {0} /\ pos \in Nat \ {0} /\ pos <= len
      /\ Looking /\ TextTyped
      /\ at = "scan" => Scanning
      /\ at = "copy" => Copying
  BY DEF StringInv, Looking
<1>2. /\ Batch \in Nat /\ Batch >= 4 /\ UnitBytes(source) \in Widths /\ Batch <= VectorBytes
      /\ Loaded \in Nat /\ Left \in Nat
      /\ source # "utf8" => Loaded <= Left
  BY <1>1, Loads
<1>3. Left = len - pos
  BY DEF Left
<1>4. ASSUME ~InLoad, ahead.per = 1 PROVE Loaded <= ahead.n
  <2>1. ahead.n \in Nat /\ RunUnits = ahead.n
    BY <1>1, <1>4, RunAhead
  <2>2. ahead.kind = "end" => pos + RunUnits = len
    BY <1>1 DEF Looking
  <2> QED
    BY <1>1, <1>2, <1>3, <1>4, <2>1, <2>2 DEF InLoad
<1> QED
  BY <1>1, <1>2, <1>3, <1>4

LEMMA StepScanVector == ASSUME StringInv, ScanVector PROVE StringInv'
<1>1. /\ at = "scan" /\ ~InLoad /\ Read(Loaded) /\ pos' = pos + Loaded
      /\ ahead' = [ahead EXCEPT !.n = @ - Loaded] /\ at' \in {"failed", "scan"}
      /\ source = "utf8" => ahead.class = 0
      /\ UNCHANGED <<source, len, maxEscape, stored, reach, u8size, u16size>>
  BY DEF ScanVector
<1>2. CASE at' = "failed"
  BY <1>1, <1>2, NowFailed
<1>3. CASE at' = "scan"
  <2>1. ahead.per = 1
    BY <1>1, Reading, RunAhead
  <2>2. Loaded \in Nat /\ Loaded <= ahead.n
    BY <1>1, <2>1, Reading
  <2>3. Looking'
    BY <1>1, <2>1, <2>2, Reading, LessAhead
  <2>4. Scanning
    BY <1>1, Reading
  <2>5. /\ text' \in [Classes -> Nat] /\ maxvec' \in Classes
        /\ TotalOf(text') = TotalOf(text) + Loaded
        /\ FitsKind(maxvec')
        /\ source = "utf8" => maxvec' = 0
    BY <1>1, <2>1, <2>2, <2>4, Reading, ReadMore DEF Scanning
  <2>6. SeenIn(text', maxvec')
    BY <1>1, <2>1, <2>2, <2>4, Reading, ReadSeenScan DEF Scanning
  <2>7. TextTyped'
    BY <1>1, <2>5, Reading DEF TextTyped
  <2>8. Scanning'
    BY <1>1, <2>2, <2>4, <2>5, <2>6, Reading DEF Scanning, FitsKind
  <2> QED
    BY <1>1, <1>3, <2>3, <2>7, <2>8, StillReads
<1> QED
  BY <1>1, <1>2, <1>3

LEMMA StepScanQuote == ASSUME StringInv, ScanQuote PROVE StringInv'
<1>1. /\ at = "scan" /\ Read(RunUnits) /\ at' = "done"
      /\ result' = [class |-> maxvec', length |-> pos + RunUnits - 1, read |-> NoneWide]
      /\ source = "utf8" => ahead.class = 0
      /\ UNCHANGED <<source, len, stored>>
  BY DEF ScanQuote, Made
<1>2. Scanning /\ ahead.per = 1 /\ RunUnits \in Nat
  BY <1>1, Reading, RunAhead
<1>3. text' \in [Classes -> Nat] /\ maxvec' \in Classes /\ TotalOf(text') = TotalOf(text) + RunUnits
  BY <1>1, <1>2, Reading, ReadMore
<1>4. SeenIn(text', maxvec')
  BY <1>1, <1>2, Reading, ReadSeenScan DEF Scanning
<1>5. maxvec' = (IF Present(text') = {} THEN 0 ELSE Max(Present(text')))
  BY <1>3, <1>4, SeenIsMax
<1>6. TotalOf(text') = pos + RunUnits - 1
  BY <1>1, <1>2, <1>3, Reading DEF Scanning
<1>7. ResultIsTheString'
  BY <1>1, <1>2, <1>5, <1>6 DEF ResultIsTheString, Present, Scanning
<1> QED
  BY <1>1, <1>7, NowDone

LEMMA StepScanFails == ASSUME StringInv, ScanFails PROVE StringInv'
  BY NowFailed DEF ScanFails

\* The run and then an escape.
LEMMA ReadEscapeMore ==
    ASSUME source \in AllSources, Looking, TextTyped, NEW k \in Nat, ReadEscape(k), ahead.per = 1 \/ k = 0
    PROVE  /\ text' = Plus(Plus(text, ahead.class, k), ahead.value, 1)
           /\ text' \in [Classes -> Nat] /\ maxvec' \in Classes
           /\ TotalOf(text') = TotalOf(text) + k + 1
           /\ FitsKind(maxvec) => FitsKind(maxvec')
<1>1. ahead.class \in Classes /\ ahead.per \in 1 .. 4 /\ FitsKind(ahead.class) /\ ahead.value \in Classes
  BY RunAhead
<1>2. k \div ahead.per = k
  BY <1>1
<1>3. text' = Plus(Plus(text, ahead.class, k), ahead.value, 1)
  BY <1>2 DEF ReadEscape
<1>4. Plus(text, ahead.class, k) \in [Classes -> Nat] /\ TotalOf(Plus(text, ahead.class, k)) = TotalOf(text) + k
      /\ TotalOf(text) \in Nat
  BY <1>1, TotalMore DEF TextTyped
<1>5. text' \in [Classes -> Nat] /\ TotalOf(text') = TotalOf(text) + k + 1
  BY <1>1, <1>3, <1>4, TotalMore
<1>6. /\ maxvec' \in Classes
      /\ FitsKind(maxvec) => FitsKind(maxvec')
  BY <1>1 DEF ReadEscape, Larger, FitsKind, TextTyped
<1> QED
  BY <1>3, <1>5, <1>6

LEMMA ReadEscapeSeen ==
    ASSUME source \in AllSources \ {"utf8"}, Looking, TextTyped, NEW k \in Nat, ReadEscape(k),
           ahead.per = 1 \/ k = 0, NEW e \in Classes, SeenIn(text, Larger(e, maxvec))
    PROVE  SeenIn(text', Larger(Larger(e, ahead.value), maxvec'))
<1>1. /\ ahead.class \in Classes /\ ahead.value \in Classes /\ maxvec \in Classes
      /\ text \in [Classes -> Nat]
  BY RunAhead DEF TextTyped
<1>2. text' = Plus(Plus(text, ahead.class, k), ahead.value, 1)
  BY ReadEscapeMore
<1> DEFINE m == IF k > 0 THEN Larger(Larger(e, maxvec), ahead.class) ELSE Larger(e, maxvec)
<1>3. Larger(e, maxvec) \in Classes /\ m \in Classes
  BY <1>1 DEF Larger
<1>4. SeenIn(Plus(text, ahead.class, k), m)
  BY <1>1, <1>3, SeenMore
<1>5. Plus(text, ahead.class, k) \in [Classes -> Nat]
  BY <1>1, TotalMore
<1> HIDE DEF m
<1>6. SeenIn(text', Larger(m, ahead.value))
  BY <1>1, <1>2, <1>3, <1>4, <1>5, SeenMore
<1>7. maxvec' = IF k > 0 THEN Larger(maxvec, ahead.class) ELSE maxvec
  BY DEF ReadEscape
<1>8. Larger(m, ahead.value) = Larger(Larger(e, ahead.value), maxvec')
  BY <1>1, <1>7 DEF Larger, Classes, m
<1> QED
  BY <1>6, <1>8

\* The position behind the escape ahead.
LEMMA BehindEscape ==
    ASSUME StringInv, at \in {"scan", "copy"}, ahead.kind = "escape",
           pos' = pos + RunUnits + ahead.size, UNCHANGED <<source, len>>, Look
    PROVE  Looking' /\ pos + RunUnits + 2 <= pos'
<1>1. /\ pos \in Nat \ {0} /\ RunUnits \in Nat /\ ahead.size \in Nat /\ ahead.size >= 2
      /\ pos + RunUnits + ahead.size <= len /\ len \in Nat /\ source \in AllSources
  BY Reading, RunAhead DEF Looking
<1>2. pos' \in Nat \ {0} /\ pos' <= len'
  BY <1>1
<1> QED
  BY <1>1, <1>2, LooksAtNext DEF Look

LEMMA StepFirstEscape == ASSUME StringInv, FirstEscape PROVE StringInv'
<1> DEFINE n == pos + RunUnits - 1
           w == FirstWidth(ahead.value)
<1>1. /\ at = "scan" /\ ahead.kind = "escape" /\ source # "utf8" /\ ReadEscape(RunUnits)
      /\ maxEscape' = ahead.value /\ isAscii' = (ahead.value = 0) /\ width' = w /\ writer' = n + 1
      /\ stored' = [stored EXCEPT ![w] = n + 1] /\ pos' = pos + RunUnits + ahead.size
      /\ at' = "copy" /\ UNCHANGED <<source, len, u8size, u16size>> /\ Look
  BY DEF FirstEscape
<1>2. /\ source \in AllSources /\ Looking /\ TextTyped /\ Scanning
      /\ pos \in Nat \ {0} /\ RunUnits \in Nat /\ ahead.per = 1 /\ ahead.value \in Classes
      /\ UnitBytes(source) \in Widths
  BY <1>1, Reading, RunAhead
<1>3. Looking'
  BY <1>1, BehindEscape
<1>4. /\ text' \in [Classes -> Nat] /\ maxvec' \in Classes /\ FitsKind(maxvec')
      /\ TotalOf(text') = n + 1
  BY <1>1, <1>2, ReadEscapeMore DEF Scanning
<1>5. SeenIn(text', Larger(maxEscape', maxvec'))
  <2>1. 0 \in Classes /\ Larger(0, maxvec) = maxvec /\ Larger(0, ahead.value) = ahead.value
    BY <1>2 DEF Larger, Classes, TextTyped
  <2>2. SeenIn(text', Larger(Larger(0, ahead.value), maxvec'))
    BY <1>1, <1>2, <2>1, ReadEscapeSeen DEF Scanning
  <2> QED
    BY <1>1, <2>1, <2>2
<1>6. TextTyped'
  BY <1>1, <1>2, <1>4 DEF TextTyped
<1>7. w \in Widths /\ w >= UnitBytes(source) /\ w >= ByteWidth(ahead.value)
      /\ (w = UnitBytes(source) \/ w = ByteWidth(ahead.value))
      /\ (w = 1 => ahead.value <= 1)
  BY <1>2 DEF FirstWidth, Larger, ByteWidth, Widths, Classes
<1>8. StoredAs(stored', width', writer', u8size', u16size')
  <2> HIDE DEF w
  <2>1. n + 1 \in Nat
    BY <1>2
  <2> HIDE DEF n
  <2> QED
    BY <1>1, <1>2, <1>7, <2>1 DEF StoredAs, NoneWide, Widths, Scanning
<1>9. StrWidth'
  <2> HIDE DEF w
  <2>1. UnitBytes(source)' = UnitBytes(source) /\ ByteWidth(maxEscape)' = ByteWidth(ahead.value)
        /\ FitsKind(maxvec)' = FitsKind(maxvec')
    BY <1>1 DEF UnitBytes, ByteWidth, FitsKind
  <2> QED
    BY <1>1, <1>4, <1>5, <1>7, <2>1 DEF StrWidth
<1>10. Copying'
  <2> HIDE DEF w, n
  <2> QED
    BY <1>1, <1>4, <1>7, <1>8, <1>9 DEF Copying
<1> QED
  BY <1>1, <1>3, <1>6, <1>10, StillReads

LEMMA StepCopyUtf8 == ASSUME StringInv, CopyUtf8 PROVE StringInv'
<1> DEFINE run == IF ahead.class = 0 THEN RunUnits ELSE 0
<1>1. /\ at = "scan" /\ source = "utf8" /\ pos' = pos + run
      /\ ahead' = IF ahead.class = 0 THEN [ahead EXCEPT !.n = 0] ELSE ahead
      /\ text' = Plus(text, 0, run) /\ width' = 1 /\ writer' = pos' - 1
      /\ stored' = [stored EXCEPT ![1] = pos' - 1] /\ isAscii' = TRUE /\ at' = "copy"
      /\ UNCHANGED <<source, len, u8size, u16size, maxvec, maxEscape>>
  BY DEF CopyUtf8
<1>2. /\ source \in AllSources /\ len \in Nat /\ Looking /\ TextTyped /\ Scanning
      /\ pos \in Nat \ {0} /\ RunUnits \in Nat /\ ahead.n \in Nat
      /\ ahead.class = 0 => ahead.per = 1 /\ RunUnits = ahead.n
  BY <1>1, Reading, RunAhead
<1>3. Looking' /\ run \in Nat
  <2>1. CASE ahead.class = 0
    <3>1. ahead.n - ahead.n = 0 /\ ahead.n <= ahead.n
      BY <1>2
    <3>2. ahead' = [ahead EXCEPT !.n = @ - ahead.n] /\ pos' = pos + ahead.n
      BY <1>1, <1>2, <2>1, <3>1 DEF Looking, AheadRec
    <3> QED
      BY <1>1, <1>2, <2>1, <3>1, <3>2, LessAhead
  <2>2. CASE ahead.class # 0
    <3>1. pos' = pos /\ ahead' = ahead
      BY <1>1, <1>2, <2>2
    <3>2. RunUnits' = RunUnits /\ Plain(source)' = Plain(source)
      BY <1>1, <3>1 DEF RunUnits, Plain
    <3> QED
      BY <1>1, <1>2, <2>2, <3>1, <3>2 DEF Looking
  <2> QED
    BY <2>1, <2>2
<1> HIDE DEF run
<1>4. 0 \in Classes /\ text \in [Classes -> Nat] /\ \A c \in Classes : c # 0 => text[c] = 0
  BY <1>1, <1>2 DEF Scanning, SeenIn, TextTyped, Classes
<1>5. text' \in [Classes -> Nat] /\ TotalOf(text') = pos' - 1
  <2>1. text' \in [Classes -> Nat] /\ TotalOf(text') = TotalOf(text) + run
    BY <1>1, <1>3, <1>4, TotalMore
  <2>2. TotalOf(text) = pos - 1
    BY <1>2 DEF Scanning
  <2> QED
    BY <1>1, <1>2, <1>3, <2>1, <2>2
<1>6. \A c \in Classes : c # 0 => text'[c] = 0
  BY <1>1, <1>4 DEF Plus
<1>7. TextTyped'
  BY <1>1, <1>2, <1>5 DEF TextTyped
<1>8. Utf8Width'
  BY <1>1, <1>6 DEF Utf8Width, ByteWidth, Classes
<1>9. StoredAs(stored', width', writer', u8size', u16size')
  <2>1. pos' - 1 \in Nat
    BY <1>1, <1>2, <1>3
  <2> QED
    BY <1>1, <1>2, <2>1 DEF StoredAs, NoneWide, Widths, Scanning
<1>10. Copying'
  BY <1>1, <1>5, <1>8, <1>9 DEF Copying, Widths
<1> QED
  BY <1>1, <1>3, <1>7, <1>10, StillReads

LEMMA PlusNone ==
    ASSUME NEW S, NEW f \in [S -> Nat], NEW c \in S
    PROVE  Plus(f, c, 0) = f
  BY DEF Plus

LEMMA StepNextRun == ASSUME StringInv, NextRun PROVE StringInv'
<1>1. /\ at \in {"scan", "copy"} /\ ahead.kind = "other" /\ at' = at
      /\ at = "scan" => ahead.class = 0
      /\ at = "copy" => ahead.n = 0
      /\ pos' = pos + RunUnits /\ text' = Plus(text, ahead.class, ahead.n)
      /\ UNCHANGED <<source, len, width, writer, u8size, u16size, isAscii, maxvec, maxEscape,
                     stored, reach>> /\ Look
  BY DEF NextRun
<1>2. /\ source = "utf8" /\ len \in Nat /\ TextTyped
      /\ pos \in Nat \ {0} /\ RunUnits \in Nat /\ pos + RunUnits < len
      /\ ahead.n \in Nat /\ ahead.class \in Classes
      /\ ahead.class = 0 => RunUnits = ahead.n
      /\ ahead.n = 0 => RunUnits = 0
      /\ at = "scan" => Scanning
      /\ at = "copy" => Copying
  BY <1>1, Reading, RunAhead DEF Looking
<1>3. Looking'
  <2>1. source' \in AllSources /\ pos' \in Nat \ {0} /\ len' \in Nat /\ pos' <= len'
    BY <1>1, <1>2 DEF AllSources
  <2> QED
    BY <1>1, <2>1, LooksAtNext DEF Look
<1>4. text' \in [Classes -> Nat] /\ TotalOf(text') = TotalOf(text) + ahead.n
  BY <1>1, <1>2, TotalMore DEF TextTyped
<1>5. TextTyped'
  BY <1>1, <1>2, <1>4 DEF TextTyped
<1>6. ASSUME at = "scan" PROVE Scanning'
  <2>1. SeenIn(text', maxvec)
    <3>1. text \in [Classes -> Nat] /\ maxvec = 0 /\ maxvec \in Classes /\ Larger(maxvec, ahead.class) = maxvec
      BY <1>1, <1>2, <1>6 DEF Scanning, TextTyped, Larger
    <3>2. SeenIn(text', IF ahead.n > 0 THEN Larger(maxvec, ahead.class) ELSE maxvec)
      BY <1>1, <1>2, <1>6, <3>1, SeenMore DEF Scanning
    <3> QED
      BY <3>1, <3>2
  <2> QED
    BY <1>1, <1>2, <1>4, <1>6, <2>1 DEF Scanning, FitsKind
<1>7. ASSUME at = "copy" PROVE Copying'
  <2>1. text' = text
    BY <1>1, <1>2, <1>7, PlusNone DEF TextTyped
  <2> QED
    BY <1>1, <1>2, <1>7, <2>1 DEF Copying, Utf8Width
<1> QED
  BY <1>1, <1>3, <1>5, <1>6, <1>7, StillReads

\* k characters of a str are stored.
LEMMA StrRead ==
    ASSUME source \in AllSources \ {"utf8"}, Looking, TextTyped, Copying, NEW k \in Nat, Read(k),
           ahead.per = 1 \/ k = 0, UNCHANGED <<source, width, isAscii, maxEscape>>
    PROVE  StrWidth' /\ TextTyped'
<1>1. StrWidth
  BY DEF Copying
<1>2. text' \in [Classes -> Nat] /\ maxvec' \in Classes /\ FitsKind(maxvec')
  BY <1>1, ReadMore DEF StrWidth
<1>3. SeenIn(text', Larger(maxEscape, maxvec'))
  BY <1>1, ReadSeen DEF StrWidth, TextTyped
<1>4. UnitBytes(source)' = UnitBytes(source) /\ ByteWidth(maxEscape)' = ByteWidth(maxEscape)
      /\ FitsKind(maxvec)' = FitsKind(maxvec')
  BY DEF UnitBytes, ByteWidth, FitsKind
<1>5. TextTyped'
  BY <1>2 DEF TextTyped
<1> QED
  BY <1>1, <1>2, <1>3, <1>4, <1>5 DEF StrWidth

LEMMA StepCopyVector == ASSUME StringInv, CopyVector PROVE StringInv'
<1>1. /\ at = "copy" /\ source # "utf8" /\ ~InLoad /\ Read(Loaded) /\ pos' = pos + Loaded
      /\ ahead' = [ahead EXCEPT !.n = @ - Loaded] /\ at' \in {"failed", "copy"}
      /\ writer' = writer + Loaded /\ stored' = Plus(stored, width, Loaded)
      /\ UNCHANGED <<source, len, width, u8size, u16size, isAscii, maxEscape>>
  BY DEF CopyVector, Stored
<1>2. CASE at' = "failed"
  BY <1>1, <1>2, NowFailed
<1>3. CASE at' = "copy"
  <2>1. ahead.per = 1 /\ Copying /\ Looking /\ TextTyped /\ source \in AllSources /\ len \in Nat
    BY <1>1, Reading, RunAhead
  <2>2. Loaded \in Nat /\ Loaded <= ahead.n
    BY <1>1, <2>1, Reading
  <2>3. Looking'
    BY <1>1, <2>1, <2>2, LessAhead
  <2>4. StrWidth' /\ TextTyped' /\ TotalOf(text') = TotalOf(text) + Loaded
    BY <1>1, <2>1, <2>2, StrRead, ReadMore
  <2>5. StoredAs(stored', width', writer', u8size', u16size')
    BY <1>1, <2>1, <2>2, StoreMore DEF Copying
  <2> QED
    BY <1>1, <1>3, <2>1, <2>3, <2>4, <2>5, StillReads DEF Copying
<1> QED
  BY <1>1, <1>2, <1>3

LEMMA StepCopyRun == ASSUME StringInv, CopyRun PROVE StringInv'
<1>1. /\ at = "copy" /\ source = "utf8" /\ ahead.n > 0 /\ ByteWidth(ahead.class) <= width
      /\ pos' = pos + RunUnits /\ text' = Plus(text, ahead.class, ahead.n)
      /\ ahead' = [ahead EXCEPT !.n = 0] /\ at' = at
      /\ writer' = writer + ahead.n /\ stored' = Plus(stored, width, ahead.n)
      /\ isAscii' = (isAscii /\ ~(width = 1 /\ ahead.class = 1))
      /\ UNCHANGED <<source, len, width, u8size, u16size, maxvec, maxEscape>>
  BY DEF CopyRun, Stored
<1>2. /\ Copying /\ Looking /\ TextTyped /\ len \in Nat /\ pos \in Nat \ {0}
      /\ RunUnits \in Nat /\ ahead.n \in Nat /\ ahead.class \in Classes /\ ahead.per \in 1 .. 4
      /\ pos + RunUnits <= len
  BY <1>1, Reading, RunAhead DEF Looking
<1>3. /\ ahead' \in AheadRec /\ ahead'.n = 0 /\ ahead'.per = ahead.per /\ ahead'.class = ahead.class
      /\ ahead'.kind = ahead.kind /\ ahead'.size = ahead.size
  BY <1>1, <1>2 DEF Looking, AheadRec
<1>4. RunUnits' = 0
  BY <1>2, <1>3 DEF RunUnits
<1>5. Looking'
  <2>1. Plain(source)' = Plain(source)
    BY <1>1 DEF Plain
  <2>2. ahead.size \in Nat
    BY <1>2 DEF Looking, AheadRec
  <2> QED
    BY <1>1, <1>2, <1>3, <1>4, <2>1, <2>2 DEF Looking
<1>6. text' \in [Classes -> Nat] /\ TotalOf(text') = TotalOf(text) + ahead.n
  BY <1>1, <1>2, TotalMore DEF TextTyped
<1>7. TextTyped'
  BY <1>1, <1>2, <1>6 DEF TextTyped
<1>8. StoredAs(stored', width', writer', u8size', u16size')
  BY <1>1, <1>2, StoreMore DEF Copying
<1>9. Utf8Width'
  <2>1. \A c \in Classes : text[c] \in Nat
                           /\ text'[c] = IF c = ahead.class THEN text[c] + ahead.n ELSE text[c]
    BY <1>1, <1>2 DEF Plus, TextTyped
  <2>2. Utf8Width /\ isAscii \in BOOLEAN /\ width \in Nat
    BY <1>1, <1>2 DEF Copying, Widths
  <2>3. \A c \in Classes : text'[c] > 0 => ByteWidth(c) <= width
    BY <1>1, <1>2, <2>1, <2>2 DEF Utf8Width
  <2>4. width = 1 => (isAscii' <=> text'[1] = 0)
    <3>1. text[1] \in Nat /\ text'[1] = IF 1 = ahead.class THEN text[1] + ahead.n ELSE text[1]
      BY <2>1 DEF Classes
    <3>2. text'[1] = 0 <=> text[1] = 0 /\ ahead.class # 1
      BY <1>1, <1>2, <3>1
    <3>3. width = 1 => (isAscii <=> text[1] = 0)
      BY <2>2 DEF Utf8Width
    <3> QED
      BY <1>1, <2>2, <3>2, <3>3, Zenon
  <2>5. width = 2 => text'[2] > 0
    BY <1>1, <1>2, <2>1, <2>2 DEF Utf8Width, Classes
  <2>6. width = 4 => text'[3] > 0
    BY <1>1, <1>2, <2>1, <2>2 DEF Utf8Width, Classes
  <2> QED
    BY <1>1, <2>3, <2>4, <2>5, <2>6 DEF Utf8Width, ByteWidth
<1>10. Copying'
  BY <1>1, <1>2, <1>6, <1>8, <1>9 DEF Copying
<1> QED
  BY <1>1, <1>5, <1>7, <1>10, StillReads

\* The writer goes on w bytes wide, at least as wide as before, after n characters.
LEMMA WiderStored ==
    ASSUME NEW w \in Widths, NEW n, StoredAs(stored, width, n, u8size, u16size), width \in Widths,
           width <= w, Widened(w, n)
    PROVE  StoredAs(stored, w, n, u8size', u16size')
<1>1. u8size' = (IF width = 1 /\ w > 1 THEN n ELSE u8size)
      /\ u16size' = (IF width = 2 /\ w = 4 THEN n - u8size ELSE u16size)
  BY DEF Widened
<1> QED
  BY <1>1, StoreWider

LEMMA StepPromote == ASSUME StringInv, Promote PROVE StringInv'
<1> DEFINE w == ByteWidth(ahead.class)
<1>1. /\ at = "copy" /\ source = "utf8" /\ ahead.n > 0 /\ w > width /\ Widened(w, writer)
      /\ UNCHANGED <<source, len, pos, ahead, at, writer, isAscii, maxvec, maxEscape, text, stored>>
      /\ width' = w
  BY DEF Promote, Widened
<1>2. /\ Copying /\ Looking /\ TextTyped /\ len \in Nat /\ ahead.class \in Classes
      /\ width \in Widths /\ Utf8Width
  BY <1>1, Reading, RunAhead DEF Copying
<1>3. Looking' /\ TextTyped'
  BY <1>1, <1>2 DEF Looking, RunUnits, Plain, TextTyped
<1>4. w \in {2, 4} /\ (w = 2 => ahead.class = 2) /\ (w = 4 => ahead.class = 3)
  BY <1>1, <1>2 DEF ByteWidth, Classes, Widths
<1>5. w \in Widths /\ width <= w
  BY <1>1, <1>2, <1>4 DEF Widths
<1> HIDE DEF w
<1>6. StoredAs(stored', width', writer', u8size', u16size')
  BY <1>1, <1>2, <1>5, WiderStored DEF Copying
<1>7. Utf8Width'
  <2>1. \A c \in Classes : ByteWidth(c) \in Nat
    BY DEF ByteWidth
  <2> QED
    BY <1>1, <1>2, <1>4, <1>5, <2>1 DEF Utf8Width, ByteWidth, Widths
<1>8. Copying'
  BY <1>1, <1>2, <1>5, <1>6, <1>7 DEF Copying
<1> QED
  BY <1>1, <1>3, <1>8, StillReads

\* The position behind what stops the run, and the writer, when it is copied.
LEMMA AtItsStop ==
    ASSUME StringInv, AtStop
    PROVE  /\ at = "copy" /\ Copying /\ Looking /\ TextTyped /\ source \in AllSources
           /\ RunUnits = ahead.n /\ ahead.n \in Nat
           /\ ahead.per = 1 \/ ahead.n = 0
           /\ source = "utf8" => ahead.n = 0
<1>1. at = "copy" /\ (source = "utf8" => ahead.n = 0)
  BY DEF AtStop
<1> QED
  BY <1>1, Reading, RunAhead

LEMMA StepCopyEscape == ASSUME StringInv, CopyEscape PROVE StringInv'
<1> DEFINE n == writer + ahead.n
           w == Larger(width, ByteWidth(ahead.value))
<1>1. /\ AtStop /\ ahead.kind = "escape" /\ ReadEscape(RunUnits) /\ Widened(w, n)
      /\ writer' = n + 1 /\ stored' = Plus(Plus(stored, width, ahead.n), w, 1)
      /\ isAscii' = (isAscii /\ ~(w = 1 /\ ahead.value = 1))
      /\ maxEscape' = Larger(maxEscape, ahead.value)
      /\ pos' = pos + RunUnits + ahead.size /\ at' = at /\ UNCHANGED <<source, len>> /\ Look
      /\ width' = w
  BY DEF CopyEscape, Widened
<1>2. /\ at = "copy" /\ Copying /\ Looking /\ TextTyped /\ source \in AllSources
      /\ RunUnits = ahead.n /\ ahead.n \in Nat
      /\ ahead.per = 1 \/ ahead.n = 0
      /\ source = "utf8" => ahead.n = 0
      /\ ahead.value \in Classes /\ ahead.class \in Classes
  BY <1>1, AtItsStop, RunAhead
<1>3. Looking'
  BY <1>1, <1>2, BehindEscape
<1>4. /\ text' = Plus(Plus(text, ahead.class, ahead.n), ahead.value, 1)
      /\ text' \in [Classes -> Nat] /\ maxvec' \in Classes
      /\ TotalOf(text') = TotalOf(text) + ahead.n + 1
      /\ FitsKind(maxvec) => FitsKind(maxvec')
  BY <1>1, <1>2, ReadEscapeMore
<1>5. /\ width \in Widths /\ w \in Widths /\ width <= w /\ ByteWidth(ahead.value) <= w
      /\ (w = width \/ w = ByteWidth(ahead.value)) /\ ByteWidth(ahead.value) \in Widths
  BY <1>2 DEF Copying, Larger, ByteWidth, Widths
<1> HIDE DEF w
<1>6. n \in Nat /\ StoredAs(Plus(stored, width, ahead.n), width, n, u8size, u16size)
  <2>1. StoredAs(stored, width, writer, u8size, u16size)
    BY <1>2 DEF Copying
  <2>2. StoredAs(Plus(stored, width, ahead.n), width, n, u8size, u16size)
    BY <1>2, <1>5, <2>1, StoreMore
  <2> QED
    BY <2>2 DEF StoredAs
<1> HIDE DEF n
<1>7. StoredAs(Plus(stored, width, ahead.n), w, n, u8size', u16size')
  <2>1. u8size' = (IF width = 1 /\ w > 1 THEN n ELSE u8size)
        /\ u16size' = (IF width = 2 /\ w = 4 THEN n - u8size ELSE u16size)
    BY <1>1 DEF Widened
  <2> QED
    BY <1>5, <1>6, <2>1, StoreWider
<1>8. StoredAs(stored', width', writer', u8size', u16size')
  BY <1>1, <1>5, <1>7, StoreMore
<1>9. maxEscape' \in Classes /\ TextTyped'
  BY <1>1, <1>2, <1>4 DEF TextTyped, Larger
<1>10. CASE source # "utf8"
  <2>1. SeenIn(text', Larger(maxEscape', maxvec'))
    BY <1>1, <1>2, <1>10, ReadEscapeSeen DEF Copying, StrWidth, TextTyped
  <2>2. /\ UnitBytes(source)' = UnitBytes(source) /\ ByteWidth(maxEscape)' = ByteWidth(maxEscape')
        /\ FitsKind(maxvec)' = FitsKind(maxvec')
    BY <1>1 DEF UnitBytes, ByteWidth, FitsKind
  <2>3. StrWidth
    BY <1>2, <1>10 DEF Copying
  <2>4. /\ ByteWidth(maxEscape') = Larger(ByteWidth(maxEscape), ByteWidth(ahead.value))
        /\ ByteWidth(maxEscape) \in Widths /\ UnitBytes(source) \in Widths
        /\ ByteWidth(ahead.value) = 1 => ahead.value <= 1
    BY <1>1, <1>2 DEF ByteWidth, Larger, Classes, Widths, TextTyped, UnitBytes
  <2>5. /\ w >= UnitBytes(source) /\ w >= ByteWidth(maxEscape')
        /\ w = UnitBytes(source) \/ w = ByteWidth(maxEscape')
    BY <1>5, <2>3, <2>4 DEF StrWidth, Larger, Widths
  <2>6. w = 1 => (isAscii' <=> maxEscape' = 0)
    <3>1. w = 1 => width = 1 /\ ahead.value \in {0, 1} /\ maxEscape \in Nat
      BY <1>2, <1>5, <2>4 DEF Widths, Classes, TextTyped
    <3>2. ahead.value \in {0, 1} /\ maxEscape \in Nat
          => (maxEscape' = 0 <=> maxEscape = 0 /\ ahead.value # 1)
      BY <1>1 DEF Larger
    <3>3. width = 1 => (isAscii <=> maxEscape = 0)
      BY <2>3 DEF StrWidth
    <3> QED
      BY <1>1, <3>1, <3>2, <3>3, Zenon
  <2>7. StrWidth'
    BY <1>1, <1>4, <2>1, <2>2, <2>3, <2>5, <2>6 DEF StrWidth
  <2>8. isAscii' \in BOOLEAN /\ writer' = TotalOf(text') /\ width' \in Widths /\ source' # "utf8"
    BY <1>1, <1>2, <1>4, <1>5, <1>6, <1>10 DEF Copying, n
  <2> QED
    BY <1>1, <1>2, <1>3, <1>8, <1>9, <2>7, <2>8, StillReads DEF Copying
<1>11. CASE source = "utf8"
  <2>1. Utf8Width /\ isAscii \in BOOLEAN
    BY <1>2, <1>11 DEF Copying
  <2>2. \A c \in Classes : text[c] \in Nat
                           /\ text'[c] = IF c = ahead.value THEN text[c] + 1 ELSE text[c]
    <3>1. text' = Plus(text, ahead.value, 1)
      BY <1>2, <1>4, <1>11, PlusNone DEF TextTyped
    <3> QED
      BY <1>2, <3>1 DEF Plus, TextTyped
  <2>3. \A c \in Classes : text'[c] > 0 => ByteWidth(c) <= w
    <3>1. \A c \in Classes : ByteWidth(c) \in Nat
      BY DEF ByteWidth
    <3> QED
      BY <1>2, <1>5, <2>1, <2>2, <3>1 DEF Utf8Width, Widths
  <2>4. w = 1 => (isAscii' <=> text'[1] = 0)
    <3>1. text[1] \in Nat /\ text'[1] = IF 1 = ahead.value THEN text[1] + 1 ELSE text[1]
      BY <2>2 DEF Classes
    <3>2. text'[1] = 0 <=> text[1] = 0 /\ ahead.value # 1
      BY <3>1
    <3>3. w = 1 => width = 1
      BY <1>5 DEF Widths
    <3>4. width = 1 => (isAscii <=> text[1] = 0)
      BY <2>1 DEF Utf8Width
    <3> QED
      BY <1>1, <2>1, <3>2, <3>3, <3>4, Zenon
  <2>5. /\ w = 2 => text'[2] > 0
        /\ w = 4 => text'[3] > 0
    <3>1. /\ text[2] \in Nat /\ text'[2] = IF 2 = ahead.value THEN text[2] + 1 ELSE text[2]
          /\ text[3] \in Nat /\ text'[3] = IF 3 = ahead.value THEN text[3] + 1 ELSE text[3]
      BY <2>2 DEF Classes
    <3>2. /\ width = 2 => text[2] > 0
          /\ width = 4 => text[3] > 0
      BY <1>2, <1>11, <2>1 DEF Utf8Width
    <3>3. /\ ByteWidth(ahead.value) = 2 => ahead.value = 2
          /\ ByteWidth(ahead.value) = 4 => ahead.value = 3
      BY <1>2 DEF ByteWidth, Classes
    <3> QED
      BY <1>5, <3>1, <3>2, <3>3
  <2>6. Utf8Width'
    BY <1>1, <2>3, <2>4, <2>5 DEF Utf8Width, ByteWidth
  <2>7. isAscii' \in BOOLEAN /\ writer' = TotalOf(text') /\ width' \in Widths /\ source' = "utf8"
    BY <1>1, <1>2, <1>4, <1>5, <1>6, <1>11 DEF Copying, n
  <2> QED
    BY <1>1, <1>2, <1>3, <1>8, <1>9, <2>6, <2>7, StillReads DEF Copying
<1> QED
  BY <1>10, <1>11

LEMMA StepCopyFails == ASSUME StringInv, CopyFails PROVE StringInv'
  BY NowFailed DEF CopyFails

\* The class of the str, from the width and from what was seen.
LEMMA ClassOfStr ==
    ASSUME source \in AllSources \ {"utf8"}, NEW w \in Widths, NEW ascii \in BOOLEAN,
           NEW e \in Classes, NEW m \in Classes, FitsKind(m),
           w >= UnitBytes(source), w >= ByteWidth(e),
           w = UnitBytes(source) \/ w = ByteWidth(e), w = 1 => (ascii <=> e = 0)
    PROVE  CopiedClass(source, w, ascii, Larger(e, m)) = Larger(e, m)
<1>1. CASE source = "ascii"
  BY <1>1 DEF CopiedClass, FitsKind, UnitBytes, ByteWidth, Larger, Smaller, Classes, Widths
<1>2. CASE source = "ucs1"
  BY <1>2 DEF CopiedClass, FitsKind, UnitBytes, ByteWidth, Larger, Smaller, Classes, Widths
<1>3. CASE source = "ucs2"
  BY <1>3 DEF CopiedClass, FitsKind, UnitBytes, ByteWidth, Larger, Smaller, Classes, Widths
<1>4. CASE source = "ucs4"
  BY <1>4 DEF CopiedClass, FitsKind, UnitBytes, ByteWidth, Larger, Smaller, Classes, Widths
<1> QED
  BY <1>1, <1>2, <1>3, <1>4 DEF AllSources

\* That of a bytes document, from the width alone.
LEMMA ClassOfBytes ==
    ASSUME source = "utf8", TextTyped, Copying, ahead.n = 0, NEW sc
    PROVE  /\ CopiedClass(source, width, isAscii, sc) \in Classes
           /\ SeenIn(text, CopiedClass(source, width, isAscii, sc))
<1>1. width \in Widths /\ isAscii \in BOOLEAN /\ Utf8Width /\ \A c \in Classes : text[c] \in Nat
  BY DEF Copying, TextTyped
<1>2. CASE width = 1
  <2>1. CopiedClass(source, width, isAscii, sc) = IF isAscii THEN 0 ELSE 1
    BY <1>2 DEF CopiedClass
  <2>2. text[1] \in Nat /\ text[2] = 0 /\ text[3] = 0 /\ (isAscii <=> text[1] = 0)
    BY <1>1, <1>2 DEF Utf8Width, ByteWidth, Classes
  <2> QED
    BY <1>1, <2>1, <2>2 DEF SeenIn, Classes
<1>3. CASE width = 2
  <2>1. CopiedClass(source, width, isAscii, sc) = 2
    BY <1>3 DEF CopiedClass
  <2>2. text[2] > 0 /\ text[3] = 0
    BY <1>1, <1>3 DEF Utf8Width, ByteWidth, Classes
  <2> QED
    BY <1>1, <2>1, <2>2 DEF SeenIn, Classes
<1>4. CASE width = 4
  <2>1. CopiedClass(source, width, isAscii, sc) = 3
    BY <1>4 DEF CopiedClass
  <2>2. text[3] > 0
    BY <1>1, <1>4 DEF Utf8Width
  <2> QED
    BY <1>1, <2>1, <2>2 DEF SeenIn, Classes
<1> QED
  BY <1>1, <1>2, <1>3, <1>4 DEF Widths

LEMMA StepCopyQuote == ASSUME StringInv, CopyQuote PROVE StringInv'
<1> DEFINE n == writer + ahead.n
           class == CopiedClass(source, width, isAscii, Larger(maxEscape, maxvec'))
<1>1. /\ AtStop /\ Read(RunUnits) /\ writer' = writer + ahead.n
      /\ stored' = Plus(stored, width, ahead.n) /\ at' = "done"
      /\ result' = [class |-> class, length |-> n, read |-> Parts(width, n)]
      /\ UNCHANGED <<source, len, width, u8size, u16size, isAscii, maxEscape>>
  BY DEF CopyQuote, Stored, Made
<1>2. /\ at = "copy" /\ Copying /\ Looking /\ TextTyped /\ source \in AllSources
      /\ RunUnits = ahead.n /\ ahead.n \in Nat
      /\ ahead.per = 1 \/ ahead.n = 0
      /\ source = "utf8" => ahead.n = 0
      /\ ahead.class \in Classes
  BY <1>1, AtItsStop, RunAhead
<1>3. /\ text' = Plus(text, ahead.class, ahead.n) /\ text' \in [Classes -> Nat] /\ maxvec' \in Classes
      /\ TotalOf(text') = TotalOf(text) + ahead.n
      /\ source = "utf8" => maxvec' = maxvec
  BY <1>1, <1>2, ReadMore
<1>4. n = TotalOf(text')
  BY <1>2, <1>3 DEF Copying
<1>5. Parts(width, n) = stored'
  <2>1. width \in Widths /\ StoredAs(stored, width, writer, u8size, u16size)
    BY <1>2 DEF Copying
  <2>2. StoredAs(stored', width, n, u8size, u16size)
    BY <1>1, <1>2, <2>1, StoreMore
  <2> HIDE DEF n
  <2> QED
    BY <2>1, <2>2, PartsAreStored
<1>6. class \in Classes /\ SeenIn(text', class)
  <2>1. CASE source # "utf8"
    <3>1. StrWidth /\ width \in Widths /\ isAscii \in BOOLEAN
      BY <1>2, <2>1 DEF Copying
    <3>2. StrWidth'
      BY <1>1, <1>2, <2>1, StrRead
    <3>3. /\ UnitBytes(source)' = UnitBytes(source) /\ ByteWidth(maxEscape)' = ByteWidth(maxEscape)
          /\ FitsKind(maxvec)' = FitsKind(maxvec')
      BY <1>1 DEF UnitBytes, ByteWidth, FitsKind
    <3>4. SeenIn(text', Larger(maxEscape, maxvec')) /\ FitsKind(maxvec')
      BY <1>1, <3>2, <3>3 DEF StrWidth
    <3>5. class = Larger(maxEscape, maxvec')
      BY <1>2, <1>3, <2>1, <3>1, <3>4, ClassOfStr DEF StrWidth, TextTyped
    <3>6. Larger(maxEscape, maxvec') \in Classes
      BY <1>2, <1>3 DEF Larger, TextTyped
    <3> QED
      BY <3>4, <3>5, <3>6
  <2>2. CASE source = "utf8"
    <3>1. text' = text /\ ahead.n = 0
      BY <1>2, <1>3, <2>2, PlusNone DEF TextTyped
    <3> QED
      BY <1>2, <2>2, <3>1, ClassOfBytes
  <2> QED
    BY <2>1, <2>2
<1> HIDE DEF n, class
<1>7. class = (IF Present(text') = {} THEN 0 ELSE Max(Present(text')))
  BY <1>3, <1>6, SeenIsMax
<1>8. ResultIsTheString'
  BY <1>1, <1>4, <1>5, <1>7 DEF ResultIsTheString, Present
<1> QED
  BY <1>1, <1>8, NowDone

LEMMA StepString == ASSUME StringInv, StringStep PROVE StringInv'
  BY StepScanVector, StepScanQuote, StepScanFails, StepFirstEscape, StepCopyUtf8, StepNextRun,
     StepCopyVector, StepCopyRun, StepPromote, StepCopyEscape, StepCopyFails, StepCopyQuote
     DEF StringStep

LEMMA StepStart == ASSUME StringInv, StringStart PROVE StringInv'
<1>1. /\ at = "none" /\ pos' = 1 /\ ahead' \in Ahead(1) /\ at' \in {"scan", "failed"}
      /\ UNCHANGED <<source, len, stops, maxvec, maxEscape, text, stored, reach, u8size, u16size>>
  BY DEF StringStart
<1>2. /\ source \in AllSources /\ len \in Nat \ {0} /\ TextTyped
      /\ stored = NoneWide /\ reach = 0 /\ u8size = 0 /\ u16size = 0
      /\ maxEscape = 0 /\ maxvec = 0 /\ \A c \in Classes : text[c] = 0
  BY <1>1 DEF StringInv
<1>3. Looking'
  <2>1. Ahead(pos)' = Ahead(1)
    BY <1>1 DEF Ahead, Plain
  <2>2. source' \in AllSources /\ pos' \in Nat \ {0} /\ len' \in Nat /\ pos' <= len'
    BY <1>1, <1>2
  <2> QED
    BY <1>1, <2>1, <2>2, LooksAtNext
<1>4. TextTyped'
  BY <1>1, <1>2 DEF TextTyped
<1>5. Scanning'
  <2>1. TotalOf(text) = 0
    BY <1>2 DEF TotalOf, Classes
  <2> QED
    BY <1>1, <1>2, <2>1 DEF Scanning, SeenIn, FitsKind
<1>6. CASE at' = "failed"
  BY <1>1, <1>6, NowFailed
<1>7. CASE at' = "scan"
  BY <1>1, <1>3, <1>4, <1>5, <1>7, StillReads
<1> QED
  BY <1>1, <1>6, <1>7

LEMMA StringStarts == Init => StringInv
<1> SUFFICES ASSUME Init PROVE StringInv
  OBVIOUS
<1>1. source \in AllSources /\ len \in Nat \ {0}
  BY SourcesAssumption, VectorAssumption DEF Init, StringInit
<1>2. ResultIsTheString
  BY DEF Init, StringInit, ResultIsTheString
<1> QED
  BY <1>1, <1>2 DEF Init, StringInit, StringInv, TextTyped, Classes

LEMMA StringGoes == StringInv /\ [Next]_vars => StringInv'
<1> SUFFICES ASSUME StringInv, [Next]_vars PROVE StringInv'
  OBVIOUS
<1>1. ASSUME UNCHANGED svars PROVE StringInv'
  <2>1. UNCHANGED <<source, len, pos, ahead, at, width, writer, u8size, u16size, isAscii, maxvec,
                    maxEscape, result, text, stored, reach>>
    BY <1>1 DEF svars
  <2>2. RunUnits' = RunUnits /\ Plain(source)' = Plain(source) /\ UnitBytes(source)' = UnitBytes(source)
    BY <2>1 DEF RunUnits, Plain, UnitBytes
  <2>3. TextTyped' = TextTyped /\ Scanning' = Scanning /\ Looking' = Looking
    BY <2>1, <2>2 DEF TextTyped, Scanning, Looking, FitsKind
  <2>4. Copying' = Copying
    BY <2>1, <2>2 DEF Copying, Utf8Width, StrWidth, ByteWidth, FitsKind
  <2>5. ResultIsTheString' = ResultIsTheString
    BY <2>1 DEF ResultIsTheString
  <2> QED
    BY <2>1, <2>3, <2>4, <2>5 DEF StringInv
<1>2. CASE ReadString
  BY <1>2, StepStart DEF ReadString
<1>3. CASE StringGoesOn
  BY <1>3, StepString DEF StringGoesOn
<1>4. CASE ReadNumber \/ NumberFails \/ ReadWord \/ StringEnds \/ ReturnScalar \/ GarbageFails
  BY <1>1, <1>4 DEF ReadNumber, NumberFails, ReadWord, StringEnds, ReturnScalar, GarbageFails
<1>5. CASE UNCHANGED vars
  BY <1>1, <1>5 DEF vars
<1> QED
  BY <1>2, <1>3, <1>4, <1>5 DEF Next

-----------------------------------------------------------------------------
(* The theorems. *)

\* A run of Readers does to the scalar what ScalarDocument does.
LEMMA ReadersAreScalars == ReadersSpec => Spec
<1>1. ReadersInit => Init
  BY DEF ReadersInit, NoScalar
<1>2. [ReadersNext]_<<vars, blockVars, copyVars, strVars>> => [Next]_vars
  BY DEF ReadersNext
<1> QED
  BY <1>1, <1>2, PTL DEF ReadersSpec, Spec

\* However long the document is, whatever runs it has and however often its characters
\* get wider, the str that decode_str and decode_bytes_utf8 make has the characters of
\* the string, the narrowest kind that holds them, and takes each from where it was put.
THEOREM StringExact == ReadersSpec => []ResultIsTheString
<1>1. StringInv => ResultIsTheString
  BY DEF StringInv
<1>2. Spec => []ResultIsTheString
  BY <1>1, StringStarts, StringGoes, PTL DEF Spec
<1> QED
  BY <1>2, ReadersAreScalars, PTL

\* Whose the scalar is and whose the buffer, at each place of loads_root_single.
EndsInv ==
    /\ root \in {"start", "string", "tail", "returned", "error"}
    /\ root \in {"start", "string", "error"} => refs = 0
    /\ root \in {"tail", "returned"} => refs = 1
    /\ root # "string" => ~allocated

\* A scalar document ends with the one reference to its scalar handed out or, when it
\* fails, with none, and with no string buffer allocated: for any document, whether the
\* buffer comes from the context or not.
THEOREM EndsClean == ReadersSpec => []ScalarEndsClean
<1>1. Init => EndsInv
  BY DEF Init, EndsInv
<1>2. EndsInv /\ [Next]_vars => EndsInv'
  <2> SUFFICES ASSUME EndsInv, [Next]_vars PROVE EndsInv'
    OBVIOUS
  <2> USE DEF EndsInv
  <2>1. CASE ReadNumber
    BY <2>1 DEF ReadNumber
  <2>2. CASE NumberFails
    BY <2>2 DEF NumberFails
  <2>3. CASE ReadWord
    BY <2>3 DEF ReadWord
  <2>4. CASE ReadString
    <3>1. at' = "failed" => ~(capacity' >= 0)
      BY <2>4 DEF ReadString, StringStart
    <3> QED
      BY <2>4, <3>1 DEF ReadString
  <2>5. CASE StringGoesOn
    BY <2>5 DEF StringGoesOn
  <2>6. CASE StringEnds
    BY <2>6 DEF StringEnds
  <2>7. CASE ReturnScalar
    BY <2>7 DEF ReturnScalar
  <2>8. CASE GarbageFails
    BY <2>8 DEF GarbageFails, ReleasedOnGarbage
  <2>9. CASE UNCHANGED vars
    BY <2>9 DEF vars
  <2> QED
    BY <2>1, <2>2, <2>3, <2>4, <2>5, <2>6, <2>7, <2>8, <2>9 DEF Next
<1>3. EndsInv => ScalarEndsClean
  BY DEF EndsInv, ScalarEndsClean
<1>4. Spec => []ScalarEndsClean
  BY <1>1, <1>2, <1>3, PTL DEF Spec
<1> QED
  BY <1>4, ReadersAreScalars, PTL

-----------------------------------------------------------------------------
(* Where the characters are stored. *)

\* What is stored stays behind what is read.
RoomInv ==
    /\ at \in {"scan", "copy"} => capacity = Capacity
    /\ at = "copy" => writer <= pos - 1
    /\ reach \in Nat /\ StoresInside

\* n characters of at most four bytes fit, with two more or with a vector of any width.
LEMMA RoomFor ==
    ASSUME source \in AllSources, len \in Nat, NEW n \in Nat, n <= len, NEW w \in Widths,
           4 * VectorBytes <= TailPadding
    PROVE  /\ Capacity \in Nat /\ n * w \in Nat /\ n * w <= Capacity
           /\ (n + 1) * w \in Nat /\ (n + 1) * w <= Capacity
           /\ (n + Batch) * w \in Nat /\ (n + Batch) * w <= Capacity
           /\ source = "utf8" => (n + 2) * w \in Nat /\ (n + 2) * w <= Capacity
<1>1. /\ VectorBytes \in Nat /\ VectorBytes >= 16 /\ TailPadding \in Nat /\ StaticBytes \in Nat
      /\ Batch \in Nat /\ Batch <= VectorBytes /\ Batch >= 1
  <2>1. 0 \in Nat /\ 0 <= len
    OBVIOUS
  <2> QED
    BY VectorAssumption DEF Batch, UnitBytes
<1>2. PaddingOf(source) \in Nat /\ PaddingOf(source) >= 4 * VectorBytes
  BY <1>1 DEF PaddingOf
<1>3. Capacity \in Nat /\ Capacity >= 4 * len + 4 * VectorBytes
  BY <1>1, <1>2 DEF Capacity, BufferBytes
<1>4. \A m \in Nat : m <= len + VectorBytes => m * w \in Nat /\ m * w <= 4 * len + 4 * VectorBytes
  BY <1>1 DEF Widths
<1> QED
  BY <1>1, <1>3, <1>4

\* What one store of a copied string may touch.
LEMMA Touches ==
    ASSUME StringInv, RoomInv, at = "copy", 4 * VectorBytes <= TailPadding
    PROVE  /\ writer \in Nat /\ width \in Widths /\ pos \in Nat /\ pos <= len /\ writer <= pos - 1
           /\ source # "utf8" => (writer + Touched) * width \in Nat /\ (writer + Touched) * width <= Capacity
           /\ (writer + LastTouched) * width \in Nat /\ (writer + LastTouched) * width <= Capacity
<1>1. /\ source \in AllSources /\ len \in Nat /\ pos \in Nat /\ pos <= len /\ Copying
      /\ Loaded \in Nat /\ Left \in Nat /\ Left = len - pos
  BY Reading
<1>2. writer \in Nat /\ width \in Widths /\ writer <= pos - 1 /\ writer <= len
  BY <1>1 DEF RoomInv, Copying, StoredAs
<1>3. ASSUME source # "utf8"
      PROVE  (writer + Touched) * width \in Nat /\ (writer + Touched) * width <= Capacity
  <2>1. CASE Left >= Batch
    <3>1. Touched = Loaded /\ Loaded <= Left
      BY <1>1, <1>3, <2>1, Loads DEF Touched
    <3>2. writer + Touched \in Nat /\ writer + Touched <= len
      BY <1>1, <1>2, <3>1
    <3> QED
      BY <1>1, <1>2, <3>2, RoomFor
  <2>2. CASE ~(Left >= Batch)
    <3>1. Touched = Batch
      BY <2>2 DEF Touched
    <3> QED
      BY <1>1, <1>2, <3>1, RoomFor
  <2> QED
    BY <2>1, <2>2
<1>4. CASE source = "utf8"
  <2>1. LastTouched = 0 /\ writer + 0 = writer
    BY <1>2, <1>4 DEF LastTouched
  <2> QED
    BY <1>1, <1>2, <1>4, <2>1, RoomFor
<1>5. CASE source # "utf8"
  <2>1. LastTouched = Touched
    BY <1>5 DEF LastTouched
  <2> QED
    BY <1>1, <1>2, <1>3, <1>5, <2>1
<1> QED
  BY <1>1, <1>2, <1>3, <1>4, <1>5

\* The reach stays inside.
LEMMA ReachKept ==
    ASSUME RoomInv, UNCHANGED <<source, len, capacity>>, Capacity \in Nat,
           at \in {"scan", "copy"}, reach' \in Nat, reach' <= Capacity,
           at' = "copy" => writer' <= pos' - 1
    PROVE  RoomInv'
<1>1. Capacity' = Capacity
  BY DEF Capacity, BufferBytes, PaddingOf
<1>2. capacity = Capacity
  BY DEF RoomInv
<1> QED
  BY <1>1, <1>2 DEF RoomInv, StoresInside

\* Nothing is stored.
LEMMA ReachSame ==
    ASSUME RoomInv, UNCHANGED <<source, len, capacity, reach>>,
           at' \in {"scan", "copy"} => at \in {"scan", "copy"},
           at' = "copy" => writer' <= pos' - 1
    PROVE  RoomInv'
<1>1. Capacity' = Capacity
  BY DEF Capacity, BufferBytes, PaddingOf
<1> QED
  BY <1>1 DEF RoomInv, StoresInside

LEMMA OneBefore ==
    ASSUME NEW p \in Nat \ {0}, NEW m \in Nat, p <= m
    PROVE  p - 1 \in Nat /\ p - 1 <= m /\ (p - 1) * 1 = p - 1
  OBVIOUS

LEMMA BehindRun ==
    ASSUME NEW p \in Nat, NEW r \in Nat, NEW q \in Nat, p + r + 2 <= q
    PROVE  p + r - 1 + 1 = p + r /\ p + r <= q - 1
  OBVIOUS

LEMMA RoomStep ==
    ASSUME StringInv, RoomInv, StringStep, 4 * VectorBytes <= TailPadding
    PROVE  RoomInv'
<1>1. CASE ScanVector \/ ScanQuote \/ ScanFails
  <2>1. UNCHANGED <<source, len, capacity, reach>> /\ at = "scan" /\ at' # "copy"
    BY <1>1 DEF ScanVector, ScanQuote, ScanFails, Made
  <2> QED
    BY <2>1, ReachSame
<1>2. CASE FirstEscape
  <2> DEFINE n == pos + RunUnits
             w == FirstWidth(ahead.value)
  <2>1. /\ at = "scan" /\ ahead.kind = "escape" /\ writer' = pos + RunUnits - 1 + 1
        /\ reach' = (pos + RunUnits - 1 + 1) * w
        /\ pos' = pos + RunUnits + ahead.size /\ Look /\ UNCHANGED <<source, len, capacity>>
    BY <1>2 DEF FirstEscape
  <2>2. /\ source \in AllSources /\ len \in Nat /\ pos \in Nat \ {0} /\ RunUnits \in Nat
        /\ n \in Nat /\ n <= len /\ ahead.value \in Classes /\ UnitBytes(source) \in Widths
    BY <2>1, Reading, RunAhead DEF Looking
  <2>3. pos + RunUnits - 1 + 1 = n /\ n <= pos' - 1
    <3>1. pos + RunUnits + 2 <= pos' /\ pos' \in Nat
      BY <2>1, <2>2, BehindEscape DEF Looking
    <3>2. pos \in Nat /\ RunUnits \in Nat
      BY <2>2
    <3> QED
      BY <3>1, <3>2, BehindRun
  <2>4. w \in Widths
    BY <2>2 DEF FirstWidth, Larger, ByteWidth, Widths
  <2> HIDE DEF n, w
  <2>5. reach' \in Nat /\ reach' <= Capacity /\ Capacity \in Nat
    BY <2>1, <2>2, <2>3, <2>4, RoomFor
  <2> QED
    BY <2>1, <2>3, <2>5, ReachKept
<1>3. CASE CopyUtf8
  <2>1. /\ at = "scan" /\ writer' = pos' - 1 /\ reach' = pos' - 1 /\ UNCHANGED <<source, len, capacity>>
        /\ at' = "copy"
    BY <1>3 DEF CopyUtf8
  <2>2. StringInv'
    BY <1>3, StepCopyUtf8
  <2>3. pos' \in Nat \ {0} /\ pos' <= len
    BY <2>1, <2>2 DEF StringInv, Looking
  <2>4. source \in AllSources /\ len \in Nat
    BY DEF StringInv
  <2>5. pos' - 1 \in Nat /\ pos' - 1 <= len /\ (pos' - 1) * 1 = pos' - 1
    BY <2>3, <2>4, OneBefore
  <2>7. 1 \in Widths
    BY DEF Widths
  <2>8. reach' \in Nat /\ reach' <= Capacity /\ Capacity \in Nat
    <3>1. (pos' - 1) * 1 <= Capacity /\ Capacity \in Nat
      BY <2>4, <2>5, <2>7, RoomFor
    <3> QED
      BY <2>1, <2>5, <3>1
  <2>9. writer' <= pos' - 1
    BY <2>1, <2>5
  <2> QED
    BY <2>1, <2>8, <2>9, ReachKept
<1>4. CASE NextRun
  <2>1. /\ at \in {"scan", "copy"} /\ UNCHANGED <<source, len, capacity, reach, writer, at>>
        /\ at = "copy" => ahead.n = 0
        /\ pos' = pos + RunUnits
    BY <1>4 DEF NextRun
  <2>2. at = "copy" => RunUnits = 0 /\ pos \in Nat
    BY <2>1, Reading, RunAhead
  <2> QED
    BY <2>1, <2>2, ReachSame DEF RoomInv
<1>5. CASE CopyVector
  <2>1. /\ at = "copy" /\ source # "utf8" /\ pos' = pos + Loaded /\ writer' = writer + Loaded
        /\ reach' = Larger(reach, (writer + Touched) * width) /\ UNCHANGED <<source, len, capacity>>
    BY <1>5 DEF CopyVector, Stored
  <2>2. Loaded \in Nat /\ writer \in Nat /\ pos \in Nat /\ writer <= pos - 1
        /\ (writer + Touched) * width \in Nat /\ (writer + Touched) * width <= Capacity
    BY <2>1, Reading, Touches
  <2>3. reach \in Nat /\ reach <= Capacity /\ Capacity \in Nat
    <3>1. source \in AllSources /\ len \in Nat /\ 0 <= len /\ 0 \in Nat /\ 1 \in Widths
      BY DEF StringInv, Widths
    <3>2. Capacity \in Nat
      BY <3>1, RoomFor
    <3> QED
      BY <2>1, <3>2 DEF RoomInv, StoresInside
  <2>4. reach' \in Nat /\ reach' <= Capacity
    BY <2>1, <2>2, <2>3 DEF Larger
  <2>5. writer' <= pos' - 1
    BY <2>1, <2>2
  <2> QED
    BY <2>1, <2>3, <2>4, <2>5, ReachKept
<1>6. CASE CopyRun
  <2>1. /\ at = "copy" /\ source = "utf8" /\ pos' = pos + RunUnits /\ writer' = writer + ahead.n
        /\ reach' = Larger(reach, (writer + (ahead.n + 2)) * width) /\ UNCHANGED <<source, len, capacity>>
    BY <1>6 DEF CopyRun, Stored
  <2>2. /\ source \in AllSources /\ len \in Nat /\ pos \in Nat /\ RunUnits \in Nat /\ ahead.n \in Nat
        /\ ahead.n <= RunUnits /\ pos + RunUnits <= len
        /\ writer \in Nat /\ width \in Widths /\ writer <= pos - 1
    BY <2>1, Reading, RunAhead, Touches DEF Looking
  <2>3. writer + ahead.n \in Nat /\ writer + ahead.n <= len
        /\ writer + (ahead.n + 2) = (writer + ahead.n) + 2
    BY <2>2
  <2>4. /\ (writer + (ahead.n + 2)) * width \in Nat /\ (writer + (ahead.n + 2)) * width <= Capacity
        /\ Capacity \in Nat
    BY <2>1, <2>2, <2>3, RoomFor
  <2>5. reach \in Nat /\ reach <= Capacity
    BY <2>1, <2>4 DEF RoomInv, StoresInside
  <2>6. reach' \in Nat /\ reach' <= Capacity
    BY <2>1, <2>4, <2>5 DEF Larger
  <2>7. writer' <= pos' - 1
    BY <2>1, <2>2
  <2> QED
    BY <2>1, <2>4, <2>6, <2>7, ReachKept
<1>7. CASE Promote
  <2>1. at = "copy" /\ UNCHANGED <<source, len, capacity, reach, writer, pos, at>>
    BY <1>7 DEF Promote
  <2> QED
    BY <2>1, ReachSame DEF RoomInv
<1>8. CASE CopyEscape
  <2> DEFINE n == writer + ahead.n
             w == Larger(width, ByteWidth(ahead.value))
  <2>1. /\ AtStop /\ ahead.kind = "escape" /\ writer' = n + 1
        /\ reach' = Larger(Larger(reach, (writer + LastTouched) * width), (n + 1) * w)
        /\ pos' = pos + RunUnits + ahead.size /\ Look /\ UNCHANGED <<source, len, capacity>>
    BY <1>8 DEF CopyEscape
  <2>2. /\ at = "copy" /\ source \in AllSources /\ len \in Nat /\ pos \in Nat /\ RunUnits \in Nat
        /\ ahead.n \in Nat /\ ahead.n <= RunUnits /\ pos + RunUnits <= len
        /\ writer \in Nat /\ width \in Widths /\ writer <= pos - 1 /\ ahead.value \in Classes
        /\ (writer + LastTouched) * width \in Nat /\ (writer + LastTouched) * width <= Capacity
    BY <2>1, AtItsStop, Reading, RunAhead, Touches DEF Looking
  <2>3. n + 1 \in Nat /\ n + 1 <= len /\ n + 1 <= pos' - 1
    <3>1. pos + RunUnits + 2 <= pos' /\ pos' \in Nat
      BY <2>1, <2>2, BehindEscape DEF Looking
    <3> QED
      BY <2>2, <3>1
  <2>4. w \in Widths
    BY <2>2 DEF Larger, ByteWidth, Widths
  <2> HIDE DEF n, w
  <2>5. (n + 1) * w \in Nat /\ (n + 1) * w <= Capacity /\ Capacity \in Nat
    BY <2>2, <2>3, <2>4, RoomFor
  <2>6. reach \in Nat /\ reach <= Capacity
    BY <2>2, <2>5 DEF RoomInv, StoresInside
  <2>7. reach' \in Nat /\ reach' <= Capacity
    BY <2>1, <2>2, <2>5, <2>6 DEF Larger
  <2> QED
    BY <2>1, <2>2, <2>3, <2>5, <2>7, ReachKept
<1>9. CASE CopyFails \/ CopyQuote
  <2>1. /\ AtStop /\ at' \in {"failed", "done"}
        /\ reach' = Larger(reach, (writer + LastTouched) * width) /\ UNCHANGED <<source, len, capacity>>
    BY <1>9 DEF CopyFails, CopyQuote, Stored, Made
  <2>2. /\ at = "copy" /\ source \in AllSources /\ len \in Nat
        /\ (writer + LastTouched) * width \in Nat /\ (writer + LastTouched) * width <= Capacity
    BY <2>1, AtItsStop, Reading, Touches
  <2>3. Capacity \in Nat
    <3>1. 0 \in Nat /\ 0 <= len /\ 1 \in Widths
      BY <2>2 DEF Widths
    <3> QED
      BY <2>2, <3>1, RoomFor
  <2>4. reach \in Nat /\ reach <= Capacity
    BY <2>2, <2>3 DEF RoomInv, StoresInside
  <2>5. reach' \in Nat /\ reach' <= Capacity
    BY <2>1, <2>2, <2>4 DEF Larger
  <2> QED
    BY <2>1, <2>2, <2>3, <2>5, ReachKept
<1> QED
  BY <1>1, <1>2, <1>3, <1>4, <1>5, <1>6, <1>7, <1>8, <1>9 DEF StringStep

LEMMA RoomGoes ==
    ASSUME StringInv, RoomInv, [Next]_vars,
           FailingReserve \subseteq {"utf8"}, 4 * VectorBytes <= TailPadding
    PROVE  RoomInv'
<1>1. ASSUME UNCHANGED svars PROVE RoomInv'
  <2>1. UNCHANGED <<source, len, capacity, reach, writer, pos, at>>
    BY <1>1 DEF svars
  <2> QED
    BY <2>1, ReachSame DEF RoomInv
<1>2. CASE ReadString
  <2>1. /\ at = "none" /\ UNCHANGED <<source, len, reach>>
        /\ at' \in {"scan", "failed"}
        /\ at' = "scan" => capacity' = Capacity
    BY <1>2 DEF ReadString, StringStart, MayFailReserve
  <2>2. Capacity' = Capacity
    BY <2>1 DEF Capacity, BufferBytes, PaddingOf
  <2>3. reach = 0
    BY <2>1 DEF StringInv
  <2> QED
    BY <2>1, <2>2, <2>3 DEF RoomInv, StoresInside
<1>3. CASE StringGoesOn
  BY <1>3, RoomStep DEF StringGoesOn
<1>4. CASE ReadNumber \/ NumberFails \/ ReadWord \/ StringEnds \/ ReturnScalar \/ GarbageFails
  BY <1>1, <1>4 DEF ReadNumber, NumberFails, ReadWord, StringEnds, ReturnScalar, GarbageFails
<1>5. CASE UNCHANGED vars
  BY <1>1, <1>5 DEF vars
<1> QED
  BY <1>2, <1>3, <1>4, <1>5 DEF Next

\* The buffer of four bytes a character and the padding at both ends takes every store of
\* decode_str and decode_bytes_utf8, those of whole vectors behind the last character
\* too, of documents of any length: when the padding is that of four bytes for every
\* byte of a vector, which the 64 of _TailPadding are for vectors of 16 only, and when the
\* str documents get their buffer, whose allocation loads_root_single does not check.
THEOREM BufferTakesTheString ==
    ASSUME FailingReserve \subseteq {"utf8"}, 4 * VectorBytes <= TailPadding
    PROVE  ReadersSpec => []StoresInside
<1>1. Init => RoomInv
  BY DEF Init, StringInit, RoomInv, StoresInside
<1>2. StringInv /\ RoomInv /\ [Next]_vars => RoomInv'
  BY RoomGoes
<1>3. RoomInv => StoresInside
  BY DEF RoomInv
<1>4. Spec => []StoresInside
  BY <1>1, <1>2, <1>3, StringStarts, StringGoes, PTL DEF Spec
<1> QED
  BY <1>4, ReadersAreScalars, PTL
=============================================================================
