-------------------------- MODULE Utf8CacheProofs --------------------------
(***************************************************************************)
(* What dumps_to_bytes() writes for a str is its text, inside of what was  *)
(* reserved, for every str and however many threads race to give it its    *)
(* UTF-8, in both builds.                                                  *)
(*                                                                         *)
(* The first part is about the functions of Utf8Text, for every str of     *)
(* every kind and length: each is a recursion over the str, so that what   *)
(* it does is shown from the end of the str to its beginning (see          *)
(* DataInduction).  What is shown of the rest of a str from q on is Rest:  *)
(* the text of the rest unless there is a surrogate in it, and that no     *)
(* store reaches further than one vector behind what can precede the last  *)
(* character.                                                              *)
(*                                                                         *)
(* The second part is about who owns a buffer of UTF-8: BuffersOwned is    *)
(* inductive with what is known of a call before it publishes: under       *)
(* the GIL no other call is between its steps and the str has no UTF-8 yet *)
(* (GILKeepsApart), so a plain store overwrites nothing; without it there  *)
(* is no plain store (SwapsPointers); and a pointer that was read stays    *)
(* that of the str (PointersStay).                                         *)
(*                                                                         *)
(* The third part joins them: a buffer that belongs to a str or to a call  *)
(* holds the UTF-8 of the str, and what a call has written is the text of  *)
(* its str (TextInv).                                                      *)
(***************************************************************************)
EXTENDS Utf8Cache, DataInduction, TLAPS

-----------------------------------------------------------------------------
\* The bytes of the text of strs.
TextBytes == (Chars \X (1 .. 4)) \cup (Chars \X {"escape"} \X (1 .. 6))

\* What each character is written as.
CharBytes == [c \in Chars |-> Bytes(c)]
CharTexts(raw) == [c \in Chars |-> IF IsEscaped(raw, c) THEN Escaped(c) ELSE Bytes(c)]

\* The text of s.
Text(raw, s) == Flat(CharTexts(raw), s)

\* The bytes that a character of a str has at most, and a vector of it.
Widest(raw, kind) == IF raw THEN MaxUtf8Bytes[kind] ELSE MaxJsonBytes
VectorStore(raw, kind) == IF raw THEN WidestStore[kind] ELSE 3 * Batch(2)

\* Python gives a str the narrowest kind that holds its characters.
OfItsKind(kind, s) == \A i \in 1 .. Len(s) : Size(s[i]) <= MaxUtf8Bytes[kind]

Pieces == [text : Seq(TextBytes), reach : Nat, ok : BOOLEAN]

\* x writes s from q on: its text, unless there is a surrogate, in stores that
\* reach no further than one vector behind what precedes the last character.
Rest(raw, s, q, M, W, x) ==
    /\ x \in Pieces
    /\ x.ok <=> \A i \in q .. Len(s) : s[i] # "surrogate"
    /\ x.ok => x.text = Text(raw, SubSeq(s, q, Len(s)))
    /\ Len(x.text) <= M * (Len(s) + 1 - q)
    /\ x.reach <= IF q > Len(s) THEN 0 ELSE M * (Len(s) - q) + W

\* The characters are short, and so are their texts.
LEMMA CharFacts ==
    ASSUME NEW c \in Chars, NEW raw \in BOOLEAN
    PROVE  /\ Size(c) \in 1 .. 4
           /\ Bytes(c) \in Seq(TextBytes) /\ Len(Bytes(c)) = Size(c)
           /\ c \in DOMAIN Escape => Escape[c] \in {2, 6} /\ Size(c) = 1
           /\ c \in DOMAIN Escape => Escaped(c) \in Seq(TextBytes) /\ Len(Escaped(c)) = Escape[c]
<1>1. Size(c) \in 1 .. 4
  BY DEF Size, Chars
<1>2. Bytes(c) \in Seq(TextBytes) /\ Len(Bytes(c)) = Size(c)
  <2>1. \A i \in 1 .. Size(c) : <<c, i>> \in TextBytes
    BY <1>1 DEF TextBytes
  <2> QED
    BY <1>1, <2>1 DEF Bytes
<1>3. c \in DOMAIN Escape => Escape[c] \in {2, 6} /\ Size(c) = 1
  BY DEF Escape, Size
<1>4. ASSUME c \in DOMAIN Escape PROVE Escaped(c) \in Seq(TextBytes) /\ Len(Escaped(c)) = Escape[c]
  <2>1. \A i \in 1 .. Escape[c] : <<c, "escape", i>> \in TextBytes
    BY <1>3, <1>4 DEF TextBytes
  <2> QED
    BY <1>3, <1>4, <2>1 DEF Escaped
<1> QED
  BY <1>1, <1>2, <1>3, <1>4

\* The functions that map a character to its text.
LEMMA TextsTyped ==
    ASSUME NEW raw \in BOOLEAN
    PROVE  /\ CharBytes \in [Chars -> Seq(TextBytes)]
           /\ CharTexts(raw) \in [Chars -> Seq(TextBytes)]
           /\ \A c \in Chars : Len(CharTexts(raw)[c]) <= 6
           /\ raw => CharTexts(raw) = CharBytes
<1>1. \A c \in Chars : Bytes(c) \in Seq(TextBytes) /\ Len(Bytes(c)) <= 6
  BY CharFacts
<1>2. \A c \in Chars : IsEscaped(raw, c) => Escaped(c) \in Seq(TextBytes) /\ Len(Escaped(c)) <= 6
  BY CharFacts DEF IsEscaped
<1> QED
  BY <1>1, <1>2 DEF CharBytes, CharTexts, IsEscaped

\* Two pieces in a row.
LEMMA ThenTyped ==
    ASSUME NEW a \in Pieces, NEW b \in Pieces
    PROVE  /\ Then(a, b) \in Pieces
           /\ ~a.ok => Then(a, b) = a
           /\ a.ok => /\ Then(a, b).ok = b.ok
                      /\ Then(a, b).text = a.text \o b.text
                      /\ Then(a, b).reach = IF a.reach >= Len(a.text) + b.reach
                                            THEN a.reach ELSE Len(a.text) + b.reach
<1>1. /\ a.text \in Seq(TextBytes) /\ b.text \in Seq(TextBytes)
      /\ a.reach \in Nat /\ b.reach \in Nat /\ a.ok \in BOOLEAN /\ b.ok \in BOOLEAN
  BY DEF Pieces
<1>2. a.text \o b.text \in Seq(TextBytes) /\ Len(a.text) \in Nat
  BY <1>1, ConcatProperties
<1>3. Max({a.reach, Len(a.text) + b.reach}) = IF a.reach >= Len(a.text) + b.reach
                                               THEN a.reach ELSE Len(a.text) + b.reach
  BY <1>1, <1>2, MaxOfTwo
<1> QED
  BY <1>1, <1>2, <1>3 DEF Then, Piece, Pieces

\* One character.
LEMMA OneTyped ==
    ASSUME NEW raw \in BOOLEAN, NEW c \in Chars
    PROVE  /\ EncodeOne(raw, c) \in Pieces
           /\ EncodeOne(raw, c).ok <=> c # "surrogate"
           /\ EncodeOne(raw, c).text = CharTexts(raw)[c]
           /\ EncodeOne(raw, c).reach = IF IsEscaped(raw, c) THEN 8 ELSE Size(c)
           /\ Len(EncodeOne(raw, c).text) = IF IsEscaped(raw, c) THEN Escape[c] ELSE Size(c)
<1>1. CharTexts(raw)[c] = IF IsEscaped(raw, c) THEN Escaped(c) ELSE Bytes(c)
  BY DEF CharTexts
<1>2. IsEscaped(raw, c) => c # "surrogate"
  BY DEF IsEscaped, Escape
<1>3. CharTexts(raw)[c] \in Seq(TextBytes)
  BY TextsTyped
<1>4. CASE IsEscaped(raw, c)
  <2> DEFINE e == Escaped(c)
  <2>1. EncodeOne(raw, c) = Piece(e, 8, TRUE)
    BY <1>4 DEF EncodeOne
  <2>2. Len(e) = Escape[c]
    BY <1>4, CharFacts DEF IsEscaped
  <2> QED
    <3>1. e = CharTexts(raw)[c] /\ e \in Seq(TextBytes) /\ c # "surrogate"
      BY <1>1, <1>2, <1>3, <1>4
    <3>2. /\ Piece(e, 8, TRUE).text = e /\ Piece(e, 8, TRUE).reach = 8 /\ Piece(e, 8, TRUE).ok
          /\ Piece(e, 8, TRUE) \in Pieces
      BY <3>1 DEF Piece, Pieces
    <3> HIDE DEF e
    <3> QED
      BY <1>4, <2>1, <2>2, <3>1, <3>2
<1>5. CASE ~IsEscaped(raw, c)
  <2> DEFINE e == Bytes(c)
             k == c # "surrogate"
  <2>1. EncodeOne(raw, c) = Piece(e, Size(c), k)
    BY <1>5 DEF EncodeOne
  <2>2. Len(e) = Size(c) /\ Size(c) \in Nat
    BY CharFacts
  <2>3. e = CharTexts(raw)[c] /\ e \in Seq(TextBytes) /\ k \in BOOLEAN
    BY <1>1, <1>3, <1>5
  <2> HIDE DEF e, k
  <2>4. /\ Piece(e, Size(c), k).text = e /\ Piece(e, Size(c), k).reach = Size(c)
        /\ Piece(e, Size(c), k) \in Pieces
    BY <2>2, <2>3 DEF Piece, Pieces
  <2>5. Piece(e, Size(c), k).ok <=> k
    BY Zenon DEF Piece
  <2>6. k <=> c # "surrogate"
    BY DEF k
  <2> QED
    BY <1>5, <2>1, <2>2, <2>3, <2>4, <2>5, <2>6
<1> QED
  BY <1>4, <1>5

\* Nothing is left behind the last character.
LEMMA NothingRests ==
    ASSUME NEW raw \in BOOLEAN, NEW s \in Seq(Chars), NEW M \in Nat, NEW W
    PROVE  Rest(raw, s, Len(s) + 1, M, W, Nothing)
<1>1. Len(s) \in Nat /\ SubSeq(s, Len(s) + 1, Len(s)) = <<>>
  BY SubSeqEmpty
<1>2. Nothing \in Pieces
  BY EmptySeq DEF Nothing, Piece, Pieces
<1>3. Text(raw, <<>>) = <<>>
  BY FlatEmpty DEF Text
<1>4. M * (Len(s) + 1 - (Len(s) + 1)) = 0
  BY <1>1
<1>5. Nothing.ok /\ Nothing.text = <<>> /\ Nothing.reach = 0 /\ Len(<<>>) = 0
  BY DEF Nothing, Piece
<1>6. \A i \in Len(s) + 1 .. Len(s) : s[i] # "surrogate"
  BY <1>1
<1>7. Nothing.ok => Nothing.text = Text(raw, SubSeq(s, Len(s) + 1, Len(s)))
  BY <1>1, <1>3, <1>5
<1>8. Len(Nothing.text) <= M * (Len(s) + 1 - (Len(s) + 1))
  BY <1>4, <1>5
<1>9. Nothing.reach <= IF Len(s) + 1 > Len(s) THEN 0 ELSE M * (Len(s) - (Len(s) + 1)) + W
  BY <1>1, <1>5
<1> QED
  BY <1>2, <1>5, <1>6, <1>7, <1>8, <1>9 DEF Rest

\* A product is distributed over a sum, which is a natural.
LEMMA Distribute ==
    ASSUME NEW M \in Nat, NEW n \in Nat, NEW d \in Nat
    PROVE  M * (n + d) = M * n + M * d /\ M * n \in Nat /\ M * d \in Nat
  OBVIOUS

\* The text of s from q on, cut at r.
LEMMA TextSplits ==
    ASSUME NEW raw \in BOOLEAN, NEW s \in Seq(Chars), NEW q \in 1 .. Len(s) + 1, NEW r \in q .. Len(s) + 1
    PROVE  /\ SubSeq(s, q, r - 1) \in Seq(Chars) /\ SubSeq(s, r, Len(s)) \in Seq(Chars)
           /\ Text(raw, SubSeq(s, q, Len(s)))
                 = Text(raw, SubSeq(s, q, r - 1)) \o Text(raw, SubSeq(s, r, Len(s)))
<1>1. SubSeq(s, q, Len(s)) = SubSeq(s, q, r - 1) \o SubSeq(s, r, Len(s))
  <2>1. r - 1 \in q - 1 .. Len(s) /\ Len(s) \in r - 1 .. Len(s) /\ r - 1 + 1 = r
    OBVIOUS
  <2> QED
    BY <2>1, ConcatAdjacentSubSeq
<1>2. SubSeq(s, q, r - 1) \in Seq(Chars) /\ SubSeq(s, r, Len(s)) \in Seq(Chars)
  BY SubSeqProperties
<1>3. CharTexts(raw) \in [Chars -> Seq(TextBytes)]
  BY TextsTyped
<1>4. Distributes(CharTexts(raw), Chars)
  BY <1>3, FlatDistributes
<1> QED
  BY <1>1, <1>2, <1>4 DEF Text, Distributes

\* What is written of d characters and of what is behind them keeps to the bounds of both.
LEMMA PartArithmetic ==
    ASSUME NEW L \in Nat, NEW q \in 1 .. L, NEW d \in Nat, q + d <= L + 1,
           NEW M \in Nat, NEW W \in Nat, M <= W,
           NEW la \in Nat, NEW ly \in Nat, NEW ra \in Nat, NEW ry \in Nat,
           la <= M * d, ra <= W, ly <= M * (L + 1 - (q + d)),
           ry <= IF q + d > L THEN 0 ELSE M * (L - (q + d)) + W
    PROVE  /\ la + ly <= M * (L + 1 - q)
           /\ ra <= M * (L - q) + W
           /\ la + ry <= M * (L - q) + W
<1> DEFINE n == L + 1 - (q + d)
<1>1. n \in Nat /\ L + 1 - q = n + d /\ L - q \in Nat
  OBVIOUS
<1>2. M * (n + d) = M * n + M * d /\ M * n \in Nat /\ M * d \in Nat /\ M * (L - q) \in Nat
  BY <1>1, Distribute
<1>3. la + ly <= M * (L + 1 - q) /\ ra <= M * (L - q) + W
  BY <1>1, <1>2
<1>4. CASE n = 0
  <2>1. ry = 0 /\ L - q = d - 1 /\ d - 1 \in Nat
    BY <1>1, <1>4
  <2>2. M * ((d - 1) + 1) = M * (d - 1) + M * 1 /\ M * (d - 1) \in Nat
    BY <2>1, Distribute
  <2> QED
    BY <1>3, <2>1, <2>2
<1>5. CASE n # 0
  <2>1. n - 1 \in Nat /\ L - (q + d) = n - 1 /\ L - q = (n - 1) + d /\ ~(q + d > L)
    BY <1>1, <1>5
  <2>2. M * ((n - 1) + d) = M * (n - 1) + M * d /\ M * (n - 1) \in Nat
    BY <2>1, Distribute
  <2> QED
    BY <1>3, <2>1, <2>2
<1> QED
  BY <1>4, <1>5

\* A first part, a, of d characters that are all written, and the rest.
LEMMA PartThen ==
    ASSUME NEW raw \in BOOLEAN, NEW s \in Seq(Chars), NEW q \in 1 .. Len(s), NEW d \in Nat, q + d <= Len(s) + 1,
           NEW M \in Nat, NEW W \in Nat, M <= W,
           NEW a \in Pieces, a.ok,
           a.text = Text(raw, SubSeq(s, q, q + d - 1)),
           Len(a.text) <= M * d, a.reach <= W,
           \A i \in q .. q + d - 1 : s[i] # "surrogate",
           NEW y, Rest(raw, s, q + d, M, W, y)
    PROVE  Rest(raw, s, q, M, W, Then(a, y))
<1> DEFINE x == Then(a, y)
<1>1. /\ y \in Pieces
      /\ y.ok <=> \A i \in q + d .. Len(s) : s[i] # "surrogate"
      /\ y.ok => y.text = Text(raw, SubSeq(s, q + d, Len(s)))
      /\ Len(y.text) <= M * (Len(s) + 1 - (q + d))
      /\ y.reach <= IF q + d > Len(s) THEN 0 ELSE M * (Len(s) - (q + d)) + W
  BY DEF Rest
<1>2. /\ x \in Pieces /\ x.ok = y.ok /\ x.text = a.text \o y.text
      /\ x.reach = IF a.reach >= Len(a.text) + y.reach THEN a.reach ELSE Len(a.text) + y.reach
  BY <1>1, ThenTyped
<1>3. /\ a.text \in Seq(TextBytes) /\ y.text \in Seq(TextBytes)
      /\ a.reach \in Nat /\ y.reach \in Nat /\ y.ok \in BOOLEAN /\ Len(s) \in Nat
      /\ Len(a.text) \in Nat /\ Len(y.text) \in Nat
  BY <1>1 DEF Pieces
<1>4. Len(x.text) = Len(a.text) + Len(y.text)
  BY <1>2, <1>3, ConcatProperties
<1> HIDE DEF x
<1>5. x.ok <=> \A i \in q .. Len(s) : s[i] # "surrogate"
  BY <1>1, <1>2, <1>3
<1>6. x.ok => x.text = Text(raw, SubSeq(s, q, Len(s)))
  <2>1. q + d \in q .. Len(s) + 1 /\ q \in 1 .. Len(s) + 1
    BY <1>3
  <2>2. q + d - 1 = (q + d) - 1
    BY <1>3
  <2>3. Text(raw, SubSeq(s, q, Len(s))) = Text(raw, SubSeq(s, q, (q + d) - 1)) \o Text(raw, SubSeq(s, q + d, Len(s)))
    BY <2>1, TextSplits
  <2> QED
    BY <1>1, <1>2, <2>1, <2>2, <2>3
<1>7. Len(x.text) <= M * (Len(s) + 1 - q) /\ x.reach <= M * (Len(s) - q) + W
  <2> DEFINE la == Len(a.text)
             ly == Len(y.text)
             ra == a.reach
             ry == y.reach
             L == Len(s)
  <2>1. /\ L \in Nat /\ q \in 1 .. L /\ q + d <= L + 1
        /\ la \in Nat /\ ly \in Nat /\ ra \in Nat /\ ry \in Nat
        /\ la <= M * d /\ ra <= W /\ ly <= M * (L + 1 - (q + d))
        /\ ry <= IF q + d > L THEN 0 ELSE M * (L - (q + d)) + W
    BY <1>1, <1>3
  <2>2. Len(x.text) = la + ly /\ x.reach = IF ra >= la + ry THEN ra ELSE la + ry
    BY <1>2, <1>4
  <2> HIDE DEF la, ly, ra, ry, L
  <2>3. /\ la + ly <= M * (L + 1 - q)
        /\ ra <= M * (L - q) + W
        /\ la + ry <= M * (L - q) + W
    BY <2>1, PartArithmetic
  <2> QED
    BY <2>2, <2>3 DEF L
<1>9. ~(q > Len(s))
  BY <1>3
<1> QED
  BY <1>2, <1>5, <1>6, <1>7, <1>9 DEF Rest, x

-----------------------------------------------------------------------------
\* A character written alone, and the rest.
LEMMA OneThen ==
    ASSUME NEW raw \in BOOLEAN, NEW s \in Seq(Chars), NEW q \in 1 .. Len(s),
           NEW M \in Nat, NEW W \in Nat, M <= W,
           Len(EncodeOne(raw, s[q]).text) <= M, EncodeOne(raw, s[q]).reach <= W,
           NEW y, Rest(raw, s, q + 1, M, W, y)
    PROVE  Rest(raw, s, q, M, W, IF EncodeOne(raw, s[q]).ok THEN Then(EncodeOne(raw, s[q]), y)
                                 ELSE EncodeOne(raw, s[q]))
<1> DEFINE a == EncodeOne(raw, s[q])
<1>1. s[q] \in Chars /\ Len(s) \in Nat
  OBVIOUS
<1>2. a \in Pieces /\ (a.ok <=> s[q] # "surrogate") /\ a.text = CharTexts(raw)[s[q]]
  BY <1>1, OneTyped
<1>3. Len(a.text) <= M /\ a.reach <= W
  OBVIOUS
<1> HIDE DEF a
<1>4. Text(raw, SubSeq(s, q, q)) = CharTexts(raw)[s[q]]
  <2>1. SubSeq(s, q, q) = <<s[q]>>
    <3>1. q \in q .. Len(s) /\ SubSeq(s, q + 1, q) = <<>>
      BY <1>1, SubSeqEmpty
    <3>2. SubSeq(s, q, q) = <<s[q]>> \o SubSeq(s, q + 1, q)
      BY <3>1, SubSeqRecursiveFirst
    <3>3. <<s[q]>> \in Seq(Chars)
      BY <1>1
    <3> QED
      BY <3>1, <3>2, <3>3, ConcatEmptySeq
  <2>2. CharTexts(raw) \in [Chars -> Seq(TextBytes)]
    BY TextsTyped
  <2> QED
    BY <1>1, <2>1, <2>2, FlatSingle DEF Text
<1>5. CASE a.ok
  <2>1. /\ 1 \in Nat /\ q + 1 <= Len(s) + 1 /\ q + 1 - 1 = q
        /\ M * 1 = M
        /\ \A i \in q .. q : s[i] # "surrogate"
    BY <1>1, <1>2, <1>5
  <2>2. Rest(raw, s, q, M, W, Then(a, y))
    BY <1>2, <1>3, <1>4, <1>5, <2>1, PartThen
  <2> QED
    BY <1>5, <2>2 DEF a
<1>6. CASE ~a.ok
  <2>1. ~(\A i \in q .. Len(s) : s[i] # "surrogate")
    BY <1>1, <1>2, <1>6
  <2>2. M * (Len(s) + 1 - q) >= M /\ M * (Len(s) - q) \in Nat
    <3>1. Len(s) - q \in Nat /\ Len(s) + 1 - q = (Len(s) - q) + 1
      BY <1>1
    <3>2. M * ((Len(s) - q) + 1) = M * (Len(s) - q) + M * 1 /\ M * (Len(s) - q) \in Nat
      BY <3>1, Distribute
    <3> QED
      BY <3>1, <3>2
  <2>3. Len(a.text) <= M * (Len(s) + 1 - q) /\ a.reach <= M * (Len(s) - q) + W /\ ~(q > Len(s))
    <3>1. Len(a.text) \in Nat /\ a.reach \in Nat /\ M * (Len(s) + 1 - q) \in Int
      BY <1>1, <1>2 DEF Pieces
    <3> QED
      BY <1>1, <1>3, <2>2, <3>1
  <2>4. Rest(raw, s, q, M, W, a)
    BY <1>2, <1>6, <2>1, <2>3 DEF Rest
  <2> QED
    BY <1>6, <2>4 DEF a
<1> QED
  BY <1>5, <1>6

\* Then() looks at the first piece alone when that failed.
LEMMA OneThenRest ==
    ASSUME NEW raw \in BOOLEAN, NEW s \in Seq(Chars), NEW q \in 1 .. Len(s),
           NEW M \in Nat, NEW W \in Nat, M <= W,
           Len(EncodeOne(raw, s[q]).text) <= M, EncodeOne(raw, s[q]).reach <= W,
           NEW y, Rest(raw, s, q + 1, M, W, y)
    PROVE  Rest(raw, s, q, M, W, Then(EncodeOne(raw, s[q]), y))
<1>1. Then(EncodeOne(raw, s[q]), y) = IF EncodeOne(raw, s[q]).ok THEN Then(EncodeOne(raw, s[q]), y)
                                      ELSE EncodeOne(raw, s[q])
  BY DEF Then
<1>2. Rest(raw, s, q, M, W, IF EncodeOne(raw, s[q]).ok THEN Then(EncodeOne(raw, s[q]), y)
                            ELSE EncodeOne(raw, s[q]))
  BY OneThen
<1> QED
  BY <1>1, <1>2, Zenon

\* The characters of a run are written as they are.
LEMMA RunText ==
    ASSUME NEW raw \in BOOLEAN, NEW kind \in Kinds, NEW n \in Nat, NEW c \in Seq(Chars), NEW M \in Nat,
           \A i \in 1 .. Len(c) : InRun(raw, n, c[i]) /\ Size(c[i]) <= M
    PROVE  /\ EncodeRun(kind, n, c) \in Pieces
           /\ EncodeRun(kind, n, c).ok
           /\ EncodeRun(kind, n, c).reach = n * Batch(kind)
           /\ EncodeRun(kind, n, c).text = Text(raw, c)
           /\ Len(EncodeRun(kind, n, c).text) <= M * Len(c)
<1> DEFINE u == FlattenSeq([i \in 1 .. Len(c) |-> Bytes(c[i])])
<1>1. CharBytes \in [Chars -> Seq(TextBytes)] /\ CharTexts(raw) \in [Chars -> Seq(TextBytes)]
  BY TextsTyped
<1>2. \A i \in 1 .. Len(c) : c[i] \in Chars
  OBVIOUS
<1>3. \A i \in 1 .. Len(c) : CharBytes[c[i]] = Bytes(c[i]) /\ CharTexts(raw)[c[i]] = CharBytes[c[i]]
  BY <1>2 DEF CharBytes, CharTexts, InRun
<1>4. u = Flat(CharBytes, c)
  <2>1. [i \in 1 .. Len(c) |-> Bytes(c[i])] = [i \in 1 .. Len(c) |-> CharBytes[c[i]]]
    BY <1>3
  <2> QED
    BY <2>1 DEF Flat
<1>5. Flat(CharTexts(raw), c) = Flat(CharBytes, c)
  BY <1>3, FlatSame
<1>6. u \in Seq(TextBytes)
  <2>1. Flat(CharBytes, c) \in Seq(TextBytes)
    BY <1>1, FlatTyped
  <2> QED
    BY <1>4, <2>1
<1>7. Len(u) <= M * Len(c)
  <2>1. \A i \in 1 .. Len(c) : Len(CharBytes[c[i]]) <= M
    BY <1>2, <1>3, CharFacts
  <2> QED
    BY <1>1, <1>4, <2>1, FlatLength
<1>8. n * Batch(kind) \in Nat
  BY VectorBytesAssumption DEF Batch, Kinds
<1>9. EncodeRun(kind, n, c) = Piece(u, n * Batch(kind), TRUE)
  BY DEF EncodeRun
<1> HIDE DEF u
<1>10. /\ Piece(u, n * Batch(kind), TRUE) \in Pieces
       /\ Piece(u, n * Batch(kind), TRUE).ok
       /\ Piece(u, n * Batch(kind), TRUE).reach = n * Batch(kind)
       /\ Piece(u, n * Batch(kind), TRUE).text = u
  BY <1>6, <1>8 DEF Piece, Pieces
<1> QED
  BY <1>4, <1>5, <1>7, <1>9, <1>10 DEF Text

\* A run from q to r is written as the text of its characters.
LEMMA RunPart ==
    ASSUME NEW raw \in BOOLEAN, NEW kind \in Kinds, NEW n \in Nat, NEW s \in Seq(Chars), NEW M \in Nat,
           NEW q \in 1 .. Len(s) + 1, NEW r \in q - 1 .. Len(s),
           \A i \in q .. r : InRun(raw, n, s[i]) /\ Size(s[i]) <= M
    PROVE  LET a == EncodeRun(kind, n, SubSeq(s, q, r))
           IN  /\ a \in Pieces /\ a.ok /\ a.reach = n * Batch(kind)
               /\ a.text = Text(raw, SubSeq(s, q, r))
               /\ Len(a.text) <= M * (r + 1 - q)
<1> DEFINE c == SubSeq(s, q, r)
<1>1. c \in Seq(Chars) /\ Len(c) = r + 1 - q
  BY SubSeqProperties
<1>2. \A i \in 1 .. Len(c) : InRun(raw, n, c[i]) /\ Size(c[i]) <= M
  <2> SUFFICES ASSUME NEW i \in 1 .. Len(c) PROVE InRun(raw, n, c[i]) /\ Size(c[i]) <= M
    OBVIOUS
  <2>1. c[i] = s[q + i - 1]
    BY <1>1, SubSeqProperties
  <2>2. q + i - 1 \in q .. r
    BY <1>1
  <2> QED
    BY <2>1, <2>2
<1>3. c = SubSeq(s, q, r)
  OBVIOUS
<1> HIDE DEF c
<1>4. /\ EncodeRun(kind, n, c) \in Pieces
      /\ EncodeRun(kind, n, c).ok
      /\ EncodeRun(kind, n, c).reach = n * Batch(kind)
      /\ EncodeRun(kind, n, c).text = Text(raw, c)
      /\ Len(EncodeRun(kind, n, c).text) <= M * Len(c)
  BY <1>1, <1>2, RunText
<1> QED
  BY <1>1, <1>3, <1>4

\* A part of a run, at most a vector, and the rest.
LEMMA RunThen ==
    ASSUME NEW raw \in BOOLEAN, NEW kind \in Kinds, NEW n \in Nat, NEW s \in Seq(Chars),
           NEW q \in 1 .. Len(s), NEW d \in Nat, q + d <= Len(s) + 1,
           NEW M \in Nat, NEW W \in Nat, M <= W, n * Batch(kind) <= W,
           \A i \in q .. q + d - 1 : InRun(raw, n, s[i]) /\ Size(s[i]) <= M,
           NEW y, Rest(raw, s, q + d, M, W, y)
    PROVE  Rest(raw, s, q, M, W, Then(EncodeRun(kind, n, SubSeq(s, q, q + d - 1)), y))
<1> DEFINE r == q + d - 1
           a == EncodeRun(kind, n, SubSeq(s, q, r))
<1>1. r \in q - 1 .. Len(s) /\ q \in 1 .. Len(s) + 1 /\ r + 1 - q = d
  OBVIOUS
<1>2. \A i \in q .. r : InRun(raw, n, s[i]) /\ Size(s[i]) <= M
  OBVIOUS
<1>3. r = q + d - 1
  OBVIOUS
<1> HIDE DEF r
<1>4. /\ a \in Pieces /\ a.ok /\ a.reach = n * Batch(kind)
      /\ a.text = Text(raw, SubSeq(s, q, r))
      /\ Len(a.text) <= M * (r + 1 - q)
  BY <1>1, <1>2, RunPart
<1>5. \A i \in q .. q + d - 1 : s[i] # "surrogate"
  BY DEF InRun
<1>6. a = EncodeRun(kind, n, SubSeq(s, q, q + d - 1))
  BY <1>3
<1> HIDE DEF a
<1>7. a.reach <= W /\ Len(a.text) <= M * d /\ a.text = Text(raw, SubSeq(s, q, q + d - 1))
  BY <1>1, <1>3, <1>4
<1>8. Rest(raw, s, q, M, W, Then(a, y))
  BY <1>4, <1>5, <1>7, PartThen
<1> QED
  BY <1>6, <1>8

\* A run that is the rest.
LEMMA RunRests ==
    ASSUME NEW raw \in BOOLEAN, NEW kind \in Kinds, NEW n \in Nat, NEW s \in Seq(Chars),
           NEW q \in 1 .. Len(s), NEW M \in Nat, NEW W \in Nat, M <= W, n * Batch(kind) <= W,
           \A i \in q .. Len(s) : InRun(raw, n, s[i]) /\ Size(s[i]) <= M
    PROVE  Rest(raw, s, q, M, W, EncodeRun(kind, n, SubSeq(s, q, Len(s))))
<1> DEFINE a == EncodeRun(kind, n, SubSeq(s, q, Len(s)))
<1>1. Len(s) \in q - 1 .. Len(s) /\ q \in 1 .. Len(s) + 1 /\ Len(s) \in Nat
  OBVIOUS
<1>2. /\ a \in Pieces /\ a.ok /\ a.reach = n * Batch(kind)
      /\ a.text = Text(raw, SubSeq(s, q, Len(s)))
      /\ Len(a.text) <= M * (Len(s) + 1 - q)
  BY <1>1, RunPart
<1>3. \A i \in q .. Len(s) : s[i] # "surrogate"
  BY DEF InRun
<1>4. M * (Len(s) - q) \in Nat /\ ~(q > Len(s)) /\ n * Batch(kind) \in Int
  BY <1>1, VectorBytesAssumption DEF Batch, Kinds
<1> HIDE DEF a
<1>5. a.reach <= M * (Len(s) - q) + W
  BY <1>2, <1>4
<1>6. Rest(raw, s, q, M, W, a)
  BY <1>2, <1>3, <1>4, <1>5 DEF Rest
<1> QED
  BY <1>6 DEF a

\* How long a run is.
LEMMA RunLengthIs ==
    ASSUME NEW raw \in BOOLEAN, NEW s, NEW p \in Nat, NEW q \in Nat, p <= q + 1, NEW n
    PROVE  /\ RunLength(raw, s, p, q, n) \in 0 .. q - p + 1
           /\ \A i \in p .. p + RunLength(raw, s, p, q, n) - 1 : InRun(raw, n, s[i])
<1> DEFINE ends == {i \in p .. q : ~InRun(raw, n, s[i])}
<1>1. CASE ends = {}
  <2>1. RunLength(raw, s, p, q, n) = q - p + 1
    BY <1>1 DEF RunLength
  <2> QED
    BY <1>1, <2>1
<1>2. CASE ends # {}
  <2>1. RunLength(raw, s, p, q, n) = Min(ends) - p
    BY <1>2 DEF RunLength
  <2>2. ends \subseteq Nat
    OBVIOUS
  <2>3. Min(ends) \in ends /\ \A m \in ends : Min(ends) <= m
    BY <1>2, <2>2, MinOfNaturals
  <2> DEFINE e == Min(ends)
  <2>4. e \in p .. q /\ \A i \in p .. e - 1 : InRun(raw, n, s[i])
    BY <2>3
  <2>5. RunLength(raw, s, p, q, n) = e - p
    BY <2>1
  <2> HIDE DEF e
  <2>6. p + (e - p) - 1 = e - 1 /\ e - p \in 0 .. q - p + 1
    BY <2>4
  <2> QED
    BY <2>4, <2>5, <2>6
<1> QED
  BY <1>1, <1>2

\* The bounds of a str of one kind hold for its characters and its vectors.
LEMMA Bounds ==
    ASSUME NEW raw \in BOOLEAN, NEW kind \in Kinds
    PROVE  /\ Widest(raw, kind) \in Nat /\ VectorStore(raw, kind) \in Nat
           /\ Widest(raw, kind) <= VectorStore(raw, kind)
           /\ Batch(kind) \in Nat /\ Batch(kind) >= 4
           /\ \A n \in 0 .. 3 : (kind = 1 => n <= 1) => n * Batch(kind) <= VectorStore(raw, kind)
           /\ \A c \in Chars : Size(c) <= MaxUtf8Bytes[kind] =>
                /\ Size(c) <= Widest(raw, kind)
                /\ Len(EncodeOne(raw, c).text) <= Widest(raw, kind)
                /\ EncodeOne(raw, c).reach <= VectorStore(raw, kind)
<1>1. /\ MaxUtf8Bytes[kind] = CASE kind = 1 -> 2 [] kind = 2 -> 3 [] kind = 4 -> 4
      /\ WidestStore[kind] = CASE kind = 1 -> VectorBytes [] kind = 2 -> 3 * Batch(2) [] kind = 4 -> 3 * Batch(4)
  BY DEF MaxUtf8Bytes, WidestStore
<1>2. /\ Batch(1) = VectorBytes /\ Batch(2) = VectorBytes \div 2 /\ Batch(4) = VectorBytes \div 4
      /\ VectorBytes \in {16, 32}
  BY VectorBytesAssumption DEF Batch
<1>3. /\ Batch(1) \in {16, 32} /\ Batch(2) \in {8, 16} /\ Batch(4) \in {4, 8}
      /\ Batch(1) = 2 * Batch(2) /\ Batch(2) = 2 * Batch(4)
  BY <1>2
<1>4. kind \in {1, 2, 4}
  BY DEF Kinds
<1>5. Widest(raw, kind) = IF raw THEN MaxUtf8Bytes[kind] ELSE 6
  BY DEF Widest, MaxJsonBytes
<1>6. VectorStore(raw, kind) = IF raw THEN WidestStore[kind] ELSE 3 * Batch(2)
  BY DEF VectorStore
<1>7. \A n \in 0 .. 3 : (kind = 1 => n <= 1) => n * Batch(kind) <= VectorStore(raw, kind)
  <2> SUFFICES ASSUME NEW n \in 0 .. 3, kind = 1 => n <= 1 PROVE n * Batch(kind) <= VectorStore(raw, kind)
    OBVIOUS
  <2>1. n \in {0, 1, 2, 3}
    OBVIOUS
  <2> QED
    BY <1>1, <1>2, <1>3, <1>4, <1>6, <2>1
<1>8. /\ Widest(raw, kind) \in Nat /\ VectorStore(raw, kind) \in Nat
      /\ Widest(raw, kind) <= VectorStore(raw, kind)
      /\ Batch(kind) \in Nat /\ Batch(kind) >= 4
      /\ ~raw => Widest(raw, kind) = 6 /\ VectorStore(raw, kind) >= 8
      /\ raw => Widest(raw, kind) = MaxUtf8Bytes[kind]
      /\ MaxUtf8Bytes[kind] \in 2 .. 4
      /\ MaxUtf8Bytes[kind] <= Widest(raw, kind)
  BY <1>1, <1>2, <1>3, <1>4, <1>5, <1>6
<1>9. ASSUME NEW c \in Chars, Size(c) <= MaxUtf8Bytes[kind]
      PROVE  /\ Size(c) <= Widest(raw, kind)
             /\ Len(EncodeOne(raw, c).text) <= Widest(raw, kind)
             /\ EncodeOne(raw, c).reach <= VectorStore(raw, kind)
  <2>1. Size(c) \in 1 .. 4 /\ (IsEscaped(raw, c) => Escape[c] \in {2, 6} /\ ~raw)
    BY CharFacts DEF IsEscaped
  <2>2. /\ EncodeOne(raw, c).reach = IF IsEscaped(raw, c) THEN 8 ELSE Size(c)
        /\ Len(EncodeOne(raw, c).text) = IF IsEscaped(raw, c) THEN Escape[c] ELSE Size(c)
    BY OneTyped
  <2> QED
    BY <1>8, <1>9, <2>1, <2>2
<1> QED
  BY <1>7, <1>8, <1>9

-----------------------------------------------------------------------------
\* encode_bytes_ucs*_scalar writes the str.
ScalarBy(f, raw, s) ==
    f = [p \in 1 .. Len(s) + 1 |-> IF p > Len(s) THEN Nothing ELSE Then(EncodeOne(raw, s[p]), f[p + 1])]

\* The recursion of the scalar loop has a solution.
LEMMA ScalarDefined ==
    ASSUME NEW raw \in BOOLEAN, NEW s \in Seq(Chars)
    PROVE  \E f : ScalarBy(f, raw, s)
<1> DEFINE S == 1 .. Len(s) + 1
           rank == [p \in S |-> Len(s) + 1 - p]
           step == [x \in [S -> Pieces] \X S |->
                       IF x[2] > Len(s) THEN Nothing ELSE Then(EncodeOne(raw, s[x[2]]), x[1][x[2] + 1])]
<1>1. Nothing \in Pieces /\ Len(s) \in Nat
  BY EmptySeq DEF Nothing, Piece, Pieces
<1>2. ASSUME NEW f \in [S -> Pieces], NEW p \in S
      PROVE  /\ step[<<f, p>>] = IF p > Len(s) THEN Nothing ELSE Then(EncodeOne(raw, s[p]), f[p + 1])
             /\ step[<<f, p>>] \in Pieces
             /\ p <= Len(s) => p + 1 \in S
  <2>1. p <= Len(s) => s[p] \in Chars /\ p + 1 \in S
    BY <1>1
  <2>2. p <= Len(s) => EncodeOne(raw, s[p]) \in Pieces /\ f[p + 1] \in Pieces
    BY <2>1, OneTyped
  <2>3. step[<<f, p>>] = IF p > Len(s) THEN Nothing ELSE Then(EncodeOne(raw, s[p]), f[p + 1])
    OBVIOUS
  <2>4. p <= Len(s) => Then(EncodeOne(raw, s[p]), f[p + 1]) \in Pieces
    BY <2>2, ThenTyped
  <2> HIDE DEF step
  <2>5. p <= Len(s) \/ p > Len(s)
    BY <1>1
  <2> QED
    BY <1>1, <2>1, <2>3, <2>4, <2>5
<1>3. Decreases(S, Pieces, rank, step)
  <2>1. rank \in [S -> Nat] /\ Pieces # {}
    BY <1>1
  <2>2. step \in [[S -> Pieces] \X S -> Pieces]
    <3>1. \A x \in [S -> Pieces] \X S : x = <<x[1], x[2]>> /\ x[1] \in [S -> Pieces] /\ x[2] \in S
      OBVIOUS
    <3>2. step = [x \in [S -> Pieces] \X S |-> step[x]]
      OBVIOUS
    <3> HIDE DEF step, S
    <3>3. \A x \in [S -> Pieces] \X S : step[x] \in Pieces
      BY <1>2, <3>1
    <3> QED
      BY <3>2, <3>3
  <2>3. ASSUME NEW p \in S, NEW g \in [S -> Pieces], NEW h \in [S -> Pieces], Agree(S, rank, rank[p], g, h)
        PROVE  step[<<g, p>>] = step[<<h, p>>]
    <3>1. p <= Len(s) => rank[p + 1] < rank[p] /\ p + 1 \in S
      BY <1>1
    <3>2. p <= Len(s) => g[p + 1] = h[p + 1]
      BY <2>3, <3>1 DEF Agree
    <3> HIDE DEF step
    <3> QED
      BY <1>1, <1>2, <3>2
  <2> HIDE DEF S, rank, step
  <2> QED
    BY <2>1, <2>2, <2>3, Zenon DEF Decreases
<1> HIDE DEF rank, step
<1>4. PICK f : Solves(S, Pieces, step, f)
  BY <1>3, Recursion
<1>5. ScalarBy(f, raw, s)
  BY <1>2, <1>4 DEF Solves, ScalarBy
<1> QED
  BY <1>5

\* The scalar loop writes the str (encode_bytes_ucs*_scalar).
LEMMA ScalarRests ==
    ASSUME NEW raw \in BOOLEAN, NEW s \in Seq(Chars), NEW M \in Nat, NEW W \in Nat, M <= W,
           \A i \in 1 .. Len(s) : Len(EncodeOne(raw, s[i]).text) <= M /\ EncodeOne(raw, s[i]).reach <= W
    PROVE  Rest(raw, s, 1, M, W, EncodeScalar(raw, s))
<1> DEFINE c == CHOOSE f : ScalarBy(f, raw, s)
           S == 1 .. Len(s) + 1
           rank == [p \in S |-> Len(s) + 1 - p]
           G == {p \in S : Rest(raw, s, p, M, W, c[p])}
<1>1. EncodeScalar(raw, s) = c[1]
  BY DEF EncodeScalar, ScalarBy
<1>2. ScalarBy(c, raw, s)
  BY ScalarDefined
<1> HIDE DEF c
<1>3. \A p \in S : c[p] = IF p > Len(s) THEN Nothing ELSE Then(EncodeOne(raw, s[p]), c[p + 1])
  BY <1>2, Zenon DEF ScalarBy
<1>4. rank \in [S -> Nat] /\ Len(s) \in Nat
  OBVIOUS
<1>5. ASSUME NEW p \in S, \A y \in S : rank[y] < rank[p] => y \in G PROVE p \in G
  <2>1. CASE p > Len(s)
    <3>1. p = Len(s) + 1 /\ c[p] = Nothing
      BY <1>3, <2>1
    <3>2. Rest(raw, s, Len(s) + 1, M, W, Nothing)
      BY NothingRests
    <3> QED
      BY <3>1, <3>2
  <2>2. CASE ~(p > Len(s))
    <3>1. p + 1 \in S /\ rank[p + 1] < rank[p] /\ p \in 1 .. Len(s)
      BY <1>4, <2>2
    <3>2. Rest(raw, s, p + 1, M, W, c[p + 1])
      BY <1>5, <3>1
    <3>3. c[p] = Then(EncodeOne(raw, s[p]), c[p + 1])
      BY <1>3, <2>2
    <3>4. Rest(raw, s, p, M, W, Then(EncodeOne(raw, s[p]), c[p + 1]))
      BY <3>1, <3>2, OneThenRest
    <3> QED
      BY <3>3, <3>4
  <2> QED
    BY <2>1, <2>2
<1>6. 1 \in S
  BY <1>4
<1> HIDE DEF G, S, rank
<1>7. \A p \in S : p \in G
  BY <1>4, <1>5, RankInduction
<1> QED
  BY <1>1, <1>6, <1>7 DEF G

-----------------------------------------------------------------------------
\* bytes_write_ucs*_trailing writes the rest of the str.

\* What it writes at q, f behind it.
TrailingAt(kind, raw, s, f, q) ==
    LET n == TrailingFor(kind, raw, s[q])
        d == RunLength(raw, s, q, Len(s), n)
        run == EncodeRun(kind, n, SubSeq(s, q, q + d - 1))
    IN  IF q > Len(s) THEN Nothing
        ELSE IF n = 0 \/ (kind # 1 /\ q = Len(s))
        THEN Then(EncodeOne(raw, s[q]), f[q + 1])
        ELSE IF q + d > Len(s) THEN run
        ELSE Then(run, Then(EncodeOne(raw, s[q + d]), f[q + d + 1]))

TrailingBy(f, kind, raw, s, p) ==
    f = [q \in p .. Len(s) + 1 |->
            LET n == TrailingFor(kind, raw, s[q])
                d == RunLength(raw, s, q, Len(s), n)
                run == EncodeRun(kind, n, SubSeq(s, q, q + d - 1))
            IN  IF q > Len(s) THEN Nothing
                ELSE IF n = 0 \/ (kind # 1 /\ q = Len(s))
                THEN Then(EncodeOne(raw, s[q]), f[q + 1])
                ELSE IF q + d > Len(s) THEN run
                ELSE Then(run, Then(EncodeOne(raw, s[q + d]), f[q + d + 1]))]

\* The equation of the trailing loop, one step a name of its own.
LEMMA TrailingIs ==
    ASSUME NEW f, NEW kind, NEW raw, NEW s, NEW p
    PROVE  TrailingBy(f, kind, raw, s, p) <=> f = [q \in p .. Len(s) + 1 |-> TrailingAt(kind, raw, s, f, q)]
  BY Zenon DEF TrailingBy, TrailingAt

\* The bytes of the characters of a trailing run are few.
LEMMA TrailingBytes ==
    ASSUME NEW raw \in BOOLEAN, NEW kind \in Kinds, NEW c \in Chars
    PROVE  /\ TrailingFor(kind, raw, c) \in 0 .. 3
           /\ kind = 1 => TrailingFor(kind, raw, c) = 1
<1>1. Size(c) \in 1 .. 4
  BY CharFacts
<1> QED
  BY <1>1 DEF TrailingFor

\* The run that begins at q ends at r or where a character is not of it.
LEMMA RunPiece ==
    ASSUME NEW raw \in BOOLEAN, NEW kind \in Kinds, NEW n \in Nat, NEW s \in Seq(Chars),
           NEW q \in 1 .. Len(s), NEW r \in q - 1 .. Len(s)
    PROVE  LET d == RunLength(raw, s, q, r, n)
           IN  /\ d \in 0 .. r + 1 - q
               /\ q + d - 1 \in q - 1 .. Len(s)
               /\ \A i \in q .. q + d - 1 : InRun(raw, n, s[i])
               /\ EncodeRun(kind, n, SubSeq(s, q, q + d - 1)) \in Pieces
               /\ EncodeRun(kind, n, SubSeq(s, q, q + d - 1)).ok
<1> DEFINE d == RunLength(raw, s, q, r, n)
           e == q + d - 1
<1>1. d \in 0 .. r + 1 - q /\ \A i \in q .. e : InRun(raw, n, s[i])
  BY RunLengthIs
<1>2. e \in q - 1 .. Len(s) /\ q \in 1 .. Len(s) + 1 /\ 4 \in Nat /\ e = q + d - 1
  BY <1>1
<1> HIDE DEF d, e
<1>3. \A i \in q .. e : InRun(raw, n, s[i]) /\ Size(s[i]) <= 4
  <2> SUFFICES ASSUME NEW i \in q .. e PROVE InRun(raw, n, s[i]) /\ Size(s[i]) <= 4
    OBVIOUS
  <2>1. s[i] \in Chars
    BY <1>2
  <2>2. Size(s[i]) \in 1 .. 4
    BY <2>1, CharFacts
  <2> QED
    BY <1>1, <2>2
<1>4. EncodeRun(kind, n, SubSeq(s, q, e)) \in Pieces /\ EncodeRun(kind, n, SubSeq(s, q, e)).ok
  BY <1>2, <1>3, RunPart
<1> QED
  BY <1>1, <1>2, <1>4 DEF d, e

\* What is written at q is a piece, and depends on what comes behind q.
LEMMA TrailingStep ==
    ASSUME NEW raw \in BOOLEAN, NEW kind \in Kinds, NEW s \in Seq(Chars), NEW p \in 1 .. Len(s) + 1,
           NEW q \in p .. Len(s) + 1, NEW f \in [p .. Len(s) + 1 -> Pieces]
    PROVE  /\ TrailingAt(kind, raw, s, f, q) \in Pieces
           /\ \A g \in [p .. Len(s) + 1 -> Pieces] :
                (\A r \in q + 1 .. Len(s) + 1 : f[r] = g[r])
                => TrailingAt(kind, raw, s, f, q) = TrailingAt(kind, raw, s, g, q)
<1>1. CASE q > Len(s)
  <2>1. \A g : TrailingAt(kind, raw, s, g, q) = Nothing
    BY <1>1 DEF TrailingAt
  <2>2. Nothing \in Pieces
    BY EmptySeq DEF Nothing, Piece, Pieces
  <2> QED
    BY <2>1, <2>2
<1>2. CASE q <= Len(s)
  <2> DEFINE n == TrailingFor(kind, raw, s[q])
             d == RunLength(raw, s, q, Len(s), n)
             run == EncodeRun(kind, n, SubSeq(s, q, q + d - 1))
             end == n = 0 \/ (kind # 1 /\ q = Len(s))
  <2>1. q \in 1 .. Len(s) /\ Len(s) \in q - 1 .. Len(s) /\ s[q] \in Chars /\ Len(s) \in Nat
    BY <1>2
  <2>2. n \in Nat
    BY <2>1, TrailingBytes
  <2>3. \A g : TrailingAt(kind, raw, s, g, q) =
                  IF end THEN Then(EncodeOne(raw, s[q]), g[q + 1])
                  ELSE IF q + d > Len(s) THEN run
                  ELSE Then(run, Then(EncodeOne(raw, s[q + d]), g[q + d + 1]))
    BY <1>2, <2>1 DEF TrailingAt
  <2>4. d \in 0 .. Len(s) + 1 - q /\ run \in Pieces
    <3> HIDE DEF n
    <3> QED
      BY <2>1, <2>2, RunPiece
  <2> HIDE DEF n, d, run, end
  <2>5. q + 1 \in q + 1 .. Len(s) + 1 /\ q + 1 \in p .. Len(s) + 1
    BY <2>1
  <2>6. ~(q + d > Len(s)) => /\ q + d \in 1 .. Len(s) /\ q + d + 1 \in q + 1 .. Len(s) + 1
                             /\ q + d + 1 \in p .. Len(s) + 1
    BY <2>1, <2>4
  <2>7. Then(EncodeOne(raw, s[q]), f[q + 1]) \in Pieces
    <3>1. EncodeOne(raw, s[q]) \in Pieces /\ f[q + 1] \in Pieces
      BY <2>1, <2>5, OneTyped
    <3> QED
      BY <3>1, ThenTyped
  <2>8. ~(q + d > Len(s)) => Then(run, Then(EncodeOne(raw, s[q + d]), f[q + d + 1])) \in Pieces
    <3> SUFFICES ASSUME ~(q + d > Len(s))
                 PROVE  Then(run, Then(EncodeOne(raw, s[q + d]), f[q + d + 1])) \in Pieces
      OBVIOUS
    <3>1. s[q + d] \in Chars /\ f[q + d + 1] \in Pieces
      BY <2>6
    <3>2. EncodeOne(raw, s[q + d]) \in Pieces
      BY <3>1, OneTyped
    <3>3. Then(EncodeOne(raw, s[q + d]), f[q + d + 1]) \in Pieces
      BY <3>1, <3>2, ThenTyped
    <3> QED
      BY <2>4, <3>3, ThenTyped
  <2>9. TrailingAt(kind, raw, s, f, q) \in Pieces
    BY <2>3, <2>4, <2>7, <2>8
  <2>10. ASSUME NEW g \in [p .. Len(s) + 1 -> Pieces], \A r \in q + 1 .. Len(s) + 1 : f[r] = g[r]
         PROVE  TrailingAt(kind, raw, s, f, q) = TrailingAt(kind, raw, s, g, q)
    <3>1. f[q + 1] = g[q + 1] /\ (~(q + d > Len(s)) => f[q + d + 1] = g[q + d + 1])
      BY <2>5, <2>6, <2>10
    <3>2. TrailingAt(kind, raw, s, f, q) =
                  IF end THEN Then(EncodeOne(raw, s[q]), f[q + 1])
                  ELSE IF q + d > Len(s) THEN run
                  ELSE Then(run, Then(EncodeOne(raw, s[q + d]), f[q + d + 1]))
      BY <2>3
    <3>3. TrailingAt(kind, raw, s, g, q) =
                  IF end THEN Then(EncodeOne(raw, s[q]), g[q + 1])
                  ELSE IF q + d > Len(s) THEN run
                  ELSE Then(run, Then(EncodeOne(raw, s[q + d]), g[q + d + 1]))
      BY <2>3
    <3> QED
      BY <3>1, <3>2, <3>3
  <2> QED
    BY <2>9, <2>10
<1>3. q <= Len(s) \/ q > Len(s)
  OBVIOUS
<1> QED
  BY <1>1, <1>2, <1>3

\* The recursion of the trailing loop has a solution.
LEMMA TrailingDefined ==
    ASSUME NEW raw \in BOOLEAN, NEW kind \in Kinds, NEW s \in Seq(Chars), NEW p \in 1 .. Len(s) + 1
    PROVE  \E f : TrailingBy(f, kind, raw, s, p)
<1> DEFINE S == p .. Len(s) + 1
           rank == [q \in S |-> Len(s) + 1 - q]
           step == [x \in [S -> Pieces] \X S |-> TrailingAt(kind, raw, s, x[1], x[2])]
<1>1. rank \in [S -> Nat] /\ Pieces # {}
  <2>1. Nothing \in Pieces
    BY EmptySeq DEF Nothing, Piece, Pieces
  <2> QED
    BY <2>1
<1>2. ASSUME NEW f \in [S -> Pieces], NEW q \in S PROVE step[<<f, q>>] = TrailingAt(kind, raw, s, f, q)
  OBVIOUS
<1>3. step \in [[S -> Pieces] \X S -> Pieces]
  <2>1. ASSUME NEW x \in [S -> Pieces] \X S PROVE TrailingAt(kind, raw, s, x[1], x[2]) \in Pieces
    <3>1. x[1] \in [S -> Pieces] /\ x[2] \in S
      OBVIOUS
    <3> QED
      BY <3>1, TrailingStep
  <2> HIDE DEF S
  <2> QED
    BY <2>1
<1>4. ASSUME NEW q \in S, NEW g \in [S -> Pieces], NEW h \in [S -> Pieces], Agree(S, rank, rank[q], g, h)
      PROVE  step[<<g, q>>] = step[<<h, q>>]
  <2>1. ASSUME NEW r \in q + 1 .. Len(s) + 1 PROVE g[r] = h[r]
    <3>1. r \in S /\ rank[r] < rank[q]
      OBVIOUS
    <3> QED
      BY <1>4, <3>1 DEF Agree
  <2>2. TrailingAt(kind, raw, s, g, q) = TrailingAt(kind, raw, s, h, q)
    BY <2>1, TrailingStep
  <2> HIDE DEF step
  <2> QED
    BY <1>2, <2>2
<1> HIDE DEF rank, step
<1>5. Decreases(S, Pieces, rank, step)
  <2> HIDE DEF S
  <2> QED
    BY <1>1, <1>3, <1>4, Zenon DEF Decreases
<1>6. PICK f : Solves(S, Pieces, step, f)
  BY <1>5, Recursion
<1>7. f = [q \in S |-> TrailingAt(kind, raw, s, f, q)]
  BY <1>2, <1>6 DEF Solves
<1>8. TrailingBy(f, kind, raw, s, p)
  BY <1>7, TrailingIs
<1> QED
  BY <1>8

\* What can be said of the characters of a str of one kind.
Bounded(raw, kind, s, M, W) ==
    /\ M \in Nat /\ W \in Nat /\ M <= W
    /\ \A n \in 0 .. 3 : (kind = 1 => n <= 1) => n * Batch(kind) <= W
    /\ \A i \in 1 .. Len(s) : /\ s[i] \in Chars
                              /\ Size(s[i]) <= M
                              /\ Len(EncodeOne(raw, s[i]).text) <= M
                              /\ EncodeOne(raw, s[i]).reach <= W

\* The characters of a str of its kind are as short as the kind allows.
LEMMA BoundedByKind ==
    ASSUME NEW raw \in BOOLEAN, NEW kind \in Kinds, NEW s \in Seq(Chars), OfItsKind(kind, s)
    PROVE  Bounded(raw, kind, s, Widest(raw, kind), VectorStore(raw, kind))
<1>1. \A i \in 1 .. Len(s) : s[i] \in Chars /\ Size(s[i]) <= MaxUtf8Bytes[kind]
  BY DEF OfItsKind
<1> QED
  BY <1>1, Bounds DEF Bounded

\* A part of a run and the character that ends it.
LEMMA RunOneThen ==
    ASSUME NEW raw \in BOOLEAN, NEW kind \in Kinds, NEW s \in Seq(Chars), NEW M, NEW W,
           Bounded(raw, kind, s, M, W), NEW n \in 0 .. 3, kind = 1 => n <= 1,
           NEW q \in 1 .. Len(s), NEW d \in Nat, q + d <= Len(s),
           \A i \in q .. q + d - 1 : InRun(raw, n, s[i]),
           NEW y, Rest(raw, s, q + d + 1, M, W, y)
    PROVE  Rest(raw, s, q, M, W, Then(EncodeRun(kind, n, SubSeq(s, q, q + d - 1)),
                                      Then(EncodeOne(raw, s[q + d]), y)))
<1> DEFINE z == Then(EncodeOne(raw, s[q + d]), y)
           e == q + d
<1>1. /\ M \in Nat /\ W \in Nat /\ M <= W /\ n * Batch(kind) <= W /\ n \in Nat
      /\ e \in 1 .. Len(s) /\ e + 1 = q + d + 1 /\ e = q + d /\ e <= Len(s) + 1 /\ Len(s) \in Nat
      /\ Len(EncodeOne(raw, s[e]).text) <= M /\ EncodeOne(raw, s[e]).reach <= W
  BY DEF Bounded
<1>2. \A i \in q .. q + d - 1 : InRun(raw, n, s[i]) /\ Size(s[i]) <= M
  <2> SUFFICES ASSUME NEW i \in q .. q + d - 1 PROVE InRun(raw, n, s[i]) /\ Size(s[i]) <= M
    OBVIOUS
  <2>1. i \in 1 .. Len(s)
    BY <1>1
  <2> QED
    BY <2>1 DEF Bounded
<1> HIDE DEF e
<1>3. Rest(raw, s, e, M, W, Then(EncodeOne(raw, s[e]), y))
  BY <1>1, OneThenRest
<1>4. Rest(raw, s, q + d, M, W, z)
  BY <1>1, <1>3
<1> HIDE DEF z
<1>5. Rest(raw, s, q, M, W, Then(EncodeRun(kind, n, SubSeq(s, q, q + d - 1)), z))
  BY <1>1, <1>2, <1>4, RunThen
<1> QED
  BY <1>5 DEF z

\* The trailing loop writes the str from p on (bytes_write_ucs*_trailing).
LEMMA TrailingRests ==
    ASSUME NEW raw \in BOOLEAN, NEW kind \in Kinds, NEW s \in Seq(Chars), NEW M, NEW W,
           Bounded(raw, kind, s, M, W), NEW p \in 1 .. Len(s) + 1
    PROVE  Rest(raw, s, p, M, W, EncodeTrailing(kind, raw, s, p))
<1> DEFINE c == CHOOSE f : TrailingBy(f, kind, raw, s, p)
           S == p .. Len(s) + 1
           rank == [q \in S |-> Len(s) + 1 - q]
           G == {q \in S : Rest(raw, s, q, M, W, c[q])}
<1>1. EncodeTrailing(kind, raw, s, p) = c[p]
  BY Zenon DEF EncodeTrailing, TrailingBy
<1>2. TrailingBy(c, kind, raw, s, p)
  BY TrailingDefined
<1> HIDE DEF c
<1>3. \A q \in S : c[q] = TrailingAt(kind, raw, s, c, q)
  <2>1. c = [q \in S |-> TrailingAt(kind, raw, s, c, q)]
    BY <1>2, TrailingIs
  <2> QED
    BY <2>1, Zenon
<1>4. rank \in [S -> Nat] /\ Len(s) \in Nat
  OBVIOUS
<1>5. M \in Nat /\ W \in Nat /\ M <= W
  BY DEF Bounded
<1>6. ASSUME NEW q \in S, \A y \in S : rank[y] < rank[q] => y \in G PROVE q \in G
  <2>1. \A r \in q + 1 .. Len(s) + 1 : Rest(raw, s, r, M, W, c[r])
    <3> SUFFICES ASSUME NEW r \in q + 1 .. Len(s) + 1 PROVE Rest(raw, s, r, M, W, c[r])
      OBVIOUS
    <3>1. r \in S /\ rank[r] < rank[q]
      OBVIOUS
    <3> QED
      BY <1>6, <3>1
  <2> HIDE DEF rank
  <2>2. CASE q > Len(s)
    <3>1. q = Len(s) + 1 /\ c[q] = Nothing
      BY <1>3, <2>2 DEF TrailingAt
    <3>2. Rest(raw, s, Len(s) + 1, M, W, Nothing)
      BY <1>5, NothingRests
    <3> QED
      BY <3>1, <3>2
  <2>3. CASE ~(q > Len(s))
    <3> DEFINE n == TrailingFor(kind, raw, s[q])
               d == RunLength(raw, s, q, Len(s), n)
               run == EncodeRun(kind, n, SubSeq(s, q, q + d - 1))
               end == n = 0 \/ (kind # 1 /\ q = Len(s))
    <3>1. q \in 1 .. Len(s) /\ Len(s) \in q - 1 .. Len(s) /\ s[q] \in Chars
      BY <1>4, <2>3
    <3>2. n \in 0 .. 3 /\ (kind = 1 => n <= 1)
      BY <3>1, TrailingBytes
    <3>3. c[q] = IF end THEN Then(EncodeOne(raw, s[q]), c[q + 1])
                 ELSE IF q + d > Len(s) THEN run
                 ELSE Then(run, Then(EncodeOne(raw, s[q + d]), c[q + d + 1]))
      BY <1>3, <2>3 DEF TrailingAt
    <3>4. d \in 0 .. Len(s) + 1 - q /\ \A i \in q .. q + d - 1 : InRun(raw, n, s[i])
      <4> HIDE DEF n
      <4>1. n \in Nat
        BY <3>2
      <4> QED
        BY <3>1, <4>1, RunPiece
    <3>5. run = EncodeRun(kind, n, SubSeq(s, q, q + d - 1))
      OBVIOUS
    <3> HIDE DEF n, d, run, end
    <3>6. CASE end
      <4>1. Rest(raw, s, q + 1, M, W, c[q + 1])
        BY <2>1, <3>1
      <4>2. Len(EncodeOne(raw, s[q]).text) <= M /\ EncodeOne(raw, s[q]).reach <= W
        BY <3>1 DEF Bounded
      <4>3. Rest(raw, s, q, M, W, Then(EncodeOne(raw, s[q]), c[q + 1]))
        BY <1>5, <3>1, <4>1, <4>2, OneThenRest
      <4> QED
        BY <3>3, <3>6, <4>3
    <3>7. CASE ~end /\ q + d > Len(s)
      <4>1. q + d - 1 = Len(s) /\ c[q] = EncodeRun(kind, n, SubSeq(s, q, Len(s)))
        <5>1. q + d - 1 = Len(s)
          <6>1. d \in 0 .. Len(s) + 1 - q /\ q + d > Len(s) /\ q \in Nat /\ Len(s) \in Nat
            BY <1>4, <3>1, <3>4, <3>7
          <6> HIDE DEF S, G
          <6> QED
            BY <6>1
        <5>2. c[q] = run
          BY <3>3, <3>7, Zenon
        <5> QED
          BY <3>5, <5>1, <5>2, Zenon
      <4>2. \A i \in q .. Len(s) : InRun(raw, n, s[i]) /\ Size(s[i]) <= M
        BY <3>1, <3>4, <4>1 DEF Bounded
      <4>3. n \in Nat /\ n * Batch(kind) <= W
        BY <3>2 DEF Bounded
      <4>4. Rest(raw, s, q, M, W, EncodeRun(kind, n, SubSeq(s, q, Len(s))))
        BY <1>5, <3>1, <4>2, <4>3, RunRests
      <4> QED
        BY <4>1, <4>4
    <3>8. CASE ~end /\ ~(q + d > Len(s))
      <4>1. /\ c[q] = Then(EncodeRun(kind, n, SubSeq(s, q, q + d - 1)), Then(EncodeOne(raw, s[q + d]), c[q + d + 1]))
            /\ q + d + 1 \in q + 1 .. Len(s) + 1 /\ q + d <= Len(s) /\ d \in Nat
        BY <1>4, <3>1, <3>3, <3>4, <3>5, <3>8
      <4>2. Rest(raw, s, q + d + 1, M, W, c[q + d + 1])
        BY <2>1, <4>1
      <4>3. Rest(raw, s, q, M, W, Then(EncodeRun(kind, n, SubSeq(s, q, q + d - 1)),
                                       Then(EncodeOne(raw, s[q + d]), c[q + d + 1])))
        BY <3>1, <3>2, <3>4, <4>1, <4>2, RunOneThen
      <4> QED
        BY <4>1, <4>3
    <3> QED
      BY <3>6, <3>7, <3>8
  <2> QED
    BY <2>2, <2>3
<1>7. p \in S
  BY <1>4
<1> HIDE DEF G, S, rank
<1>8. \A q \in S : q \in G
  BY <1>4, <1>6, RankInduction
<1> QED
  BY <1>1, <1>7, <1>8 DEF G

-----------------------------------------------------------------------------
\* bytes_write_ucs1, 2 and 4 write the str.

\* What they write at q in the loop n, f behind it.
VectorsAt(kind, raw, s, f, q, n) ==
    LET last == q + Batch(kind) - 1
        d == RunLength(raw, s, q, last, n)
        run == EncodeRun(kind, n, SubSeq(s, q, q + d - 1))
    IN  IF last > Len(s) THEN EncodeTrailing(kind, raw, s, q)
        ELSE IF n = 0
        THEN LET loop == LoopFor(kind, raw, s[q])
             IN  IF loop = 0 THEN Then(EncodeOne(raw, s[q]), f[<<q + 1, 0>>])
                 ELSE f[<<q, loop>>]
        ELSE IF d = Batch(kind) THEN Then(run, f[<<q + d, n>>])
        ELSE Then(run, Then(EncodeOne(raw, s[q + d]), f[<<q + d + 1, 0>>]))

VectorsBy(f, kind, raw, s) ==
    f = [x \in (1 .. Len(s) + 1) \X (0 .. 3) |->
            LET q == x[1]
                n == x[2]
                last == q + Batch(kind) - 1
                d == RunLength(raw, s, q, last, n)
                run == EncodeRun(kind, n, SubSeq(s, q, q + d - 1))
            IN  IF last > Len(s) THEN EncodeTrailing(kind, raw, s, q)
                ELSE IF n = 0
                THEN LET loop == LoopFor(kind, raw, s[q])
                     IN  IF loop = 0 THEN Then(EncodeOne(raw, s[q]), f[<<q + 1, 0>>])
                         ELSE f[<<q, loop>>]
                ELSE IF d = Batch(kind) THEN Then(run, f[<<q + d, n>>])
                ELSE Then(run, Then(EncodeOne(raw, s[q + d]), f[<<q + d + 1, 0>>]))]

\* The equation of the loops over vectors, one step a name of its own.
LEMMA VectorsIs ==
    ASSUME NEW f, NEW kind, NEW raw, NEW s
    PROVE  VectorsBy(f, kind, raw, s)
             <=> f = [x \in (1 .. Len(s) + 1) \X (0 .. 3) |-> VectorsAt(kind, raw, s, f, x[1], x[2])]
  BY Zenon DEF VectorsBy, VectorsAt

\* What they write is the solution of the equation at the first character.
LEMMA VectorsChosen ==
    ASSUME NEW kind, NEW raw, NEW s
    PROVE  EncodeVectors(kind, raw, s) = (CHOOSE f : VectorsBy(f, kind, raw, s))[<<1, 0>>]
  BY Zenon DEF EncodeVectors, VectorsBy

\* The bytes of the characters of a loop are few.
LEMMA LoopBytes ==
    ASSUME NEW raw \in BOOLEAN, NEW kind \in Kinds, NEW c \in Chars, Size(c) <= MaxUtf8Bytes[kind]
    PROVE  /\ LoopFor(kind, raw, c) \in 0 .. 3
           /\ kind = 1 => LoopFor(kind, raw, c) <= 1
<1>1. Size(c) \in 1 .. 4 /\ MaxUtf8Bytes[kind] = CASE kind = 1 -> 2 [] kind = 2 -> 3 [] kind = 4 -> 4
  BY CharFacts DEF MaxUtf8Bytes
<1> QED
  BY <1>1 DEF LoopFor, Kinds

\* Where a step goes from q in the loop n: further, or into a loop.
Behind(s, q, n) == {x \in (1 .. Len(s) + 1) \X (0 .. 3) : x[1] > q \/ (x[1] = q /\ n = 0 /\ x[2] # 0)}

\* The five things that can happen at q in the loop n: the rest is less than a
\* vector; a character is written alone; it chooses a loop; a whole vector is of the
\* run; a part of one is, and the character that ends it.
AtTrailing(kind, raw, s, q, n) ==
    /\ q + Batch(kind) - 1 > Len(s)
    /\ \A f : VectorsAt(kind, raw, s, f, q, n) = EncodeTrailing(kind, raw, s, q)

AtOne(kind, raw, s, q, n) ==
    /\ q \in 1 .. Len(s) /\ n = 0
    /\ <<q + 1, 0>> \in Behind(s, q, n)
    /\ \A f : VectorsAt(kind, raw, s, f, q, n) = Then(EncodeOne(raw, s[q]), f[<<q + 1, 0>>])

AtLoop(kind, raw, s, q, n, loop) ==
    /\ q \in 1 .. Len(s) /\ n = 0
    /\ loop \in 0 .. 3 /\ (kind = 1 => loop <= 1) /\ <<q, loop>> \in Behind(s, q, n)
    /\ \A f : VectorsAt(kind, raw, s, f, q, n) = f[<<q, loop>>]

\* d characters of a run are written.
AtRun(kind, raw, s, q, n, d, run) ==
    /\ q \in 1 .. Len(s) /\ d \in Nat /\ run \in Pieces /\ run.ok
    /\ run = EncodeRun(kind, n, SubSeq(s, q, q + d - 1))
    /\ \A i \in q .. q + d - 1 : InRun(raw, n, s[i])

AtWhole(kind, raw, s, q, n, d, run) ==
    /\ AtRun(kind, raw, s, q, n, d, run)
    /\ q + d <= Len(s) + 1
    /\ <<q + d, n>> \in Behind(s, q, n)
    /\ \A f : VectorsAt(kind, raw, s, f, q, n) = Then(run, f[<<q + d, n>>])

AtPart(kind, raw, s, q, n, d, run) ==
    /\ AtRun(kind, raw, s, q, n, d, run)
    /\ q + d <= Len(s)
    /\ <<q + d + 1, 0>> \in Behind(s, q, n)
    /\ \A f : VectorsAt(kind, raw, s, f, q, n) =
                Then(run, Then(EncodeOne(raw, s[q + d]), f[<<q + d + 1, 0>>]))

\* One of them does.
LEMMA VectorsCases ==
    ASSUME NEW raw \in BOOLEAN, NEW kind \in Kinds, NEW s \in Seq(Chars), OfItsKind(kind, s),
           NEW q \in 1 .. Len(s) + 1, NEW n \in 0 .. 3
    PROVE  \/ AtTrailing(kind, raw, s, q, n)
           \/ AtOne(kind, raw, s, q, n)
           \/ \E loop : AtLoop(kind, raw, s, q, n, loop)
           \/ \E d, run : AtWhole(kind, raw, s, q, n, d, run)
           \/ \E d, run : AtPart(kind, raw, s, q, n, d, run)
<1> DEFINE last == q + Batch(kind) - 1
           d == RunLength(raw, s, q, last, n)
           run == EncodeRun(kind, n, SubSeq(s, q, q + d - 1))
           loop == LoopFor(kind, raw, s[q])
<1>1. Batch(kind) \in Nat /\ Batch(kind) >= 4 /\ Len(s) \in Nat
  BY Bounds
<1>2. CASE last > Len(s)
  <2>1. AtTrailing(kind, raw, s, q, n)
    BY <1>2 DEF VectorsAt, AtTrailing
  <2> QED
    BY <2>1
<1>3. CASE ~(last > Len(s))
  <2>1. /\ q \in 1 .. Len(s) /\ last \in q - 1 .. Len(s) /\ s[q] \in Chars /\ n \in Nat
        /\ last = q + Batch(kind) - 1
        /\ Size(s[q]) <= MaxUtf8Bytes[kind]
    BY <1>1, <1>3 DEF OfItsKind
  <2>2. \A f : VectorsAt(kind, raw, s, f, q, n) =
                  IF n = 0 THEN IF loop = 0 THEN Then(EncodeOne(raw, s[q]), f[<<q + 1, 0>>]) ELSE f[<<q, loop>>]
                  ELSE IF d = Batch(kind) THEN Then(run, f[<<q + d, n>>])
                  ELSE Then(run, Then(EncodeOne(raw, s[q + d]), f[<<q + d + 1, 0>>]))
    BY <1>3 DEF VectorsAt
  <2>3. loop \in 0 .. 3 /\ (kind = 1 => loop <= 1)
    BY <2>1, LoopBytes
  <2>4. /\ d \in 0 .. last + 1 - q /\ run \in Pieces /\ run.ok
        /\ \A i \in q .. q + d - 1 : InRun(raw, n, s[i])
    <3> HIDE DEF last
    <3> QED
      BY <2>1, RunPiece
  <2>40. run = EncodeRun(kind, n, SubSeq(s, q, q + d - 1))
    OBVIOUS
  <2> HIDE DEF d, run, loop, last
  <2>5. CASE n = 0
    <3>1. <<q + 1, 0>> \in Behind(s, q, n) /\ (loop # 0 => <<q, loop>> \in Behind(s, q, n))
      BY <2>1, <2>3, <2>5 DEF Behind
    <3>2. CASE loop = 0
      <4>1. \A f : VectorsAt(kind, raw, s, f, q, n) = Then(EncodeOne(raw, s[q]), f[<<q + 1, 0>>])
        BY <2>2, <2>5, <3>2
      <4>2. AtOne(kind, raw, s, q, n)
        BY <2>1, <2>5, <3>1, <4>1, Zenon DEF AtOne
      <4> QED
        BY <4>2
    <3>3. CASE loop # 0
      <4>1. \A f : VectorsAt(kind, raw, s, f, q, n) = f[<<q, loop>>]
        BY <2>2, <2>5, <3>3
      <4>2. AtLoop(kind, raw, s, q, n, loop)
        BY <2>1, <2>3, <2>5, <3>1, <3>3, <4>1, Zenon DEF AtLoop
      <4> QED
        BY <4>2
    <3> QED
      BY <3>2, <3>3
  <2>6. CASE n # 0 /\ d = Batch(kind)
    <3>1. d \in Nat /\ q + d <= Len(s) + 1 /\ <<q + d, n>> \in Behind(s, q, n)
      <4>1. d \in Nat /\ d >= 1 /\ q + d <= Len(s) + 1
        BY <1>1, <2>1, <2>4, <2>6
      <4>2. q + d \in 1 .. Len(s) + 1 /\ q + d > q
        BY <1>1, <4>1
      <4> QED
        BY <4>1, <4>2 DEF Behind
    <3>2. \A f : VectorsAt(kind, raw, s, f, q, n) = Then(run, f[<<q + d, n>>])
      BY <2>2, <2>6
    <3>3. AtWhole(kind, raw, s, q, n, d, run)
      BY <2>1, <2>4, <2>40, <3>1, <3>2, Zenon DEF AtWhole, AtRun
    <3> QED
      BY <3>3
  <2>7. CASE n # 0 /\ d # Batch(kind)
    <3>1. d \in Nat /\ q + d <= Len(s) /\ <<q + d + 1, 0>> \in Behind(s, q, n)
      <4>1. d \in Nat /\ q + d <= Len(s)
        BY <1>1, <2>1, <2>4, <2>7
      <4>2. q + d + 1 \in 1 .. Len(s) + 1 /\ q + d + 1 > q
        BY <1>1, <4>1
      <4> QED
        BY <4>1, <4>2 DEF Behind
    <3>2. \A f : VectorsAt(kind, raw, s, f, q, n) =
                    Then(run, Then(EncodeOne(raw, s[q + d]), f[<<q + d + 1, 0>>]))
      BY <2>2, <2>7
    <3>3. AtPart(kind, raw, s, q, n, d, run)
      BY <2>1, <2>4, <2>40, <3>1, <3>2, Zenon DEF AtPart, AtRun
    <3> QED
      BY <3>3
  <2> QED
    BY <2>5, <2>6, <2>7
<1> QED
  BY <1>2, <1>3

VectorsDomain(s) == (1 .. Len(s) + 1) \X (0 .. 3)

\* What is written at q in the loop n is a piece, and depends on what comes behind.
LEMMA VectorsStep ==
    ASSUME NEW raw \in BOOLEAN, NEW kind \in Kinds, NEW s \in Seq(Chars), OfItsKind(kind, s),
           NEW q \in 1 .. Len(s) + 1, NEW n \in 0 .. 3, NEW f \in [VectorsDomain(s) -> Pieces]
    PROVE  /\ VectorsAt(kind, raw, s, f, q, n) \in Pieces
           /\ \A g \in [VectorsDomain(s) -> Pieces] :
                (\A x \in Behind(s, q, n) : f[x] = g[x])
                => VectorsAt(kind, raw, s, f, q, n) = VectorsAt(kind, raw, s, g, q, n)
<1>0. /\ Behind(s, q, n) \subseteq VectorsDomain(s) /\ Len(s) \in Nat
      /\ \A x \in Behind(s, q, n) : f[x] \in Pieces
  BY DEF Behind, VectorsDomain
<1>1. CASE AtTrailing(kind, raw, s, q, n)
  <2>1. Bounded(raw, kind, s, Widest(raw, kind), VectorStore(raw, kind))
    BY BoundedByKind
  <2>2. Rest(raw, s, q, Widest(raw, kind), VectorStore(raw, kind), EncodeTrailing(kind, raw, s, q))
    BY <2>1, TrailingRests
  <2>3. EncodeTrailing(kind, raw, s, q) \in Pieces
    BY <2>2 DEF Rest
  <2> QED
    BY <1>1, <2>3 DEF AtTrailing
<1>2. CASE AtOne(kind, raw, s, q, n)
  <2>1. EncodeOne(raw, s[q]) \in Pieces
    BY <1>2, OneTyped DEF AtOne
  <2>2. f[<<q + 1, 0>>] \in Pieces
    BY <1>0, <1>2 DEF AtOne
  <2>3. Then(EncodeOne(raw, s[q]), f[<<q + 1, 0>>]) \in Pieces
    BY <2>1, <2>2, ThenTyped
  <2> QED
    BY <1>2, <2>3 DEF AtOne
<1>3. ASSUME NEW loop, AtLoop(kind, raw, s, q, n, loop)
      PROVE  /\ VectorsAt(kind, raw, s, f, q, n) \in Pieces
             /\ \A g \in [VectorsDomain(s) -> Pieces] :
                  (\A x \in Behind(s, q, n) : f[x] = g[x])
                  => VectorsAt(kind, raw, s, f, q, n) = VectorsAt(kind, raw, s, g, q, n)
  <2>1. f[<<q, loop>>] \in Pieces
    BY <1>0, <1>3 DEF AtLoop
  <2> QED
    BY <1>3, <2>1 DEF AtLoop
<1>4. ASSUME NEW d, NEW run, AtWhole(kind, raw, s, q, n, d, run)
      PROVE  /\ VectorsAt(kind, raw, s, f, q, n) \in Pieces
             /\ \A g \in [VectorsDomain(s) -> Pieces] :
                  (\A x \in Behind(s, q, n) : f[x] = g[x])
                  => VectorsAt(kind, raw, s, f, q, n) = VectorsAt(kind, raw, s, g, q, n)
  <2>1. f[<<q + d, n>>] \in Pieces
    BY <1>0, <1>4 DEF AtWhole
  <2>2. Then(run, f[<<q + d, n>>]) \in Pieces
    BY <1>4, <2>1, ThenTyped DEF AtWhole, AtRun
  <2> QED
    BY <1>4, <2>2 DEF AtWhole
<1>5. ASSUME NEW d, NEW run, AtPart(kind, raw, s, q, n, d, run)
      PROVE  /\ VectorsAt(kind, raw, s, f, q, n) \in Pieces
             /\ \A g \in [VectorsDomain(s) -> Pieces] :
                  (\A x \in Behind(s, q, n) : f[x] = g[x])
                  => VectorsAt(kind, raw, s, f, q, n) = VectorsAt(kind, raw, s, g, q, n)
  <2>1. f[<<q + d + 1, 0>>] \in Pieces
    BY <1>0, <1>5 DEF AtPart
  <2>2. s[q + d] \in Chars
    BY <1>0, <1>5 DEF AtPart, AtRun
  <2>3. EncodeOne(raw, s[q + d]) \in Pieces
    BY <2>2, OneTyped
  <2>4. Then(EncodeOne(raw, s[q + d]), f[<<q + d + 1, 0>>]) \in Pieces
    BY <2>1, <2>3, ThenTyped
  <2>5. Then(run, Then(EncodeOne(raw, s[q + d]), f[<<q + d + 1, 0>>])) \in Pieces
    BY <1>5, <2>4, ThenTyped DEF AtPart, AtRun
  <2> QED
    BY <1>5, <2>5 DEF AtPart
<1> QED
  BY <1>1, <1>2, <1>3, <1>4, <1>5, VectorsCases

VectorsRank(s) == [x \in VectorsDomain(s) |-> 2 * (Len(s) + 1 - x[1]) + (IF x[2] = 0 THEN 1 ELSE 0)]

\* What is left of the str, and whether a loop is chosen, grows less.
LEMMA VectorsRanked ==
    ASSUME NEW s, Len(s) \in Nat
    PROVE  /\ VectorsRank(s) \in [VectorsDomain(s) -> Nat]
           /\ \A q \in 1 .. Len(s) + 1 : \A n \in 0 .. 3 : \A x \in Behind(s, q, n) :
                x \in VectorsDomain(s) /\ VectorsRank(s)[x] < VectorsRank(s)[<<q, n>>]
<1>1. VectorsRank(s) \in [VectorsDomain(s) -> Nat]
  BY DEF VectorsRank, VectorsDomain
<1>2. ASSUME NEW q \in 1 .. Len(s) + 1, NEW n \in 0 .. 3, NEW x \in Behind(s, q, n)
      PROVE  x \in VectorsDomain(s) /\ VectorsRank(s)[x] < VectorsRank(s)[<<q, n>>]
  <2>1. /\ x \in VectorsDomain(s) /\ <<q, n>> \in VectorsDomain(s)
        /\ x[1] \in 1 .. Len(s) + 1 /\ x[2] \in 0 .. 3
        /\ x[1] > q \/ (x[1] = q /\ n = 0 /\ x[2] # 0)
    BY DEF Behind, VectorsDomain
  <2>2. /\ VectorsRank(s)[x] = 2 * (Len(s) + 1 - x[1]) + (IF x[2] = 0 THEN 1 ELSE 0)
        /\ VectorsRank(s)[<<q, n>>] = 2 * (Len(s) + 1 - q) + (IF n = 0 THEN 1 ELSE 0)
    BY <2>1 DEF VectorsRank
  <2> QED
    BY <2>1, <2>2
<1> QED
  BY <1>1, <1>2

\* The recursion of the loops over vectors has a solution.
LEMMA VectorsDefined ==
    ASSUME NEW raw \in BOOLEAN, NEW kind \in Kinds, NEW s \in Seq(Chars), OfItsKind(kind, s)
    PROVE  \E f : VectorsBy(f, kind, raw, s)
<1> DEFINE S == VectorsDomain(s)
           rank == VectorsRank(s)
           step == [y \in [S -> Pieces] \X S |-> VectorsAt(kind, raw, s, y[1], y[2][1], y[2][2])]
<1>1. rank \in [S -> Nat] /\ Pieces # {} /\ Len(s) \in Nat
  <2>1. Nothing \in Pieces
    BY EmptySeq DEF Nothing, Piece, Pieces
  <2> QED
    BY <2>1, VectorsRanked
<1>2. ASSUME NEW f \in [S -> Pieces], NEW x \in S PROVE step[<<f, x>>] = VectorsAt(kind, raw, s, f, x[1], x[2])
  OBVIOUS
<1>3. \A x \in S : x[1] \in 1 .. Len(s) + 1 /\ x[2] \in 0 .. 3 /\ x = <<x[1], x[2]>>
  BY DEF VectorsDomain
<1>4. step \in [[S -> Pieces] \X S -> Pieces]
  <2>1. ASSUME NEW y \in [S -> Pieces] \X S PROVE VectorsAt(kind, raw, s, y[1], y[2][1], y[2][2]) \in Pieces
    <3>1. y[1] \in [S -> Pieces] /\ y[2][1] \in 1 .. Len(s) + 1 /\ y[2][2] \in 0 .. 3
      BY <1>3
    <3> QED
      BY <3>1, VectorsStep
  <2> HIDE DEF S
  <2> QED
    BY <2>1
<1>5. ASSUME NEW x \in S, NEW g \in [S -> Pieces], NEW h \in [S -> Pieces], Agree(S, rank, rank[x], g, h)
      PROVE  step[<<g, x>>] = step[<<h, x>>]
  <2>1. ASSUME NEW y \in Behind(s, x[1], x[2]) PROVE g[y] = h[y]
    <3>1. y \in S /\ rank[y] < rank[x]
      BY <1>1, <1>3, VectorsRanked
    <3> QED
      BY <1>5, <3>1 DEF Agree
  <2>2. VectorsAt(kind, raw, s, g, x[1], x[2]) = VectorsAt(kind, raw, s, h, x[1], x[2])
    BY <1>3, <2>1, VectorsStep
  <2> HIDE DEF step
  <2> QED
    BY <1>2, <2>2
<1> HIDE DEF rank, step
<1>6. Decreases(S, Pieces, rank, step)
  <2> HIDE DEF S
  <2> QED
    BY <1>1, <1>4, <1>5, Zenon DEF Decreases
<1>7. PICK f : Solves(S, Pieces, step, f)
  BY <1>6, Recursion
<1>8. f = [x \in S |-> VectorsAt(kind, raw, s, f, x[1], x[2])]
  BY <1>2, <1>7 DEF Solves
<1>9. VectorsBy(f, kind, raw, s)
  BY <1>8, VectorsIs DEF VectorsDomain
<1> QED
  BY <1>9

\* The loops over vectors write the str (bytes_write_ucs1, 2 and 4).
LEMMA VectorsRest ==
    ASSUME NEW raw \in BOOLEAN, NEW kind \in Kinds, NEW s \in Seq(Chars), OfItsKind(kind, s), NEW M, NEW W,
           Bounded(raw, kind, s, M, W)
    PROVE  Rest(raw, s, 1, M, W, EncodeVectors(kind, raw, s))
<1> DEFINE c == CHOOSE f : VectorsBy(f, kind, raw, s)
           S == VectorsDomain(s)
           rank == VectorsRank(s)
           G == {x \in S : (kind = 1 => x[2] <= 1) => Rest(raw, s, x[1], M, W, c[x])}
<1>1. EncodeVectors(kind, raw, s) = c[<<1, 0>>]
  BY VectorsChosen
<1>2. VectorsBy(c, kind, raw, s)
  BY VectorsDefined
<1> HIDE DEF c
<1>3. \A x \in S : c[x] = VectorsAt(kind, raw, s, c, x[1], x[2])
  <2>1. c = [x \in S |-> VectorsAt(kind, raw, s, c, x[1], x[2])]
    BY <1>2, VectorsIs DEF VectorsDomain
  <2> QED
    BY <2>1, Zenon
<1>4. rank \in [S -> Nat] /\ Len(s) \in Nat
  BY VectorsRanked
<1>5. M \in Nat /\ W \in Nat /\ M <= W
  BY DEF Bounded
<1>6. ASSUME NEW x \in S, \A y \in S : rank[y] < rank[x] => y \in G PROVE x \in G
  <2> SUFFICES ASSUME kind = 1 => x[2] <= 1 PROVE Rest(raw, s, x[1], M, W, c[x])
    OBVIOUS
  <2> DEFINE q == x[1]
             n == x[2]
  <2>1. q \in 1 .. Len(s) + 1 /\ n \in 0 .. 3 /\ x = <<q, n>>
    BY DEF VectorsDomain
  <2>2. \A y \in Behind(s, q, n) : y \in G
    BY <1>4, <1>6, <2>1, VectorsRanked
  <2>3. \A k, m : <<k, m>> \in Behind(s, q, n) /\ (kind = 1 => m <= 1) => Rest(raw, s, k, M, W, c[<<k, m>>])
    <3> TAKE k, m
    <3> HIDE DEF q, n
    <3>1. <<k, m>>[1] = k /\ <<k, m>>[2] = m
      OBVIOUS
    <3> QED
      BY <2>2, <3>1
  <2>4. c[x] = VectorsAt(kind, raw, s, c, q, n)
    BY <1>3
  <2>5. kind = 1 => n <= 1
    OBVIOUS
  <2> HIDE DEF G, S, rank, q, n
  <2>6. CASE AtTrailing(kind, raw, s, q, n)
    <3>1. Rest(raw, s, q, M, W, EncodeTrailing(kind, raw, s, q))
      BY <2>1, TrailingRests
    <3> QED
      BY <2>4, <2>6, <3>1 DEF q, AtTrailing
  <2>7. CASE AtOne(kind, raw, s, q, n)
    <3>0. q \in 1 .. Len(s)
      BY <2>7 DEF AtOne
    <3>1. Rest(raw, s, q + 1, M, W, c[<<q + 1, 0>>])
      BY <2>3, <2>7 DEF AtOne
    <3>2. Len(EncodeOne(raw, s[q]).text) <= M /\ EncodeOne(raw, s[q]).reach <= W
      BY <3>0 DEF Bounded
    <3>3. Rest(raw, s, q, M, W, Then(EncodeOne(raw, s[q]), c[<<q + 1, 0>>]))
      BY <1>5, <3>0, <3>1, <3>2, OneThenRest
    <3> QED
      BY <2>4, <2>7, <3>3 DEF q, AtOne
  <2>8. ASSUME NEW loop, AtLoop(kind, raw, s, q, n, loop)
        PROVE  Rest(raw, s, x[1], M, W, c[x])
    <3>1. Rest(raw, s, q, M, W, c[<<q, loop>>])
      BY <2>3, <2>8 DEF AtLoop
    <3> QED
      BY <2>4, <2>8, <3>1 DEF q, AtLoop
  <2>9. ASSUME NEW d, NEW run, AtWhole(kind, raw, s, q, n, d, run)
        PROVE  Rest(raw, s, x[1], M, W, c[x])
    <3>1. /\ run = EncodeRun(kind, n, SubSeq(s, q, q + d - 1))
          /\ q \in 1 .. Len(s) /\ d \in Nat /\ q + d <= Len(s) + 1
          /\ \A i \in q .. q + d - 1 : InRun(raw, n, s[i])
      BY <2>9 DEF AtWhole, AtRun
    <3>2. Rest(raw, s, q + d, M, W, c[<<q + d, n>>])
      BY <2>3, <2>5, <2>9 DEF AtWhole
    <3>3. n \in Nat /\ n * Batch(kind) <= W
      BY <2>1, <2>5 DEF Bounded
    <3>4. \A i \in q .. q + d - 1 : InRun(raw, n, s[i]) /\ Size(s[i]) <= M
      <4> SUFFICES ASSUME NEW i \in q .. q + d - 1 PROVE InRun(raw, n, s[i]) /\ Size(s[i]) <= M
        OBVIOUS
      <4>1. i \in 1 .. Len(s)
        BY <1>4, <3>1
      <4> QED
        BY <3>1, <4>1 DEF Bounded
    <3>5. Rest(raw, s, q, M, W, Then(run, c[<<q + d, n>>]))
      BY <1>5, <3>1, <3>2, <3>3, <3>4, RunThen
    <3> QED
      BY <2>4, <2>9, <3>5 DEF q, AtWhole
  <2>10. ASSUME NEW d, NEW run, AtPart(kind, raw, s, q, n, d, run)
         PROVE  Rest(raw, s, x[1], M, W, c[x])
    <3>1. /\ run = EncodeRun(kind, n, SubSeq(s, q, q + d - 1))
          /\ q \in 1 .. Len(s) /\ d \in Nat /\ q + d <= Len(s)
          /\ \A i \in q .. q + d - 1 : InRun(raw, n, s[i])
      BY <2>10 DEF AtPart, AtRun
    <3>2. Rest(raw, s, q + d + 1, M, W, c[<<q + d + 1, 0>>])
      BY <2>3, <2>10 DEF AtPart
    <3>3. Rest(raw, s, q, M, W, Then(run, Then(EncodeOne(raw, s[q + d]), c[<<q + d + 1, 0>>])))
      BY <2>1, <2>5, <3>1, <3>2, RunOneThen
    <3> QED
      BY <2>4, <2>10, <3>3 DEF q, AtPart
  <2> QED
    BY <2>1, <2>6, <2>7, <2>8, <2>9, <2>10, VectorsCases
<1>7. <<1, 0>> \in S /\ <<1, 0>>[1] = 1 /\ <<1, 0>>[2] = 0
  BY <1>4 DEF VectorsDomain
<1> HIDE DEF G, S, rank
<1>8. \A x \in S : x \in G
  BY <1>4, <1>6, RankInduction
<1> QED
  BY <1>1, <1>7, <1>8 DEF G

\* All the ways in which characters are converted write the str.
LEMMA EncodeRests ==
    ASSUME NEW raw \in BOOLEAN, NEW kind \in Kinds, NEW compact, NEW s \in Seq(Chars), OfItsKind(kind, s)
    PROVE  Rest(raw, s, 1, Widest(raw, kind), VectorStore(raw, kind), Encode(kind, raw, compact, s))
<1> DEFINE M == Widest(raw, kind)
           W == VectorStore(raw, kind)
<1>1. Bounded(raw, kind, s, M, W)
  BY BoundedByKind
<1> HIDE DEF M, W
<1>2. Rest(raw, s, 1, M, W, EncodeVectors(kind, raw, s))
  BY <1>1, VectorsRest
<1>3. Rest(raw, s, 1, M, W, EncodeScalar(raw, s))
  <2>1. /\ M \in Nat /\ W \in Nat /\ M <= W
        /\ \A i \in 1 .. Len(s) : Len(EncodeOne(raw, s[i]).text) <= M /\ EncodeOne(raw, s[i]).reach <= W
    BY <1>1 DEF Bounded
  <2> QED
    BY <2>1, ScalarRests
<1>4. Encode(kind, raw, compact, s) \in {EncodeVectors(kind, raw, s), EncodeScalar(raw, s)}
  BY DEF Encode
<1> QED
  BY <1>2, <1>3, <1>4 DEF M, W

-----------------------------------------------------------------------------
\* encode_unicode_impl copies units and escapes some.

\* The bytes of UTF-8, and what is written for each.
Units == Chars \X (1 .. 4)
UnitTexts == [b \in Units |-> IF EscapedByte(b) THEN Escaped(b[1]) ELSE <<b>>]

\* x writes u from q on, in stores that reach less than a vector behind its text.
CopyRest(u, batch, q, x) ==
    /\ x \in Pieces /\ x.ok
    /\ x.text = Flat(UnitTexts, SubSeq(u, q, Len(u)))
    /\ x.reach <= Len(x.text) + batch

\* What is written at q, f behind it.
CopyAt(batch, u, f, q) ==
    LET last == Min({q + batch - 1, Len(u)})
        ends == {i \in q .. last : EscapedByte(u[i])}
        e == IF ends = {} THEN last + 1 ELSE Min(ends)
        run == Piece(SubSeq(u, q, e - 1), batch, TRUE)
    IN  IF q > Len(u) THEN Nothing
        ELSE IF ends = {} THEN Then(run, f[e])
        ELSE Then(run, Then(EncodeOne(FALSE, u[e][1]), f[e + 1]))

CopyBy(f, batch, u) ==
    f = [q \in 1 .. Len(u) + 1 |->
            LET last == Min({q + batch - 1, Len(u)})
                ends == {i \in q .. last : EscapedByte(u[i])}
                e == IF ends = {} THEN last + 1 ELSE Min(ends)
                run == Piece(SubSeq(u, q, e - 1), batch, TRUE)
            IN  IF q > Len(u) THEN Nothing
                ELSE IF ends = {} THEN Then(run, f[e])
                ELSE Then(run, Then(EncodeOne(FALSE, u[e][1]), f[e + 1]))]

\* The equation of the copying loop, one step a name of its own.
LEMMA CopyIs ==
    ASSUME NEW f, NEW batch, NEW u
    PROVE  CopyBy(f, batch, u) <=> f = [q \in 1 .. Len(u) + 1 |-> CopyAt(batch, u, f, q)]
  BY Zenon DEF CopyBy, CopyAt

\* What it writes is the solution of the equation at the first unit.
LEMMA CopyChosen ==
    ASSUME NEW batch, NEW u
    PROVE  CopyEscaping(batch, u) = (CHOOSE f : CopyBy(f, batch, u))[1]
  BY Zenon DEF CopyEscaping, CopyBy

\* A run of units up to e is copied; then nothing else is, or what is at e is escaped.
CopyRun(batch, u, q, e, run) ==
    /\ q \in 1 .. Len(u) /\ e \in q .. Len(u) + 1
    /\ run = Piece(SubSeq(u, q, e - 1), batch, TRUE)
    /\ \A i \in q .. e - 1 : ~EscapedByte(u[i])

CopyWhole(batch, u, q, e, run) ==
    /\ CopyRun(batch, u, q, e, run) /\ e > q
    /\ \A f : CopyAt(batch, u, f, q) = Then(run, f[e])

CopyPart(batch, u, q, e, run) ==
    /\ CopyRun(batch, u, q, e, run) /\ e <= Len(u) /\ EscapedByte(u[e])
    /\ \A f : CopyAt(batch, u, f, q) = Then(run, Then(EncodeOne(FALSE, u[e][1]), f[e + 1]))

\* There is nothing left, a whole vector is copied, or a part and what is escaped.
LEMMA CopyCases ==
    ASSUME NEW batch \in {8, 16, 32}, NEW u \in Seq(Units), NEW q \in 1 .. Len(u) + 1
    PROVE  \/ q = Len(u) + 1 /\ \A f : CopyAt(batch, u, f, q) = Nothing
           \/ \E e, run : CopyWhole(batch, u, q, e, run)
           \/ \E e, run : CopyPart(batch, u, q, e, run)
<1> DEFINE last == Min({q + batch - 1, Len(u)})
           ends == {i \in q .. last : EscapedByte(u[i])}
           e == IF ends = {} THEN last + 1 ELSE Min(ends)
           run == Piece(SubSeq(u, q, e - 1), batch, TRUE)
<1>1. Len(u) \in Nat /\ batch \in Nat /\ batch >= 8
  OBVIOUS
<1>2. CASE q > Len(u)
  <2>1. q = Len(u) + 1
    BY <1>1, <1>2
  <2> QED
    BY <1>2, <2>1 DEF CopyAt
<1>3. CASE ~(q > Len(u))
  <2>1. q \in 1 .. Len(u) /\ last \in q .. Len(u)
    <3>1. last = IF q + batch - 1 <= Len(u) THEN q + batch - 1 ELSE Len(u)
      BY <1>1, MinOfTwo
    <3> QED
      BY <1>1, <1>3, <3>1
  <2>2. \A f : CopyAt(batch, u, f, q) = IF ends = {} THEN Then(run, f[e])
                                        ELSE Then(run, Then(EncodeOne(FALSE, u[e][1]), f[e + 1]))
    BY <1>3 DEF CopyAt
  <2> HIDE DEF last
  <2>3. CASE ends = {}
    <3>1. e = last + 1 /\ \A i \in q .. last : ~EscapedByte(u[i])
      BY <2>3
    <3>2. run = Piece(SubSeq(u, q, e - 1), batch, TRUE)
      OBVIOUS
    <3>3. \A f : CopyAt(batch, u, f, q) = Then(run, f[e])
      BY <2>2, <2>3
    <3> HIDE DEF e, run
    <3>4. e \in q .. Len(u) + 1 /\ e > q /\ \A i \in q .. e - 1 : ~EscapedByte(u[i])
      BY <1>1, <2>1, <3>1
    <3>5. CopyWhole(batch, u, q, e, run)
      BY <2>1, <3>2, <3>3, <3>4, Zenon DEF CopyWhole, CopyRun
    <3> QED
      BY <3>5
  <2>4. CASE ends # {}
    <3>1. ends \subseteq Nat /\ e = Min(ends)
      BY <2>1, <2>4
    <3>2. e \in ends /\ \A i \in ends : e <= i
      <4> HIDE DEF ends
      <4> QED
        BY <2>4, <3>1, MinOfNaturals
    <3>3. \A f : CopyAt(batch, u, f, q) = Then(run, Then(EncodeOne(FALSE, u[e][1]), f[e + 1]))
      BY <2>2, <2>4
    <3>4. run = Piece(SubSeq(u, q, e - 1), batch, TRUE)
      OBVIOUS
    <3> HIDE DEF e, run
    <3>5. e \in q .. last /\ EscapedByte(u[e]) /\ \A i \in q .. e - 1 : ~EscapedByte(u[i])
      BY <2>1, <3>2
    <3>6. e \in q .. Len(u) + 1 /\ e <= Len(u)
      BY <1>1, <2>1, <3>5
    <3>7. CopyPart(batch, u, q, e, run)
      BY <2>1, <3>3, <3>4, <3>5, <3>6, Zenon DEF CopyPart, CopyRun
    <3> QED
      BY <3>7
  <2> QED
    BY <2>3, <2>4
<1> QED
  BY <1>2, <1>3

\* The functions of units.
LEMMA UnitsTyped ==
    /\ Units \subseteq TextBytes
    /\ UnitTexts \in [Units -> Seq(TextBytes)]
    /\ \A b \in Units : ~EscapedByte(b) => UnitTexts[b] = <<b>>
    /\ \A b \in Units : EscapedByte(b) =>
          /\ b[1] \in Chars
          /\ EncodeOne(FALSE, b[1]) \in Pieces /\ EncodeOne(FALSE, b[1]).ok
          /\ EncodeOne(FALSE, b[1]).text = UnitTexts[b]
          /\ EncodeOne(FALSE, b[1]).reach = 8
<1>1. Units \subseteq TextBytes
  BY DEF Units, TextBytes
<1>2. ASSUME NEW b \in Units, EscapedByte(b)
      PROVE  /\ b[1] \in Chars /\ Escaped(b[1]) \in Seq(TextBytes)
             /\ IsEscaped(FALSE, b[1]) /\ b[1] # "surrogate"
  BY <1>2, CharFacts DEF Units, EscapedByte, IsEscaped, Escape
<1>3. \A b \in Units : <<b>> \in Seq(TextBytes)
  BY <1>1
<1>4. UnitTexts \in [Units -> Seq(TextBytes)]
  BY <1>2, <1>3 DEF UnitTexts
<1>5. \A b \in Units : ~EscapedByte(b) => UnitTexts[b] = <<b>>
  BY DEF UnitTexts
<1>6. ASSUME NEW b \in Units, EscapedByte(b)
      PROVE  /\ EncodeOne(FALSE, b[1]) \in Pieces /\ EncodeOne(FALSE, b[1]).ok
             /\ EncodeOne(FALSE, b[1]).text = UnitTexts[b]
             /\ EncodeOne(FALSE, b[1]).reach = 8
  <2>1. UnitTexts[b] = Escaped(b[1]) /\ CharTexts(FALSE)[b[1]] = Escaped(b[1])
    BY <1>2, <1>6 DEF UnitTexts, CharTexts
  <2> QED
    BY <1>2, <1>6, <2>1, OneTyped
<1> QED
  BY <1>1, <1>2, <1>4, <1>5, <1>6

\* What is copied is what it is written as.
LEMMA CopyRunPiece ==
    ASSUME NEW batch \in {8, 16, 32}, NEW u \in Seq(Units), NEW q, NEW e, NEW run,
           CopyRun(batch, u, q, e, run)
    PROVE  /\ run \in Pieces /\ run.ok /\ run.reach = batch
           /\ run.text = Flat(UnitTexts, SubSeq(u, q, e - 1))
           /\ SubSeq(u, q, e - 1) \in Seq(Units)
<1> DEFINE c == SubSeq(u, q, e - 1)
<1>1. q \in 1 .. Len(u) /\ e \in q .. Len(u) + 1 /\ \A i \in q .. e - 1 : ~EscapedByte(u[i])
  BY DEF CopyRun
<1>2. c \in Seq(Units) /\ Len(c) = e - q /\ \A i \in 1 .. e - q : c[i] = u[q + i - 1]
  BY <1>1, SubSeqProperties
<1>3. run = Piece(c, batch, TRUE)
  BY DEF CopyRun
<1> HIDE DEF c
<1>4. \A i \in 1 .. Len(c) : UnitTexts[c[i]] = <<c[i]>>
  <2> SUFFICES ASSUME NEW i \in 1 .. Len(c) PROVE UnitTexts[c[i]] = <<c[i]>>
    OBVIOUS
  <2>1. q + i - 1 \in q .. e - 1 /\ c[i] = u[q + i - 1] /\ c[i] \in Units
    BY <1>1, <1>2
  <2> QED
    BY <1>1, <2>1, UnitsTyped
<1>5. Flat(UnitTexts, c) = c
  <2>1. Units \subseteq TextBytes /\ UnitTexts \in [Units -> Seq(TextBytes)]
    BY UnitsTyped
  <2> QED
    BY <1>2, <1>4, <2>1, FlatIdentity
<1>6. c \in Seq(TextBytes)
  <2>1. Units \subseteq TextBytes
    BY UnitsTyped
  <2> QED
    BY <1>2, <2>1, SeqMonotonic
<1>7. /\ Piece(c, batch, TRUE) \in Pieces /\ Piece(c, batch, TRUE).ok
      /\ Piece(c, batch, TRUE).reach = batch /\ Piece(c, batch, TRUE).text = c
  BY <1>6 DEF Piece, Pieces
<1> QED
  BY <1>2, <1>3, <1>5, <1>7 DEF c

\* What is written at q is a piece, and depends on what comes behind q.
LEMMA CopyStep ==
    ASSUME NEW batch \in {8, 16, 32}, NEW u \in Seq(Units), NEW q \in 1 .. Len(u) + 1,
           NEW f \in [1 .. Len(u) + 1 -> Pieces]
    PROVE  /\ CopyAt(batch, u, f, q) \in Pieces
           /\ \A g \in [1 .. Len(u) + 1 -> Pieces] :
                (\A r \in q + 1 .. Len(u) + 1 : f[r] = g[r]) => CopyAt(batch, u, f, q) = CopyAt(batch, u, g, q)
<1>1. CASE q = Len(u) + 1 /\ \A g : CopyAt(batch, u, g, q) = Nothing
  <2>1. Nothing \in Pieces
    BY EmptySeq DEF Nothing, Piece, Pieces
  <2> QED
    BY <1>1, <2>1
<1>2. ASSUME NEW e, NEW run, CopyWhole(batch, u, q, e, run)
      PROVE  /\ CopyAt(batch, u, f, q) \in Pieces
             /\ \A g \in [1 .. Len(u) + 1 -> Pieces] :
                  (\A r \in q + 1 .. Len(u) + 1 : f[r] = g[r]) => CopyAt(batch, u, f, q) = CopyAt(batch, u, g, q)
  <2>0. CopyRun(batch, u, q, e, run) /\ e > q
    BY <1>2 DEF CopyWhole
  <2>1. e \in q + 1 .. Len(u) + 1 /\ e \in 1 .. Len(u) + 1 /\ run \in Pieces
    <3>1. run \in Pieces
      BY <2>0, CopyRunPiece
    <3>2. e \in q + 1 .. Len(u) + 1 /\ e \in 1 .. Len(u) + 1
      BY <2>0 DEF CopyRun
    <3> QED
      BY <3>1, <3>2
  <2>2. Then(run, f[e]) \in Pieces
    BY <2>1, ThenTyped
  <2> QED
    BY <1>2, <2>1, <2>2 DEF CopyWhole
<1>3. ASSUME NEW e, NEW run, CopyPart(batch, u, q, e, run)
      PROVE  /\ CopyAt(batch, u, f, q) \in Pieces
             /\ \A g \in [1 .. Len(u) + 1 -> Pieces] :
                  (\A r \in q + 1 .. Len(u) + 1 : f[r] = g[r]) => CopyAt(batch, u, f, q) = CopyAt(batch, u, g, q)
  <2>0. CopyRun(batch, u, q, e, run) /\ e <= Len(u) /\ EscapedByte(u[e])
    BY <1>3 DEF CopyPart
  <2>1. e + 1 \in q + 1 .. Len(u) + 1 /\ e + 1 \in 1 .. Len(u) + 1 /\ run \in Pieces /\ e \in 1 .. Len(u)
    <3>1. run \in Pieces
      BY <2>0, CopyRunPiece
    <3>2. e + 1 \in q + 1 .. Len(u) + 1 /\ e + 1 \in 1 .. Len(u) + 1 /\ e \in 1 .. Len(u)
      BY <2>0 DEF CopyRun
    <3> QED
      BY <3>1, <3>2
  <2>2. EncodeOne(FALSE, u[e][1]) \in Pieces
    <3>1. u[e] \in Units
      BY <2>1
    <3> QED
      BY <2>0, <3>1, UnitsTyped
  <2>3. Then(EncodeOne(FALSE, u[e][1]), f[e + 1]) \in Pieces
    BY <2>1, <2>2, ThenTyped
  <2>4. Then(run, Then(EncodeOne(FALSE, u[e][1]), f[e + 1])) \in Pieces
    BY <2>1, <2>3, ThenTyped
  <2> QED
    BY <1>3, <2>1, <2>4 DEF CopyPart
<1> QED
  BY <1>1, <1>2, <1>3, CopyCases

\* The recursion of the copying loop has a solution.
LEMMA CopyDefined ==
    ASSUME NEW batch \in {8, 16, 32}, NEW u \in Seq(Units)
    PROVE  \E f : CopyBy(f, batch, u)
<1> DEFINE S == 1 .. Len(u) + 1
           rank == [q \in S |-> Len(u) + 1 - q]
           step == [x \in [S -> Pieces] \X S |-> CopyAt(batch, u, x[1], x[2])]
<1>1. rank \in [S -> Nat] /\ Pieces # {}
  <2>1. Nothing \in Pieces
    BY EmptySeq DEF Nothing, Piece, Pieces
  <2> QED
    BY <2>1
<1>2. ASSUME NEW f \in [S -> Pieces], NEW q \in S PROVE step[<<f, q>>] = CopyAt(batch, u, f, q)
  OBVIOUS
<1>3. step \in [[S -> Pieces] \X S -> Pieces]
  <2>1. ASSUME NEW x \in [S -> Pieces] \X S PROVE CopyAt(batch, u, x[1], x[2]) \in Pieces
    <3>1. x[1] \in [S -> Pieces] /\ x[2] \in S
      OBVIOUS
    <3> QED
      BY <3>1, CopyStep
  <2> HIDE DEF S
  <2> QED
    BY <2>1
<1>4. ASSUME NEW q \in S, NEW g \in [S -> Pieces], NEW h \in [S -> Pieces], Agree(S, rank, rank[q], g, h)
      PROVE  step[<<g, q>>] = step[<<h, q>>]
  <2>1. ASSUME NEW r \in q + 1 .. Len(u) + 1 PROVE g[r] = h[r]
    <3>1. r \in S /\ rank[r] < rank[q]
      OBVIOUS
    <3> QED
      BY <1>4, <3>1 DEF Agree
  <2>2. CopyAt(batch, u, g, q) = CopyAt(batch, u, h, q)
    BY <2>1, CopyStep
  <2> HIDE DEF step
  <2> QED
    BY <1>2, <2>2
<1> HIDE DEF rank, step
<1>5. Decreases(S, Pieces, rank, step)
  <2> HIDE DEF S
  <2> QED
    BY <1>1, <1>3, <1>4, Zenon DEF Decreases
<1>6. PICK f : Solves(S, Pieces, step, f)
  BY <1>5, Recursion
<1>7. f = [q \in S |-> CopyAt(batch, u, f, q)]
  BY <1>2, <1>6 DEF Solves
<1>8. CopyBy(f, batch, u)
  BY <1>7, CopyIs
<1> QED
  BY <1>8

\* What is left, behind a piece.
LEMMA CopyThen ==
    ASSUME NEW batch \in {8, 16, 32}, NEW u \in Seq(Units), NEW q \in 1 .. Len(u), NEW e \in q .. Len(u) + 1,
           NEW a \in Pieces, a.ok, a.text = Flat(UnitTexts, SubSeq(u, q, e - 1)), a.reach <= batch,
           NEW y, CopyRest(u, batch, e, y)
    PROVE  CopyRest(u, batch, q, Then(a, y))
<1> DEFINE x == Then(a, y)
<1>1. /\ y \in Pieces /\ y.ok
      /\ y.text = Flat(UnitTexts, SubSeq(u, e, Len(u)))
      /\ y.reach <= Len(y.text) + batch
  BY DEF CopyRest
<1>2. /\ x \in Pieces /\ x.ok /\ x.text = a.text \o y.text
      /\ x.reach = IF a.reach >= Len(a.text) + y.reach THEN a.reach ELSE Len(a.text) + y.reach
  BY <1>1, ThenTyped
<1>3. a.text \in Seq(TextBytes) /\ y.text \in Seq(TextBytes) /\ a.reach \in Nat /\ y.reach \in Nat
  BY <1>1 DEF Pieces
<1>4. Len(x.text) = Len(a.text) + Len(y.text) /\ Len(a.text) \in Nat /\ Len(y.text) \in Nat
  BY <1>2, <1>3, ConcatProperties
<1> HIDE DEF x
<1>5. x.reach <= Len(x.text) + batch
  BY <1>1, <1>2, <1>3, <1>4
<1>6. x.text = Flat(UnitTexts, SubSeq(u, q, Len(u)))
  <2>1. e - 1 \in q - 1 .. Len(u) /\ Len(u) \in e - 1 .. Len(u) /\ e - 1 + 1 = e /\ q \in 1 .. Len(u) + 1
    OBVIOUS
  <2>2. SubSeq(u, q, Len(u)) = SubSeq(u, q, e - 1) \o SubSeq(u, e, Len(u))
    BY <2>1, ConcatAdjacentSubSeq
  <2>3. SubSeq(u, q, e - 1) \in Seq(Units) /\ SubSeq(u, e, Len(u)) \in Seq(Units)
    BY SubSeqProperties
  <2>4. Distributes(UnitTexts, Units)
    BY UnitsTyped, FlatDistributes
  <2>5. Flat(UnitTexts, SubSeq(u, q, e - 1) \o SubSeq(u, e, Len(u)))
           = Flat(UnitTexts, SubSeq(u, q, e - 1)) \o Flat(UnitTexts, SubSeq(u, e, Len(u)))
    BY <2>3, <2>4 DEF Distributes
  <2> QED
    BY <1>1, <1>2, <2>2, <2>5
<1> QED
  BY <1>2, <1>5, <1>6 DEF CopyRest, x

\* The copying loop writes all units (encode_unicode_impl, bytes_write_ascii).
LEMMA CopyRests ==
    ASSUME NEW batch \in {8, 16, 32}, NEW u \in Seq(Units)
    PROVE  CopyRest(u, batch, 1, CopyEscaping(batch, u))
<1> DEFINE c == CHOOSE f : CopyBy(f, batch, u)
           S == 1 .. Len(u) + 1
           rank == [q \in S |-> Len(u) + 1 - q]
           G == {q \in S : CopyRest(u, batch, q, c[q])}
<1>1. CopyEscaping(batch, u) = c[1]
  BY CopyChosen
<1>2. CopyBy(c, batch, u)
  BY CopyDefined
<1> HIDE DEF c
<1>3. \A q \in S : c[q] = CopyAt(batch, u, c, q)
  <2>1. c = [q \in S |-> CopyAt(batch, u, c, q)]
    BY <1>2, CopyIs
  <2> QED
    BY <2>1, Zenon
<1>4. rank \in [S -> Nat] /\ Len(u) \in Nat
  OBVIOUS
<1>5. ASSUME NEW q \in S, \A y \in S : rank[y] < rank[q] => y \in G PROVE q \in G
  <2> SUFFICES CopyRest(u, batch, q, c[q])
    OBVIOUS
  <2>1. \A r \in q + 1 .. Len(u) + 1 : CopyRest(u, batch, r, c[r])
    <3> SUFFICES ASSUME NEW r \in q + 1 .. Len(u) + 1 PROVE CopyRest(u, batch, r, c[r])
      OBVIOUS
    <3>1. r \in S /\ rank[r] < rank[q]
      OBVIOUS
    <3> QED
      BY <1>5, <3>1
  <2> HIDE DEF rank, G
  <2>2. CASE q = Len(u) + 1 /\ \A f : CopyAt(batch, u, f, q) = Nothing
    <3>1. Nothing \in Pieces /\ Nothing.ok /\ Nothing.text = <<>> /\ Nothing.reach = 0
      BY EmptySeq DEF Nothing, Piece, Pieces
    <3>2. SubSeq(u, q, Len(u)) = <<>> /\ Flat(UnitTexts, <<>>) = <<>>
      BY <1>4, <2>2, SubSeqEmpty, FlatEmpty
    <3>3. CopyRest(u, batch, q, Nothing)
      BY <3>1, <3>2 DEF CopyRest
    <3> QED
      BY <1>3, <2>2, <3>3
  <2>3. ASSUME NEW e, NEW run, CopyWhole(batch, u, q, e, run) PROVE CopyRest(u, batch, q, c[q])
    <3>0. CopyRun(batch, u, q, e, run) /\ e > q
      BY <2>3 DEF CopyWhole
    <3>1. /\ q \in 1 .. Len(u) /\ e \in q .. Len(u) + 1 /\ e \in q + 1 .. Len(u) + 1
          /\ run \in Pieces /\ run.ok /\ run.reach <= batch
          /\ run.text = Flat(UnitTexts, SubSeq(u, q, e - 1))
      <4>1. /\ run \in Pieces /\ run.ok /\ run.reach = batch
            /\ run.text = Flat(UnitTexts, SubSeq(u, q, e - 1))
        BY <3>0, CopyRunPiece
      <4>2. q \in 1 .. Len(u) /\ e \in q .. Len(u) + 1 /\ e \in q + 1 .. Len(u) + 1
        BY <3>0 DEF CopyRun
      <4> QED
        BY <4>1, <4>2
    <3>2. CopyRest(u, batch, q, Then(run, c[e]))
      BY <2>1, <3>1, CopyThen
    <3> QED
      BY <1>3, <2>3, <3>2 DEF CopyWhole
  <2>4. ASSUME NEW e, NEW run, CopyPart(batch, u, q, e, run) PROVE CopyRest(u, batch, q, c[q])
    <3>0. CopyRun(batch, u, q, e, run) /\ e <= Len(u) /\ EscapedByte(u[e])
      BY <2>4 DEF CopyPart
    <3>1. /\ q \in 1 .. Len(u) /\ e \in q .. Len(u) + 1 /\ e \in 1 .. Len(u) /\ e + 1 \in q + 1 .. Len(u) + 1
          /\ e + 1 \in e .. Len(u) + 1 /\ e + 1 - 1 = e
          /\ run \in Pieces /\ run.ok /\ run.reach <= batch
          /\ run.text = Flat(UnitTexts, SubSeq(u, q, e - 1))
      <4>1. /\ run \in Pieces /\ run.ok /\ run.reach = batch
            /\ run.text = Flat(UnitTexts, SubSeq(u, q, e - 1))
        BY <3>0, CopyRunPiece
      <4>2. /\ q \in 1 .. Len(u) /\ e \in q .. Len(u) + 1 /\ e \in 1 .. Len(u) /\ e + 1 \in q + 1 .. Len(u) + 1
            /\ e + 1 \in e .. Len(u) + 1 /\ e + 1 - 1 = e
        BY <3>0 DEF CopyRun
      <4> QED
        BY <4>1, <4>2
    <3> DEFINE a == EncodeOne(FALSE, u[e][1])
    <3>2. u[e] \in Units /\ EscapedByte(u[e])
      BY <3>0, <3>1
    <3>3. a \in Pieces /\ a.ok /\ a.reach <= batch /\ a.text = UnitTexts[u[e]]
      <4>1. a \in Pieces /\ a.ok /\ a.reach = 8 /\ a.text = UnitTexts[u[e]]
        BY <3>2, UnitsTyped
      <4>2. 8 <= batch
        OBVIOUS
      <4> HIDE DEF a
      <4> QED
        BY <4>1, <4>2
    <3>4. Flat(UnitTexts, SubSeq(u, e, e)) = UnitTexts[u[e]]
      <4>1. SubSeq(u, e, e) = <<u[e]>>
        <5>1. e \in e .. Len(u) /\ SubSeq(u, e + 1, e) = <<>>
          BY <1>4, <3>1, SubSeqEmpty
        <5>2. SubSeq(u, e, e) = <<u[e]>> \o SubSeq(u, e + 1, e)
          BY <3>1, <5>1, SubSeqRecursiveFirst
        <5>3. <<u[e]>> \in Seq(Units)
          BY <3>2
        <5> QED
          BY <5>1, <5>2, <5>3, ConcatEmptySeq
      <4> QED
        BY <3>2, <4>1, FlatSingle, UnitsTyped
    <3> HIDE DEF a
    <3>5. CopyRest(u, batch, e, Then(a, c[e + 1]))
      <4>1. a.text = Flat(UnitTexts, SubSeq(u, e, e + 1 - 1)) /\ CopyRest(u, batch, e + 1, c[e + 1])
        BY <2>1, <3>1, <3>3, <3>4
      <4> QED
        BY <3>1, <3>3, <4>1, CopyThen
    <3>6. CopyRest(u, batch, q, Then(run, Then(a, c[e + 1])))
      BY <3>1, <3>5, CopyThen
    <3> QED
      BY <1>3, <2>4, <3>6 DEF CopyPart, a
  <2> QED
    BY <2>2, <2>3, <2>4, CopyCases
<1>6. 1 \in S
  BY <1>4
<1> HIDE DEF G, S, rank
<1>7. \A q \in S : q \in G
  BY <1>4, <1>5, RankInduction
<1> QED
  BY <1>1, <1>6, <1>7 DEF G

-----------------------------------------------------------------------------
\* The text, and the room for it.

NoSurrogate(s) == \A i \in 1 .. Len(s) : s[i] # "surrogate"

\* What is reserved for a str holds what is stored of x and what is written behind it.
FitsJson(x, len) == Max({1 + x.reach, 1 + Len(x.text) + 4}) <= JsonRoom(len)

\* What is reserved for a str in JSON, worked out (b_buf_apd_str_rsv_idt).
LEMMA JsonRoomIs ==
    ASSUME NEW len \in Nat
    PROVE  JsonRoom(len) = 1 + 6 * len + 3 * Batch(2) - 6
<1> DEFINE T == {WidestStore[k] - MaxJsonBytes : k \in Kinds}
<1>1. /\ WidestStore[1] = VectorBytes /\ WidestStore[2] = 3 * Batch(2) /\ WidestStore[4] = 3 * Batch(4)
      /\ Batch(2) = VectorBytes \div 2 /\ Batch(4) = VectorBytes \div 4
      /\ VectorBytes \in {16, 32} /\ MaxJsonBytes = 6
  BY VectorBytesAssumption DEF WidestStore, Kinds, Batch, MaxJsonBytes
<1>2. T = {WidestStore[1] - 6, WidestStore[2] - 6, WidestStore[4] - 6}
  BY <1>1 DEF Kinds
<1>3. /\ WidestStore[2] - 6 \in Int /\ WidestStore[1] - 6 \in Int /\ WidestStore[4] - 6 \in Int
      /\ WidestStore[2] - 6 >= WidestStore[1] - 6 /\ WidestStore[2] - 6 >= WidestStore[4] - 6
      /\ WidestStore[2] - 6 >= WidestStore[2] - 6
  BY <1>1
<1> DEFINE a == WidestStore[2] - 6
<1>4. T \subseteq Int /\ a \in T /\ \A b \in T : a >= b
  BY <1>2, <1>3
<1> HIDE DEF T, a
<1>5. Max(T) = a
  BY <1>4, MaxIs
<1>6. JsonRoom(len) = 1 + MaxJsonBytes * len + Max(T)
  BY DEF JsonRoom, T
<1> QED
  BY <1>1, <1>3, <1>5, <1>6 DEF a

\* Characters of at most M bytes, the last of which is a store of W.
LEMMA LastStore ==
    ASSUME NEW r \in Nat, NEW n \in Nat, NEW M \in Nat, NEW W \in Nat, W >= M,
           r <= IF n = 0 THEN 0 ELSE M * (n - 1) + W
    PROVE  r <= M * n + W - M
<1>1. CASE n = 0
  <2>1. M * n = 0
    BY <1>1
  <2> QED
    BY <1>1, <2>1
<1>2. CASE n # 0
  <2>1. PICK k \in Nat : n = k + 1
    BY <1>2, n - 1 \in Nat
  <2>2. M * (k + 1) = M * k + M * 1 /\ M * k \in Nat /\ M * 1 = M
    BY Distribute
  <2>3. n - 1 = k
    BY <2>1
  <2> DEFINE a == M * k
  <2>4. a \in Nat /\ M * n = a + M /\ r <= a + W
    BY <1>2, <2>1, <2>2, <2>3
  <2> DEFINE b == M * n
  <2>5. b = a + M
    BY <2>4
  <2> HIDE DEF a, b
  <2>6. r <= b + W - M
    BY <2>4, <2>5
  <2> QED
    BY <2>6 DEF b
<1> QED
  BY <1>1, <1>2

\* A piece that is short enough fits into what is reserved for the str.
LEMMA RoomSuffices ==
    ASSUME NEW x \in Pieces, NEW len \in Nat, Len(x.text) <= 6 * len,
           \/ x.reach <= IF len = 0 THEN 0 ELSE 6 * (len - 1) + 3 * Batch(2)
           \/ x.reach <= Len(x.text) + VectorBytes
    PROVE  FitsJson(x, len)
<1>1. x.reach \in Nat /\ Len(x.text) \in Nat
  <2>1. x.text \in Seq(TextBytes)
    BY DEF Pieces
  <2> QED
    BY <2>1 DEF Pieces
<1>2. Batch(2) = VectorBytes \div 2 /\ VectorBytes \in {16, 32}
  BY VectorBytesAssumption DEF Batch
<1>3. 3 * Batch(2) - 6 >= 18 /\ 3 * Batch(2) - 6 >= VectorBytes /\ Batch(2) \in Nat
  BY <1>2
<1>4. x.reach <= 6 * len + 3 * Batch(2) - 6
  <2> DEFINE r == x.reach
             l == Len(x.text)
             W == 3 * Batch(2)
  <2>1. r \in Nat /\ l \in Nat /\ W \in Nat /\ W >= 6 /\ W - 6 >= VectorBytes /\ l <= 6 * len /\ VectorBytes \in Nat
    BY <1>1, <1>2, <1>3
  <2>2. \/ r <= IF len = 0 THEN 0 ELSE 6 * (len - 1) + W
        \/ r <= l + VectorBytes
    OBVIOUS
  <2> HIDE DEF r, l, W
  <2>3. CASE r <= IF len = 0 THEN 0 ELSE 6 * (len - 1) + W
    <3>1. r <= 6 * len + W - 6
      BY <2>1, <2>3, LastStore
    <3> QED
      BY <3>1 DEF r, W
  <2>4. CASE r <= l + VectorBytes
    <3>1. r <= 6 * len + W - 6
      BY <2>1, <2>4
    <3> QED
      BY <3>1 DEF r, W
  <2> QED
    BY <2>2, <2>3, <2>4
<1>5. Max({1 + x.reach, 1 + Len(x.text) + 4}) \in {1 + x.reach, 1 + Len(x.text) + 4}
  BY <1>1, MaxOfTwo
<1>6. JsonRoom(len) = 1 + 6 * len + 3 * Batch(2) - 6
  BY JsonRoomIs
<1>7. 1 + x.reach <= JsonRoom(len) /\ 1 + Len(x.text) + 4 <= JsonRoom(len)
  <2> DEFINE r == x.reach
             l == Len(x.text)
             W == 3 * Batch(2)
             J == JsonRoom(len)
  <2>1. r \in Nat /\ l \in Nat /\ W \in Nat /\ W - 6 >= 18 /\ l <= 6 * len /\ r <= 6 * len + W - 6
        /\ J = 1 + 6 * len + W - 6
    BY <1>1, <1>3, <1>4, <1>6
  <2> HIDE DEF r, l, W, J
  <2>2. 1 + r <= J /\ 1 + l + 4 <= J
    BY <2>1
  <2> QED
    BY <2>2 DEF r, l, J
<1> QED
  BY <1>5, <1>7 DEF FitsJson

\* The text of a str in JSON, as the properties write it.
LEMMA JsonText ==
    ASSUME NEW s \in Seq(Chars)
    PROVE  FlattenSeq([i \in 1 .. Len(s) |-> IF s[i] \in DOMAIN Escape THEN Escaped(s[i]) ELSE Bytes(s[i])])
             = Text(FALSE, s)
<1>1. \A i \in 1 .. Len(s) :
         CharTexts(FALSE)[s[i]] = IF s[i] \in DOMAIN Escape THEN Escaped(s[i]) ELSE Bytes(s[i])
  BY DEF CharTexts, IsEscaped
<1>2. [i \in 1 .. Len(s) |-> IF s[i] \in DOMAIN Escape THEN Escaped(s[i]) ELSE Bytes(s[i])]
        = [i \in 1 .. Len(s) |-> CharTexts(FALSE)[s[i]]]
  BY <1>1
<1> QED
  BY <1>2 DEF Text, Flat

\* And as UTF-8.
LEMMA RawText ==
    ASSUME NEW s \in Seq(Chars)
    PROVE  FlattenSeq([i \in 1 .. Len(s) |-> Bytes(s[i])]) = Text(TRUE, s)
<1>1. [i \in 1 .. Len(s) |-> Bytes(s[i])] = [i \in 1 .. Len(s) |-> CharTexts(TRUE)[s[i]]]
  <2>1. \A i \in 1 .. Len(s) : CharTexts(TRUE)[s[i]] = Bytes(s[i])
    BY DEF CharTexts, IsEscaped
  <2> QED
    BY <2>1
<1> QED
  BY <1>1 DEF Text, Flat

\* The bytes of a character are units.
LEMMA BytesAreUnits ==
    /\ CharBytes \in [Chars -> Seq(Units)]
    /\ \A c \in Chars : Flat(UnitTexts, CharBytes[c]) = CharTexts(FALSE)[c]
<1>1. ASSUME NEW c \in Chars PROVE Bytes(c) \in Seq(Units) /\ Flat(UnitTexts, Bytes(c)) = CharTexts(FALSE)[c]
  <2>1. Size(c) \in 1 .. 4 /\ (c \in DOMAIN Escape => Size(c) = 1)
    BY CharFacts
  <2>2. Bytes(c) = [i \in 1 .. Size(c) |-> <<c, i>>] /\ \A i \in 1 .. Size(c) : <<c, i>> \in Units
    BY <2>1 DEF Bytes, Units
  <2>3. Bytes(c) \in Seq(Units) /\ Len(Bytes(c)) = Size(c) /\ \A i \in 1 .. Size(c) : Bytes(c)[i] = <<c, i>>
    BY <2>1, <2>2
  <2>4. Units \subseteq TextBytes /\ UnitTexts \in [Units -> Seq(TextBytes)]
    BY UnitsTyped
  <2>5. CASE c \in DOMAIN Escape
    <3>1. Len(Bytes(c)) = 1 /\ Bytes(c)[1] = <<c, 1>> /\ <<c, 1>> \in Units
      BY <2>1, <2>2, <2>3, <2>5
    <3>2. Bytes(c) = << <<c, 1>> >>
      <4> DEFINE t == << <<c, 1>> >>
      <4>1. t \in Seq(Units) /\ Len(t) = 1 /\ t[1] = <<c, 1>>
        BY <3>1
      <4> HIDE DEF t
      <4>2. \A i \in 1 .. Len(t) : t[i] = Bytes(c)[i]
        BY <3>1, <4>1
      <4>3. Bytes(c) = t
        BY <2>3, <3>1, <4>1, <4>2, SeqEqual
      <4> QED
        BY <4>3 DEF t
    <3>3. Flat(UnitTexts, << <<c, 1>> >>) = UnitTexts[<<c, 1>>]
      BY <2>4, <3>1, FlatSingle
    <3>4. UnitTexts[<<c, 1>>] = Escaped(c)
      BY <2>5, <3>1 DEF UnitTexts, EscapedByte
    <3>5. CharTexts(FALSE)[c] = Escaped(c)
      BY <2>5 DEF CharTexts, IsEscaped
    <3> QED
      BY <2>3, <3>2, <3>3, <3>4, <3>5
  <2>6. CASE c \notin DOMAIN Escape
    <3>1. \A i \in 1 .. Len(Bytes(c)) : UnitTexts[Bytes(c)[i]] = <<Bytes(c)[i]>>
      <4> SUFFICES ASSUME NEW i \in 1 .. Size(c) PROVE UnitTexts[<<c, i>>] = << <<c, i>> >>
        BY <2>3
      <4>1. <<c, i>> \in Units /\ ~EscapedByte(<<c, i>>)
        BY <2>2, <2>6 DEF EscapedByte
      <4> QED
        BY <4>1, UnitsTyped
    <3>2. Flat(UnitTexts, Bytes(c)) = Bytes(c)
      BY <2>3, <2>4, <3>1, FlatIdentity
    <3>3. CharTexts(FALSE)[c] = Bytes(c)
      BY <2>6 DEF CharTexts, IsEscaped
    <3> QED
      BY <2>3, <3>2, <3>3
  <2> QED
    BY <2>5, <2>6
<1>2. \A c \in Chars : CharBytes[c] = Bytes(c)
  BY DEF CharBytes
<1> QED
  BY <1>1, <1>2 DEF CharBytes

\* The text of JSON is made of UTF-8 by escaping its bytes.
LEMMA EscapingUtf8 ==
    ASSUME NEW s \in Seq(Chars)
    PROVE  Text(TRUE, s) \in Seq(Units) /\ Flat(UnitTexts, Text(TRUE, s)) = Text(FALSE, s)
<1>1. CharTexts(TRUE) = CharBytes /\ CharTexts(FALSE) \in [Chars -> Seq(TextBytes)]
  BY TextsTyped
<1>2. CharBytes \in [Chars -> Seq(Units)] /\ \A c \in Chars : CharTexts(FALSE)[c] = Flat(UnitTexts, CharBytes[c])
  BY BytesAreUnits
<1>3. UnitTexts \in [Units -> Seq(TextBytes)]
  BY UnitsTyped
<1>4. Flat(UnitTexts, Flat(CharBytes, s)) = Flat(CharTexts(FALSE), s)
  <2> DEFINE m == CharTexts(FALSE)
             k == CharBytes
             h == UnitTexts
             T == TextBytes
             U == Units
             C == Chars
  <2>1. Composes(C, U, T, k, h, m)
        /\ s \in Seq(C)
    BY <1>1, <1>2, <1>3 DEF Composes
  <2> HIDE DEF m, k, h, T, U, C
  <2>2. Flat(h, Flat(k, s)) = Flat(m, s)
    BY <2>1, FlatFlat
  <2> QED
    BY <2>2 DEF m, k, h
<1>5. Flat(CharBytes, s) \in Seq(Units)
  BY <1>2, FlatTyped
<1> QED
  BY <1>1, <1>4, <1>5 DEF Text

\* A character is 6 bytes of JSON at most.
LEMMA JsonTextLength ==
    ASSUME NEW s \in Seq(Chars)
    PROVE  Text(FALSE, s) \in Seq(TextBytes) /\ Len(Text(FALSE, s)) <= 6 * Len(s)
<1>1. CharTexts(FALSE) \in [Chars -> Seq(TextBytes)] /\ \A c \in Chars : Len(CharTexts(FALSE)[c]) <= 6
  BY TextsTyped
<1>2. ASSUME NEW i \in 1 .. Len(s) PROVE Len(CharTexts(FALSE)[s[i]]) <= 6
  <2>1. s[i] \in Chars
    BY ElementOfSeq
  <2> QED
    BY <1>1, <2>1
<1> DEFINE m == CharTexts(FALSE)
<1>3. m \in [Chars -> Seq(TextBytes)] /\ \A i \in 1 .. Len(s) : Len(m[s[i]]) <= 6
  BY <1>1, <1>2
<1> HIDE DEF m
<1>4. Flat(m, s) \in Seq(TextBytes) /\ Len(Flat(m, s)) <= 6 * Len(s)
  BY <1>3, FlatLength, FlatTyped
<1> QED
  BY <1>4 DEF Text, m

-----------------------------------------------------------------------------
\* A str that is ASCII.
LEMMA AsciiWrites ==
    ASSUME NEW compact, NEW s \in Seq(Chars), \A i \in 1 .. Len(s) : Size(s[i]) = 1
    PROVE  /\ EncodeAscii(compact, s) \in Pieces
           /\ NoSurrogate(s)
           /\ EncodeAscii(compact, s).text = Text(FALSE, s)
           /\ FitsJson(EncodeAscii(compact, s), Len(s))
<1>1. NoSurrogate(s)
  <2>1. Size("surrogate") # 1
    BY DEF Size
  <2> QED
    BY <2>1 DEF NoSurrogate
<1>2. CASE EncodeAscii(compact, s) = EncodeScalar(FALSE, s)
  <2> DEFINE x == EncodeScalar(FALSE, s)
             W == 3 * Batch(2)
  <2>1. OfItsKind(1, s) /\ 1 \in Kinds
    BY DEF OfItsKind, MaxUtf8Bytes, Kinds
  <2>2. Bounded(FALSE, 1, s, 6, W)
    <3>1. Bounded(FALSE, 1, s, Widest(FALSE, 1), VectorStore(FALSE, 1))
      BY <2>1, BoundedByKind
    <3> QED
      BY <3>1 DEF Widest, VectorStore, MaxJsonBytes
  <2> HIDE DEF W
  <2>3. Rest(FALSE, s, 1, 6, W, x)
    BY <2>2, ScalarRests DEF Bounded
  <2> HIDE DEF x
  <2>4. SubSeq(s, 1, Len(s)) = s /\ Len(s) \in Nat
    BY SubSeqFull
  <2>5. x \in Pieces /\ x.text = Text(FALSE, s)
    BY <1>1, <2>3, <2>4 DEF Rest, NoSurrogate
  <2>6. Len(x.text) <= 6 * Len(s) /\ x.reach <= IF Len(s) = 0 THEN 0 ELSE 6 * (Len(s) - 1) + W
    BY <2>3, <2>4 DEF Rest
  <2>7. FitsJson(x, Len(s))
    BY <2>4, <2>5, <2>6, RoomSuffices DEF W
  <2> QED
    BY <1>1, <1>2, <2>5, <2>7 DEF x
<1>3. CASE EncodeAscii(compact, s) = CopyEscaping(VectorBytes, [i \in 1 .. Len(s) |-> Bytes(s[i])[1]])
  <2> DEFINE u == [i \in 1 .. Len(s) |-> Bytes(s[i])[1]]
             x == CopyEscaping(VectorBytes, u)
  <2>1. ASSUME NEW i \in 1 .. Len(s)
        PROVE  Bytes(s[i])[1] = <<s[i], 1>> /\ <<s[i], 1>> \in Units /\ s[i] \in Chars
    <3>1. s[i] \in Chars /\ Size(s[i]) = 1
      BY ElementOfSeq
    <3> QED
      BY <3>1 DEF Bytes, Units
  <2>2. u \in Seq(Units) /\ Len(u) = Len(s) /\ \A i \in 1 .. Len(s) : u[i] = <<s[i], 1>>
    <3> DEFINE n == Len(s)
    <3>1. n \in Nat
      BY LenProperties
    <3>2. u = [i \in 1 .. n |-> <<s[i], 1>>]
      BY <2>1
    <3>3. \A i \in 1 .. n : <<s[i], 1>> \in Units
      BY <2>1
    <3> HIDE DEF n, u
    <3>4. u \in Seq(Units) /\ Len(u) = n /\ \A i \in 1 .. n : u[i] = <<s[i], 1>>
      BY <3>1, <3>2, <3>3
    <3> QED
      BY <3>4 DEF n
  <2>3. VectorBytes \in {8, 16, 32}
    BY VectorBytesAssumption
  <2>4. Flat(UnitTexts, u) = Text(FALSE, s)
    <3>1. ASSUME NEW i \in 1 .. Len(s) PROVE UnitTexts[u[i]] = CharTexts(FALSE)[s[i]]
      <4>1. CharTexts(FALSE)[s[i]] = IF s[i] \in DOMAIN Escape THEN Escaped(s[i]) ELSE Bytes(s[i])
        BY <2>1 DEF CharTexts, IsEscaped
      <4>2. UnitTexts[<<s[i], 1>>] = IF s[i] \in DOMAIN Escape THEN Escaped(s[i]) ELSE << <<s[i], 1>> >>
        BY <2>1 DEF UnitTexts, EscapedByte
      <4>3. Bytes(s[i]) = << <<s[i], 1>> >>
        <5> DEFINE t == << <<s[i], 1>> >>
        <5>1. t \in Seq(TextBytes) /\ Len(t) = 1 /\ t[1] = <<s[i], 1>>
          BY <2>1, UnitsTyped
        <5>2. Bytes(s[i]) \in Seq(TextBytes) /\ Len(Bytes(s[i])) = 1 /\ Bytes(s[i])[1] = <<s[i], 1>>
          BY <2>1, CharFacts
        <5> HIDE DEF t
        <5>3. \A j \in 1 .. Len(t) : t[j] = Bytes(s[i])[j]
          BY <5>1, <5>2
        <5>4. t = Bytes(s[i])
          BY <5>1, <5>2, <5>3, SeqEqual
        <5> QED
          BY <5>4 DEF t
      <4> QED
        BY <2>2, <4>1, <4>2, <4>3
    <3>2. [i \in 1 .. Len(u) |-> UnitTexts[u[i]]] = [i \in 1 .. Len(s) |-> CharTexts(FALSE)[s[i]]]
      BY <2>2, <3>1
    <3> QED
      BY <3>2 DEF Text, Flat
  <2> HIDE DEF u
  <2>5. CopyRest(u, VectorBytes, 1, x)
    BY <2>2, <2>3, CopyRests
  <2>6. SubSeq(u, 1, Len(u)) = u
    BY <2>2, SubSeqFull
  <2> HIDE DEF x
  <2>7. x \in Pieces /\ x.text = Text(FALSE, s) /\ x.reach <= Len(x.text) + VectorBytes
    BY <2>4, <2>5, <2>6 DEF CopyRest
  <2>8. FitsJson(x, Len(s))
    <3>1. Len(s) \in Nat
      BY LenProperties
    <3>2. Len(Text(FALSE, s)) <= 6 * Len(s)
      BY JsonTextLength
    <3>3. Len(x.text) <= 6 * Len(s)
      BY <2>7, <3>2
    <3> QED
      BY <2>7, <3>1, <3>3, RoomSuffices
  <2> QED
    BY <1>1, <1>3, <2>7, <2>8 DEF x, u
<1> QED
  BY <1>2, <1>3 DEF EncodeAscii

\* The characters of a str, as JSON.
LEMMA JsonWrites ==
    ASSUME NEW kind \in Kinds, NEW compact, NEW s \in Seq(Chars), OfItsKind(kind, s)
    PROVE  LET x == Encode(kind, FALSE, compact, s)
           IN  /\ x \in Pieces
               /\ x.ok <=> NoSurrogate(s)
               /\ x.ok => x.text = Text(FALSE, s)
               /\ FitsJson(x, Len(s))
<1> DEFINE x == Encode(kind, FALSE, compact, s)
           W == 3 * Batch(2)
<1>1. Rest(FALSE, s, 1, 6, W, x)
  <2>1. Rest(FALSE, s, 1, Widest(FALSE, kind), VectorStore(FALSE, kind), x)
    BY EncodeRests
  <2>2. Widest(FALSE, kind) = 6 /\ VectorStore(FALSE, kind) = W
    BY DEF Widest, VectorStore, MaxJsonBytes
  <2> QED
    BY <2>1, <2>2
<1> HIDE DEF x, W
<1>2. SubSeq(s, 1, Len(s)) = s /\ Len(s) \in Nat
  BY SubSeqFull
<1>3. x \in Pieces /\ (x.ok <=> NoSurrogate(s)) /\ (x.ok => x.text = Text(FALSE, s))
  BY <1>1, <1>2 DEF Rest, NoSurrogate
<1>4. Len(x.text) <= 6 * Len(s) /\ x.reach <= IF Len(s) = 0 THEN 0 ELSE 6 * (Len(s) - 1) + W
  BY <1>1, <1>2 DEF Rest
<1>5. FitsJson(x, Len(s))
  BY <1>2, <1>3, <1>4, RoomSuffices DEF W
<1> QED
  BY <1>3, <1>5 DEF x

\* The characters of a str, as UTF-8.
LEMMA RawWrites ==
    ASSUME NEW kind \in Kinds, NEW compact, NEW s \in Seq(Chars), OfItsKind(kind, s)
    PROVE  LET x == Encode(kind, TRUE, compact, s)
           IN  /\ x \in Pieces
               /\ x.ok <=> NoSurrogate(s)
               /\ x.ok => x.text = Text(TRUE, s)
               /\ x.reach <= RawRoom(kind, Len(s))
<1> DEFINE x == Encode(kind, TRUE, compact, s)
           M == Widest(TRUE, kind)
           W == VectorStore(TRUE, kind)
<1>1. Rest(TRUE, s, 1, M, W, x)
  BY EncodeRests
<1>2. M \in Nat /\ W \in Nat /\ M <= W /\ RawRoom(kind, Len(s)) = M * Len(s) + W - M
  <2>1. M \in Nat /\ W \in Nat /\ M <= W
    BY Bounds
  <2>2. M = MaxUtf8Bytes[kind] /\ W = WidestStore[kind]
    BY DEF Widest, VectorStore
  <2> QED
    BY <2>1, <2>2 DEF RawRoom
<1> HIDE DEF x, M, W
<1>3. SubSeq(s, 1, Len(s)) = s /\ Len(s) \in Nat
  BY SubSeqFull
<1>4. x \in Pieces /\ (x.ok <=> NoSurrogate(s)) /\ (x.ok => x.text = Text(TRUE, s))
  BY <1>1, <1>3 DEF Rest, NoSurrogate
<1>5. x.reach <= IF Len(s) = 0 THEN 0 ELSE M * (Len(s) - 1) + W
  BY <1>1, <1>3 DEF Rest
<1>6. x.reach \in Nat
  BY <1>4 DEF Pieces
<1>7. x.reach <= RawRoom(kind, Len(s))
  <2> DEFINE r == x.reach
             n == Len(s)
  <2>1. r \in Nat /\ n \in Nat /\ r <= IF n = 0 THEN 0 ELSE M * (n - 1) + W
    BY <1>3, <1>5, <1>6
  <2> HIDE DEF r, n
  <2>2. r <= M * n + W - M
    BY <1>2, <2>1, LastStore
  <2> QED
    BY <1>2, <2>2 DEF r, n
<1> QED
  BY <1>4, <1>7 DEF x

\* UTF-8, as JSON.
LEMMA CopyWrites ==
    ASSUME NEW s \in Seq(Chars)
    PROVE  LET x == CopyEscaping(VectorBytes, Text(TRUE, s))
           IN  x \in Pieces /\ x.text = Text(FALSE, s) /\ FitsJson(x, Len(s))
<1> DEFINE u == Text(TRUE, s)
           x == CopyEscaping(VectorBytes, u)
<1>1. u \in Seq(Units) /\ Flat(UnitTexts, u) = Text(FALSE, s)
  BY EscapingUtf8
<1>2. VectorBytes \in {8, 16, 32}
  BY VectorBytesAssumption
<1> HIDE DEF u
<1>3. CopyRest(u, VectorBytes, 1, x)
  BY <1>1, <1>2, CopyRests
<1>4. SubSeq(u, 1, Len(u)) = u
  BY <1>1, SubSeqFull
<1> HIDE DEF x
<1>5. x \in Pieces /\ x.text = Text(FALSE, s) /\ x.reach <= Len(x.text) + VectorBytes
  BY <1>1, <1>3, <1>4 DEF CopyRest
<1>6. Len(s) \in Nat /\ Len(x.text) <= 6 * Len(s)
  <2>1. Len(s) \in Nat
    BY LenProperties
  <2>2. Len(Text(FALSE, s)) <= 6 * Len(s)
    BY JsonTextLength
  <2> QED
    BY <1>5, <2>1, <2>2
<1>7. FitsJson(x, Len(s))
  BY <1>5, <1>6, RoomSuffices
<1> QED
  BY <1>5, <1>7 DEF x, u

-----------------------------------------------------------------------------
\* What the argument needs of the types: pointers and labels.
PointersTyped ==
    /\ utf8 \in [Strs -> Buffers \cup {NoBuffer}]
    /\ DOMAIN heap \subseteq Buffers
    /\ pc \in [Threads -> {"idle"} \cup Steps \cup Ends]
    /\ str \in [Threads -> Strs]
    /\ cache \in [Threads -> Buffers \cup {NoBuffer}]

\* Under the GIL one call at a time is between its steps, and a str that it
\* found without UTF-8 has none until it publishes it.
GILKeepsApart ==
    gil => /\ \A t, u \in Threads : pc[t] \in Steps /\ pc[u] \in Steps => t = u
           /\ \A t \in Threads :
                \/ pc[t] \in {"make", "setcache"}
                \/ pc[t] = "length" /\ cache[t] = NoBuffer
                => utf8[str[t]] = NoBuffer

\* Without it no pointer is set by a plain store.
SwapsPointers == ~gil => \A t \in Threads : pc[t] # "setcache"

\* A pointer that was read stays that of the str until the call is done with it.
PointersStay == \A t \in Threads : pc[t] = "length" /\ cache[t] # NoBuffer => cache[t] = utf8[str[t]]

IInv == PointersTyped /\ GILKeepsApart /\ SwapsPointers /\ PointersStay /\ BuffersOwned

-----------------------------------------------------------------------------
\* There is no UTF-8 and no call before the first one.
LEMMA InitIInv == Init => IInv
  <1> SUFFICES ASSUME Init PROVE IInv
    OBVIOUS
  <1>1. \A t \in Threads : pc[t] = "idle" /\ cache[t] = NoBuffer
    BY DEF Init, NothingWritten
  <1>2. \A s \in Strs : utf8[s] = NoBuffer
    BY DEF Init, NothingWritten
  <1>3. DOMAIN heap = {}
    BY DEF Init, NothingWritten
  <1>4. (CHOOSE s \in Strs : TRUE) \in Strs
    BY StrsAssumption
  <1>5. PointersTyped
    BY <1>3, <1>4 DEF Init, NothingWritten, PointersTyped
  <1>6. GILKeepsApart /\ SwapsPointers /\ PointersStay
    BY <1>1 DEF GILKeepsApart, SwapsPointers, PointersStay, Steps
  <1>7. BuffersOwned
    BY <1>1, <1>2, <1>3 DEF BuffersOwned, Publishing
  <1> QED
    BY <1>5, <1>6, <1>7 DEF IInv

\* A step of t that leaves the pointers and buffers that all threads see, after
\* which it publishes nothing: it is then at `label', in s, with the pointer b.
Moved(t, label, s, b) ==
    /\ UNCHANGED <<gil, utf8, heap>>
    /\ pc' = [pc EXCEPT ![t] = label]
    /\ str' = [str EXCEPT ![t] = s]
    /\ cache' = [cache EXCEPT ![t] = b]
    /\ label \in {"idle", "length", "make", "copy", "encode"} \cup Ends
    /\ s \in Strs /\ b \in Buffers \cup {NoBuffer}
    /\ ~Publishing(t)
    /\ label \in Steps => MayRun(t)
    /\ gil /\ (label = "make" \/ (label = "length" /\ b = NoBuffer)) => utf8[s] = NoBuffer
    /\ label = "length" /\ b # NoBuffer => b = utf8[s]
    /\ label = "copy" => b # NoBuffer /\ b = utf8[s]

\* Such a step keeps the invariant.
LEMMA MovesOnly ==
    ASSUME IInv, NEW t \in Threads, NEW label, NEW s, NEW b, Moved(t, label, s, b)
    PROVE  IInv'
  <1> USE DEF Moved, Publishing
  <1>1. PointersTyped'
    BY DEF IInv, PointersTyped, Steps
  <1>2. /\ pc'[t] = label /\ str'[t] = s /\ cache'[t] = b
        /\ \A u \in Threads \ {t} : pc'[u] = pc[u] /\ str'[u] = str[u] /\ cache'[u] = cache[u]
    BY DEF IInv, PointersTyped
  <1>3. \A u \in Threads : Publishing(u)' <=> Publishing(u)
    BY <1>2 DEF Ends
  <1>4. GILKeepsApart'
    <2> SUFFICES ASSUME gil' PROVE GILKeepsApart'
      BY DEF GILKeepsApart
    <2>1. \A u \in Threads \ {t} : label \in Steps => pc[u] \notin Steps
      BY DEF MayRun
    <2> QED
      BY <1>2, <2>1 DEF IInv, GILKeepsApart, Steps, Ends
  <1>5. SwapsPointers'
    BY <1>2 DEF IInv, SwapsPointers, Ends
  <1>6. PointersStay'
    BY <1>2 DEF IInv, PointersStay
  <1>7. BuffersOwned'
    BY <1>2, <1>3 DEF IInv, BuffersOwned
  <1> QED
    BY <1>1, <1>4, <1>5, <1>6, <1>7 DEF IInv

\* The steps of a call before and after it publishes.
LEMMA CallKeepsIInv ==
    ASSUME IInv, NEW t \in Threads,
           \/ \E s \in Strs, write \in BOOLEAN : Begin(t, s, write)
           \/ ReadLength(t) \/ CopyCache(t) \/ EncodeDirectly(t) \/ Return(t)
    PROVE  IInv'
  <1>0. /\ str[t] \in Strs /\ cache[t] \in Buffers \cup {NoBuffer}
        /\ str = [str EXCEPT ![t] = str[t]] /\ cache = [cache EXCEPT ![t] = cache[t]]
    BY DEF IInv, PointersTyped
  <1>1. ASSUME NEW s \in Strs, NEW write \in BOOLEAN, Begin(t, s, write) PROVE IInv'
    <2>1. utf8[s] \in Buffers \cup {NoBuffer}
      BY DEF IInv, PointersTyped
    <2>2. CASE value[s].ascii
      <3>1. Moved(t, "done", s, cache[t])
        BY <1>0, <1>1, <2>2 DEF Begin, Goto, Moved, Publishing, shared, Ends, Steps
      <3> QED
        BY <3>1, MovesOnly
    <2>3. CASE ~value[s].ascii
      <3>1. Moved(t, "length", s, utf8[s])
        BY <1>1, <2>1, <2>3 DEF Begin, Goto, Moved, Publishing, shared
      <3> QED
        BY <3>1, MovesOnly
    <2> QED
      BY <2>2, <2>3
  <1>2. CASE ReadLength(t)
    <2> DEFINE label == IF HasCache(t) THEN UseCache(length'[t])
                        ELSE IF MakesCache(t) THEN "make" ELSE "encode"
    <2>1. pc' = [pc EXCEPT ![t] = label]
      BY <1>2 DEF ReadLength, Goto
    <2>2. /\ label \in {"make", "copy", "encode"}
          /\ label = "make" => ~HasCache(t)
          /\ label = "copy" => HasCache(t)
      BY DEF UseCache
    <2> HIDE DEF label
    <2>3. gil /\ label = "make" => utf8[str[t]] = NoBuffer
      BY <1>2, <2>2 DEF ReadLength, HasCache, IInv, GILKeepsApart
    <2>4. label = "copy" => cache[t] # NoBuffer /\ cache[t] = utf8[str[t]]
      BY <1>2, <2>2 DEF ReadLength, HasCache, IInv, PointersStay
    <2>5. Moved(t, label, str[t], cache[t])
      BY <1>0, <1>2, <2>1, <2>2, <2>3, <2>4 DEF ReadLength, Moved, Publishing, shared
    <2> QED
      BY <2>5, MovesOnly
  <1>3. CASE CopyCache(t)
    <2>1. Moved(t, "done", str[t], cache[t])
      BY <1>0, <1>3 DEF CopyCache, Goto, Moved, Publishing, shared, Ends
    <2> QED
      BY <2>1, MovesOnly
  <1>4. CASE EncodeDirectly(t)
    <2>1. PICK label \in {"done", "unencodable"} : pc' = [pc EXCEPT ![t] = label]
      BY <1>4 DEF EncodeDirectly, Goto
    <2>2. Moved(t, label, str[t], cache[t])
      BY <1>0, <1>4, <2>1 DEF EncodeDirectly, Moved, Publishing, shared, Ends
    <2> QED
      BY <2>2, MovesOnly
  <1>5. CASE Return(t)
    <2>1. Moved(t, "idle", str[t], NoBuffer)
      BY <1>0, <1>5 DEF Return, Goto, Moved, Publishing, shared, Ends, Steps
    <2> QED
      BY <2>1, MovesOnly
  <1> QED
    BY <1>1, <1>2, <1>3, <1>4, <1>5

\* A buffer is made where there was none, so it is not one that anybody uses.
LEMMA NewBuffer ==
    ASSUME IInv, NEW b \in Buffers \ DOMAIN heap
    PROVE  /\ b # NoBuffer
           /\ \A s \in Strs : utf8[s] # b
           /\ \A t \in Threads : Publishing(t) => cache[t] # b
  BY BuffersAssumption DEF IInv, BuffersOwned

\* A buffer is made that nobody else has, or none (write_cache_impl).
LEMMA MakeCacheKeepsIInv == ASSUME IInv, NEW t \in Threads, MakeCache(t) PROVE IInv'
  <1>0. /\ str[t] \in Strs /\ cache[t] \in Buffers \cup {NoBuffer}
        /\ str = [str EXCEPT ![t] = str[t]] /\ cache = [cache EXCEPT ![t] = cache[t]]
    BY DEF IInv, PointersTyped
  <1>1. ASSUME NEW label \in {"uncacheable", "nomemory"}, pc' = [pc EXCEPT ![t] = label],
               UNCHANGED <<heap, cache>>
        PROVE  IInv'
    <2>1. Moved(t, label, str[t], cache[t])
      BY <1>0, <1>1 DEF MakeCache, Moved, Publishing, Ends, Steps
    <2> QED
      BY <2>1, MovesOnly
  <1>2. ASSUME NEW b \in Buffers \ DOMAIN heap, NEW bytes, Allocated(b, bytes),
               cache' = [cache EXCEPT ![t] = b], Goto(t, IF gil THEN "setcache" ELSE "setlength")
        PROVE  IInv'
    <2> DEFINE label == IF gil THEN "setcache" ELSE "setlength"
    <2>1. /\ pc[t] = "make" /\ MayRun(t)
          /\ gil' = gil /\ utf8' = utf8 /\ str' = str /\ pc' = [pc EXCEPT ![t] = label]
      BY <1>2 DEF MakeCache, Goto
    <2>2. DOMAIN heap' = DOMAIN heap \cup {b}
      BY <1>2 DEF Allocated
    <2>3. label \in {"setcache", "setlength"} /\ (gil <=> label = "setcache")
      OBVIOUS
    <2> HIDE DEF label
    <2>4. /\ pc'[t] = label /\ cache'[t] = b
          /\ \A u \in Threads \ {t} : pc'[u] = pc[u] /\ cache'[u] = cache[u]
      BY <1>2, <2>1 DEF IInv, PointersTyped
    <2>5. PointersTyped'
      BY <1>2, <2>1, <2>2, <2>3 DEF IInv, PointersTyped, Steps
    <2>6. GILKeepsApart'
      BY <2>1, <2>3, <2>4 DEF IInv, GILKeepsApart, Steps
    <2>7. SwapsPointers'
      BY <2>1, <2>3, <2>4 DEF IInv, SwapsPointers
    <2>8. PointersStay'
      BY <2>1, <2>3, <2>4 DEF IInv, PointersStay
    <2>9. BuffersOwned'
      BY <1>2, <2>1, <2>2, <2>3, <2>4, NewBuffer DEF IInv, BuffersOwned, Publishing
    <2> QED
      BY <2>5, <2>6, <2>7, <2>8, <2>9 DEF IInv
  <1>3. \/ \E b \in Buffers \ DOMAIN heap : \E bytes :
             /\ Allocated(b, bytes) /\ cache' = [cache EXCEPT ![t] = b]
             /\ Goto(t, IF gil THEN "setcache" ELSE "setlength")
        \/ \E label \in {"uncacheable", "nomemory"} :
             pc' = [pc EXCEPT ![t] = label] /\ UNCHANGED <<heap, cache>>
    BY DEF MakeCache, Goto
  <1> QED
    BY <1>1, <1>2, <1>3

\* A pointer is stored where there was none: that of a call which holds the buffer.
LEMMA PublishKeepsIInv ==
    ASSUME IInv, NEW t \in Threads, pc[t] \in {"setcache", "swap"}, MayRun(t),
           utf8[str[t]] = NoBuffer, utf8' = [utf8 EXCEPT ![str[t]] = cache[t]],
           UNCHANGED <<gil, heap, str, cache>>,
           NEW label \in {"copy", "encode"}, pc' = [pc EXCEPT ![t] = label]
    PROVE  IInv'
  <1>1. cache[t] \in Buffers /\ cache[t] # NoBuffer /\ str[t] \in Strs
    BY BuffersAssumption DEF IInv, PointersTyped, BuffersOwned, Publishing
  <1>2. /\ pc'[t] = label /\ \A u \in Threads \ {t} : pc'[u] = pc[u]
        /\ utf8'[str[t]] = cache[t] /\ \A s \in Strs \ {str[t]} : utf8'[s] = utf8[s]
    BY DEF IInv, PointersTyped
  <1>3. \A u \in Threads : Publishing(u)' <=> Publishing(u) /\ u # t
    BY <1>2 DEF Publishing
  <1>4. PointersTyped'
    BY <1>1 DEF IInv, PointersTyped, Steps
  <1>5. GILKeepsApart'
    <2> SUFFICES ASSUME gil' PROVE GILKeepsApart'
      BY DEF GILKeepsApart
    <2>1. \A u \in Threads \ {t} : pc'[u] \notin Steps
      BY <1>2 DEF MayRun
    <2> QED
      BY <1>2, <2>1 DEF GILKeepsApart, Steps
  <1>6. SwapsPointers' /\ PointersStay'
    BY <1>1, <1>2 DEF IInv, SwapsPointers, PointersStay, PointersTyped
  <1>7. BuffersOwned'
    <2>1. Publishing(t)
      BY DEF Publishing
    <2>2. \A u \in Threads : pc'[u] = "copy" => cache'[u] # NoBuffer /\ cache'[u] = utf8'[str'[u]]
      BY <1>1, <1>2 DEF IInv, PointersTyped, BuffersOwned
    <2>3. \A b \in DOMAIN heap : \/ \E s \in Strs : utf8'[s] = b
                                 \/ \E u \in Threads : Publishing(u)' /\ cache[u] = b
      <3> TAKE b \in DOMAIN heap
      <3>1. b # NoBuffer
        BY BuffersAssumption DEF IInv, PointersTyped
      <3>2. CASE \E s \in Strs : utf8[s] = b
        BY <1>2, <3>1, <3>2
      <3>3. CASE \E u \in Threads : Publishing(u) /\ cache[u] = b
        BY <1>1, <1>2, <1>3, <3>3
      <3> QED
        BY <3>2, <3>3 DEF IInv, BuffersOwned
    <2> QED
      BY <1>1, <1>2, <1>3, <2>1, <2>2, <2>3 DEF IInv, BuffersOwned
  <1> QED
    BY <1>4, <1>5, <1>6, <1>7 DEF IInv

\* Under the GIL nobody published UTF-8 for the str since the call found none (set_cache).
LEMMA SetCacheKeepsIInv == ASSUME IInv, NEW t \in Threads, SetCache(t) PROVE IInv'
  <1>1. gil
    BY DEF SetCache, IInv, SwapsPointers
  <1>2. utf8[str[t]] = NoBuffer
    BY <1>1 DEF SetCache, IInv, GILKeepsApart
  <1>3. PICK label \in {"copy", "encode"} : pc' = [pc EXCEPT ![t] = label]
    BY DEF SetCache, Goto, UseCache
  <1> QED
    BY <1>2, <1>3, PublishKeepsIInv DEF SetCache, local

\* The length is stored; the buffer stays that of the call (set_cache).
LEMMA SetLengthKeepsIInv == ASSUME IInv, NEW t \in Threads, SetLength(t) PROVE IInv'
  <1>1. /\ pc[t] = "setlength" /\ pc'[t] = "swap"
        /\ \A u \in Threads \ {t} : pc'[u] = pc[u]
        /\ UNCHANGED <<gil, utf8, heap, str, cache>>
    BY DEF SetLength, Goto, local, IInv, PointersTyped
  <1>2. \A u \in Threads : Publishing(u)' <=> Publishing(u)
    BY <1>1 DEF Publishing
  <1>3. PointersTyped'
    BY DEF SetLength, Goto, local, IInv, PointersTyped, Steps
  <1>4. GILKeepsApart'
    BY <1>1 DEF IInv, GILKeepsApart, Steps
  <1>5. SwapsPointers' /\ PointersStay'
    BY <1>1 DEF IInv, SwapsPointers, PointersStay
  <1>6. BuffersOwned'
    BY <1>1, <1>2 DEF IInv, BuffersOwned
  <1> QED
    BY <1>3, <1>4, <1>5, <1>6 DEF IInv

\* A race is won, or the own buffer freed (set_cache).
LEMMA SwapPointerKeepsIInv == ASSUME IInv, NEW t \in Threads, SwapPointer(t) PROVE IInv'
  <1>1. PICK label \in {"copy", "encode"} : pc' = [pc EXCEPT ![t] = label]
    BY DEF SwapPointer, Goto, UseCache
  <1>2. CASE ~LostRace(str[t])
    BY <1>1, <1>2, PublishKeepsIInv DEF SwapPointer, LostRace
  <1>3. CASE LostRace(str[t])
    <2>1. /\ pc[t] = "swap" /\ MayRun(t) /\ UNCHANGED <<gil, utf8, str>>
          /\ DOMAIN heap' = DOMAIN heap \ {cache[t]}
          /\ cache' = [cache EXCEPT ![t] = utf8[str[t]]]
          /\ utf8[str[t]] # NoBuffer
      BY <1>3 DEF SwapPointer, LostRace, Freed
    <2>2. str[t] \in Strs /\ utf8[str[t]] \in Buffers
      BY <2>1 DEF IInv, PointersTyped
    <2>3. /\ pc'[t] = label /\ cache'[t] = utf8[str[t]]
          /\ \A u \in Threads \ {t} : pc'[u] = pc[u] /\ cache'[u] = cache[u]
      BY <1>1, <2>1 DEF IInv, PointersTyped
    <2>4. \A u \in Threads : Publishing(u)' <=> Publishing(u) /\ u # t
      BY <2>3 DEF Publishing
    <2>5. PointersTyped'
      BY <1>1, <2>1, <2>2 DEF IInv, PointersTyped, Steps
    <2>6. GILKeepsApart'
      <3> SUFFICES ASSUME gil' PROVE GILKeepsApart'
        BY DEF GILKeepsApart
      <3>1. \A u \in Threads \ {t} : pc'[u] \notin Steps
        BY <2>1, <2>3 DEF MayRun
      <3> QED
        BY <2>3, <3>1 DEF GILKeepsApart, Steps
    <2>7. SwapsPointers' /\ PointersStay'
      BY <2>1, <2>3 DEF IInv, SwapsPointers, PointersStay
    <2>8. BuffersOwned'
      <3>1. Publishing(t)
        BY <2>1 DEF Publishing
      <3>2. cache[t] # utf8[str[t]] /\ \A s \in Strs : utf8[s] # cache[t]
        BY <2>2, <3>1 DEF IInv, BuffersOwned
      <3>3. \A u \in Threads \ {t} : Publishing(u) => cache[u] # cache[t]
        BY <3>1 DEF IInv, BuffersOwned
      <3>4. \A s \in Strs : utf8[s] # NoBuffer => utf8[s] \in DOMAIN heap'
        BY <2>1, <3>2 DEF IInv, BuffersOwned
      <3>5. \A u \in Threads : Publishing(u)' => cache'[u] \in DOMAIN heap'
        BY <2>1, <2>3, <2>4, <3>3 DEF IInv, BuffersOwned
      <3>6. \A b \in DOMAIN heap' : \/ \E s \in Strs : utf8[s] = b
                                    \/ \E u \in Threads : Publishing(u)' /\ cache'[u] = b
        BY <2>1, <2>3, <2>4 DEF IInv, BuffersOwned
      <3>7. \A u \in Threads : pc'[u] = "copy" => cache'[u] # NoBuffer /\ cache'[u] = utf8[str[u]]
        BY <2>1, <2>3 DEF IInv, BuffersOwned
      <3> QED
        BY <2>1, <2>3, <2>4, <3>4, <3>5, <3>6, <3>7 DEF IInv, BuffersOwned
    <2> QED
      BY <2>5, <2>6, <2>7, <2>8 DEF IInv
  <1> QED
    BY <1>2, <1>3

\* Python gives UTF-8 only to a str without.
LEMMA PythonCachesKeepsIInv == ASSUME IInv, NEW s \in Strs, PythonCaches(s) PROVE IInv'
  <1>1. PICK b \in Buffers \ DOMAIN heap : /\ DOMAIN heap' = DOMAIN heap \cup {b}
                                           /\ utf8' = [utf8 EXCEPT ![s] = b]
    BY DEF PythonCaches, Allocated
  <1>2. /\ utf8[s] = NoBuffer /\ UNCHANGED <<gil, pc, str, cache>>
        /\ gil => \A t \in Threads : pc[t] \notin Steps
    BY DEF PythonCaches, local
  <1>3. utf8'[s] = b /\ \A r \in Strs \ {s} : utf8'[r] = utf8[r]
    BY <1>1 DEF IInv, PointersTyped
  <1>4. \A t \in Threads : Publishing(t)' <=> Publishing(t)
    BY <1>2 DEF Publishing
  <1>5. PointersTyped'
    BY <1>1, <1>2 DEF IInv, PointersTyped
  <1>6. GILKeepsApart'
    BY <1>2 DEF GILKeepsApart, Steps
  <1>7. SwapsPointers' /\ PointersStay'
    BY <1>2, <1>3 DEF IInv, SwapsPointers, PointersStay, PointersTyped
  <1>8. BuffersOwned'
    <2>1. \A t \in Threads : pc[t] = "copy" => cache[t] # NoBuffer /\ cache[t] = utf8'[str[t]]
      BY <1>2, <1>3 DEF IInv, BuffersOwned, PointersTyped
    <2>2. \A c \in DOMAIN heap : c # NoBuffer
      BY BuffersAssumption DEF IInv, PointersTyped
    <2> QED
      BY <1>1, <1>2, <1>3, <1>4, <2>1, <2>2, NewBuffer DEF IInv, BuffersOwned
  <1> QED
    BY <1>5, <1>6, <1>7, <1>8 DEF IInv

\* The UTF-8 of a str that goes belongs to nobody else.
LEMMA StrFreedKeepsIInv == ASSUME IInv, NEW s \in Strs, StrFreed(s) PROVE IInv'
  <1>1. /\ utf8[s] # NoBuffer /\ DOMAIN heap' = DOMAIN heap \ {utf8[s]}
        /\ utf8' = [utf8 EXCEPT ![s] = NoBuffer] /\ UNCHANGED <<gil, pc, str, cache>>
        /\ \A t \in Threads : pc[t] \in Steps => str[t] # s
    BY DEF StrFreed, Freed, local
  <1>2. utf8'[s] = NoBuffer /\ \A r \in Strs \ {s} : utf8'[r] = utf8[r]
    BY <1>1 DEF IInv, PointersTyped
  <1>3. \A t \in Threads : pc[t] \in Steps => utf8'[str[t]] = utf8[str[t]]
    BY <1>1, <1>2 DEF IInv, PointersTyped
  <1>4. \A t \in Threads : Publishing(t)' <=> Publishing(t)
    BY <1>1 DEF Publishing
  <1>5. PointersTyped'
    BY <1>1 DEF IInv, PointersTyped
  <1>6. GILKeepsApart'
    BY <1>1, <1>3 DEF IInv, GILKeepsApart, Steps
  <1>7. SwapsPointers' /\ PointersStay'
    BY <1>1, <1>3 DEF IInv, SwapsPointers, PointersStay, Steps
  <1>8. BuffersOwned'
    <2>1. \A t \in Threads : pc[t] = "copy" => cache[t] # NoBuffer /\ cache[t] = utf8'[str[t]]
      BY <1>1, <1>3 DEF IInv, BuffersOwned, Steps
    <2>2. \A r \in Strs \ {s} : utf8[r] # utf8[s]
      BY <1>1 DEF IInv, BuffersOwned
    <2>3. \A t \in Threads : Publishing(t) => cache[t] # utf8[s]
      BY DEF IInv, BuffersOwned
    <2>4. \A r \in Strs : utf8'[r] # NoBuffer => utf8'[r] \in DOMAIN heap'
      BY <1>1, <1>2, <2>2 DEF IInv, BuffersOwned
    <2>5. \A t \in Threads : Publishing(t)' => cache[t] \in DOMAIN heap'
      BY <1>1, <1>4, <2>3 DEF IInv, BuffersOwned
    <2>6. \A b \in DOMAIN heap' : \/ \E r \in Strs : utf8'[r] = b
                                  \/ \E t \in Threads : Publishing(t)' /\ cache[t] = b
      BY <1>1, <1>2, <1>4 DEF IInv, BuffersOwned
    <2>7. \A q, r \in Strs : utf8'[q] = utf8'[r] /\ utf8'[q] # NoBuffer => q = r
      BY <1>2 DEF IInv, BuffersOwned
    <2>8. \A t \in Threads, r \in Strs : Publishing(t)' => cache[t] # utf8'[r]
      <3>1. \A t \in Threads : Publishing(t) => cache[t] # NoBuffer
        BY BuffersAssumption DEF IInv, PointersTyped, BuffersOwned
      <3> QED
        BY <1>2, <1>4, <3>1 DEF IInv, BuffersOwned
    <2> QED
      BY <1>1, <1>4, <2>1, <2>4, <2>5, <2>6, <2>7, <2>8 DEF IInv, BuffersOwned
  <1> QED
    BY <1>5, <1>6, <1>7, <1>8 DEF IInv

-----------------------------------------------------------------------------
\* What a call needs of what it was given, and of the lengths.
ValuesTyped ==
    /\ gil \in Builds
    /\ value \in [Strs -> Values]
    /\ utf8Length \in [Strs -> Nat]
    /\ mayWrite \in [Threads -> BOOLEAN]
    /\ length \in [Threads -> Nat]
    /\ out \in [Threads -> Pieces]

\* The buffer b, with that length, holds the UTF-8 of s.
Holds(b, len, s) ==
    /\ heap[b] = Utf8(s) \o Terminator
    /\ len = Len(Utf8(s))
    /\ ~HasSurrogate(s)

\* The UTF-8 that others see.
StrKept(s) == utf8[s] # NoBuffer => Holds(utf8[s], utf8Length[s], s)

\* x is the JSON text of s, in what is reserved for it.
IsJson(x, s) ==
    /\ ~HasSurrogate(s)
    /\ x.text = Text(FALSE, value[s].chars)
    /\ FitsJson(x, Len(value[s].chars))

\* What a call made and is to publish, or copies, or wrote.
CallKept(t) ==
    /\ Publishing(t) => Holds(cache[t], length[t], str[t])
    /\ Publishing(t) => out[t].reach <= RawRoom(value[str[t]].kind, Len(value[str[t]].chars))
    /\ pc[t] = "swap" => utf8Length[str[t]] = Len(Utf8(str[t]))
    /\ pc[t] = "copy" => length[t] = Len(Utf8(str[t]))
    /\ pc[t] = "done" => IsJson(out[t], str[t])
    /\ pc[t] = "unencodable" =>
        HasSurrogate(str[t]) /\ FitsJson(out[t], Len(value[str[t]].chars))
    /\ pc[t] = "uncacheable" =>
        HasSurrogate(str[t]) /\ out[t].reach <= RawRoom(value[str[t]].kind, Len(value[str[t]].chars))

TextInv ==
    /\ ValuesTyped
    /\ \A s \in Strs : StrKept(s)
    /\ \A t \in Threads : CallKept(t)

-----------------------------------------------------------------------------
\* A str of those there are.
LEMMA ValueFacts ==
    ASSUME ValuesTyped, NEW s \in Strs
    PROVE  /\ value[s].kind \in Kinds /\ value[s].ascii \in BOOLEAN /\ value[s].chars \in Seq(Chars)
           /\ OfItsKind(value[s].kind, value[s].chars)
           /\ value[s].ascii => \A i \in 1 .. Len(value[s].chars) : Size(value[s].chars[i]) = 1
<1> DEFINE v == value[s]
<1>1. v \in Values
  BY DEF ValuesTyped
<1> HIDE DEF v
<1>2. v \in [kind : Kinds, ascii : BOOLEAN, compact : BOOLEAN, chars : Seq(Chars)]
  BY <1>1, ValuesAssumption
<1>3. v.kind \in Kinds /\ v.ascii \in BOOLEAN /\ v.chars \in Seq(Chars)
  BY <1>2
<1>4. ASSUME NEW i \in 1 .. Len(v.chars)
      PROVE  /\ Size(v.chars[i]) <= MaxUtf8Bytes[v.kind]
             /\ v.ascii => Size(v.chars[i]) = 1
  <2>1. Size(v.chars[i]) <= IF v.ascii THEN 1 ELSE MaxUtf8Bytes[v.kind]
    BY <1>1, ValuesAssumption
  <2>2. v.chars[i] \in Chars
    BY <1>3, ElementOfSeq
  <2>3. Size(v.chars[i]) \in 1 .. 4
    BY <2>2, CharFacts
  <2>4. MaxUtf8Bytes[v.kind] \in {2, 3, 4}
    BY <1>3 DEF MaxUtf8Bytes, Kinds
  <2> DEFINE m == MaxUtf8Bytes[v.kind]
             z == Size(v.chars[i])
  <2>5. z <= (IF v.ascii THEN 1 ELSE m) /\ z \in 1 .. 4 /\ m \in {2, 3, 4}
    BY <2>1, <2>3, <2>4
  <2> HIDE DEF m, z
  <2>6. z <= m /\ (v.ascii => z = 1)
    BY <2>5
  <2> QED
    BY <2>6 DEF m, z
<1>5. OfItsKind(v.kind, v.chars)
  BY <1>4 DEF OfItsKind
<1> QED
  BY <1>3, <1>4, <1>5 DEF v

\* Its UTF-8.
LEMMA Utf8Facts ==
    ASSUME ValuesTyped, NEW s \in Strs
    PROVE  /\ Utf8(s) = Text(TRUE, value[s].chars)
           /\ Utf8(s) \in Seq(TextBytes)
           /\ HasSurrogate(s) <=> ~NoSurrogate(value[s].chars)
<1>1. value[s].chars \in Seq(Chars)
  BY ValueFacts
<1>2. Utf8(s) = Text(TRUE, value[s].chars)
  BY <1>1, RawText DEF Utf8
<1>3. CharTexts(TRUE) \in [Chars -> Seq(TextBytes)]
  BY TextsTyped
<1>4. Text(TRUE, value[s].chars) \in Seq(TextBytes)
  BY <1>1, <1>3, FlatTyped DEF Text
<1>5. HasSurrogate(s) <=> ~NoSurrogate(value[s].chars)
  BY DEF HasSurrogate, NoSurrogate
<1> QED
  BY <1>2, <1>4, <1>5

\* What precedes the terminator.
LEMMA BeforeTheEnd ==
    ASSUME NEW T, NEW a \in Seq(T), NEW b \in Seq(T)
    PROVE  SubSeq(a \o b, 1, Len(a)) = a
<1>1. a \o b \in Seq(T) /\ Len(a \o b) = Len(a) + Len(b) /\ \A i \in 1 .. Len(a) : (a \o b)[i] = a[i]
  BY ConcatProperties
<1>2. Len(a) \in Nat /\ Len(b) \in Nat
  BY LenProperties
<1> DEFINE c == a \o b
<1> HIDE DEF c
<1>3. c \in Seq(T) /\ Len(a) <= Len(c) /\ \A i \in 1 .. Len(a) : c[i] = a[i]
  BY <1>1, <1>2 DEF c
<1> DEFINE d == SubSeq(c, 1, Len(a))
<1>4. d \in Seq(T) /\ Len(d) = Len(a) /\ \A i \in 1 .. Len(a) : d[i] = c[i]
  BY <1>2, <1>3, SubSeqProperties
<1> HIDE DEF d
<1>5. d = a
  <2>1. \A i \in 1 .. Len(d) : d[i] = a[i]
    BY <1>3, <1>4
  <2> QED
    BY <1>4, <2>1, SeqEqual
<1> QED
  BY <1>5 DEF c, d

\* What precedes the terminator of the UTF-8 of a str is the UTF-8.
LEMMA Terminated ==
    ASSUME ValuesTyped, NEW s \in Strs
    PROVE  SubSeq(Utf8(s) \o Terminator, 1, Len(Utf8(s))) = Utf8(s)
<1> DEFINE T == TextBytes \cup {<<"end">>}
           u == Utf8(s)
           e == Terminator
<1>1. u \in Seq(T) /\ e \in Seq(T)
  <2>1. u \in Seq(TextBytes)
    BY Utf8Facts
  <2>2. TextBytes \subseteq T
    OBVIOUS
  <2> HIDE DEF T
  <2>3. u \in Seq(T)
    <3> HIDE DEF u
    <3> QED
      BY <2>1, <2>2, SeqMonotonic
  <2>4. <<"end">> \in T
    BY DEF T
  <2>5. e \in Seq(T)
    BY <2>4 DEF Terminator
  <2> QED
    BY <2>3, <2>5
<1> HIDE DEF T, u, e
<1>2. SubSeq(u \o e, 1, Len(u)) = u
  BY <1>1, BeforeTheEnd
<1> QED
  BY <1>2 DEF u, e

\* The bytes of a buffer do not change while it is there.
HeapStays == \A b \in DOMAIN heap \cap DOMAIN heap' : heap'[b] = heap[b]

\* The length of s stays, or becomes what it should be.
LengthKept(s) == utf8Length'[s] \in {utf8Length[s], Len(Utf8(s))}

\* What u knows stays.
CallStays(u) ==
    /\ pc'[u] = pc[u] /\ str'[u] = str[u] /\ cache'[u] = cache[u]
    /\ length'[u] = length[u] /\ out'[u] = out[u]

\* What is said of a str depends on its characters alone, which do not change.
LEMMA SameStr ==
    ASSUME value' = value, NEW s
    PROVE  /\ Utf8(s)' = Utf8(s) /\ (HasSurrogate(s)' <=> HasSurrogate(s))
           /\ \A x : IsJson(x, s)' <=> IsJson(x, s)
<1>1. Utf8(s)' = Utf8(s) /\ (HasSurrogate(s)' <=> HasSurrogate(s))
  BY DEF Utf8, HasSurrogate
<1> QED
  BY <1>1 DEF IsJson

\* The UTF-8 of a str stays that of the str, if its length is not lost.
LEMMA StrsKeep ==
    ASSUME IInv, IInv', HeapStays, value' = value,
           NEW s \in Strs, StrKept(s), utf8'[s] = utf8[s], LengthKept(s)
    PROVE  StrKept(s)'
<1>1. ASSUME utf8[s] # NoBuffer
      PROVE  /\ heap'[utf8'[s]] = Utf8(s)' \o Terminator
             /\ utf8Length'[s] = Len(Utf8(s)') /\ ~HasSurrogate(s)'
  <2>1. utf8[s] \in DOMAIN heap /\ utf8[s] \in DOMAIN heap'
    BY <1>1 DEF IInv, BuffersOwned
  <2>2. heap'[utf8[s]] = heap[utf8[s]]
    BY <2>1 DEF HeapStays
  <2>3. Utf8(s)' = Utf8(s) /\ (HasSurrogate(s)' <=> HasSurrogate(s))
    BY SameStr
  <2>4. heap[utf8[s]] = Utf8(s) \o Terminator /\ utf8Length[s] = Len(Utf8(s)) /\ ~HasSurrogate(s)
    BY <1>1 DEF StrKept, Holds
  <2>5. utf8Length'[s] = Len(Utf8(s))
    BY <2>4 DEF LengthKept
  <2> QED
    BY <2>2, <2>3, <2>4, <2>5
<1> QED
  BY <1>1 DEF StrKept, Holds

\* A call keeps what it made, whatever the others do to other buffers.
LEMMA CallsKeep ==
    ASSUME IInv, IInv', HeapStays, value' = value,
           NEW u \in Threads, CallKept(u), CallStays(u), pc[u] = "swap" => LengthKept(str[u])
    PROVE  CallKept(u)'
<1>1. Publishing(u)' <=> Publishing(u)
  BY DEF Publishing, CallStays
<1>2. \A s : Utf8(s)' = Utf8(s) /\ (HasSurrogate(s)' <=> HasSurrogate(s))
  BY SameStr
<1>3. \A s, x : IsJson(x, s)' <=> IsJson(x, s)
  BY SameStr
<1>4. ASSUME Publishing(u) PROVE Holds(cache[u], length[u], str[u])'
  <2>1. cache[u] \in DOMAIN heap /\ cache[u] \in DOMAIN heap'
    BY <1>1, <1>4 DEF IInv, BuffersOwned, CallStays
  <2>2. heap'[cache[u]] = heap[cache[u]]
    BY <2>1 DEF HeapStays
  <2>3. Holds(cache[u], length[u], str[u])
    BY <1>4 DEF CallKept
  <2> QED
    BY <1>2, <2>2, <2>3 DEF Holds, CallStays
<1>5. pc[u] = "swap" => utf8Length'[str[u]] = Len(Utf8(str[u]))
  BY DEF CallKept, LengthKept
<1> QED
  BY <1>1, <1>2, <1>3, <1>4, <1>5 DEF CallKept, CallStays

\* A step of t, before it publishes or after, that leaves what all threads see.
LEMMA OneMoves ==
    ASSUME IInv, IInv', TextInv, NEW t \in Threads, UNCHANGED <<gil, value, utf8, utf8Length, heap>>,
           \A u \in Threads \ {t} : CallStays(u), CallKept(t)', ValuesTyped'
    PROVE  TextInv'
<1>1. HeapStays /\ \A s : LengthKept(s)
  BY DEF HeapStays, LengthKept
<1>2. \A s \in Strs : StrKept(s)'
  BY <1>1, StrsKeep DEF TextInv
<1>3. ASSUME NEW u \in Threads \ {t} PROVE CallKept(u)'
  BY <1>1, CallsKeep DEF TextInv
<1> QED
  BY <1>2, <1>3 DEF TextInv

\* What a thread has at the moment, written as what a step does not change.
LEMMA Unchanging ==
    ASSUME IInv, ValuesTyped, NEW t \in Threads
    PROVE  /\ str = [str EXCEPT ![t] = str[t]] /\ cache = [cache EXCEPT ![t] = cache[t]]
           /\ length = [length EXCEPT ![t] = length[t]] /\ out = [out EXCEPT ![t] = out[t]]
           /\ str[t] \in Strs /\ length[t] \in Nat /\ out[t] \in Pieces
  BY DEF IInv, PointersTyped, ValuesTyped

\* Nothing is a piece of output, too.
LEMMA NothingIsAPiece == Nothing \in Pieces
<1>1. <<>> \in Seq(TextBytes)
  BY EmptySeq
<1> QED
  BY <1>1 DEF Nothing, Piece, Pieces

\* Where a call is nothing is said of it.
LEMMA NothingToKeep ==
    ASSUME NEW t \in Threads, pc'[t] \in {"idle", "length", "make", "encode", "nomemory"}
    PROVE  CallKept(t)'
  BY DEF CallKept, Publishing

\* An ASCII str is written at once; of another one the pointer is read (b_buf_apd_str).
LEMMA BeginKeepsText ==
    ASSUME IInv, IInv', TextInv, NEW t \in Threads, NEW s \in Strs, NEW write \in BOOLEAN, Begin(t, s, write)
    PROVE  TextInv'
<1>1. ValuesTyped
  BY DEF TextInv
<1>2. /\ UNCHANGED <<gil, value, utf8, utf8Length, heap, length>>
      /\ str' = [str EXCEPT ![t] = s] /\ mayWrite' = [mayWrite EXCEPT ![t] = write]
  BY DEF Begin, shared
<1>3. CASE value[s].ascii
  <2> DEFINE c == value[s].chars
             x == EncodeAscii(value[s].compact, c)
  <2>1. pc' = [pc EXCEPT ![t] = "done"] /\ out' = [out EXCEPT ![t] = x] /\ cache' = cache
    BY <1>3 DEF Begin, Goto, Wrote
  <2>2. c \in Seq(Chars) /\ \A i \in 1 .. Len(c) : Size(c[i]) = 1
    BY <1>1, <1>3, ValueFacts
  <2>3. HasSurrogate(s) <=> ~NoSurrogate(c)
    BY <1>1, Utf8Facts
  <2> HIDE DEF c
  <2>4. x \in Pieces /\ NoSurrogate(c) /\ x.text = Text(FALSE, c) /\ FitsJson(x, Len(c))
    BY <2>2, AsciiWrites
  <2> HIDE DEF x
  <2>5. IsJson(x, s)
    BY <2>3, <2>4 DEF IsJson, c
  <2>6. /\ pc'[t] = "done" /\ str'[t] = s /\ out'[t] = x
        /\ \A u \in Threads \ {t} : CallStays(u)
    BY <1>1, <1>2, <2>1 DEF IInv, PointersTyped, ValuesTyped, CallStays
  <2>7. CallKept(t)'
    <3>1. value' = value
      BY <1>2
    <3>2. ~HasSurrogate(s)'
      BY <2>5, <3>1, SameStr DEF IsJson
    <3>3. IsJson(out[t], str[t])'
      <4>1. out'[t].text = Text(FALSE, value'[s].chars) /\ FitsJson(out'[t], Len(value'[s].chars))
        BY <2>5, <2>6, <3>1 DEF IsJson
      <4> QED
        BY <2>6, <3>2, <4>1 DEF IsJson
    <3>4. pc'[t] = "done"
      BY <2>6
    <3> QED
      BY <3>3, <3>4 DEF CallKept, Publishing
  <2>8. ValuesTyped'
    BY <1>1, <1>2, <2>1, <2>4 DEF ValuesTyped
  <2> QED
    BY <1>2, <2>6, <2>7, <2>8, OneMoves
<1>4. CASE ~value[s].ascii
  <2>1. pc' = [pc EXCEPT ![t] = "length"] /\ out' = out /\ cache' = [cache EXCEPT ![t] = utf8[s]]
    BY <1>4 DEF Begin, Goto
  <2>2. pc'[t] = "length" /\ \A u \in Threads \ {t} : CallStays(u)
    BY <1>1, <1>2, <2>1 DEF IInv, PointersTyped, ValuesTyped, CallStays
  <2>3. CallKept(t)'
    BY <2>2, NothingToKeep
  <2>4. ValuesTyped'
    BY <1>1, <1>2, <2>1 DEF ValuesTyped
  <2> QED
    BY <1>2, <2>2, <2>3, <2>4, OneMoves
<1> QED
  BY <1>3, <1>4

\* The length that is read is that of the UTF-8 that was found.
LEMMA ReadLengthKeepsText ==
    ASSUME IInv, IInv', TextInv, NEW t \in Threads, ReadLength(t)
    PROVE  TextInv'
<1>1. ValuesTyped
  BY DEF TextInv
<1>2. /\ UNCHANGED <<gil, value, utf8, utf8Length, heap, str, mayWrite, cache, out>>
      /\ pc[t] = "length" /\ length' = [length EXCEPT ![t] = utf8Length[str[t]]]
  BY DEF ReadLength, shared
<1> DEFINE label == IF HasCache(t) THEN UseCache(length'[t])
                    ELSE IF MakesCache(t) THEN "make" ELSE "encode"
<1>3. pc' = [pc EXCEPT ![t] = label] /\ label \in {"make", "copy", "encode"} /\ (label = "copy" => HasCache(t))
  BY DEF ReadLength, Goto, UseCache
<1> HIDE DEF label
<1>4. str[t] \in Strs /\ utf8Length[str[t]] \in Nat
  BY <1>1 DEF IInv, PointersTyped, ValuesTyped
<1>5. /\ pc'[t] = label /\ length'[t] = utf8Length[str[t]]
      /\ \A u \in Threads \ {t} : CallStays(u)
  BY <1>1, <1>2, <1>3 DEF IInv, PointersTyped, ValuesTyped, CallStays
<1>6. CallKept(t)'
  <2>1. CASE label = "copy"
    <3>1. cache[t] # NoBuffer /\ cache[t] = utf8[str[t]]
      BY <1>2, <1>3, <2>1 DEF HasCache, IInv, PointersStay
    <3>2. StrKept(str[t])
      BY <1>4 DEF TextInv
    <3>3. utf8Length[str[t]] = Len(Utf8(str[t]))
      BY <3>1, <3>2 DEF StrKept, Holds
    <3>4. Utf8(str[t])' = Utf8(str[t])
      BY <1>2 DEF Utf8
    <3>5. length'[t] = Len(Utf8(str[t])')
      BY <1>5, <3>3, <3>4
    <3> QED
      BY <1>5, <2>1, <3>5 DEF CallKept, Publishing
  <2>2. CASE label # "copy"
    BY <1>3, <1>5, <2>2, NothingToKeep
  <2> QED
    BY <2>1, <2>2
<1>7. ValuesTyped'
  BY <1>1, <1>2, <1>4 DEF ValuesTyped
<1> QED
  BY <1>2, <1>5, <1>6, <1>7, OneMoves

\* The UTF-8 of the str is copied, and becomes its JSON text.
LEMMA CopyCacheKeepsText ==
    ASSUME IInv, IInv', TextInv, NEW t \in Threads, CopyCache(t)
    PROVE  TextInv'
<1>1. ValuesTyped
  BY DEF TextInv
<1> DEFINE s == str[t]
           c == value[s].chars
           x == CopyEscaping(VectorBytes, SubSeq(heap[cache[t]], 1, length[t]))
<1>2. /\ UNCHANGED <<gil, value, utf8, utf8Length, heap, str, mayWrite, cache, length>>
      /\ pc[t] = "copy" /\ pc' = [pc EXCEPT ![t] = "done"] /\ out' = [out EXCEPT ![t] = x]
  BY DEF CopyCache, shared, Goto, Wrote
<1>3. s \in Strs
  BY DEF IInv, PointersTyped
<1>4. cache[t] # NoBuffer /\ cache[t] = utf8[s]
  BY <1>2 DEF IInv, BuffersOwned
<1>5. heap[cache[t]] = Utf8(s) \o Terminator /\ ~HasSurrogate(s) /\ length[t] = Len(Utf8(s))
  <2>1. StrKept(s) /\ CallKept(t)
    BY <1>3 DEF TextInv
  <2> QED
    BY <1>2, <1>4, <2>1 DEF StrKept, Holds, CallKept
<1>6. x = CopyEscaping(VectorBytes, Text(TRUE, c))
  <2>1. SubSeq(Utf8(s) \o Terminator, 1, Len(Utf8(s))) = Utf8(s)
    BY <1>1, <1>3, Terminated
  <2>2. Utf8(s) = Text(TRUE, c)
    BY <1>1, <1>3, Utf8Facts
  <2>3. SubSeq(heap[cache[t]], 1, length[t]) = Text(TRUE, c)
    BY <1>5, <2>1, <2>2
  <2> QED
    BY <2>3
<1>7. c \in Seq(Chars)
  BY <1>1, <1>3, ValueFacts
<1>8. x \in Pieces /\ x.text = Text(FALSE, c) /\ FitsJson(x, Len(c))
  <2> HIDE DEF x, c
  <2> QED
    BY <1>6, <1>7, CopyWrites
<1> HIDE DEF x
<1>9. /\ pc'[t] = "done" /\ out'[t] = x
      /\ \A u \in Threads \ {t} : CallStays(u)
  BY <1>1, <1>2 DEF IInv, PointersTyped, ValuesTyped, CallStays
<1>10. CallKept(t)'
  <2>1. ~HasSurrogate(s)'
    BY <1>2, <1>5, SameStr
  <2>2. out'[t].text = Text(FALSE, value'[s].chars) /\ FitsJson(out'[t], Len(value'[s].chars))
    BY <1>2, <1>8, <1>9
  <2>3. IsJson(out[t], str[t])'
    BY <1>2, <2>1, <2>2 DEF IsJson
  <2> QED
    BY <1>9, <2>3 DEF CallKept, Publishing
<1>11. ValuesTyped'
  BY <1>1, <1>2, <1>8 DEF ValuesTyped
<1> QED
  BY <1>2, <1>9, <1>10, <1>11, OneMoves

\* The characters of the str are written as its JSON text.
LEMMA EncodeDirectlyKeepsText ==
    ASSUME IInv, IInv', TextInv, NEW t \in Threads, EncodeDirectly(t)
    PROVE  TextInv'
<1>1. ValuesTyped
  BY DEF TextInv
<1> DEFINE s == str[t]
           c == value[s].chars
           k == value[s].kind
           x == Encode(k, FALSE, value[s].compact, c)
           label == IF x.ok THEN "done" ELSE "unencodable"
<1>2. /\ UNCHANGED <<gil, value, utf8, utf8Length, heap, str, mayWrite, cache, length>>
      /\ pc' = [pc EXCEPT ![t] = label] /\ out' = [out EXCEPT ![t] = x]
  BY DEF EncodeDirectly, shared, Goto, Wrote
<1>3. s \in Strs
  BY DEF IInv, PointersTyped
<1>4. c \in Seq(Chars) /\ k \in Kinds /\ OfItsKind(k, c)
  BY <1>1, <1>3, ValueFacts
<1>5. HasSurrogate(s) <=> ~NoSurrogate(c)
  BY <1>1, <1>3, Utf8Facts
<1>6. x \in Pieces /\ (x.ok <=> NoSurrogate(c)) /\ (x.ok => x.text = Text(FALSE, c)) /\ FitsJson(x, Len(c))
  <2> HIDE DEF c, k
  <2> QED
    BY <1>4, JsonWrites
<1> HIDE DEF x
<1>7. /\ pc'[t] = label /\ out'[t] = x /\ \A u \in Threads \ {t} : CallStays(u)
  BY <1>1, <1>2 DEF IInv, PointersTyped, ValuesTyped, CallStays
<1>8. FitsJson(out'[t], Len(value'[str'[t]].chars))
  BY <1>2, <1>6, <1>7
<1>9. HasSurrogate(s)' <=> HasSurrogate(s)
  BY <1>2 DEF HasSurrogate
<1>10. CallKept(t)'
  <2>1. CASE x.ok
    <3>1. ~HasSurrogate(str[t])' /\ out'[t].text = Text(FALSE, value'[str'[t]].chars)
      BY <1>2, <1>5, <1>6, <1>7, <1>9, <2>1
    <3>2. IsJson(out[t], str[t])'
      BY <1>8, <3>1 DEF IsJson
    <3> QED
      BY <1>7, <2>1, <3>2 DEF CallKept, Publishing
  <2>2. CASE ~x.ok
    <3>1. HasSurrogate(str[t])' /\ pc'[t] = "unencodable"
      BY <1>2, <1>5, <1>6, <1>7, <1>9, <2>2
    <3> QED
      BY <1>8, <3>1 DEF CallKept, Publishing
  <2> QED
    BY <2>1, <2>2
<1>11. ValuesTyped'
  BY <1>1, <1>2, <1>6 DEF ValuesTyped
<1> QED
  BY <1>2, <1>7, <1>10, <1>11, OneMoves

\* A call that returns forgets.
LEMMA ReturnKeepsText ==
    ASSUME IInv, IInv', TextInv, NEW t \in Threads, Return(t)
    PROVE  TextInv'
<1>1. ValuesTyped
  BY DEF TextInv
<1>2. /\ UNCHANGED <<gil, value, utf8, utf8Length, heap, str, mayWrite>>
      /\ pc' = [pc EXCEPT ![t] = "idle"] /\ out' = [out EXCEPT ![t] = Nothing]
      /\ cache' = [cache EXCEPT ![t] = NoBuffer] /\ length' = [length EXCEPT ![t] = 0]
  BY DEF Return, shared, Goto, Wrote
<1>3. pc'[t] = "idle" /\ \A u \in Threads \ {t} : CallStays(u)
  BY <1>1, <1>2 DEF IInv, PointersTyped, ValuesTyped, CallStays
<1>4. CallKept(t)'
  BY <1>3, NothingToKeep
<1>5. ValuesTyped'
  BY <1>1, <1>2, NothingIsAPiece DEF ValuesTyped
<1> QED
  BY <1>2, <1>3, <1>4, <1>5, OneMoves

\* UTF-8 is made of the characters: all of it, or none when there is a surrogate.
LEMMA MakeCacheKeepsText ==
    ASSUME IInv, IInv', TextInv, NEW t \in Threads, MakeCache(t)
    PROVE  TextInv'
<1>1. ValuesTyped
  BY DEF TextInv
<1> DEFINE s == str[t]
           c == value[s].chars
           k == value[s].kind
           x == Encode(k, TRUE, value[s].compact, c)
<1>2. UNCHANGED <<gil, value, utf8, utf8Length, str, mayWrite>>
  BY DEF MakeCache
<1>3. s \in Strs
  BY DEF IInv, PointersTyped
<1>4. c \in Seq(Chars) /\ k \in Kinds /\ OfItsKind(k, c)
  BY <1>1, <1>3, ValueFacts
<1>5. (HasSurrogate(s) <=> ~NoSurrogate(c)) /\ Utf8(s) = Text(TRUE, c) /\ Utf8(s) \in Seq(TextBytes)
  BY <1>1, <1>3, Utf8Facts
<1>6. /\ x \in Pieces /\ (x.ok <=> NoSurrogate(c)) /\ (x.ok => x.text = Text(TRUE, c))
      /\ x.reach <= RawRoom(k, Len(c))
  <2> HIDE DEF c, k
  <2> QED
    BY <1>4, RawWrites
<1>7. \/ /\ x.ok
         /\ \E b \in Buffers \ DOMAIN heap : Allocated(b, x.text \o Terminator) /\ cache' = [cache EXCEPT ![t] = b]
         /\ length' = [length EXCEPT ![t] = Len(x.text)]
         /\ pc' = [pc EXCEPT ![t] = IF gil THEN "setcache" ELSE "setlength"] /\ out' = [out EXCEPT ![t] = x]
      \/ /\ ~x.ok /\ pc' = [pc EXCEPT ![t] = "uncacheable"] /\ out' = [out EXCEPT ![t] = x]
         /\ UNCHANGED <<heap, cache, length>>
      \/ pc' = [pc EXCEPT ![t] = "nomemory"] /\ UNCHANGED <<heap, cache, length, out>>
  BY DEF MakeCache, Goto, Wrote
<1> HIDE DEF x
<1>8. (HasSurrogate(s)' <=> HasSurrogate(s)) /\ Utf8(s)' = Utf8(s)
  BY <1>2, SameStr
<1>9. ASSUME NEW b \in Buffers \ DOMAIN heap, x.ok, Allocated(b, x.text \o Terminator),
             cache' = [cache EXCEPT ![t] = b], length' = [length EXCEPT ![t] = Len(x.text)],
             pc' = [pc EXCEPT ![t] = IF gil THEN "setcache" ELSE "setlength"], out' = [out EXCEPT ![t] = x]
      PROVE  TextInv'
  <2> DEFINE label == IF gil THEN "setcache" ELSE "setlength"
  <2>1. label \in {"setcache", "setlength"} /\ pc' = [pc EXCEPT ![t] = label]
    BY <1>9
  <2> HIDE DEF label
  <2>2. heap' = [d \in DOMAIN heap \cup {b} |-> IF d = b THEN x.text \o Terminator ELSE heap[d]]
    BY <1>9 DEF Allocated
  <2>3. HeapStays /\ heap'[b] = Utf8(s) \o Terminator
    BY <1>5, <1>6, <1>9, <2>2 DEF HeapStays
  <2>4. Len(Utf8(s)) \in Nat /\ length'= [length EXCEPT ![t] = Len(Utf8(s))]
    BY <1>5, <1>6, <1>9, LenProperties
  <2>5. /\ pc'[t] = label /\ cache'[t] = b /\ length'[t] = Len(Utf8(s)) /\ out'[t] = x /\ str'[t] = s
        /\ \A u \in Threads \ {t} : CallStays(u)
    BY <1>1, <1>2, <1>9, <2>1, <2>4 DEF IInv, PointersTyped, ValuesTyped, CallStays
  <2>6. CallKept(t)'
    <3>1. heap'[cache'[t]] = Utf8(str[t])' \o Terminator /\ length'[t] = Len(Utf8(str[t])') /\ ~HasSurrogate(str[t])'
      BY <1>2, <1>5, <1>6, <1>8, <1>9, <2>3, <2>5
    <3>2. Holds(cache[t], length[t], str[t])'
      BY <3>1 DEF Holds
    <3>3. out'[t].reach <= RawRoom(value'[str'[t]].kind, Len(value'[str'[t]].chars))
      BY <1>2, <1>6, <2>5
    <3> QED
      BY <2>1, <2>5, <3>2, <3>3 DEF CallKept, Publishing
  <2>7. \A r \in Strs : StrKept(r)'
    <3>1. \A r \in Strs : utf8'[r] = utf8[r] /\ LengthKept(r)
      BY <1>2 DEF LengthKept
    <3> QED
      BY <1>2, <2>3, <3>1, StrsKeep DEF TextInv
  <2>8. ASSUME NEW u \in Threads \ {t} PROVE CallKept(u)'
    <3>1. LengthKept(str[u])
      BY <1>2 DEF LengthKept
    <3> QED
      BY <1>2, <2>3, <2>5, <3>1, CallsKeep DEF TextInv
  <2>9. ValuesTyped'
    BY <1>1, <1>2, <1>6, <1>9, <2>4 DEF ValuesTyped
  <2> QED
    BY <2>6, <2>7, <2>8, <2>9 DEF TextInv
<1>10. ASSUME ~x.ok, pc' = [pc EXCEPT ![t] = "uncacheable"], out' = [out EXCEPT ![t] = x],
              UNCHANGED <<heap, cache, length>>
       PROVE  TextInv'
  <2>1. /\ pc'[t] = "uncacheable" /\ out'[t] = x /\ str'[t] = s
        /\ \A u \in Threads \ {t} : CallStays(u)
    BY <1>1, <1>2, <1>10 DEF IInv, PointersTyped, ValuesTyped, CallStays
  <2>2. CallKept(t)'
    <3>1. HasSurrogate(str[t])'
      BY <1>2, <1>5, <1>6, <1>8, <1>10
    <3>2. out'[t].reach <= RawRoom(value'[str'[t]].kind, Len(value'[str'[t]].chars))
      BY <1>2, <1>6, <2>1
    <3> QED
      BY <2>1, <3>1, <3>2 DEF CallKept, Publishing
  <2>3. ValuesTyped'
    BY <1>1, <1>2, <1>6, <1>10 DEF ValuesTyped
  <2> QED
    BY <1>2, <1>10, <2>1, <2>2, <2>3, OneMoves
<1>11. ASSUME pc' = [pc EXCEPT ![t] = "nomemory"], UNCHANGED <<heap, cache, length, out>>
       PROVE  TextInv'
  <2>1. pc'[t] = "nomemory" /\ \A u \in Threads \ {t} : CallStays(u)
    BY <1>1, <1>2, <1>11 DEF IInv, PointersTyped, ValuesTyped, CallStays
  <2>2. CallKept(t)'
    BY <2>1, NothingToKeep
  <2>3. ValuesTyped'
    BY <1>1, <1>2, <1>11 DEF ValuesTyped
  <2> QED
    BY <1>2, <1>11, <2>1, <2>2, <2>3, OneMoves
<1> QED
  BY <1>7, <1>9, <1>10, <1>11

\* UTF-8 becomes that of the str: one that a call holds.
LEMMA PublishKeepsText ==
    ASSUME IInv, IInv', TextInv, NEW t \in Threads, Publishing(t),
           utf8' = [utf8 EXCEPT ![str[t]] = cache[t]],
           utf8Length' \in [Strs -> Nat],
           \A s \in Strs \ {str[t]} : utf8Length'[s] = utf8Length[s],
           utf8Length'[str[t]] = Len(Utf8(str[t])),
           UNCHANGED <<gil, value, heap, str, mayWrite, cache, length, out>>,
           NEW label \in {"copy", "encode"}, pc' = [pc EXCEPT ![t] = label]
    PROVE  TextInv'
<1> DEFINE s == str[t]
<1>1. ValuesTyped /\ s \in Strs /\ HeapStays
  BY DEF TextInv, IInv, PointersTyped, HeapStays
<1>2. Holds(cache[t], length[t], s)
  BY DEF TextInv, CallKept
<1>3. pc'[t] = label /\ \A u \in Threads \ {t} : CallStays(u)
  BY <1>1 DEF IInv, PointersTyped, CallStays
<1>4. \A r : (HasSurrogate(r)' <=> HasSurrogate(r)) /\ Utf8(r)' = Utf8(r)
  BY SameStr
<1>5. utf8'[s] = cache[t] /\ \A r \in Strs \ {s} : utf8'[r] = utf8[r]
  BY <1>1 DEF IInv, PointersTyped
<1>6. CallKept(t)'
  <2>1. length'[t] = Len(Utf8(str[t])')
    BY <1>2, <1>4 DEF Holds
  <2> QED
    BY <1>3, <2>1 DEF CallKept, Publishing
<1>8. ASSUME NEW r \in Strs PROVE StrKept(r)'
  <2>1. CASE r = s
    <3>1. heap'[utf8'[r]] = Utf8(r)' \o Terminator /\ utf8Length'[r] = Len(Utf8(r)') /\ ~HasSurrogate(r)'
      BY <1>2, <1>4, <1>5, <2>1 DEF Holds
    <3> QED
      BY <3>1 DEF StrKept, Holds
  <2>2. CASE r # s
    <3>1. utf8'[r] = utf8[r] /\ LengthKept(r)
      BY <1>5, <2>2 DEF LengthKept
    <3> QED
      BY <1>1, <3>1, StrsKeep DEF TextInv
  <2> QED
    BY <2>1, <2>2
<1>9. ASSUME NEW u \in Threads \ {t} PROVE CallKept(u)'
  <2>1. LengthKept(str[u])
    BY <1>1 DEF LengthKept, IInv, PointersTyped
  <2> QED
    BY <1>1, <1>3, <2>1, CallsKeep DEF TextInv
<1>10. ValuesTyped'
  BY <1>1 DEF ValuesTyped
<1> QED
  BY <1>6, <1>8, <1>9, <1>10 DEF TextInv

\* Under the GIL the pointer is stored and the length with it (set_cache).
LEMMA SetCacheKeepsText ==
    ASSUME IInv, IInv', TextInv, NEW t \in Threads, SetCache(t)
    PROVE  TextInv'
<1>1. PICK label \in {"copy", "encode"} : pc' = [pc EXCEPT ![t] = label]
  BY DEF SetCache, Goto, UseCache
<1>2. /\ Publishing(t) /\ utf8' = [utf8 EXCEPT ![str[t]] = cache[t]]
      /\ utf8Length' = [utf8Length EXCEPT ![str[t]] = length[t]]
      /\ UNCHANGED <<gil, value, heap, str, mayWrite, cache, length, out>>
  BY DEF SetCache, Publishing, local
<1>3. length[t] = Len(Utf8(str[t])) /\ length[t] \in Nat /\ str[t] \in Strs /\ utf8Length \in [Strs -> Nat]
  BY <1>2 DEF TextInv, CallKept, Holds, ValuesTyped, IInv, PointersTyped
<1>4. /\ utf8Length' \in [Strs -> Nat] /\ utf8Length'[str[t]] = Len(Utf8(str[t]))
      /\ \A s \in Strs \ {str[t]} : utf8Length'[s] = utf8Length[s]
  BY <1>2, <1>3
<1> QED
  BY <1>1, <1>2, <1>4, PublishKeepsText

\* The length that a call stores is what any other call would store (set_cache).
LEMMA SetLengthKeepsText ==
    ASSUME IInv, IInv', TextInv, NEW t \in Threads, SetLength(t)
    PROVE  TextInv'
<1> DEFINE s == str[t]
<1>1. /\ pc[t] = "setlength" /\ pc' = [pc EXCEPT ![t] = "swap"]
      /\ utf8Length' = [utf8Length EXCEPT ![s] = length[t]]
      /\ UNCHANGED <<gil, value, utf8, heap, str, mayWrite, cache, length, out>>
  BY DEF SetLength, Goto, local
<1>2. ValuesTyped /\ s \in Strs /\ HeapStays
  BY <1>1 DEF TextInv, IInv, PointersTyped, HeapStays
<1>3. Publishing(t) /\ CallKept(t)
  BY <1>1 DEF Publishing, TextInv
<1>4. length[t] = Len(Utf8(s)) /\ length[t] \in Nat
  BY <1>2, <1>3 DEF CallKept, Holds, ValuesTyped
<1>5. \A r \in Strs : LengthKept(r)
  BY <1>1, <1>2, <1>4 DEF LengthKept, ValuesTyped
<1>6. pc'[t] = "swap" /\ \A u \in Threads \ {t} : CallStays(u)
  BY <1>1 DEF IInv, PointersTyped, CallStays
<1>7. \A r : (HasSurrogate(r)' <=> HasSurrogate(r)) /\ Utf8(r)' = Utf8(r)
  BY <1>1, SameStr
<1>8. CallKept(t)'
  <2>1. Holds(cache[t], length[t], s)
    BY <1>3 DEF CallKept
  <2>2. /\ heap'[cache'[t]] = Utf8(str[t])' \o Terminator /\ length'[t] = Len(Utf8(str[t])')
        /\ ~HasSurrogate(str[t])'
    BY <1>1, <1>7, <2>1 DEF Holds
  <2>3. utf8Length'[str'[t]] = Len(Utf8(str[t])')
    BY <1>1, <1>2, <1>4, <1>7 DEF ValuesTyped
  <2>4. out'[t].reach <= RawRoom(value'[str'[t]].kind, Len(value'[str'[t]].chars))
    BY <1>1, <1>3 DEF CallKept
  <2>5. Holds(cache[t], length[t], str[t])'
    BY <2>2 DEF Holds
  <2> QED
    BY <1>6, <2>3, <2>4, <2>5 DEF CallKept
<1>9. ASSUME NEW r \in Strs PROVE StrKept(r)'
  BY <1>1, <1>2, <1>5, StrsKeep DEF TextInv
<1>10. ASSUME NEW u \in Threads \ {t} PROVE CallKept(u)'
  <2>1. LengthKept(str[u])
    BY <1>5 DEF IInv, PointersTyped
  <2> QED
    BY <1>1, <1>2, <1>6, <2>1, CallsKeep DEF TextInv
<1>11. ValuesTyped'
  BY <1>1, <1>2, <1>4 DEF ValuesTyped
<1> QED
  BY <1>8, <1>9, <1>10, <1>11 DEF TextInv

\* The pointer is swapped; who lost goes on with the UTF-8 of the winner (set_cache).
LEMMA SwapPointerKeepsText ==
    ASSUME IInv, IInv', TextInv, NEW t \in Threads, SwapPointer(t)
    PROVE  TextInv'
<1> DEFINE s == str[t]
<1>1. PICK label \in {"copy", "encode"} : pc' = [pc EXCEPT ![t] = label]
  BY DEF SwapPointer, Goto, UseCache
<1>2. pc[t] = "swap" /\ UNCHANGED <<gil, value, utf8Length, str, mayWrite, length, out>> /\ Publishing(t)
  BY DEF SwapPointer, Publishing
<1>3. ValuesTyped /\ s \in Strs /\ CallKept(t)
  BY DEF TextInv, IInv, PointersTyped
<1>4. CASE ~LostRace(s)
  <2>1. utf8' = [utf8 EXCEPT ![s] = cache[t]] /\ UNCHANGED <<heap, cache>>
    BY <1>4 DEF SwapPointer
  <2>2. /\ utf8Length' \in [Strs -> Nat] /\ utf8Length'[s] = Len(Utf8(s))
        /\ \A r \in Strs \ {s} : utf8Length'[r] = utf8Length[r]
    BY <1>2, <1>3 DEF CallKept, ValuesTyped
  <2> QED
    BY <1>1, <1>2, <2>1, <2>2, PublishKeepsText
<1>5. CASE LostRace(s)
  <2>1. /\ heap' = [c \in DOMAIN heap \ {cache[t]} |-> heap[c]] /\ UNCHANGED utf8
        /\ cache' = [cache EXCEPT ![t] = utf8[s]]
    BY <1>5 DEF SwapPointer, Freed
  <2>2. HeapStays
    BY <2>1 DEF HeapStays
  <2>3. pc'[t] = label /\ \A u \in Threads \ {t} : CallStays(u)
    BY <1>1, <1>2, <1>3, <2>1 DEF IInv, PointersTyped, CallStays
  <2>4. \A r : LengthKept(r)
    BY <1>2 DEF LengthKept
  <2>5. CallKept(t)'
    <3>1. length'[t] = Len(Utf8(str[t])')
      <4>1. length[t] = Len(Utf8(str[t]))
        BY <1>2, <1>3 DEF CallKept, Holds
      <4>2. Utf8(str[t])' = Utf8(str[t])
        BY <1>2 DEF Utf8
      <4> QED
        BY <1>2, <4>1, <4>2
    <3> QED
      BY <2>3, <3>1 DEF CallKept, Publishing
  <2>6. ASSUME NEW r \in Strs PROVE StrKept(r)'
    BY <1>2, <2>1, <2>2, <2>4, StrsKeep DEF TextInv
  <2>7. ASSUME NEW u \in Threads \ {t} PROVE CallKept(u)'
    BY <1>2, <2>2, <2>3, <2>4, CallsKeep DEF TextInv
  <2>8. ValuesTyped'
    BY <1>2, <1>3 DEF ValuesTyped
  <2> QED
    BY <2>5, <2>6, <2>7, <2>8 DEF TextInv
<1> QED
  BY <1>4, <1>5

\* UTF-8 made by Python is that of the str, too.
LEMMA PythonCachesKeepsText ==
    ASSUME IInv, IInv', TextInv, NEW s \in Strs, PythonCaches(s)
    PROVE  TextInv'
<1>1. PICK b \in Buffers \ DOMAIN heap : Allocated(b, Utf8(s) \o Terminator) /\ utf8' = [utf8 EXCEPT ![s] = b]
  BY DEF PythonCaches
<1>2. /\ utf8Length' = [utf8Length EXCEPT ![s] = Len(Utf8(s))] /\ ~HasSurrogate(s)
      /\ UNCHANGED <<gil, value, pc, str, mayWrite, cache, length, out>>
  BY DEF PythonCaches, local
<1>3. ValuesTyped
  BY DEF TextInv
<1>4. Len(Utf8(s)) \in Nat
  BY <1>3, Utf8Facts, LenProperties
<1>5. heap' = [d \in DOMAIN heap \cup {b} |-> IF d = b THEN Utf8(s) \o Terminator ELSE heap[d]]
  BY <1>1 DEF Allocated
<1>6. HeapStays /\ heap'[b] = Utf8(s) \o Terminator
  BY <1>5 DEF HeapStays
<1>7. \A r \in Strs : LengthKept(r)
  BY <1>2, <1>3, <1>4 DEF LengthKept, ValuesTyped
<1>8. \A r : (HasSurrogate(r)' <=> HasSurrogate(r)) /\ Utf8(r)' = Utf8(r)
  BY <1>2, SameStr
<1>9. ASSUME NEW r \in Strs PROVE StrKept(r)'
  <2>1. CASE r = s
    <3>1. utf8'[r] = b /\ utf8Length'[r] = Len(Utf8(r))
      BY <1>1, <1>2, <1>3, <1>4, <2>1 DEF IInv, PointersTyped, ValuesTyped
    <3>2. heap'[utf8'[r]] = Utf8(r)' \o Terminator /\ utf8Length'[r] = Len(Utf8(r)') /\ ~HasSurrogate(r)'
      BY <1>2, <1>6, <1>8, <2>1, <3>1
    <3> QED
      BY <3>2 DEF StrKept, Holds
  <2>2. CASE r # s
    <3>1. utf8'[r] = utf8[r]
      BY <1>1, <2>2 DEF IInv, PointersTyped
    <3> QED
      BY <1>2, <1>6, <1>7, <3>1, StrsKeep DEF TextInv
  <2> QED
    BY <2>1, <2>2
<1>10. ASSUME NEW u \in Threads PROVE CallKept(u)'
  <2>1. CallStays(u) /\ LengthKept(str[u])
    BY <1>2, <1>7 DEF CallStays, IInv, PointersTyped
  <2> QED
    BY <1>2, <1>6, <2>1, CallsKeep DEF TextInv
<1>11. ValuesTyped'
  BY <1>2, <1>3, <1>4 DEF ValuesTyped
<1> QED
  BY <1>9, <1>10, <1>11 DEF TextInv

\* With a str its UTF-8 goes, and nobody is about to read it.
LEMMA StrFreedKeepsText ==
    ASSUME IInv, IInv', TextInv, NEW s \in Strs, StrFreed(s)
    PROVE  TextInv'
<1>1. /\ heap' = [c \in DOMAIN heap \ {utf8[s]} |-> heap[c]]
      /\ utf8' = [utf8 EXCEPT ![s] = NoBuffer] /\ utf8Length' = [utf8Length EXCEPT ![s] = 0]
      /\ UNCHANGED <<gil, value, pc, str, mayWrite, cache, length, out>>
      /\ \A t \in Threads : pc[t] \in Steps => str[t] # s
  BY DEF StrFreed, Freed, local
<1>2. ValuesTyped
  BY DEF TextInv
<1>3. HeapStays
  BY <1>1 DEF HeapStays
<1>4. \A r \in Strs \ {s} : utf8'[r] = utf8[r] /\ LengthKept(r)
  BY <1>1, <1>2 DEF LengthKept, ValuesTyped, IInv, PointersTyped
<1>5. ASSUME NEW r \in Strs PROVE StrKept(r)'
  <2>1. CASE r = s
    <3>1. utf8'[r] = NoBuffer
      BY <1>1, <2>1 DEF IInv, PointersTyped
    <3> QED
      BY <3>1 DEF StrKept
  <2>2. CASE r # s
    BY <1>1, <1>3, <1>4, <2>2, StrsKeep DEF TextInv
  <2> QED
    BY <2>1, <2>2
<1>6. ASSUME NEW u \in Threads PROVE CallKept(u)'
  <2>1. CallStays(u) /\ (pc[u] = "swap" => LengthKept(str[u]))
    BY <1>1, <1>4 DEF CallStays, Steps, IInv, PointersTyped
  <2> QED
    BY <1>1, <1>3, <2>1, CallsKeep DEF TextInv
<1>7. ValuesTyped'
  BY <1>1, <1>2 DEF ValuesTyped
<1> QED
  BY <1>5, <1>6, <1>7 DEF TextInv

-----------------------------------------------------------------------------
\* Before the first call there is no UTF-8.
LEMMA InitText == Init => TextInv
<1> SUFFICES ASSUME Init PROVE TextInv
  OBVIOUS
<1>1. ValuesTyped
  BY NothingIsAPiece DEF Init, NothingWritten, ValuesTyped
<1>2. \A s \in Strs : StrKept(s)
  BY DEF Init, NothingWritten, StrKept
<1>3. \A t \in Threads : CallKept(t)
  BY DEF Init, NothingWritten, CallKept, Publishing
<1> QED
  BY <1>1, <1>2, <1>3 DEF TextInv

\* Every step keeps what is known of the text.
LEMMA NextText == IInv /\ IInv' /\ TextInv /\ [Next]_vars => TextInv'
<1> SUFFICES ASSUME IInv, IInv', TextInv, [Next]_vars PROVE TextInv'
  OBVIOUS
<1>1. ASSUME NEW t \in Threads, NEW s \in Strs, NEW write \in BOOLEAN, Begin(t, s, write)
      PROVE  TextInv'
  BY <1>1, BeginKeepsText
<1>2. ASSUME NEW t \in Threads, ReadLength(t) \/ CopyCache(t) \/ EncodeDirectly(t) \/ Return(t)
      PROVE  TextInv'
  BY <1>2, ReadLengthKeepsText, CopyCacheKeepsText, EncodeDirectlyKeepsText, ReturnKeepsText
<1>3. ASSUME NEW t \in Threads, MakeCache(t) \/ SetCache(t) \/ SetLength(t) \/ SwapPointer(t)
      PROVE  TextInv'
  BY <1>3, MakeCacheKeepsText, SetCacheKeepsText, SetLengthKeepsText, SwapPointerKeepsText
<1>4. ASSUME NEW s \in Strs, PythonCaches(s) \/ StrFreed(s) PROVE TextInv'
  BY <1>4, PythonCachesKeepsText, StrFreedKeepsText
<1>5. CASE UNCHANGED vars
  <2>1. /\ UNCHANGED <<gil, value, utf8, utf8Length, heap, pc, str, mayWrite, cache, length, out>>
        /\ HeapStays /\ (\A s : LengthKept(s)) /\ \A t \in Threads : CallStays(t)
    BY <1>5 DEF vars, HeapStays, LengthKept, CallStays
  <2>2. \A s \in Strs : StrKept(s)'
    BY <2>1, StrsKeep DEF TextInv
  <2>3. \A t \in Threads : CallKept(t)'
    BY <2>1, CallsKeep DEF TextInv
  <2>4. ValuesTyped'
    BY <2>1 DEF TextInv, ValuesTyped
  <2> QED
    BY <2>2, <2>3, <2>4 DEF TextInv
<1> QED
  BY <1>1, <1>2, <1>3, <1>4, <1>5 DEF Next

-----------------------------------------------------------------------------
\* Every step keeps the owners of the buffers.
LEMMA NextIInv == IInv /\ [Next]_vars => IInv'
  <1> SUFFICES ASSUME IInv, [Next]_vars PROVE IInv'
    OBVIOUS
  <1>1. ASSUME NEW t \in Threads, NEW s \in Strs, NEW write \in BOOLEAN, Begin(t, s, write)
        PROVE  IInv'
    BY <1>1, CallKeepsIInv
  <1>2. ASSUME NEW t \in Threads,
               ReadLength(t) \/ CopyCache(t) \/ EncodeDirectly(t) \/ Return(t)
        PROVE  IInv'
    BY <1>2, CallKeepsIInv
  <1>3. ASSUME NEW t \in Threads,
               MakeCache(t) \/ SetCache(t) \/ SetLength(t) \/ SwapPointer(t)
        PROVE  IInv'
    BY <1>3, MakeCacheKeepsIInv, SetCacheKeepsIInv, SetLengthKeepsIInv, SwapPointerKeepsIInv
  <1>4. ASSUME NEW s \in Strs, PythonCaches(s) \/ StrFreed(s) PROVE IInv'
    BY <1>4, PythonCachesKeepsIInv, StrFreedKeepsIInv
  <1>5. CASE UNCHANGED vars
    <2>1. UNCHANGED <<gil, utf8, heap, pc, str, cache>>
      BY <1>5 DEF vars, shared, local
    <2>2. \A t \in Threads : Publishing(t)' <=> Publishing(t)
      BY <2>1 DEF Publishing
    <2>3. PointersTyped' /\ GILKeepsApart' /\ SwapsPointers' /\ PointersStay'
      BY <2>1 DEF IInv, PointersTyped, GILKeepsApart, SwapsPointers, PointersStay
    <2> QED
      BY <2>1, <2>2, <2>3 DEF IInv, BuffersOwned
  <1> QED
    BY <1>1, <1>2, <1>3, <1>4, <1>5 DEF Next

\* However many threads race to give a str its UTF-8, and whatever Python gives
\* and takes away between: each buffer has one owner, none is lost or freed while
\* it is used, and a call copies the buffer of its own str (write_cache_impl,
\* get_utf8_cache, set_cache).
THEOREM OwnedBuffers == Spec => []BuffersOwned
  <1>1. IInv => BuffersOwned
    BY DEF IInv
  <1> QED
    BY InitIInv, NextIInv, <1>1, PTL DEF Spec

\* The whole invariant holds before the first call.
LEMMA InitAll == Init => IInv /\ TextInv
  BY InitIInv, InitText

\* And every step keeps it.
LEMMA NextAll == (IInv /\ TextInv) /\ [Next]_vars => (IInv /\ TextInv)'
  BY NextIInv, NextText

\* The types hold, and a call that publishes or copies UTF-8 has some, which is
\* what assert(utf8_cache) says (b_buf_apd_nonascii_str, write_cache_impl).
THEOREM Types == Spec => []TypeOK
  <1>1. IInv /\ TextInv => TypeOK
    <2> SUFFICES ASSUME IInv, TextInv PROVE TypeOK
      OBVIOUS
    <2>1. \A t \in Threads : pc[t] \in {"setlength", "swap", "setcache", "copy"} => cache[t] # NoBuffer
      BY BuffersAssumption DEF IInv, PointersTyped, BuffersOwned, Publishing
    <2> QED
      BY <2>1 DEF IInv, TextInv, PointersTyped, ValuesTyped, TypeOK
  <1> QED
    BY InitAll, NextAll, <1>1, PTL DEF Spec

\* What is written of a str is its JSON text, on every path: the characters one by
\* one or by vectors, or UTF-8 made by this call, by another one or by Python; only
\* a str with a surrogate is refused; and UTF-8 that others can see is that of its
\* str, terminated, and its length is there already (bytes_write_*,
\* b_buf_apd_nonascii_*, write_cache_impl, set_cache).
THEOREM TextWritten == Spec => []OutputIsTheText
  <1>1. IInv /\ TextInv => OutputIsTheText
    <2> SUFFICES ASSUME IInv, TextInv PROVE OutputIsTheText
      OBVIOUS
    <2>1. \A s \in Strs : utf8[s] # NoBuffer =>
             heap[utf8[s]] = Utf8(s) \o Terminator /\ utf8Length[s] = Len(Utf8(s))
      BY DEF TextInv, StrKept, Holds
    <2>2. ASSUME NEW t \in Threads, pc[t] = "done"
          PROVE  /\ ~HasSurrogate(str[t])
                 /\ out[t].text = FlattenSeq([i \in 1 .. Len(value[str[t]].chars) |->
                       IF value[str[t]].chars[i] \in DOMAIN Escape
                       THEN Escaped(value[str[t]].chars[i]) ELSE Bytes(value[str[t]].chars[i])])
      <3> DEFINE c == value[str[t]].chars
      <3>1. ~HasSurrogate(str[t]) /\ out[t].text = Text(FALSE, c)
        BY <2>2 DEF TextInv, CallKept, IsJson
      <3>2. c \in Seq(Chars)
        BY ValueFacts DEF TextInv, IInv, PointersTyped
      <3> HIDE DEF c
      <3>3. FlattenSeq([i \in 1 .. Len(c) |-> IF c[i] \in DOMAIN Escape THEN Escaped(c[i]) ELSE Bytes(c[i])])
              = Text(FALSE, c)
        BY <3>2, JsonText
      <3> QED
        BY <3>1, <3>3 DEF c
    <2>3. \A t \in Threads : pc[t] \in {"unencodable", "uncacheable"} => HasSurrogate(str[t])
      BY DEF TextInv, CallKept
    <2> QED
      BY <2>1, <2>2, <2>3, Zenon DEF OutputIsTheText
  <1> QED
    BY InitAll, NextAll, <1>1, PTL DEF Spec

\* No vector is stored past what was reserved for the str and its quotes, nor past
\* what was allocated for its UTF-8, though it is stored whole whatever part of it
\* belongs to the text; also when a surrogate ends the str early
\* (__excess_bytes_write_ucs*_trailing, b_buf_apd_str_rsv_idt, write_cache_impl).
THEOREM StoresStayInside == Spec => []StoresInside
  <1>1. IInv /\ TextInv => StoresInside
    BY DEF TextInv, CallKept, IsJson, FitsJson, Publishing, StoresInside
  <1> QED
    BY InitAll, NextAll, <1>1, PTL DEF Spec
=============================================================================
