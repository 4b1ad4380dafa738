--------------------------- MODULE DataInduction ---------------------------
(***************************************************************************)
(* Induction over data.                                                    *)
(*                                                                         *)
(* The induction theorems of the library take an operator as a parameter,  *)
(* with which no prover can instantiate them.  Here what is to be shown of *)
(* every x is a set G of those of which it holds: a set of naturals that   *)
(* are not in G has a least member (the naturals are well founded), and    *)
(* that one contradicts the induction step.  Of this come induction over a *)
(* rank and over sequences; that a definition whose argument decreases in  *)
(* rank, written as a function, has a solution (Recursion), so that what a *)
(* CHOOSE in it stands for is known; and what FlattenSeq does.             *)
(***************************************************************************)
EXTENDS Integers, SequencesExt, SequenceTheorems, WellFoundedInduction, TLAPS

\* A set of naturals that has a member has a least one.
LEMMA LeastNatural ==
    ASSUME NEW T, T \subseteq Nat, T # {}
    PROVE  \E n \in T : \A m \in T : n <= m
<1>1. PICK n \in T : \A m \in T : ~(<<m, n>> \in OpToRel(<, Nat))
  BY NatLessThanWellFounded, WFMin, Zenon
<1>2. \A m \in T : ~(m < n)
  BY <1>1 DEF OpToRel
<1>3. ASSUME NEW m \in T PROVE n <= m
  <2>1. n \in Nat /\ m \in Nat /\ ~(m < n)
    BY <1>2
  <2> QED
    BY <2>1
<1> QED
  BY <1>1, <1>3, Zenon

\* Induction over a set of naturals.
LEMMA SetInduction ==
    ASSUME NEW G, 0 \in G, \A n \in Nat : n \in G => n + 1 \in G
    PROVE  \A n \in Nat : n \in G
<1> SUFFICES ASSUME NEW k \in Nat, k \notin G PROVE FALSE
  OBVIOUS
<1>1. PICK n \in Nat \ G : \A m \in Nat \ G : n <= m
  <2> DEFINE T == Nat \ G
  <2>1. T \subseteq Nat /\ T # {}
    OBVIOUS
  <2> HIDE DEF T
  <2>2. PICK n \in T : \A m \in T : n <= m
    BY <2>1, LeastNatural
  <2> QED
    BY <2>2 DEF T
<1>2. n - 1 \in Nat /\ n - 1 \notin G
  BY <1>1
<1> QED
  BY <1>1, <1>2

-----------------------------------------------------------------------------
\* Functions with the same values below rank n.
Agree(S, rank, n, g, h) == \A y \in S : rank[y] < n => g[y] = h[y]

\* Functions that satisfy the equation below rank n.
Good(S, T, rank, step, n) == {g \in [S -> T] : \A x \in S : rank[x] < n => g[x] = step[<<g, x>>]}

\* step computes the value at x from values of lower rank.
Decreases(S, T, rank, step) ==
    /\ T # {} /\ rank \in [S -> Nat] /\ step \in [[S -> T] \X S -> T]
    /\ \A x \in S : \A g, h \in [S -> T] :
          Agree(S, rank, rank[x], g, h) => step[<<g, x>>] = step[<<h, x>>]

\* f is a function that satisfies the equation.
Solves(S, T, step, f) == f \in [S -> T] /\ \A x \in S : f[x] = step[<<f, x>>]

\* A recursive definition whose argument decreases defines a function.
LEMMA Recursion ==
    ASSUME NEW S, NEW T, NEW rank, NEW step, Decreases(S, T, rank, step)
    PROVE  \E f : Solves(S, T, step, f)
<1>0. /\ T # {} /\ rank \in [S -> Nat] /\ step \in [[S -> T] \X S -> T]
      /\ \A x \in S : \A g, h \in [S -> T] :
            Agree(S, rank, rank[x], g, h) => step[<<g, x>>] = step[<<h, x>>]
  BY Zenon DEF Decreases
<1> DEFINE D(n) == Good(S, T, rank, step, n)
<1>1. \A n \in Nat : D(n) # {}
  <2> DEFINE G == {n \in Nat : D(n) # {}}
  <2>1. 0 \in G
    <3>1. PICK t \in T : TRUE
      BY <1>0
    <3>2. [x \in S |-> t] \in D(0)
      BY <1>0, <3>1 DEF Good
    <3> QED
      BY <3>2
  <2>2. ASSUME NEW n \in Nat, n \in G PROVE n + 1 \in G
    <3>1. PICK g \in D(n) : TRUE
      BY <2>2
    <3> DEFINE h == [x \in S |-> step[<<g, x>>]]
    <3>2. g \in [S -> T] /\ \A x \in S : rank[x] < n => g[x] = step[<<g, x>>]
      BY <3>1 DEF Good
    <3>3. h \in [S -> T] /\ \A x \in S : h[x] = step[<<g, x>>]
      BY <1>0, <3>2
    <3> HIDE DEF h
    <3>4. ASSUME NEW x \in S, rank[x] < n + 1 PROVE h[x] = step[<<h, x>>]
      <4>1. Agree(S, rank, rank[x], g, h)
        <5> SUFFICES ASSUME NEW y \in S, rank[y] < rank[x] PROVE g[y] = h[y]
          BY DEF Agree
        <5>1. rank[x] \in Nat /\ rank[y] \in Nat
          BY <1>0
        <5>2. rank[y] < n
          BY <3>4, <5>1
        <5> QED
          BY <3>2, <3>3, <5>2
      <4> QED
        BY <1>0, <3>2, <3>3, <4>1
    <3>5. h \in D(n + 1)
      BY <3>3, <3>4 DEF Good
    <3> QED
      BY <3>5
  <2> HIDE DEF G
  <2>3. \A n \in Nat : n \in G
    BY <2>1, <2>2, SetInduction
  <2> QED
    BY <2>3 DEF G
<1>2. ASSUME NEW n \in Nat, NEW m \in Nat, n <= m, NEW g \in D(n), NEW h \in D(m)
      PROVE  Agree(S, rank, n, g, h)
  <2> DEFINE G == {k \in Nat : k <= n => Agree(S, rank, k, g, h)}
  <2>0. g \in [S -> T] /\ h \in [S -> T]
    BY DEF Good
  <2>1. 0 \in G
    BY <1>0 DEF Agree
  <2>2. ASSUME NEW k \in Nat, k \in G PROVE k + 1 \in G
    <3> SUFFICES ASSUME k + 1 <= n, NEW x \in S, rank[x] < k + 1 PROVE g[x] = h[x]
      BY DEF Agree
    <3>0. \A y \in S : rank[y] < k => g[y] = h[y]
      BY <2>2 DEF Agree
    <3>1. Agree(S, rank, rank[x], g, h)
      <4> SUFFICES ASSUME NEW y \in S, rank[y] < rank[x] PROVE g[y] = h[y]
        BY DEF Agree
      <4>1. rank[x] \in Nat /\ rank[y] \in Nat
        BY <1>0
      <4>2. rank[y] < k
        BY <4>1
      <4> QED
        BY <3>0, <4>2
    <3>2. step[<<g, x>>] = step[<<h, x>>]
      BY <1>0, <2>0, <3>1
    <3> QED
      BY <1>0, <1>2, <3>2 DEF Good
  <2> HIDE DEF G
  <2>3. \A k \in Nat : k \in G
    BY <2>1, <2>2, SetInduction
  <2> QED
    BY <2>3 DEF G
<1> DEFINE c(x) == CHOOSE g : g \in D(rank[x] + 1)
           f == [x \in S |-> c(x)[x]]
<1>3. \A x \in S : c(x) \in D(rank[x] + 1)
  BY <1>0, <1>1
<1> HIDE DEF c
<1>4. f \in [S -> T] /\ \A x \in S : f[x] = c(x)[x]
  BY <1>3 DEF Good
<1>5. ASSUME NEW x \in S PROVE f[x] = step[<<f, x>>]
  <2>1. c(x)[x] = step[<<c(x), x>>] /\ c(x) \in [S -> T]
    <3>1. c(x) \in D(rank[x] + 1) /\ rank[x] \in Nat
      BY <1>0, <1>3
    <3>2. c(x) \in [S -> T] /\ \A y \in S : rank[y] < rank[x] + 1 => c(x)[y] = step[<<c(x), y>>]
      BY <3>1 DEF Good
    <3>3. rank[x] < rank[x] + 1
      BY <3>1
    <3> QED
      BY <3>2, <3>3
  <2>2. Agree(S, rank, rank[x], c(x), f)
    <3> SUFFICES ASSUME NEW y \in S, rank[y] < rank[x] PROVE c(x)[y] = f[y]
      BY DEF Agree
    <3>1. Agree(S, rank, rank[y] + 1, c(y), c(x))
      BY <1>0, <1>2, <1>3
    <3> QED
      BY <1>0, <1>4, <3>1 DEF Agree
  <2> QED
    BY <1>0, <1>4, <2>1, <2>2
<1> HIDE DEF f
<1>6. Solves(S, T, step, f)
  BY <1>4, <1>5 DEF Solves
<1> QED
  BY <1>6

-----------------------------------------------------------------------------
\* The function in the definition of FlattenSeq.
FlattenBy(f, seqs) == f = [i \in 1 .. Len(seqs) |-> IF i = 1 THEN seqs[i] ELSE f[i - 1] \o seqs[i]]

\* The function in the definition of FlattenSeq exists, and its values are sequences.
LEMMA FlattenDefined ==
    ASSUME NEW T, NEW seqs \in Seq(Seq(T))
    PROVE  /\ FlattenBy(CHOOSE f : FlattenBy(f, seqs), seqs)
           /\ (CHOOSE f : FlattenBy(f, seqs)) \in [1 .. Len(seqs) -> Seq(T)]
<1> DEFINE S == 1 .. Len(seqs)
           rank == [i \in S |-> i]
           step == [p \in [S -> Seq(T)] \X S |-> IF p[2] = 1 THEN seqs[p[2]] ELSE p[1][p[2] - 1] \o seqs[p[2]]]
<1>1. rank \in [S -> Nat] /\ Seq(T) # {}
  BY EmptySeq
<1>2. ASSUME NEW f \in [S -> Seq(T)], NEW i \in S
      PROVE  /\ step[<<f, i>>] = IF i = 1 THEN seqs[i] ELSE f[i - 1] \o seqs[i]
             /\ (IF i = 1 THEN seqs[i] ELSE f[i - 1] \o seqs[i]) \in Seq(T)
  <2>1. seqs[i] \in Seq(T) /\ (i # 1 => i - 1 \in S)
    OBVIOUS
  <2>2. i # 1 => f[i - 1] \o seqs[i] \in Seq(T)
    BY <2>1, ConcatProperties
  <2> QED
    BY <2>1, <2>2
<1>3. step \in [[S -> Seq(T)] \X S -> Seq(T)]
  <2>1. ASSUME NEW p \in [S -> Seq(T)] \X S
        PROVE  (IF p[2] = 1 THEN seqs[p[2]] ELSE p[1][p[2] - 1] \o seqs[p[2]]) \in Seq(T)
    BY <1>2
  <2> QED
    BY <2>1
<1>4. ASSUME NEW i \in S, NEW g \in [S -> Seq(T)], NEW h \in [S -> Seq(T)], Agree(S, rank, rank[i], g, h)
      PROVE  step[<<g, i>>] = step[<<h, i>>]
  <2>1. i # 1 => g[i - 1] = h[i - 1]
    BY <1>4 DEF Agree
  <2> QED
    BY <1>2, <2>1
<1> HIDE DEF rank, step
<1>5. PICK f \in [S -> Seq(T)] : \A i \in S : f[i] = step[<<f, i>>]
  <2>1. Decreases(S, Seq(T), rank, step)
    BY <1>1, <1>3, <1>4, Zenon DEF Decreases
  <2>2. PICK f : Solves(S, Seq(T), step, f)
    BY <2>1, Recursion
  <2> QED
    BY <2>2 DEF Solves
<1>6. FlattenBy(f, seqs)
  BY <1>2, <1>5 DEF FlattenBy
<1> DEFINE c == CHOOSE g : FlattenBy(g, seqs)
<1>7. FlattenBy(c, seqs)
  BY <1>6
<1> HIDE DEF c
<1>70. \A i \in S : c[i] = IF i = 1 THEN seqs[i] ELSE c[i - 1] \o seqs[i]
  BY <1>7, Zenon DEF FlattenBy
<1> DEFINE G == {n \in Nat : n + 1 \in S => c[n + 1] \in Seq(T)}
<1>8. 0 \in G
  BY <1>7 DEF FlattenBy
<1>9. ASSUME NEW n \in Nat, n \in G PROVE n + 1 \in G
  <2> SUFFICES ASSUME n + 2 \in S PROVE c[n + 2] \in Seq(T)
    OBVIOUS
  <2>1. c[n + 1] \in Seq(T) /\ seqs[n + 2] \in Seq(T)
    BY <1>9
  <2>2. c[n + 2] = IF n + 2 = 1 THEN seqs[n + 2] ELSE c[n + 2 - 1] \o seqs[n + 2]
    BY <1>70
  <2>3. n + 2 # 1 /\ n + 2 - 1 = n + 1
    OBVIOUS
  <2> QED
    BY <2>1, <2>2, <2>3, ConcatProperties
<1> HIDE DEF G
<1>10. \A n \in Nat : n \in G
  BY <1>8, <1>9, SetInduction
<1>11. \A i \in S : c[i] \in Seq(T)
  <2> TAKE i \in S
  <2>1. i - 1 \in Nat /\ i - 1 \in G
    BY <1>10
  <2> QED
    BY <2>1 DEF G
<1>12. c \in [S -> Seq(T)]
  BY <1>7, <1>11 DEF FlattenBy
<1> QED
  BY <1>7, <1>12 DEF c

\* The concatenation of sequences over T is one.
LEMMA FlattenTyped ==
    ASSUME NEW T, NEW seqs \in Seq(Seq(T))
    PROVE  FlattenSeq(seqs) \in Seq(T)
<1> DEFINE f == CHOOSE g : FlattenBy(g, seqs)
<1>1. f \in [1 .. Len(seqs) -> Seq(T)]
  BY FlattenDefined
<1>2. Len(seqs) = 0 => seqs = <<>> /\ FlattenSeq(seqs) = seqs
  BY EmptySeq DEF FlattenSeq
<1>3. Len(seqs) # 0 => FlattenSeq(seqs) = f[Len(seqs)]
  BY DEF FlattenSeq, FlattenBy
<1> QED
  BY <1>1, <1>2, <1>3, EmptySeq

\* The concatenation of none is empty.
LEMMA FlattenEmpty == FlattenSeq(<<>>) = <<>>
  BY DEF FlattenSeq

\* One more sequence is concatenated at the end.
LEMMA FlattenAppend ==
    ASSUME NEW T, NEW seqs \in Seq(Seq(T)), NEW s \in Seq(T)
    PROVE  FlattenSeq(Append(seqs, s)) = FlattenSeq(seqs) \o s
<1> DEFINE a == Append(seqs, s)
           n == Len(seqs)
           f == CHOOSE g : FlattenBy(g, seqs)
           h == CHOOSE g : FlattenBy(g, a)
<1>1. /\ a \in Seq(Seq(T)) /\ Len(a) = n + 1 /\ n \in Nat
      /\ \A i \in 1 .. n : a[i] = seqs[i]
      /\ a[n + 1] = s
  BY AppendProperties
<1>2. FlattenBy(f, seqs) /\ FlattenBy(h, a) /\ f \in [1 .. n -> Seq(T)] /\ h \in [1 .. Len(a) -> Seq(T)]
  <2> HIDE DEF a
  <2> QED
    BY <1>1, FlattenDefined
<1> HIDE DEF f, h, a
<1>3. \A i \in 1 .. n : f[i] = IF i = 1 THEN seqs[i] ELSE f[i - 1] \o seqs[i]
  BY <1>2, Zenon DEF FlattenBy
<1>4. \A i \in 1 .. Len(a) : h[i] = IF i = 1 THEN a[i] ELSE h[i - 1] \o a[i]
  BY <1>2, Zenon DEF FlattenBy
<1> DEFINE G == {i \in Nat : i + 1 \in 1 .. n => h[i + 1] = f[i + 1]}
<1>5. 0 \in G
  BY <1>1, <1>3, <1>4
<1>6. ASSUME NEW i \in Nat, i \in G PROVE i + 1 \in G
  <2> SUFFICES ASSUME i + 2 \in 1 .. n PROVE h[i + 2] = f[i + 2]
    OBVIOUS
  <2>1. h[i + 1] = f[i + 1]
    BY <1>6
  <2>2. i + 2 \in 1 .. Len(a) /\ i + 2 # 1 /\ i + 2 - 1 = i + 1
    BY <1>1
  <2> QED
    BY <1>1, <1>3, <1>4, <2>1, <2>2
<1> HIDE DEF G
<1>7. \A i \in Nat : i \in G
  BY <1>5, <1>6, SetInduction
<1>8. n # 0 => h[n] = f[n]
  <2> SUFFICES ASSUME n # 0 PROVE h[n] = f[n]
    OBVIOUS
  <2>1. n - 1 \in Nat /\ n - 1 \in G /\ n - 1 + 1 = n
    BY <1>1, <1>7
  <2> QED
    BY <2>1 DEF G
<1>9. FlattenSeq(a) = h[n + 1]
  BY <1>1 DEF FlattenSeq, FlattenBy, h
<1>10. n # 0 => FlattenSeq(seqs) = f[n]
  BY DEF FlattenSeq, FlattenBy, f
<1>11. n = 0 => FlattenSeq(seqs) = <<>>
  <2> SUFFICES ASSUME n = 0 PROVE FlattenSeq(seqs) = <<>>
    OBVIOUS
  <2>1. seqs = <<>>
    BY EmptySeq
  <2> QED
    BY <2>1, FlattenEmpty
<1>12. h[n + 1] = IF n = 0 THEN s ELSE h[n] \o s
  BY <1>1, <1>4
<1> QED
  BY <1>8, <1>9, <1>10, <1>11, <1>12, ConcatEmptySeq DEF a

-----------------------------------------------------------------------------
\* Induction over the elements of S by their rank.
LEMMA RankInduction ==
    ASSUME NEW S, NEW rank \in [S -> Nat], NEW G,
           \A x \in S : (\A y \in S : rank[y] < rank[x] => y \in G) => x \in G
    PROVE  \A x \in S : x \in G
<1> DEFINE B == {n \in Nat : \A x \in S : rank[x] < n => x \in G}
<1>1. 0 \in B
  <2> SUFFICES ASSUME NEW x \in S, rank[x] < 0 PROVE x \in G
    OBVIOUS
  <2>1. rank[x] \in Nat
    OBVIOUS
  <2> QED
    BY <2>1
<1>2. ASSUME NEW n \in Nat, n \in B PROVE n + 1 \in B
  <2> SUFFICES ASSUME NEW x \in S, rank[x] < n + 1 PROVE x \in G
    OBVIOUS
  <2>1. ASSUME NEW y \in S, rank[y] < rank[x] PROVE y \in G
    <3>1. rank[x] \in Nat /\ rank[y] \in Nat
      OBVIOUS
    <3>2. rank[y] < n
      BY <2>1, <3>1
    <3> QED
      BY <1>2, <3>2
  <2> QED
    BY <2>1
<1> HIDE DEF B
<1>3. \A n \in Nat : n \in B
  BY <1>1, <1>2, SetInduction
<1> SUFFICES ASSUME NEW x \in S PROVE x \in G
  OBVIOUS
<1>4. rank[x] \in Nat /\ rank[x] + 1 \in Nat /\ rank[x] < rank[x] + 1
  OBVIOUS
<1>5. rank[x] + 1 \in B
  BY <1>3, <1>4
<1> QED
  BY <1>4, <1>5 DEF B

\* Induction over sequences, by their last element.
LEMMA SeqInduction ==
    ASSUME NEW C, NEW G, <<>> \in G, \A s \in Seq(C) : \A c \in C : s \in G => Append(s, c) \in G
    PROVE  \A s \in Seq(C) : s \in G
<1> DEFINE B == {n \in Nat : \A s \in Seq(C) : Len(s) = n => s \in G}
<1>1. 0 \in B
  BY EmptySeq
<1>2. ASSUME NEW n \in Nat, n \in B PROVE n + 1 \in B
  <2> SUFFICES ASSUME NEW s \in Seq(C), Len(s) = n + 1 PROVE s \in G
    OBVIOUS
  <2> DEFINE r == SubSeq(s, 1, n)
  <2>1. r \in Seq(C) /\ Len(r) = n /\ \A i \in 1 .. n : r[i] = s[i]
    BY SubSeqProperties
  <2>2. s[n + 1] \in C
    OBVIOUS
  <2>3. r \in G
    BY <1>2, <2>1
  <2> HIDE DEF r
  <2>4. Append(r, s[n + 1]) = s
    <3> DEFINE a == Append(r, s[n + 1])
    <3>1. /\ a \in Seq(C) /\ Len(a) = n + 1
          /\ \A i \in 1 .. n + 1 : a[i] = s[i]
      BY <2>1, <2>2, AppendProperties
    <3> HIDE DEF a
    <3>2. a = s
      BY <3>1, SeqEqual
    <3> QED
      BY <3>2 DEF a
  <2> QED
    BY <2>1, <2>2, <2>3, <2>4
<1> HIDE DEF B
<1>3. \A n \in Nat : n \in B
  BY <1>1, <1>2, SetInduction
<1> SUFFICES ASSUME NEW s \in Seq(C) PROVE s \in G
  OBVIOUS
<1>4. Len(s) \in B
  BY <1>3
<1> QED
  BY <1>4 DEF B

-----------------------------------------------------------------------------
\* The elements of s, each replaced by a sequence.
Flat(m, s) == FlattenSeq([i \in 1 .. Len(s) |-> m[s[i]]])

\* No element gives the empty sequence.
LEMMA FlatEmpty == ASSUME NEW m PROVE Flat(m, <<>>) = <<>>
<1>1. [i \in 1 .. Len(<<>>) |-> m[<<>>[i]]] \in Seq({})
  OBVIOUS
<1>2. [i \in 1 .. Len(<<>>) |-> m[<<>>[i]]] = <<>>
  BY <1>1, EmptySeq
<1> QED
  BY <1>2, FlattenEmpty DEF Flat

\* The result is a sequence of what the elements are replaced by.
LEMMA FlatTyped ==
    ASSUME NEW C, NEW T, NEW m \in [C -> Seq(T)], NEW s \in Seq(C)
    PROVE  Flat(m, s) \in Seq(T)
<1>1. [i \in 1 .. Len(s) |-> m[s[i]]] \in Seq(Seq(T))
  OBVIOUS
<1> QED
  BY <1>1, FlattenTyped DEF Flat

\* The elements of a longer sequence, each replaced.
LEMMA MapAppend ==
    ASSUME NEW C, NEW V, NEW m \in [C -> V], NEW s \in Seq(C), NEW c \in C
    PROVE  /\ [i \in 1 .. Len(s) |-> m[s[i]]] \in Seq(V)
           /\ [i \in 1 .. Len(Append(s, c)) |-> m[Append(s, c)[i]]]
                  = Append([i \in 1 .. Len(s) |-> m[s[i]]], m[c])
<1> DEFINE x == [i \in 1 .. Len(s) |-> m[s[i]]]
           a == Append(s, c)
           y == [i \in 1 .. Len(a) |-> m[a[i]]]
           z == Append(x, m[c])
<1>1. a \in Seq(C) /\ Len(a) = Len(s) + 1 /\ a[Len(s) + 1] = c /\ \A i \in 1 .. Len(s) : a[i] = s[i]
  BY AppendProperties
<1>2. x \in Seq(V) /\ Len(x) = Len(s) /\ \A i \in 1 .. Len(s) : x[i] = m[s[i]]
  OBVIOUS
<1> HIDE DEF a, x
<1>3. y \in Seq(V) /\ Len(y) = Len(s) + 1 /\ \A i \in 1 .. Len(s) + 1 : y[i] = m[a[i]]
  BY <1>1
<1>4. m[c] \in V /\ Len(s) \in Nat
  OBVIOUS
<1>5. /\ z \in Seq(V) /\ Len(z) = Len(s) + 1 /\ z[Len(s) + 1] = m[c]
      /\ \A i \in 1 .. Len(s) : z[i] = x[i]
  BY <1>2, <1>4, AppendProperties
<1> HIDE DEF y, z
<1>6. \A i \in 1 .. Len(z) : z[i] = y[i]
  <2> SUFFICES ASSUME NEW i \in 1 .. Len(s) + 1 PROVE z[i] = y[i]
    BY <1>5
  <2>1. CASE i = Len(s) + 1
    BY <1>1, <1>3, <1>5, <2>1
  <2>2. CASE i # Len(s) + 1
    <3>1. i \in 1 .. Len(s)
      BY <1>4, <2>2
    <3> QED
      BY <1>1, <1>2, <1>3, <1>5, <3>1
  <2> QED
    BY <2>1, <2>2
<1>7. y = z
  BY <1>3, <1>5, <1>6, SeqEqual
<1> QED
  BY <1>2, <1>7 DEF x, y, z, a

\* One more element adds what it is replaced by.
LEMMA FlatAppend ==
    ASSUME NEW C, NEW T, NEW m \in [C -> Seq(T)], NEW s \in Seq(C), NEW c \in C
    PROVE  Flat(m, Append(s, c)) = Flat(m, s) \o m[c]
<1> DEFINE x == [i \in 1 .. Len(s) |-> m[s[i]]]
<1>1. /\ x \in Seq(Seq(T))
      /\ [i \in 1 .. Len(Append(s, c)) |-> m[Append(s, c)[i]]] = Append(x, m[c])
  BY MapAppend
<1>2. FlattenSeq(Append(x, m[c])) = FlattenSeq(x) \o m[c]
  <2> HIDE DEF x
  <2> QED
    BY <1>1, FlattenAppend
<1> QED
  BY <1>1, <1>2 DEF Flat

\* A single element is replaced.
LEMMA FlatSingle ==
    ASSUME NEW C, NEW T, NEW m \in [C -> Seq(T)], NEW c \in C
    PROVE  Flat(m, <<c>>) = m[c]
<1>1. <<>> \in Seq(C) /\ Append(<<>>, c) = <<c>>
  OBVIOUS
<1>2. Flat(m, Append(<<>>, c)) = Flat(m, <<>>) \o m[c]
  BY <1>1, FlatAppend
<1> QED
  BY <1>1, <1>2, FlatEmpty, ConcatEmptySeq

\* What stands one after the other is replaced one after the other.
LEMMA FlatConcat ==
    ASSUME NEW C, NEW T, NEW m \in [C -> Seq(T)], NEW a \in Seq(C), NEW b \in Seq(C)
    PROVE  Flat(m, a \o b) = Flat(m, a) \o Flat(m, b)
<1> DEFINE G == {s \in Seq(C) : Flat(m, a \o s) = Flat(m, a) \o Flat(m, s)}
<1>1. <<>> \in G
  <2>1. <<>> \in Seq(C) /\ a \o <<>> = a /\ Flat(m, a) \in Seq(T)
    BY ConcatEmptySeq, FlatTyped
  <2>2. Flat(m, a) \o <<>> = Flat(m, a)
    BY <2>1, ConcatEmptySeq
  <2> QED
    BY <2>1, <2>2, FlatEmpty
<1>2. ASSUME NEW s \in Seq(C), NEW c \in C, s \in G PROVE Append(s, c) \in G
  <2>1. Append(s, c) \in Seq(C) /\ a \o s \in Seq(C) /\ a \o Append(s, c) = Append(a \o s, c)
    <3>1. /\ Append(s, c) = s \o <<c>> /\ Append(a \o s, c) = (a \o s) \o <<c>>
          /\ <<c>> \in Seq(C) /\ a \o s \in Seq(C)
      BY ConcatProperties, AppendIsConcat
    <3>2. a \o (s \o <<c>>) = (a \o s) \o <<c>>
      BY <3>1, ConcatAssociative
    <3> QED
      BY <3>1, <3>2
  <2>2. /\ Flat(m, Append(a \o s, c)) = Flat(m, a \o s) \o m[c]
        /\ Flat(m, Append(s, c)) = Flat(m, s) \o m[c]
    BY <2>1, FlatAppend
  <2>3. Flat(m, a) \in Seq(T) /\ Flat(m, s) \in Seq(T) /\ m[c] \in Seq(T)
    BY FlatTyped
  <2>4. (Flat(m, a) \o Flat(m, s)) \o m[c] = Flat(m, a) \o (Flat(m, s) \o m[c])
    BY <2>3, ConcatAssociative
  <2> QED
    BY <1>2, <2>1, <2>2, <2>4
<1> HIDE DEF G
<1>3. \A s \in Seq(C) : s \in G
  BY <1>1, <1>2, SeqInduction
<1> QED
  BY <1>3 DEF G

\* A bound on what each element is replaced by bounds the whole.
LEMMA FlatLength ==
    ASSUME NEW C, NEW T, NEW m \in [C -> Seq(T)], NEW s \in Seq(C), NEW M \in Nat,
           \A i \in 1 .. Len(s) : Len(m[s[i]]) <= M
    PROVE  Len(Flat(m, s)) <= M * Len(s)
<1> DEFINE G == {r \in Seq(C) : (\A i \in 1 .. Len(r) : Len(m[r[i]]) <= M) => Len(Flat(m, r)) <= M * Len(r)}
<1>1. <<>> \in G
  BY FlatEmpty
<1>2. ASSUME NEW r \in Seq(C), NEW c \in C, r \in G PROVE Append(r, c) \in G
  <2> DEFINE a == Append(r, c)
  <2>1. /\ a \in Seq(C) /\ Len(a) = Len(r) + 1 /\ Len(r) \in Nat
        /\ \A i \in 1 .. Len(r) : a[i] = r[i]
        /\ a[Len(r) + 1] = c
    BY AppendProperties
  <2>2. Flat(m, r) \in Seq(T) /\ m[c] \in Seq(T)
    BY FlatTyped
  <2>3. Len(Flat(m, r) \o m[c]) = Len(Flat(m, r)) + Len(m[c])
    BY <2>2, ConcatProperties
  <2>4. Flat(m, a) = Flat(m, r) \o m[c]
    BY FlatAppend
  <2> HIDE DEF a
  <2> SUFFICES ASSUME \A i \in 1 .. Len(a) : Len(m[a[i]]) <= M
               PROVE  Len(Flat(m, a)) <= M * Len(a)
    BY <2>1 DEF a
  <2>5. Len(m[c]) <= M /\ \A i \in 1 .. Len(r) : Len(m[r[i]]) <= M
    BY <2>1
  <2>6. Len(Flat(m, r)) \in Nat /\ Len(m[c]) \in Nat
    BY <2>2
  <2>7. M * (Len(r) + 1) = M * Len(r) + M
    BY <2>1
  <2>8. Len(Flat(m, r)) <= M * Len(r) /\ M * Len(r) \in Nat
    BY <1>2, <2>1, <2>5
  <2> QED
    BY <2>1, <2>3, <2>4, <2>5, <2>6, <2>7, <2>8
<1> HIDE DEF G
<1>3. \A r \in Seq(C) : r \in G
  BY <1>1, <1>2, SeqInduction
<1> QED
  BY <1>3 DEF G

\* Only what the elements are replaced by matters.
LEMMA FlatSame ==
    ASSUME NEW m, NEW k, NEW s, \A i \in 1 .. Len(s) : m[s[i]] = k[s[i]]
    PROVE  Flat(m, s) = Flat(k, s)
<1>1. [i \in 1 .. Len(s) |-> m[s[i]]] = [i \in 1 .. Len(s) |-> k[s[i]]]
  OBVIOUS
<1> QED
  BY <1>1 DEF Flat

\* Elements replaced by themselves stay.
LEMMA FlatIdentity ==
    ASSUME NEW C, NEW T, C \subseteq T, NEW m \in [C -> Seq(T)], NEW s \in Seq(C),
           \A i \in 1 .. Len(s) : m[s[i]] = <<s[i]>>
    PROVE  Flat(m, s) = s
<1> DEFINE G == {r \in Seq(C) : (\A i \in 1 .. Len(r) : m[r[i]] = <<r[i]>>) => Flat(m, r) = r}
<1>1. <<>> \in G
  BY FlatEmpty
<1>2. ASSUME NEW r \in Seq(C), NEW c \in C, r \in G PROVE Append(r, c) \in G
  <2> DEFINE a == Append(r, c)
  <2>1. /\ a \in Seq(C) /\ Len(a) = Len(r) + 1 /\ Len(r) \in Nat
        /\ \A i \in 1 .. Len(r) : a[i] = r[i]
        /\ a[Len(r) + 1] = c
    BY AppendProperties
  <2>2. a = r \o <<c>>
    BY AppendIsConcat
  <2>3. Flat(m, a) = Flat(m, r) \o m[c]
    BY FlatAppend
  <2> HIDE DEF a
  <2> SUFFICES ASSUME \A i \in 1 .. Len(a) : m[a[i]] = <<a[i]>>
               PROVE  Flat(m, a) = a
    BY <2>1 DEF a
  <2>4. m[c] = <<c>> /\ \A i \in 1 .. Len(r) : m[r[i]] = <<r[i]>>
    <3>1. Len(r) + 1 \in 1 .. Len(a) /\ \A i \in 1 .. Len(r) : i \in 1 .. Len(a)
      BY <2>1
    <3>2. m[a[Len(r) + 1]] = <<a[Len(r) + 1]>>
      BY <3>1
    <3>3. ASSUME NEW i \in 1 .. Len(r) PROVE m[r[i]] = <<r[i]>>
      <4>1. m[a[i]] = <<a[i]>> /\ a[i] = r[i]
        BY <2>1, <3>1
      <4> QED
        BY <4>1
    <3> QED
      BY <2>1, <3>2, <3>3
  <2>5. Flat(m, r) = r
    BY <1>2, <2>4
  <2> QED
    BY <2>2, <2>3, <2>4, <2>5
<1> HIDE DEF G
<1>3. \A r \in Seq(C) : r \in G
  BY <1>1, <1>2, SeqInduction
<1> QED
  BY <1>3 DEF G

\* Replacing distributes over concatenation of sequences of T.
Distributes(k, T) == \A a, b \in Seq(T) : Flat(k, a \o b) = Flat(k, a) \o Flat(k, b)

\* FlatConcat, as a fact about the function.
LEMMA FlatDistributes ==
    ASSUME NEW T, NEW U, NEW k \in [T -> Seq(U)]
    PROVE  Distributes(k, T)
  BY FlatConcat DEF Distributes

\* j replaces an element as m does and k after it.
Composes(C, T, U, m, k, j) ==
    /\ m \in [C -> Seq(T)] /\ k \in [T -> Seq(U)] /\ j \in [C -> Seq(U)]
    /\ \A c \in C : j[c] = Flat(k, m[c])

\* Two replacements, one after the other, are one.
LEMMA FlatFlat ==
    ASSUME NEW C, NEW T, NEW U, NEW m, NEW k, NEW j, Composes(C, T, U, m, k, j), NEW s \in Seq(C)
    PROVE  Flat(k, Flat(m, s)) = Flat(j, s)
<1>t. m \in [C -> Seq(T)] /\ k \in [T -> Seq(U)] /\ j \in [C -> Seq(U)]
  BY DEF Composes
<1> DEFINE G == {r \in Seq(C) : Flat(k, Flat(m, r)) = Flat(j, r)}
<1>0. Distributes(k, T)
  BY <1>t, FlatDistributes
<1>1. <<>> \in G
  BY FlatEmpty
<1>2. ASSUME NEW r \in Seq(C), NEW c \in C, r \in G PROVE Append(r, c) \in G
  <2>1. Append(r, c) \in Seq(C)
    BY AppendProperties
  <2>2. Flat(m, r) \in Seq(T) /\ m[c] \in Seq(T)
    BY <1>t, FlatTyped
  <2>3. Flat(k, Flat(m, r) \o m[c]) = Flat(k, Flat(m, r)) \o Flat(k, m[c])
    BY <1>0, <2>2 DEF Distributes
  <2>4. Flat(m, Append(r, c)) = Flat(m, r) \o m[c] /\ Flat(j, Append(r, c)) = Flat(j, r) \o j[c]
    BY <1>t, FlatAppend
  <2> QED
    BY <1>2, <2>1, <2>3, <2>4 DEF Composes
<1> HIDE DEF G
<1>3. \A r \in Seq(C) : r \in G
  BY <1>1, <1>2, SeqInduction
<1> QED
  BY <1>3 DEF G

-----------------------------------------------------------------------------
\* Min of a set of naturals is its least element.
LEMMA MinOfNaturals ==
    ASSUME NEW T, T \subseteq Nat, T # {}
    PROVE  Min(T) \in T /\ \A m \in T : Min(T) <= m
<1>1. \E n \in T : \A m \in T : n <= m
  BY LeastNatural
<1> QED
  BY <1>1 DEF Min

\* Max of two integers.
LEMMA MaxOfTwo ==
    ASSUME NEW a \in Int, NEW b \in Int
    PROVE  Max({a, b}) = IF a >= b THEN a ELSE b
<1>1. \E n \in {a, b} : \A m \in {a, b} : n >= m
  OBVIOUS
<1>2. Max({a, b}) \in {a, b} /\ \A m \in {a, b} : Max({a, b}) >= m
  BY <1>1 DEF Max
<1> QED
  BY <1>2

\* Max of a set of integers that has a greatest one.
LEMMA MaxIs ==
    ASSUME NEW T, T \subseteq Int, NEW a \in T, \A b \in T : a >= b
    PROVE  Max(T) = a
<1>1. \E n \in T : \A b \in T : n >= b
  OBVIOUS
<1>2. Max(T) \in T /\ \A b \in T : Max(T) >= b
  BY <1>1 DEF Max
<1>3. Max(T) \in Int /\ a \in Int /\ Max(T) >= a /\ a >= Max(T)
  BY <1>2
<1> QED
  BY <1>3

\* Min of two integers.
LEMMA MinOfTwo ==
    ASSUME NEW a \in Int, NEW b \in Int
    PROVE  Min({a, b}) = IF a <= b THEN a ELSE b
<1>1. \E n \in {a, b} : \A m \in {a, b} : n <= m
  OBVIOUS
<1>2. Min({a, b}) \in {a, b} /\ \A m \in {a, b} : Min({a, b}) <= m
  BY <1>1 DEF Min
<1> QED
  BY <1>2
=============================================================================
