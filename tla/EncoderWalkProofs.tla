------------------------- MODULE EncoderWalkProofs -------------------------
(***************************************************************************)
(* What the locks and the sizes of the walk come to, for any number of     *)
(* encoders, any heap of containers and any depth.                         *)
(*                                                                         *)
(* There are five questions, each with an invariant of its own on top of the *)
(* types: the locks are those of the path and of the set (LockInv);        *)
(* cur_list_size is that of the container the walk is in (SizeInv); on a   *)
(* heap without circles, containers are ranked along each path, so that    *)
(* whoever waits waits for one below all that it holds (RankInv); the path is *)
(* one of the heap, and the text that of the values passed on it (TreeInv); *)
(* and, on any heap, each container of a path is in the one before (LinkInv). *)
(***************************************************************************)
EXTENDS EncoderTree, DataInduction, SequenceTheorems, WellFoundedInduction, TLAPS

Frame == [ctn : Containers, pos : Nat]
Labels == {"idle", "lock", "val", "success", "fail"} \cup Ended
Errors == {"none", "circular", "depth", "other"}

\* The types, and which of pend and path is there at which label.
TypesInv ==
    /\ TypeOK
    /\ \A e \in Encoders : /\ pc[e] = "val" => path[e] # <<>>
                           /\ pc[e] = "lock" => pend[e] \in Lockable

-----------------------------------------------------------------------------
(* Sequences. *)

\* Dropping the last element of a sequence.
LEMMA BelowSeq ==
    ASSUME NEW S, NEW s \in Seq(S)
    PROVE  /\ Below(s) \in Seq(S)
           /\ s # <<>> => Len(Below(s)) = Len(s) - 1
           /\ \A i \in 1 .. Len(s) - 1 : Below(s)[i] = s[i]
<1>1. \A i \in 1 .. Len(s) - 1 : s[i] \in S
  BY ElementOfSeq
<1>2. /\ SubSeq(s, 1, Len(s) - 1) \in Seq(S)
      /\ Len(SubSeq(s, 1, Len(s) - 1)) = IF 1 <= Len(s) - 1 THEN Len(s) - 1 - 1 + 1 ELSE 0
      /\ \A i \in 1 .. Len(s) - 1 - 1 + 1 : SubSeq(s, 1, Len(s) - 1)[i] = s[1 + i - 1]
  BY <1>1, SubSeqProperties
<1>3. Len(s) \in Nat /\ (s # <<>> => Len(s) >= 1)
  BY EmptySeq
<1>4. /\ \A n \in Nat : n >= 1 => 1 <= n - 1 \/ n - 1 = 0
      /\ \A n \in Nat : n - 1 - 1 + 1 = n - 1
      /\ \A i \in Int : 1 + i - 1 = i
  OBVIOUS
<1> DEFINE b == SubSeq(s, 1, Len(s) - 1)
<1> HIDE DEF b
<1>5. s # <<>> => Len(b) = Len(s) - 1
  BY <1>2, <1>3, <1>4 DEF b
<1>6. \A i \in 1 .. Len(s) - 1 : b[i] = s[i]
  BY <1>2, <1>3, <1>4 DEF b
<1> QED
  BY <1>2, <1>5, <1>6 DEF Below, b

\* The current container: the last of a path.
LEMMA LastFrame ==
    ASSUME NEW p \in Seq(Frame), p # <<>>
    PROVE  /\ Len(p) \in Nat \ {0} /\ Len(p) \in 1 .. Len(p)
           /\ p[Len(p)] \in Frame /\ p[Len(p)].ctn \in Containers /\ p[Len(p)].pos \in Nat
<1>1. Len(p) \in Nat \ {0} /\ Len(p) \in 1 .. Len(p)
  BY EmptySeq
<1>2. p[Len(p)] \in Frame
  BY <1>1, ElementOfSeq
<1> QED
  BY <1>1, <1>2 DEF Frame

\* Entering a container.
LEMMA EnteredPath ==
    ASSUME NEW p \in Seq(Frame), NEW o \in Containers
    PROVE  LET q == Append(p, [ctn |-> o, pos |-> 0])
           IN  /\ q \in Seq(Frame) /\ q # <<>> /\ Len(q) = Len(p) + 1
               /\ \A i \in 1 .. Len(p) : q[i] = p[i]
               /\ q[Len(q)] = [ctn |-> o, pos |-> 0]
<1>1. [ctn |-> o, pos |-> 0] \in Frame
  BY DEF Frame
<1> QED
  BY <1>1, AppendProperties

\* Counting a value of the current container leaves the containers of a path.
LEMMA AdvancedPath ==
    ASSUME NEW e \in Encoders, path[e] \in Seq(Frame), path[e] # <<>>
    PROVE  /\ Advanced(e) \in Seq(Frame) /\ Len(Advanced(e)) = Len(path[e])
           /\ Advanced(e) # <<>>
           /\ \A i \in 1 .. Len(path[e]) : Advanced(e)[i].ctn = path[e][i].ctn
           /\ Advanced(e)[Len(path[e])].pos = Cur(e).pos + 1
<1> DEFINE p == path[e]
           f == [p[Len(p)] EXCEPT !.pos = @ + 1]
<1>1. Len(p) \in 1 .. Len(p) /\ p[Len(p)] \in Frame
  BY LastFrame
<1>2. f \in Frame /\ f.ctn = p[Len(p)].ctn /\ f.pos = p[Len(p)].pos + 1
  BY <1>1 DEF Frame
<1>3. Advanced(e) = [p EXCEPT ![Len(p)] = f]
  BY DEF Advanced
<1>4. p \in [1 .. Len(p) -> Frame] /\ Len(p) \in Nat
  BY LenProperties
<1> HIDE DEF f
<1>5. Advanced(e) \in [1 .. Len(p) -> Frame] /\ DOMAIN Advanced(e) = 1 .. Len(p)
  BY <1>2, <1>3, <1>4
<1>6. Advanced(e) \in Seq(Frame) /\ Len(Advanced(e)) = Len(p)
  BY <1>4, <1>5, IsASeq, SeqDef
<1>7. \A i \in 1 .. Len(p) : Advanced(e)[i].ctn = p[i].ctn
  BY <1>1, <1>2, <1>3, <1>4
<1>8. Advanced(e)[Len(p)].pos = Cur(e).pos + 1
  BY <1>1, <1>2, <1>3, <1>4 DEF Cur
<1> QED
  BY <1>1, <1>6, <1>7, <1>8

-----------------------------------------------------------------------------
(* The types. *)

\* A step of e that changes nothing of the walks but what belongs to e.
Moves(e, label, p, n, want, objs, text, why) ==
    /\ pc' = [pc EXCEPT ![e] = label] /\ path' = [path EXCEPT ![e] = p]
    /\ size' = [size EXCEPT ![e] = n] /\ pend' = [pend EXCEPT ![e] = want]
    /\ held' = [held EXCEPT ![e] = objs] /\ out' = [out EXCEPT ![e] = text]
    /\ err' = [err EXCEPT ![e] = why]
    /\ label \in Labels /\ p \in Seq(Frame) /\ Len(p) <= MaxDepth /\ n \in Nat
    /\ want \in Lockable \cup {None} /\ objs \in SUBSET Lockable
    /\ text \in Seq(Text) /\ why \in Errors
    /\ label = "val" => p # <<>>
    /\ label = "lock" => want \in Lockable

MovesTyped(e) ==
    \E label, p, n, want, objs, text, why : Moves(e, label, p, n, want, objs, text, why)

\* What is typed when the owners are, and heap, root and changed.
LEMMA MovedTypes ==
    ASSUME TypesInv, NEW e \in Encoders, MovesTyped(e),
           gil' \in Builds, heap' \in [Containers -> Seq(Values)],
           owner' \in [Lockable -> Encoders \cup {None}],
           root' \in [Encoders -> Containers \cup {None}], changed' \in [Encoders -> BOOLEAN]
    PROVE  TypesInv'
<1>1. PICK label, p, n, want, objs, text, why : Moves(e, label, p, n, want, objs, text, why)
  BY DEF MovesTyped
<1> USE <1>1 DEF Moves
<1>2. /\ pc' \in [Encoders -> Labels] /\ path' \in [Encoders -> Seq(Frame)]
      /\ size' \in [Encoders -> Nat] /\ pend' \in [Encoders -> Lockable \cup {None}]
      /\ held' \in [Encoders -> SUBSET Lockable] /\ out' \in [Encoders -> Seq(Text)]
      /\ err' \in [Encoders -> Errors]
  BY DEF TypesInv, TypeOK, Labels, Frame, Errors
<1>3. /\ pc'[e] = label /\ path'[e] = p /\ pend'[e] = want
      /\ \A f \in Encoders \ {e} : pc'[f] = pc[f] /\ path'[f] = path[f] /\ pend'[f] = pend[f]
  BY DEF TypesInv, TypeOK
<1>4. \A f \in Encoders : Len(path'[f]) <= MaxDepth
  BY <1>3 DEF TypesInv, TypeOK
<1>5. \A f \in Encoders : /\ pc'[f] = "val" => path'[f] # <<>>
                          /\ pc'[f] = "lock" => pend'[f] \in Lockable
  BY <1>3 DEF TypesInv
<1>6. TypeOK'
  BY <1>2, <1>4 DEF TypeOK, Labels, Frame, Errors
<1> QED
  BY <1>5, <1>6 DEF TypesInv

\* The values of e, and that leaving one of them alone is to move to it.
LEMMA Typed ==
    ASSUME TypesInv, NEW e \in Encoders
    PROVE  /\ pc[e] \in Labels /\ path[e] \in Seq(Frame) /\ Len(path[e]) <= MaxDepth
           /\ size[e] \in Nat /\ pend[e] \in Lockable \cup {None}
           /\ held[e] \in SUBSET Lockable /\ out[e] \in Seq(Text) /\ err[e] \in Errors
           /\ gil \in Builds /\ gil \in BOOLEAN /\ heap \in [Containers -> Seq(Values)]
           /\ owner \in [Lockable -> Encoders \cup {None}]
           /\ root \in [Encoders -> Containers \cup {None}] /\ changed \in [Encoders -> BOOLEAN]
           /\ pc[e] = "val" => path[e] # <<>>
           /\ pc[e] = "lock" => pend[e] \in Lockable
  BY BuildAssumption DEF TypesInv, TypeOK, Labels, Frame, Errors

LEMMA Stays ==
    ASSUME TypesInv, NEW e \in Encoders
    PROVE  /\ pc = [pc EXCEPT ![e] = pc[e]] /\ path = [path EXCEPT ![e] = path[e]]
           /\ size = [size EXCEPT ![e] = size[e]] /\ pend = [pend EXCEPT ![e] = pend[e]]
           /\ held = [held EXCEPT ![e] = held[e]] /\ out = [out EXCEPT ![e] = out[e]]
           /\ err = [err EXCEPT ![e] = err[e]]
  BY DEF TypesInv, TypeOK

-----------------------------------------------------------------------------
(* What each action comes to for its encoder. *)

\* What is written when a container is met, and what is read of it.
BeginsText(e, o) == out[e] \o <<Begins(o)>>
BeginsSize(e, o) == IF o \in Dicts THEN size[e] ELSE Len(heap[o])

\* Container o is met with p for the path: it is empty; it is entered; it is not,
\* because it is too deep or in the set; it is put in the set to be locked.
Meets(e, p, o, label, q, n, want, objs, text, why) ==
    \/ /\ Len(heap[o]) = 0
       /\ label = IF p = <<>> THEN "success" ELSE "val"
       /\ q = p /\ n = size[e] /\ want = pend[e] /\ objs = held[e] /\ why = err[e]
       /\ text = out[e] \o <<Begins(o), Ends(o), ",">>
    \/ /\ Len(heap[o]) > 0 /\ ~Locks(o) /\ label = "val" /\ Len(p) < MaxDepth
       /\ q = Append(p, [ctn |-> o, pos |-> 0]) /\ want = pend[e] /\ objs = held[e]
       /\ n = BeginsSize(e, o) /\ text = BeginsText(e, o) /\ why = err[e]
    \/ /\ Len(heap[o]) > 0 /\ label = "fail" /\ q = p /\ want = pend[e] /\ objs = held[e]
       /\ \/ ~Locks(o) /\ Len(p) = MaxDepth /\ why = "depth"
          \/ Locks(o) /\ o \in held[e] /\ why = "circular"
    \/ /\ Len(heap[o]) > 0 /\ Locks(o) /\ o \notin held[e] /\ label = "lock" /\ q = p
       /\ want = o /\ objs \in {held[e], held[e] \cup {o}}
       /\ SetMayFail \/ objs = held[e] \cup {o}
       /\ n = BeginsSize(e, o) /\ text = BeginsText(e, o) /\ why = err[e]

LEMMA Tokens ==
    ASSUME NEW o
    PROVE  /\ <<Begins(o)>> \in Seq(Text) /\ <<Begins(o), Ends(o), ",">> \in Seq(Text)
           /\ <<Ends(o), ",">> \in Seq(Text) /\ <<"v", ",">> \in Seq(Text)
<1>1. Begins(o) \in Text /\ Ends(o) \in Text /\ "," \in Text /\ "v" \in Text
  BY DEF Begins, Ends, Text
<1>2. \A a, b, c \in Text : <<a>> \in Seq(Text) /\ <<a, b>> \in Seq(Text) /\ <<a, b, c>> \in Seq(Text)
  OBVIOUS
<1> QED
  BY <1>1, <1>2, Zenon

LEMMA MeetMoves ==
    ASSUME TypesInv, NEW e \in Encoders, NEW o \in Containers, NEW p \in Seq(Frame),
           Len(p) <= MaxDepth, MeetEmpty(e, p, o) \/ Meet(e, p, o)
    PROVE  /\ owner' = owner
           /\ \E label, q, n, want, objs, text, why :
                 /\ Moves(e, label, q, n, want, objs, text, why)
                 /\ Meets(e, p, o, label, q, n, want, objs, text, why)
<1> USE Typed, Stays
<1>2. /\ out[e] \o <<Begins(o), Ends(o), ",">> \in Seq(Text)
      /\ BeginsText(e, o) \in Seq(Text)
  <2>1. /\ out[e] \in Seq(Text) /\ <<Begins(o)>> \in Seq(Text)
        /\ <<Begins(o), Ends(o), ",">> \in Seq(Text)
    BY Tokens
  <2> QED
    BY <2>1, ConcatProperties DEF BeginsText
<1>3. heap[o] \in Seq(Values) /\ Len(heap[o]) \in Nat /\ BeginsSize(e, o) \in Nat
  BY LenProperties DEF BeginsSize
<1>4. CASE MeetEmpty(e, p, o)
  <2> DEFINE label == IF p = <<>> THEN "success" ELSE "val"
  <2>1. Moves(e, label, p, size[e], pend[e], held[e], out[e] \o <<Begins(o), Ends(o), ",">>, err[e])
    BY <1>2, <1>4 DEF MeetEmpty, Write, Goto, Moves, Labels
  <2>2. Len(heap[o]) = 0 /\ owner' = owner
    BY <1>4 DEF MeetEmpty
  <2> QED
    BY <2>1, <2>2 DEF Meets
<1>5. CASE Meet(e, p, o)
  <2> DEFINE n == BeginsSize(e, o)
             text == BeginsText(e, o)
             q == Append(p, [ctn |-> o, pos |-> 0])
  <2>1. /\ Len(heap[o]) > 0 /\ owner' = owner
        /\ out' = [out EXCEPT ![e] = text] /\ size' = [size EXCEPT ![e] = n]
    BY <1>5 DEF Meet, Write, BeginsText, BeginsSize
  <2>2. q \in Seq(Frame) /\ q # <<>> /\ Len(q) = Len(p) + 1
    BY EnteredPath
  <2>3. Len(p) \in Nat /\ MaxDepth \in Nat
    BY LenProperties, DepthAssumption
  <2>4. text \in Seq(Text) /\ n \in Nat
    BY <1>2, <1>3
  <2> HIDE DEF n, text, q
  <2>5. CASE ~Locks(o)
    <3>1. Enter(e, p, o) /\ UNCHANGED <<pend, held>>
      BY <1>5, <2>5 DEF Meet
    <3>2. CASE TooDeep(p)
      <4>1. Moves(e, "fail", p, n, pend[e], held[e], text, "depth")
        BY <2>1, <2>4, <3>1, <3>2 DEF Enter, Fail, Goto, Moves, Labels, Errors
      <4> QED
        BY <2>1, <2>5, <3>2, <4>1 DEF TooDeep, Meets
    <3>3. CASE ~TooDeep(p)
      <4>1. Len(p) < MaxDepth /\ Len(q) <= MaxDepth
        BY <2>2, <2>3, <3>3 DEF TooDeep
      <4>2. Moves(e, "val", q, n, pend[e], held[e], text, err[e])
        BY <2>1, <2>2, <2>4, <3>1, <3>3, <4>1 DEF Enter, Fail, Goto, Moves, Labels, q
      <4> QED
        BY <2>1, <2>5, <4>1, <4>2 DEF Meets, q, n, text
    <3> QED
      BY <3>2, <3>3
  <2>6. CASE Locks(o) /\ o \in held[e]
    <3>1. Moves(e, "fail", p, n, pend[e], held[e], text, "circular")
      BY <1>5, <2>1, <2>4, <2>6 DEF Meet, Fail, Goto, Moves, Labels, Errors
    <3> QED
      BY <2>1, <2>6, <3>1 DEF Meets
  <2>7. CASE Locks(o) /\ o \notin held[e]
    <3>1. o \in Lockable
      BY <2>7 DEF Locks
    <3>2. PICK objs \in {held[e], held[e] \cup {o}} :
              held' = [held EXCEPT ![e] = objs] /\ (SetMayFail \/ objs = held[e] \cup {o})
      BY <1>5, <2>7 DEF Meet, Put
    <3>3. objs \in SUBSET Lockable
      BY <3>1, <3>2
    <3>4. /\ pc' = [pc EXCEPT ![e] = "lock"] /\ path' = [path EXCEPT ![e] = p]
          /\ pend' = [pend EXCEPT ![e] = o] /\ err' = [err EXCEPT ![e] = err[e]]
          /\ err[e] \in Errors /\ "lock" \in Labels /\ "lock" # "val" /\ o \in Lockable \cup {None}
      BY <1>5, <2>7, <3>1 DEF Meet, Goto, Labels
    <3>5. Moves(e, "lock", p, n, o, objs, text, err[e])
      BY <2>1, <2>4, <3>1, <3>2, <3>3, <3>4 DEF Moves
    <3> QED
      BY <2>1, <2>7, <3>2, <3>5 DEF Meets, n, text
  <2> QED
    BY <2>5, <2>6, <2>7
<1> QED
  BY <1>4, <1>5

\* What a call that gives up comes to.
GaveUp(e, label, q, n, want, objs, text, why) ==
    /\ label = "fail" /\ why = "other"
    /\ q = path[e] /\ n = size[e] /\ want = pend[e] /\ objs = held[e] /\ text = out[e]

LEMMA GivesUpMoves ==
    ASSUME TypesInv, NEW e \in Encoders, GivesUp(e)
    PROVE  /\ owner' = owner
           /\ \E label, q, n, want, objs, text, why :
                 /\ Moves(e, label, q, n, want, objs, text, why)
                 /\ GaveUp(e, label, q, n, want, objs, text, why)
<1>1. Moves(e, "fail", path[e], size[e], pend[e], held[e], out[e], "other")
  BY Typed, Stays DEF GivesUp, Fail, Goto, Moves, Labels, Errors
<1> QED
  BY <1>1 DEF GaveUp, GivesUp

LEMMA StartMoves ==
    ASSUME TypesInv, NEW e \in Encoders, Start(e)
    PROVE  /\ pc[e] = "idle" /\ MayRun(e) /\ heap' = heap /\ owner' = owner /\ changed' = changed
           /\ \E o \in Containers :
                 /\ root' = [root EXCEPT ![e] = o]
                 /\ \E label, q, n, want, objs, text, why :
                       /\ Moves(e, label, q, n, want, objs, text, why)
                       /\ \/ Meets(e, <<>>, o, label, q, n, want, objs, text, why)
                          \/ GaveUp(e, label, q, n, want, objs, text, why)
<1>1. PICK o \in Containers : /\ root' = [root EXCEPT ![e] = o]
                              /\ MeetEmpty(e, <<>>, o) \/ Meet(e, <<>>, o) \/ GivesUp(e)
  BY DEF Start
<1>2. <<>> \in Seq(Frame) /\ Len(<<>>) <= MaxDepth
  BY DepthAssumption
<1>3. CASE MeetEmpty(e, <<>>, o) \/ Meet(e, <<>>, o)
  BY <1>1, <1>2, <1>3, MeetMoves DEF Start
<1>4. CASE GivesUp(e)
  BY <1>1, <1>4, GivesUpMoves DEF Start
<1> QED
  BY <1>1, <1>3, <1>4

LEMMA AcquireMoves ==
    ASSUME TypesInv, NEW e \in Encoders, Acquire(e)
    PROVE  /\ pc[e] = "lock" /\ owner[pend[e]] = None
           /\ owner' = [owner EXCEPT ![pend[e]] = e]
           /\ heap' = heap /\ root' = root /\ changed' = changed
           /\ \E label, q, why :
                 /\ Moves(e, label, q, size[e], None, held[e], out[e], why)
                 /\ \/ label = "fail" /\ q = path[e] /\ Len(path[e]) = MaxDepth /\ why = "depth"
                    \/ /\ label = "val" /\ Len(path[e]) < MaxDepth /\ why = err[e]
                       /\ q = Append(path[e], [ctn |-> pend[e], pos |-> 0])
<1> USE Typed, Stays
<1>1. pc[e] = "lock" /\ pend[e] \in Lockable /\ pend[e] \in Containers
  BY DEF Acquire, Containers
<1>2. Enter(e, path[e], pend[e]) /\ pend' = [pend EXCEPT ![e] = None] /\ UNCHANGED <<size, held, out>>
  BY DEF Acquire
<1> DEFINE q == Append(path[e], [ctn |-> pend[e], pos |-> 0])
<1>3. q \in Seq(Frame) /\ q # <<>> /\ Len(q) = Len(path[e]) + 1
  BY <1>1, EnteredPath
<1>4. Len(path[e]) \in Nat /\ MaxDepth \in Nat
  BY LenProperties, DepthAssumption
<1> HIDE DEF q
<1>5. CASE TooDeep(path[e])
  <2>1. Moves(e, "fail", path[e], size[e], None, held[e], out[e], "depth")
    BY <1>2, <1>5 DEF Enter, Fail, Goto, Moves, Labels, Errors
  <2> QED
    BY <1>5, <2>1 DEF TooDeep, Acquire
<1>6. CASE ~TooDeep(path[e])
  <2>1. Len(path[e]) < MaxDepth /\ Len(q) <= MaxDepth
    BY <1>3, <1>4, <1>6 DEF TooDeep
  <2>2. Moves(e, "val", q, size[e], None, held[e], out[e], err[e])
    BY <1>2, <1>3, <1>6, <2>1 DEF Enter, Goto, Moves, Labels, q
  <2> QED
    BY <2>1, <2>2 DEF q, Acquire
<1> QED
  BY <1>5, <1>6

\* The value the walk looks at.
Item(e) == heap[Cur(e).ctn][Cur(e).pos + 1]

\* What looking at a value comes to: reading past the end of a list, a leaf, a
\* container that is met, or giving up.
Looks(e, label, q, n, want, objs, text, why) ==
    \/ /\ label = "wild" /\ Cur(e).pos >= Len(heap[Cur(e).ctn])
       /\ q = path[e] /\ n = size[e] /\ want = pend[e] /\ objs = held[e]
       /\ text = out[e] /\ why = err[e]
    \/ /\ label = "val" /\ Item(e) = Leaf /\ q = Advanced(e)
       /\ n = size[e] /\ want = pend[e] /\ objs = held[e]
       /\ text = out[e] \o <<"v", ",">> /\ why = err[e]
    \/ /\ Item(e) \in Containers /\ Cur(e).pos < Len(heap[Cur(e).ctn])
       /\ Meets(e, Advanced(e), Item(e), label, q, n, want, objs, text, why)
    \/ GaveUp(e, label, q, n, want, objs, text, why)

LEMMA ValueMoves ==
    ASSUME TypesInv, NEW e \in Encoders, Value(e)
    PROVE  /\ pc[e] = "val" /\ ~AtEnd(e)
           /\ owner' = owner /\ heap' = heap /\ root' = root /\ changed' = changed
           /\ \E label, q, n, want, objs, text, why :
                 /\ Moves(e, label, q, n, want, objs, text, why)
                 /\ Looks(e, label, q, n, want, objs, text, why)
<1>1. /\ pc[e] = "val" /\ ~AtEnd(e) /\ path[e] # <<>>
      /\ heap' = heap /\ root' = root /\ changed' = changed
  BY Typed DEF Value
<1> DEFINE c == Cur(e).ctn
           i == Cur(e).pos
<1>2. c \in Containers /\ i \in Nat /\ heap[c] \in Seq(Values) /\ Len(heap[c]) \in Nat
  <2>1. Cur(e).ctn \in Containers /\ Cur(e).pos \in Nat
    BY <1>1, Typed, LastFrame DEF Cur
  <2> QED
    BY <2>1, Typed, LenProperties
<1>3. /\ Advanced(e) \in Seq(Frame) /\ Len(Advanced(e)) <= MaxDepth /\ Advanced(e) # <<>>
  BY <1>1, Typed, AdvancedPath
<1>4. out[e] \o <<"v", ",">> \in Seq(Text)
  BY Tokens, Typed, ConcatProperties
<1>5. CASE i >= Len(heap[c])
  <2>1. pc' = [pc EXCEPT ![e] = "wild"] /\ UNCHANGED <<owner, path, size, pend, held, out, err>>
    BY <1>5 DEF Value, Goto
  <2>2. Moves(e, "wild", path[e], size[e], pend[e], held[e], out[e], err[e])
    BY <2>1, Typed, Stays DEF Moves, Labels, Ended
  <2> QED
    BY <1>1, <1>5, <2>1, <2>2 DEF Looks
<1>6. CASE ~(i >= Len(heap[c]))
  <2>1. i + 1 \in 1 .. Len(heap[c]) /\ i < Len(heap[c])
    BY <1>2, <1>6
  <2>2. Item(e) \in Values
    BY <1>2, <2>1, ElementOfSeq DEF Item
  <2>3. \/ Item(e) = Leaf /\ Write(e, <<"v", ",">>) /\ path' = [path EXCEPT ![e] = Advanced(e)]
           /\ UNCHANGED <<owner, pc, size, pend, held, err>>
        \/ Item(e) # Leaf /\ (MeetEmpty(e, Advanced(e), Item(e)) \/ Meet(e, Advanced(e), Item(e)))
        \/ GivesUp(e)
    BY <1>6 DEF Value, Item
  <2>4. CASE /\ Item(e) = Leaf /\ Write(e, <<"v", ",">>) /\ path' = [path EXCEPT ![e] = Advanced(e)]
             /\ UNCHANGED <<owner, pc, size, pend, held, err>>
    <3> DEFINE text == out[e] \o <<"v", ",">>
    <3>1. out' = [out EXCEPT ![e] = text] /\ text \in Seq(Text)
      BY <1>4, <2>4, Zenon DEF Write
    <3> HIDE DEF text
    <3>2. Moves(e, "val", Advanced(e), size[e], pend[e], held[e], text, err[e])
      BY <1>1, <1>3, <2>4, <3>1, Typed, Stays DEF Moves, Labels
    <3> QED
      BY <1>1, <2>4, <3>2, Zenon DEF text, Looks
  <2>5. CASE Item(e) # Leaf /\ (MeetEmpty(e, Advanced(e), Item(e)) \/ Meet(e, Advanced(e), Item(e)))
    <3>1. Item(e) \in Containers
      BY <2>2, <2>5 DEF Values
    <3> QED
      BY <1>1, <1>3, <2>1, <2>5, <3>1, MeetMoves DEF Looks
  <2>6. CASE GivesUp(e)
    BY <1>1, <2>6, GivesUpMoves DEF Looks
  <2> QED
    BY <2>3, <2>4, <2>5, <2>6
<1> QED
  BY <1>5, <1>6

\* What a container that ends leaves.
Dropped(e) == Below(path[e])

\* What the end of a container comes to: the text is complete, the parent goes on,
\* or giving up.
CloseTo(e, label, q, n, want, objs, text, why) ==
    \/ /\ label = "success" /\ q = Dropped(e) /\ Len(path[e]) = 1
       /\ want = pend[e] /\ objs = held[e] /\ why = err[e]
       /\ owner' = owner /\ text = Closed(out[e], Cur(e).ctn)
    \/ /\ label = "val" /\ q = Dropped(e) /\ Len(path[e]) > 1
       /\ n = Len(heap[path[e][Len(path[e]) - 1].ctn])
       /\ want = pend[e] /\ objs = held[e] \ {Cur(e).ctn} /\ why = err[e]
       /\ owner' = Unlocked({x \in {Cur(e).ctn} : Locks(x)})
       /\ text = Closed(out[e], Cur(e).ctn)
    \/ owner' = owner /\ GaveUp(e, label, q, n, want, objs, text, why)

LEMMA CloseMoves ==
    ASSUME TypesInv, NEW e \in Encoders, Close(e)
    PROVE  /\ pc[e] = "val" /\ AtEnd(e) /\ heap' = heap /\ root' = root /\ changed' = changed
           /\ \E label, q, n, want, objs, text, why :
                 /\ Moves(e, label, q, n, want, objs, text, why)
                 /\ CloseTo(e, label, q, n, want, objs, text, why)
<1>1. /\ pc[e] = "val" /\ AtEnd(e) /\ path[e] # <<>>
      /\ heap' = heap /\ root' = root /\ changed' = changed
  BY Typed DEF Close
<1> DEFINE o == Cur(e).ctn
           p == path[e]
           text == Closed(out[e], o)
<1>2. p \in Seq(Frame) /\ Len(p) \in Nat \ {0} /\ Len(p) <= MaxDepth /\ MaxDepth \in Nat
  BY <1>1, Typed, LastFrame, DepthAssumption
<1>3. /\ Below(p) \in Seq(Frame) /\ Len(Below(p)) = Len(p) - 1
  BY <1>1, <1>2, BelowSeq
<1>4. Len(Below(p)) <= MaxDepth
  BY <1>2, <1>3
<1>5. text \in Seq(Text)
  BY Tokens, Typed, BelowSeq, ConcatProperties DEF Closed
<1> HIDE DEF text
<1>6. CASE GivesUp(e)
  BY <1>1, <1>6, GivesUpMoves DEF CloseTo
<1>7. CASE ~GivesUp(e)
  <2>1. /\ out' = [out EXCEPT ![e] = text] /\ path' = [path EXCEPT ![e] = Below(p)]
        /\ IF Len(p) = 1 THEN Goto(e, "success") /\ UNCHANGED <<owner, size, held>>
           ELSE /\ size' = [size EXCEPT ![e] = ParentSize(e)]
                /\ held' = [held EXCEPT ![e] = Without(e, o)]
                /\ owner' = Unlocked({x \in {o} : Locks(x)})
                /\ UNCHANGED pc
        /\ UNCHANGED <<pend, err>>
    BY <1>7 DEF Close, text
  <2>2. CASE Len(p) = 1
    <3>1. Moves(e, "success", Below(p), size[e], pend[e], held[e], text, err[e])
      BY <1>3, <1>4, <1>5, <2>1, <2>2, Typed, Stays DEF Goto, Moves, Labels
    <3> QED
      BY <1>1, <2>1, <2>2, <3>1 DEF Dropped, CloseTo, text
  <2>3. CASE Len(p) # 1
    <3>1. Len(p) > 1 /\ Len(p) - 1 \in 1 .. Len(p)
      <4>1. \A m \in Nat \ {0} : m # 1 => m > 1 /\ m - 1 \in 1 .. m
        OBVIOUS
      <4> QED
        BY <1>2, <2>3, <4>1
    <3>2. p[Len(p) - 1].ctn \in Containers
      <4>1. p[Len(p) - 1] \in Frame
        BY <1>2, <3>1, ElementOfSeq
      <4> QED
        BY <4>1 DEF Frame
    <3>3. ParentSize(e) \in Nat
      BY <3>2, Typed, LenProperties DEF ParentSize
    <3>4. Below(p) # <<>>
      BY <1>3, <3>1
    <3>5. Without(e, o) \in SUBSET Lockable
      BY Typed DEF Without
    <3>6. Moves(e, "val", Below(p), ParentSize(e), pend[e], Without(e, o), text, err[e])
      BY <1>1, <1>3, <1>4, <1>5, <2>1, <2>3, <3>3, <3>4, <3>5, Typed, Stays DEF Moves, Labels
    <3> QED
      BY <1>1, <2>1, <2>3, <3>1, <3>6 DEF Dropped, ParentSize, Without, text, CloseTo
  <2> QED
    BY <2>2, <2>3
<1> QED
  BY <1>6, <1>7

LEMMA FinishMoves ==
    ASSUME TypesInv, NEW e \in Encoders, Finish(e)
    PROVE  /\ pc[e] = "success" /\ heap' = heap /\ root' = root /\ changed' = changed
           /\ \E label, q, n, want, objs, text, why :
                 /\ Moves(e, label, q, n, want, objs, text, why)
                 /\ \/ /\ label = "ok" /\ objs = {} /\ q = path[e] /\ want = pend[e] /\ why = err[e]
                       /\ text = Below(out[e]) /\ owner' = Unlocked(TopLocked(e))
                    \/ owner' = owner /\ GaveUp(e, label, q, n, want, objs, text, why)
<1>1. Below(out[e]) \in Seq(Text)
  BY Typed, BelowSeq
<1>2. CASE GivesUp(e)
  BY <1>2, GivesUpMoves DEF Finish
<1>3. CASE ~GivesUp(e)
  <2>1. Moves(e, "ok", path[e], size[e], pend[e], {}, Below(out[e]), err[e])
    BY <1>1, <1>3, Typed, Stays DEF Finish, Goto, Moves, Labels, Ended
  <2> QED
    BY <1>3, <2>1 DEF Finish
<1> QED
  BY <1>2, <1>3

LEMMA UnwindMoves ==
    ASSUME TypesInv, NEW e \in Encoders, Unwind(e)
    PROVE  /\ pc[e] = "fail" /\ heap' = heap /\ root' = root /\ changed' = changed
           /\ Moves(e, "error", path[e], size[e], pend[e], {}, out[e], err[e])
           /\ owner' = Unlocked(held[e])
<1>1. Moves(e, "error", path[e], size[e], pend[e], {}, out[e], err[e])
  BY Typed, Stays DEF Unwind, Goto, Moves, Labels, Ended
<1> QED
  BY <1>1 DEF Unwind

-----------------------------------------------------------------------------
\* An owner is an encoder, whatever is unlocked.
LEMMA UnlockedTyped ==
    ASSUME TypesInv, NEW S
    PROVE  /\ Unlocked(S) \in [Lockable -> Encoders \cup {None}]
           /\ \A o \in Lockable : Unlocked(S)[o] = IF o \in S THEN None ELSE owner[o]
  BY DEF Unlocked, TypesInv, TypeOK

LEMMA StepTypes == ASSUME TypesInv, NEW e \in Encoders, Step(e) PROVE TypesInv'
<1>1. gil' = gil
  BY DEF Step
<1>2. \A o \in Containers : [root EXCEPT ![e] = o] \in [Encoders -> Containers \cup {None}]
  BY Typed
<1>3. CASE Start(e)
  <2>1. MovesTyped(e) /\ owner' = owner /\ heap' = heap /\ changed' = changed
    BY <1>3, StartMoves, ZenonT(40) DEF MovesTyped
  <2>2. root' \in [Encoders -> Containers \cup {None}]
    BY <1>2, <1>3, StartMoves
  <2> QED
    BY <1>1, <2>1, <2>2, MovedTypes, Typed
<1>4. CASE Acquire(e)
  <2>1. owner' \in [Lockable -> Encoders \cup {None}]
    BY <1>4, AcquireMoves, Typed
  <2> QED
    BY <1>1, <1>4, <2>1, AcquireMoves, MovedTypes, Typed, ZenonT(40) DEF MovesTyped
<1>5. CASE Value(e)
  <2>1. MovesTyped(e) /\ owner' = owner /\ heap' = heap /\ root' = root /\ changed' = changed
    BY <1>5, ValueMoves, Zenon DEF MovesTyped
  <2> QED
    BY <1>1, <2>1, MovedTypes, Typed
<1>6. CASE Close(e)
  <2>1. MovesTyped(e) /\ heap' = heap /\ root' = root /\ changed' = changed
    BY <1>6, CloseMoves, Zenon DEF MovesTyped
  <2>2. owner' = owner \/ owner' = Unlocked({x \in {Cur(e).ctn} : Locks(x)})
    BY <1>6, CloseMoves DEF CloseTo
  <2>3. owner' \in [Lockable -> Encoders \cup {None}]
    BY <2>2, Typed, UnlockedTyped
  <2> QED
    BY <1>1, <2>1, <2>3, MovedTypes, Typed
<1>7. CASE Finish(e)
  <2>1. owner' \in [Lockable -> Encoders \cup {None}] /\ MovesTyped(e)
    BY <1>7, FinishMoves, Typed, UnlockedTyped DEF MovesTyped
  <2> QED
    BY <1>1, <1>7, <2>1, FinishMoves, MovedTypes, Typed
<1>8. CASE Unwind(e)
  <2>1. owner' \in [Lockable -> Encoders \cup {None}] /\ MovesTyped(e)
    BY <1>8, UnwindMoves, Typed, UnlockedTyped DEF MovesTyped
  <2> QED
    BY <1>1, <1>8, <2>1, UnwindMoves, MovedTypes, Typed
<1> QED
  BY <1>3, <1>4, <1>5, <1>6, <1>7, <1>8 DEF Step

\* Another thread appends a value to a container or takes one from it.
LEMMA MutateMoves ==
    ASSUME TypesInv, Mutate
    PROVE  /\ UNCHANGED <<gil, owner, pc, path, size, pend, held, out, err, root>>
           /\ changed' \in [Encoders -> BOOLEAN]
           /\ gil => \A e \in Encoders : ~Active(e)
           /\ \E o \in Lockable, s \in Seq(Values) :
                 /\ owner[o] = None /\ heap' = [heap EXCEPT ![o] = s]
                 /\ \/ s = Append(heap[o], Leaf)
                    \/ s = Below(heap[o]) /\ heap[o] # <<>> /\ "pop" \in Mutations
<1>1. PICK o \in Lockable :
          /\ owner[o] = None
          /\ \/ heap' = [heap EXCEPT ![o] = Append(heap[o], Leaf)]
             \/ /\ Len(heap[o]) > 0 /\ "pop" \in Mutations
                /\ heap' = [heap EXCEPT ![o] = Below(heap[o])]
  BY DEF Mutate
<1>2. heap[o] \in Seq(Values) /\ Leaf \in Values
  BY DEF TypesInv, TypeOK, Containers, Values
<1>3. Append(heap[o], Leaf) \in Seq(Values) /\ Below(heap[o]) \in Seq(Values)
  BY <1>2, BelowSeq, AppendProperties
<1>4. Len(heap[o]) > 0 => heap[o] # <<>>
  BY <1>2, EmptySeq
<1>5. \E s \in Seq(Values) :
         /\ owner[o] = None /\ heap' = [heap EXCEPT ![o] = s]
         /\ \/ s = Append(heap[o], Leaf)
            \/ s = Below(heap[o]) /\ heap[o] # <<>> /\ "pop" \in Mutations
  BY <1>1, <1>3, <1>4
<1> QED
  BY <1>5 DEF Mutate

LEMMA NextTypes == TypesInv /\ [Next]_vars => TypesInv'
<1> SUFFICES ASSUME TypesInv, [Next]_vars PROVE TypesInv'
  OBVIOUS
<1>1. CASE \E e \in Encoders : Step(e)
  BY <1>1, StepTypes
<1>2. CASE Mutate
  <2>1. heap' \in [Containers -> Seq(Values)]
    BY <1>2, MutateMoves DEF TypesInv, TypeOK, Containers
  <2> QED
    BY <1>2, <2>1, MutateMoves DEF TypesInv, TypeOK
<1>3. CASE UNCHANGED vars
  BY <1>3 DEF vars, TypesInv, TypeOK
<1> QED
  BY <1>1, <1>2, <1>3 DEF Next, Finished

LEMMA InitTypes == Init => TypesInv
<1> SUFFICES ASSUME Init PROVE TypesInv
  OBVIOUS
<1>1. <<>> \in Seq(Frame) /\ <<>> \in Seq(Text) /\ Len(<<>>) <= MaxDepth
  BY DepthAssumption
<1>2. heap \in [Containers -> Seq(Values)] /\ gil \in Builds
  BY HeapsAssumption DEF Init
<1> QED
  BY <1>1, <1>2 DEF Init, TypesInv, TypeOK, Ended, Frame

\* Every variable keeps its type: no walk is deeper than its stack, and one that
\* waits for a mutex waits for a list or dict.
THEOREM TypeCorrect == Spec => []TypeOK
<1>1. TypesInv => TypeOK
  BY DEF TypesInv
<1> QED
  BY <1>1, InitTypes, NextTypes, PTL DEF Spec

-----------------------------------------------------------------------------
(* The mutexes. *)

Inside(p, o) == \E i \in 1 .. Len(p) : p[i].ctn = o

\* No list or dict is twice on path p.
NoneTwice(p) ==
    \A i, j \in 1 .. Len(p) : p[i].ctn = p[j].ctn /\ p[i].ctn \in Lockable => i = j

\* What an encoder has to do with the mutexes, at `label' with path p, the set
\* objs, waiting for want, called with r: it holds those in the set but the one it
\* waits for; inside of containers these are the ones it is inside of, none of
\* them twice, of which r is the first; and when the text is complete at most r is
\* left.
LockState(g, e, own, label, p, objs, want, r) ==
    /\ \A o \in Lockable : own[o] = e <=> o \in objs /\ o # want
    /\ IF label = "lock" THEN want \in Lockable /\ want \in objs /\ ~g ELSE want = None
    /\ label \in {"val", "lock"} =>
          /\ \A o \in Lockable : own[o] = e <=> ~g /\ Inside(p, o)
          /\ ~g => NoneTwice(p)
          /\ p # <<>> => p[1].ctn = r
          /\ p = <<>> => want = r
    /\ label \in {"idle", "ok", "error"} => objs = {}
    /\ label = "success" => objs \subseteq {r}

LocksOf(e) == LockState(gil, e, owner, pc[e], path[e], held[e], pend[e], root[e])

LockInv == TypesInv /\ \A e \in Encoders : LocksOf(e)

\* What e does leaves the others alone, if it takes and gives back only what is
\* nobody else's.
LEMMA OthersKept ==
    ASSUME LockInv, NEW e \in Encoders, NEW f \in Encoders, f # e, gil' = gil,
           MovesTyped(e), NEW r, root' = [root EXCEPT ![e] = r],
           \A o \in Lockable : owner'[o] = f <=> owner[o] = f
    PROVE  LocksOf(f)'
<1>1. /\ pc'[f] = pc[f] /\ path'[f] = path[f] /\ held'[f] = held[f] /\ pend'[f] = pend[f]
      /\ root'[f] = root[f]
  BY DEF LockInv, TypesInv, TypeOK, MovesTyped, Moves
<1>2. LocksOf(f)
  BY DEF LockInv
<1> QED
  BY <1>1, <1>2 DEF LocksOf, LockState

\* What e itself is left with.
LEMMA MovedTo ==
    ASSUME LockInv, NEW e \in Encoders, gil' = gil, NEW r, root' = [root EXCEPT ![e] = r],
           NEW label, NEW q, NEW n, NEW want, NEW objs, NEW text, NEW why,
           Moves(e, label, q, n, want, objs, text, why)
    PROVE  LocksOf(e)' <=> LockState(gil, e, owner', label, q, objs, want, r)
<1>1. /\ pc'[e] = label /\ path'[e] = q /\ held'[e] = objs /\ pend'[e] = want /\ root'[e] = r
  BY DEF LockInv, TypesInv, TypeOK, Moves
<1> QED
  BY <1>1 DEF LocksOf

\* A call that gives up, at a label where it waits for nothing.
LEMMA LocksGivenUp ==
    ASSUME LockInv, NEW e \in Encoders, pc[e] # "lock", NEW r,
           NEW label, NEW q, NEW n, NEW want, NEW objs, NEW text, NEW why,
           GaveUp(e, label, q, n, want, objs, text, why)
    PROVE  LockState(gil, e, owner, label, q, objs, want, r)
  BY DEF GaveUp, LockInv, LocksOf, LockState

\* A path that is entered or counted on, and what it is inside of.
LEMMA EnteredInside ==
    ASSUME NEW p \in Seq(Frame), NEW o \in Containers
    PROVE  LET q == Append(p, [ctn |-> o, pos |-> 0])
           IN  /\ \A x : Inside(q, x) <=> Inside(p, x) \/ x = o
               /\ NoneTwice(p) /\ (o \in Lockable => ~Inside(p, o)) => NoneTwice(q)
               /\ q[1].ctn = IF p = <<>> THEN o ELSE p[1].ctn
<1> DEFINE q == Append(p, [ctn |-> o, pos |-> 0])
<1>1. /\ q \in Seq(Frame) /\ q # <<>> /\ Len(q) = Len(p) + 1 /\ Len(p) \in Nat
      /\ \A i \in 1 .. Len(p) : q[i] = p[i]
      /\ q[Len(q)] = [ctn |-> o, pos |-> 0]
  BY EnteredPath, LenProperties
<1>2. q[Len(q)].ctn = o
  BY <1>1
<1> HIDE DEF q
<1>3. \A i : i \in 1 .. Len(q) <=> i \in 1 .. Len(p) \/ i = Len(q)
  BY <1>1
<1>4. Len(q) \notin 1 .. Len(p)
  BY <1>1
<1>5. \A x : Inside(q, x) <=> Inside(p, x) \/ x = o
  BY <1>1, <1>2, <1>3 DEF Inside
<1>6. ASSUME NoneTwice(p), o \in Lockable => ~Inside(p, o) PROVE NoneTwice(q)
  <2> SUFFICES ASSUME NEW i \in 1 .. Len(q), NEW j \in 1 .. Len(q), q[i].ctn = q[j].ctn,
                      q[i].ctn \in Lockable
               PROVE  i = j
    BY DEF NoneTwice
  <2>1. CASE i = Len(q) \/ j = Len(q)
    BY <1>1, <1>2, <1>3, <1>6, <2>1 DEF Inside
  <2>2. CASE i \in 1 .. Len(p) /\ j \in 1 .. Len(p)
    BY <1>1, <1>6, <2>2 DEF NoneTwice
  <2> QED
    BY <1>3, <2>1, <2>2
<1>7. q[1].ctn = IF p = <<>> THEN o ELSE p[1].ctn
  <2>1. CASE p = <<>>
    BY <1>1, <1>2, <2>1
  <2>2. CASE p # <<>>
    <3>1. 1 \in 1 .. Len(p)
      BY <2>2, EmptySeq
    <3> QED
      BY <1>1, <2>2, <3>1
  <2> QED
    BY <2>1, <2>2
<1> QED
  BY <1>5, <1>6, <1>7 DEF q

LEMMA AdvancedInside ==
    ASSUME NEW e \in Encoders, path[e] \in Seq(Frame), path[e] # <<>>
    PROVE  LET q == Advanced(e)
           IN  /\ \A x : Inside(q, x) <=> Inside(path[e], x)
               /\ NoneTwice(path[e]) => NoneTwice(q)
               /\ q[1].ctn = path[e][1].ctn
<1> DEFINE q == Advanced(e)
<1>1. /\ Len(q) = Len(path[e]) /\ \A i \in 1 .. Len(path[e]) : q[i].ctn = path[e][i].ctn
  BY AdvancedPath
<1>2. 1 \in 1 .. Len(path[e])
  BY EmptySeq
<1> HIDE DEF q
<1>3. \A x : Inside(q, x) <=> Inside(path[e], x)
  BY <1>1 DEF Inside
<1>4. NoneTwice(path[e]) => NoneTwice(q)
  BY <1>1 DEF NoneTwice
<1> QED
  BY <1>1, <1>2, <1>3, <1>4 DEF q

LEMMA DroppedInside ==
    ASSUME NEW p \in Seq(Frame), Len(p) > 1
    PROVE  /\ NoneTwice(p) => /\ NoneTwice(Below(p))
                              /\ \A x \in Lockable :
                                    Inside(Below(p), x) <=> Inside(p, x) /\ x # p[Len(p)].ctn
           /\ Below(p) # <<>> /\ Below(p)[1].ctn = p[1].ctn
<1> DEFINE b == Below(p)
<1>1. p # <<>> /\ Len(p) \in Nat
  BY EmptySeq
<1>2. /\ b \in Seq(Frame) /\ Len(b) = Len(p) - 1
      /\ \A i \in 1 .. Len(p) - 1 : b[i] = p[i]
  BY <1>1, BelowSeq
<1> HIDE DEF b
<1>3. /\ \A i \in 1 .. Len(b) : i \in 1 .. Len(p) /\ i # Len(p) /\ b[i] = p[i]
      /\ \A i \in 1 .. Len(p) : i \in 1 .. Len(b) \/ i = Len(p)
      /\ Len(p) \in 1 .. Len(p) /\ 1 \in 1 .. Len(p) - 1
  BY <1>1, <1>2
<1>4. b # <<>> /\ b[1].ctn = p[1].ctn
  BY <1>2, <1>3
<1>5. NoneTwice(p) => NoneTwice(b)
  BY <1>3 DEF NoneTwice
<1>6. ASSUME NoneTwice(p), NEW x \in Lockable
      PROVE  Inside(b, x) <=> Inside(p, x) /\ x # p[Len(p)].ctn
  BY <1>3, <1>6 DEF NoneTwice, Inside
<1> QED
  BY <1>4, <1>5, <1>6 DEF b

\* A container is met: p and held[e] are what the encoder is inside of, and it
\* waits for nothing.
LEMMA LocksMet ==
    ASSUME LockInv, ~SetMayFail, NEW e \in Encoders, NEW o \in Containers, NEW p \in Seq(Frame),
           NEW r, pend[e] = None,
           \A x \in Lockable : owner[x] = e <=> x \in held[e],
           \A x \in Lockable : owner[x] = e <=> ~gil /\ Inside(p, x),
           ~gil => NoneTwice(p),
           IF p = <<>> THEN o = r ELSE p[1].ctn = r,
           NEW label, NEW q, NEW n, NEW want, NEW objs, NEW text, NEW why,
           Meets(e, p, o, label, q, n, want, objs, text, why)
    PROVE  LockState(gil, e, owner, label, q, objs, want, r)
<1>1. None \notin Lockable /\ held[e] \subseteq Lockable
  BY ObjectsAssumption DEF Containers, LockInv, TypesInv, TypeOK
<1>2. CASE label \in {"success", "val"} /\ q = p /\ want = pend[e] /\ objs = held[e]
           /\ label = IF p = <<>> THEN "success" ELSE "val"
  <2>1. CASE p = <<>>
    <3>1. \A x : ~Inside(p, x)
      BY <2>1 DEF Inside
    <3>2. held[e] = {}
      BY <1>1, <3>1
    <3> QED
      BY <1>1, <1>2, <2>1, <3>2 DEF LockState
  <2>2. CASE p # <<>>
    BY <1>1, <1>2, <2>2 DEF LockState
  <2> QED
    BY <2>1, <2>2
<1>3. CASE /\ ~Locks(o) /\ label = "val" /\ q = Append(p, [ctn |-> o, pos |-> 0])
           /\ want = pend[e] /\ objs = held[e]
  <2>1. /\ \A x : Inside(q, x) <=> Inside(p, x) \/ x = o
        /\ NoneTwice(p) /\ (o \in Lockable => ~Inside(p, o)) => NoneTwice(q)
        /\ q[1].ctn = IF p = <<>> THEN o ELSE p[1].ctn
        /\ q # <<>>
    BY <1>3, EnteredInside, EnteredPath
  <2>2. gil \/ o \notin Lockable
    BY <1>3 DEF Locks
  <2> QED
    BY <1>1, <1>3, <2>1, <2>2 DEF LockState
<1>4. CASE label = "fail" /\ q = p /\ want = pend[e] /\ objs = held[e]
  BY <1>1, <1>4 DEF LockState
<1>5. CASE /\ Locks(o) /\ o \notin held[e] /\ label = "lock" /\ q = p /\ want = o
           /\ objs = held[e] \cup {o}
  BY <1>1, <1>5 DEF LockState, Locks
<1> QED
  BY <1>2, <1>3, <1>4, <1>5 DEF Meets

\* What is known of e before it meets a container or gives up.
LEMMA LocksNow ==
    ASSUME LockInv, NEW e \in Encoders
    PROVE  /\ LockState(gil, e, owner, pc[e], path[e], held[e], pend[e], root[e])
           /\ root = [root EXCEPT ![e] = root[e]] /\ None \notin Lockable
           /\ held[e] \subseteq Lockable
  BY ObjectsAssumption DEF LockInv, LocksOf, TypesInv, TypeOK, Containers

LEMMA StepLocks ==
    ASSUME LockInv, ~SetMayFail, NEW e \in Encoders, Step(e)
    PROVE  \A f \in Encoders : LocksOf(f)'
<1> USE DEF LockInv
<1>1. gil' = gil
  BY DEF Step
<1>2. CASE Start(e)
  <2>1. PICK o \in Containers : /\ root' = [root EXCEPT ![e] = o]
           /\ \E label, q, n, want, objs, text, why :
                 /\ Moves(e, label, q, n, want, objs, text, why)
                 /\ \/ Meets(e, <<>>, o, label, q, n, want, objs, text, why)
                    \/ GaveUp(e, label, q, n, want, objs, text, why)
    BY <1>2, StartMoves
  <2>2. PICK label, q, n, want, objs, text, why :
                 /\ Moves(e, label, q, n, want, objs, text, why)
                 /\ \/ Meets(e, <<>>, o, label, q, n, want, objs, text, why)
                    \/ GaveUp(e, label, q, n, want, objs, text, why)
    BY <2>1
  <2>3. pc[e] = "idle" /\ owner' = owner
    BY <1>2, StartMoves
  <2>4. /\ held[e] = {} /\ pend[e] = None /\ <<>> \in Seq(Frame)
        /\ \A x \in Lockable : owner[x] # e
    BY <2>3, LocksNow DEF LockState
  <2>5. ~gil => NoneTwice(<<>>)
    BY DEF NoneTwice
  <2>6. \A x : ~Inside(<<>>, x)
    BY DEF Inside
  <2>7. LockState(gil, e, owner, label, q, objs, want, o)
    BY <2>2, <2>3, <2>4, <2>5, <2>6, LocksMet, LocksGivenUp
  <2>8. LocksOf(e)'
    BY <1>1, <2>1, <2>2, <2>3, <2>7, MovedTo
  <2> QED
    BY <1>1, <2>1, <2>2, <2>3, <2>8, OthersKept DEF MovesTyped
<1>3. CASE Acquire(e)
  <2>1. PICK label, q, why :
           /\ Moves(e, label, q, size[e], None, held[e], out[e], why)
           /\ \/ label = "fail" /\ q = path[e] /\ Len(path[e]) = MaxDepth /\ why = "depth"
              \/ /\ label = "val" /\ Len(path[e]) < MaxDepth /\ why = err[e]
                 /\ q = Append(path[e], [ctn |-> pend[e], pos |-> 0])
    BY <1>3, AcquireMoves
  <2>2. /\ pc[e] = "lock" /\ owner[pend[e]] = None /\ owner' = [owner EXCEPT ![pend[e]] = e]
        /\ root' = root
    BY <1>3, AcquireMoves
  <2>3. /\ pend[e] \in Lockable /\ pend[e] \in Containers /\ path[e] \in Seq(Frame)
        /\ \A x \in Lockable : owner'[x] = IF x = pend[e] THEN e ELSE owner[x]
        /\ e # None
    BY <2>2, Typed, ObjectsAssumption DEF Containers
  <2>4. LockState(gil, e, owner, "lock", path[e], held[e], pend[e], root[e])
    BY <2>2, LocksNow
  <2>5. /\ \A x \in Lockable : owner'[x] = e <=> x \in held[e] /\ x # None
        /\ \A x \in Lockable : owner'[x] = e <=> ~gil /\ (Inside(path[e], x) \/ x = pend[e])
        /\ ~gil /\ NoneTwice(path[e]) /\ ~Inside(path[e], pend[e])
        /\ IF path[e] = <<>> THEN pend[e] = root[e] ELSE path[e][1].ctn = root[e]
    BY <2>2, <2>3, <2>4, LocksNow DEF LockState
  <2>6. LockState(gil, e, owner', label, q, held[e], None, root[e])
    <3>1. CASE label = "fail"
      BY <2>5, <3>1 DEF LockState
    <3>2. CASE label = "val" /\ q = Append(path[e], [ctn |-> pend[e], pos |-> 0])
      <4>1. /\ \A x : Inside(q, x) <=> Inside(path[e], x) \/ x = pend[e]
            /\ NoneTwice(q) /\ q # <<>> /\ q[1].ctn = root[e]
        BY <2>3, <2>5, <3>2, EnteredInside, EnteredPath
      <4> QED
        BY <2>5, <3>2, <4>1 DEF LockState
    <3> QED
      BY <2>1, <3>1, <3>2
  <2>7. root' = [root EXCEPT ![e] = root[e]]
    BY <2>2, LocksNow
  <2>8. LocksOf(e)'
    BY <1>1, <2>1, <2>6, <2>7, MovedTo
  <2>9. \A f \in Encoders : f # e => \A x \in Lockable : owner'[x] = f <=> owner[x] = f
    BY <2>2, <2>3, ObjectsAssumption
  <2>10. MovesTyped(e)
    BY <2>1 DEF MovesTyped
  <2> QED
    BY <1>1, <2>7, <2>8, <2>9, <2>10, OthersKept
<1>4. CASE Value(e)
  <2>1. PICK label, q, n, want, objs, text, why :
                 /\ Moves(e, label, q, n, want, objs, text, why)
                 /\ Looks(e, label, q, n, want, objs, text, why)
    BY <1>4, ValueMoves
  <2>2. pc[e] = "val" /\ owner' = owner /\ root' = root
    BY <1>4, ValueMoves
  <2>3. LockState(gil, e, owner, "val", path[e], held[e], pend[e], root[e])
    BY <2>2, LocksNow
  <2>4. path[e] # <<>> /\ path[e] \in Seq(Frame)
    BY <2>2, Typed
  <2> DEFINE p == Advanced(e)
  <2>5. /\ p \in Seq(Frame) /\ p # <<>> /\ p[1].ctn = root[e]
        /\ \A x : Inside(p, x) <=> Inside(path[e], x)
        /\ ~gil => NoneTwice(p)
    BY <2>3, <2>4, AdvancedInside, AdvancedPath DEF LockState
  <2>6. /\ pend[e] = None
        /\ \A x \in Lockable : owner[x] = e <=> x \in held[e]
        /\ \A x \in Lockable : owner[x] = e <=> ~gil /\ Inside(p, x)
    BY <2>3, <2>5, LocksNow DEF LockState
  <2> HIDE DEF p
  <2>7. LockState(gil, e, owner, label, q, objs, want, root[e])
    <3>1. CASE label = "wild" /\ q = path[e] /\ want = pend[e] /\ objs = held[e]
      BY <2>3, <3>1 DEF LockState
    <3>2. CASE label = "val" /\ q = p /\ want = pend[e] /\ objs = held[e]
      BY <2>5, <2>6, <3>2, LocksNow DEF LockState
    <3>3. CASE Item(e) \in Containers /\ Meets(e, p, Item(e), label, q, n, want, objs, text, why)
      BY <2>5, <2>6, <3>3, LocksMet
    <3>4. CASE GaveUp(e, label, q, n, want, objs, text, why)
      BY <2>2, <3>4, LocksGivenUp
    <3> QED
      BY <2>1, <3>1, <3>2, <3>3, <3>4 DEF Looks, p
  <2>8. LocksOf(e)'
    BY <1>1, <2>1, <2>2, <2>7, LocksNow, MovedTo
  <2>9. MovesTyped(e)
    BY <2>1 DEF MovesTyped
  <2> QED
    BY <1>1, <2>2, <2>8, <2>9, LocksNow, OthersKept
<1>5. CASE Close(e)
  <2>1. PICK label, q, n, want, objs, text, why :
                 /\ Moves(e, label, q, n, want, objs, text, why)
                 /\ CloseTo(e, label, q, n, want, objs, text, why)
    BY <1>5, CloseMoves
  <2>2. pc[e] = "val" /\ root' = root
    BY <1>5, CloseMoves
  <2>3. LockState(gil, e, owner, "val", path[e], held[e], pend[e], root[e])
    BY <2>2, LocksNow
  <2>4. path[e] # <<>> /\ path[e] \in Seq(Frame)
    BY <2>2, Typed
  <2> DEFINE o == Cur(e).ctn
             S == {x \in {o} : Locks(x)}
  <2>5. Inside(path[e], o)
    BY <2>4, LastFrame DEF Inside, Cur
  <2>6. S \subseteq Lockable /\ \A x \in S : owner[x] = e
    BY <2>3, <2>5 DEF LockState, Locks
  <2>7. /\ pend[e] = None
        /\ \A x \in Lockable : owner[x] = e <=> x \in held[e]
        /\ \A x \in Lockable : owner[x] = e <=> ~gil /\ Inside(path[e], x)
    BY <2>3, LocksNow DEF LockState
  <2>8. LockState(gil, e, owner', label, q, objs, want, root[e])
    <3>1. CASE /\ label = "success" /\ Len(path[e]) = 1 /\ want = pend[e] /\ objs = held[e]
               /\ owner' = owner
      <4>1. \A x : Inside(path[e], x) => x = root[e]
        BY <2>3, <2>4, <3>1 DEF Inside, LockState
      <4>2. held[e] \subseteq {root[e]}
        BY <2>7, <4>1, LocksNow
      <4> QED
        BY <2>7, <3>1, <4>2, LocksNow DEF LockState
    <3>2. CASE /\ label = "val" /\ q = Dropped(e) /\ Len(path[e]) > 1 /\ want = pend[e]
               /\ objs = held[e] \ {o} /\ owner' = Unlocked(S)
      <4>1. \A x \in Lockable : owner'[x] = IF x = o /\ ~gil THEN None ELSE owner[x]
        BY <3>2, UnlockedTyped DEF Locks
      <4>2. e # None
        BY ObjectsAssumption
      <4>3. /\ q # <<>> /\ q[1].ctn = root[e]
            /\ ~gil => NoneTwice(q) /\ \A x \in Lockable : Inside(q, x) <=> Inside(path[e], x) /\ x # o
        BY <2>3, <2>4, <3>2, DroppedInside DEF Dropped, LockState, Cur
      <4>4. \A x \in Lockable : owner'[x] = e <=> x \in objs /\ x # want
        BY <2>7, <3>2, <4>1, <4>2, LocksNow
      <4>5. \A x \in Lockable : owner'[x] = e <=> ~gil /\ Inside(q, x)
        BY <2>7, <4>1, <4>2, <4>3
      <4> HIDE DEF o, S
      <4> QED
        BY <2>7, <3>2, <4>3, <4>4, <4>5 DEF LockState
    <3>3. CASE owner' = owner /\ GaveUp(e, label, q, n, want, objs, text, why)
      BY <2>2, <3>3, LocksGivenUp
    <3> QED
      BY <2>1, <3>1, <3>2, <3>3 DEF CloseTo
  <2>9. \A f \in Encoders : f # e => \A x \in Lockable : owner'[x] = f <=> owner[x] = f
    <3>1. owner' = owner \/ owner' = Unlocked(S)
      BY <2>1 DEF CloseTo, GaveUp
    <3> QED
      BY <2>6, <3>1, UnlockedTyped, ObjectsAssumption
  <2> HIDE DEF o, S
  <2>10. LocksOf(e)'
    BY <1>1, <2>1, <2>2, <2>8, LocksNow, MovedTo
  <2>11. MovesTyped(e)
    BY <2>1 DEF MovesTyped
  <2> QED
    BY <1>1, <2>2, <2>9, <2>10, <2>11, LocksNow, OthersKept
<1>6. CASE Finish(e)
  <2>1. PICK label, q, n, want, objs, text, why :
                 /\ Moves(e, label, q, n, want, objs, text, why)
                 /\ \/ /\ label = "ok" /\ objs = {} /\ q = path[e] /\ want = pend[e] /\ why = err[e]
                       /\ owner' = Unlocked(TopLocked(e))
                    \/ owner' = owner /\ GaveUp(e, label, q, n, want, objs, text, why)
    BY <1>6, FinishMoves
  <2>2. pc[e] = "success" /\ root' = root
    BY <1>6, FinishMoves
  <2>3. /\ pend[e] = None /\ held[e] \subseteq {root[e]}
        /\ \A x \in Lockable : owner[x] = e <=> x \in held[e]
    BY <2>2, LocksNow DEF LockState
  <2>4. TopLocked(e) = held[e] /\ e # None
    BY <2>3, ObjectsAssumption DEF TopLocked
  <2>5. LockState(gil, e, owner', label, q, objs, want, root[e])
    <3>1. CASE label = "ok" /\ objs = {} /\ want = pend[e] /\ owner' = Unlocked(TopLocked(e))
      <4>1. \A x \in Lockable : owner'[x] = IF x \in held[e] THEN None ELSE owner[x]
        BY <2>4, <3>1, UnlockedTyped
      <4> QED
        BY <2>3, <2>4, <3>1, <4>1 DEF LockState
    <3>2. CASE owner' = owner /\ GaveUp(e, label, q, n, want, objs, text, why)
      BY <2>2, <3>2, LocksGivenUp
    <3> QED
      BY <2>1, <3>1, <3>2
  <2>6. \A f \in Encoders : f # e => \A x \in Lockable : owner'[x] = f <=> owner[x] = f
    BY <2>1, <2>3, <2>4, UnlockedTyped, ObjectsAssumption
  <2>7. LocksOf(e)'
    BY <1>1, <2>1, <2>2, <2>5, LocksNow, MovedTo
  <2>8. MovesTyped(e)
    BY <2>1 DEF MovesTyped
  <2> QED
    BY <1>1, <2>2, <2>6, <2>7, <2>8, LocksNow, OthersKept
<1>7. CASE Unwind(e)
  <2>1. /\ pc[e] = "fail" /\ root' = root
        /\ Moves(e, "error", path[e], size[e], pend[e], {}, out[e], err[e])
        /\ owner' = Unlocked(held[e])
    BY <1>7, UnwindMoves
  <2>2. pend[e] = None /\ \A x \in Lockable : owner[x] = e <=> x \in held[e]
    BY <2>1, LocksNow DEF LockState
  <2>3. \A x \in Lockable : owner'[x] = IF x \in held[e] THEN None ELSE owner[x]
    BY <2>1, UnlockedTyped
  <2>4. e # None
    BY ObjectsAssumption
  <2>5. LockState(gil, e, owner', "error", path[e], {}, pend[e], root[e])
    BY <2>2, <2>3, <2>4 DEF LockState
  <2>6. LocksOf(e)'
    BY <1>1, <2>1, <2>5, LocksNow, MovedTo
  <2>7. MovesTyped(e)
    BY <2>1 DEF MovesTyped
  <2>8. \A f \in Encoders : f # e => \A x \in Lockable : owner'[x] = f <=> owner[x] = f
    BY <2>2, <2>3, ObjectsAssumption
  <2> QED
    BY <1>1, <2>1, <2>6, <2>7, <2>8, LocksNow, OthersKept
<1> QED
  BY <1>2, <1>3, <1>4, <1>5, <1>6, <1>7 DEF Step

LEMMA NextLocks == ASSUME LockInv, ~SetMayFail, [Next]_vars PROVE LockInv'
<1>1. TypesInv'
  BY NextTypes DEF LockInv
<1>2. CASE \E e \in Encoders : Step(e)
  BY <1>1, <1>2, StepLocks DEF LockInv
<1>3. CASE UNCHANGED <<gil, owner, pc, path, held, pend, root>>
  <2>1. \A e \in Encoders : LocksOf(e)'
    BY <1>3 DEF LockInv, LocksOf
  <2> QED
    BY <1>1, <2>1 DEF LockInv
<1>4. Mutate => UNCHANGED <<gil, owner, pc, path, held, pend, root>>
  BY MutateMoves DEF LockInv
<1> QED
  BY <1>2, <1>3, <1>4 DEF Next, Finished, vars

LEMMA InitLocks == Init => LockInv
<1> SUFFICES ASSUME Init PROVE LockInv
  OBVIOUS
<1>1. \A e \in Encoders : LocksOf(e)
  BY ObjectsAssumption DEF Init, LocksOf, LockState
<1> QED
  BY <1>1, InitTypes DEF LockInv

LEMMA LocksImplied == LockInv => LocksMatchSet /\ CurrentInSet
<1> SUFFICES ASSUME LockInv, NEW e \in Encoders
             PROVE  /\ {o \in Lockable : owner[o] = e} = held[e] \ {pend[e]}
                    /\ pc[e] \in {"val", "lock"} =>
                          {o \in Lockable : owner[o] = e} =
                          {o \in Lockable : Locks(o) /\ \E i \in 1 .. Len(path[e]) : path[e][i].ctn = o}
                    /\ pc[e] \in {"idle", "ok", "error"} => held[e] = {}
                    /\ pc[e] = "val" /\ Locks(Cur(e).ctn) => Cur(e).ctn \in held[e]
  BY DEF LocksMatchSet, CurrentInSet
<1>1. LockState(gil, e, owner, pc[e], path[e], held[e], pend[e], root[e])
  BY LocksNow
<1>2. \A o \in Lockable : owner[o] = e <=> o \in held[e] /\ o # pend[e]
  BY <1>1 DEF LockState
<1>3. {o \in Lockable : owner[o] = e} = held[e] \ {pend[e]}
  BY <1>2, LocksNow
<1>4. ASSUME pc[e] \in {"val", "lock"}
      PROVE  {o \in Lockable : owner[o] = e} =
             {o \in Lockable : Locks(o) /\ \E i \in 1 .. Len(path[e]) : path[e][i].ctn = o}
  <2>1. \A o \in Lockable : owner[o] = e <=> ~gil /\ Inside(path[e], o)
    BY <1>1, <1>4 DEF LockState
  <2> QED
    BY <2>1 DEF Inside, Locks
<1>5. ASSUME pc[e] = "val", Locks(Cur(e).ctn) PROVE Cur(e).ctn \in held[e]
  <2>1. Inside(path[e], Cur(e).ctn) /\ Cur(e).ctn \in Lockable /\ ~gil
    BY <1>5, Typed, LastFrame DEF LockInv, Inside, Cur, Locks
  <2>2. owner[Cur(e).ctn] = e
    BY <1>1, <1>5, <2>1 DEF LockState
  <2> QED
    BY <1>2, <2>1, <2>2
<1>6. pc[e] \in {"idle", "ok", "error"} => held[e] = {}
  BY <1>1 DEF LockState
<1> QED
  BY <1>3, <1>4, <1>5, <1>6

\* As long as no allocation of the hash set fails, the mutexes an encoder holds are
\* those in its set but the one it waits for, and those of the lists and dicts it is
\* inside of: it unlocks each once and returns with none, however many encoders walk
\* the same containers and whatever other threads do to them.
THEOREM LocksHeld == ASSUME ~SetMayFail PROVE Spec => []LocksMatchSet
<1>1. LockInv /\ [Next]_vars => LockInv'
  BY NextLocks
<1>2. LockInv => LocksMatchSet
  BY LocksImplied
<1> QED
  BY <1>1, <1>2, InitLocks, PTL DEF Spec

\* The assert at the end of a list or dict holds then: what a failing allocation does
\* is all there is to the counterexample.
THEOREM AssertNeedsFailure == ASSUME ~SetMayFail PROVE Spec => []CurrentInSet
<1>1. LockInv /\ [Next]_vars => LockInv'
  BY NextLocks
<1>2. LockInv => CurrentInSet
  BY LocksImplied
<1> QED
  BY <1>1, <1>2, InitLocks, PTL DEF Spec

-----------------------------------------------------------------------------
(* The sizes. *)

EndsWithComma(text) == text[Len(text)] = ","

\* The walk may read o up to n: it has values, and n of them if it is no dict.
Readable(h, o, n) == h[o] # <<>> /\ (o \notin Dicts => 0 < n /\ n <= Len(h[o]))

\* At `label', in the containers of p or waiting for `want', the size being n and the
\* text that far: every container the walk is inside of has a value, the size is no
\* more than what the current one has, and once a value was looked at the text ends
\* with its comma.
SizeState(h, label, p, n, want, text) ==
    /\ label # "wild"
    /\ label \in {"val", "lock"} => \A i \in 1 .. Len(p) : h[p[i].ctn] # <<>>
    /\ label = "val" => /\ Readable(h, p[Len(p)].ctn, n)
                        /\ p[Len(p)].pos = 0 \/ EndsWithComma(text)
    /\ label = "lock" => Readable(h, want, n)

SizesOf(e) == SizeState(heap, pc[e], path[e], size[e], pend[e], out[e])

SizeInv == TypesInv /\ \A e \in Encoders : SizesOf(e)

LEMMA CommaLast ==
    ASSUME NEW s \in Seq(Text), NEW t \in Seq(Text)
    PROVE  /\ t = <<"v", ",">> => EndsWithComma(s \o t)
           /\ \A o : t = <<Ends(o), ",">> => EndsWithComma(s \o t)
           /\ \A o : t = <<Begins(o), Ends(o), ",">> => EndsWithComma(s \o t)
<1>1. \A a, b : t = <<a, b>> => (s \o t)[Len(s \o t)] = b
  <2> SUFFICES ASSUME NEW a, NEW b, t = <<a, b>> PROVE (s \o t)[Len(s \o t)] = b
    OBVIOUS
  <2>1. Len(t) = 2 /\ t[2] = b /\ Len(s) \in Nat
    BY LenProperties
  <2>2. Len(s \o t) = Len(s) + 2 /\ (s \o t)[Len(s) + 2] = t[Len(s) + 2 - Len(s)]
    BY <2>1, ConcatProperties
  <2> QED
    BY <2>1, <2>2
<1>2. \A a, b, c : t = <<a, b, c>> => (s \o t)[Len(s \o t)] = c
  <2> SUFFICES ASSUME NEW a, NEW b, NEW c, t = <<a, b, c>> PROVE (s \o t)[Len(s \o t)] = c
    OBVIOUS
  <2>1. Len(t) = 3 /\ t[3] = c /\ Len(s) \in Nat
    BY LenProperties
  <2>2. Len(s \o t) = Len(s) + 3 /\ (s \o t)[Len(s) + 3] = t[Len(s) + 3 - Len(s)]
    BY <2>1, ConcatProperties
  <2> QED
    BY <2>1, <2>2
<1> QED
  BY <1>1, <1>2, Zenon DEF EndsWithComma

\* A container is met by a walk that has a value in each of the containers of p, the
\* last of which, when there is one, is readable.
LEMMA SizesMet ==
    ASSUME SizeInv, NEW e \in Encoders, NEW o \in Containers, NEW p \in Seq(Frame),
           \A i \in 1 .. Len(p) : heap[p[i].ctn] # <<>>,
           p # <<>> => Readable(heap, p[Len(p)].ctn, size[e]),
           NEW label, NEW q, NEW n, NEW want, NEW objs, NEW text, NEW why,
           Meets(e, p, o, label, q, n, want, objs, text, why)
    PROVE  SizeState(heap, label, q, n, want, text)
<1>1. heap[o] \in Seq(Values) /\ Len(heap[o]) \in Nat /\ out[e] \in Seq(Text)
  BY LenProperties, Typed DEF SizeInv
<1>2. CASE /\ label = (IF p = <<>> THEN "success" ELSE "val") /\ q = p /\ n = size[e]
           /\ text = out[e] \o <<Begins(o), Ends(o), ",">>
  <2>1. EndsWithComma(text)
    BY <1>1, <1>2, CommaLast, Tokens, Zenon
  <2> QED
    BY <1>2, <2>1 DEF SizeState
<1>3. ASSUME Len(heap[o]) > 0 PROVE Readable(heap, o, BeginsSize(e, o))
  BY <1>1, <1>3 DEF Readable, BeginsSize
<1>4. CASE /\ Len(heap[o]) > 0 /\ label = "val" /\ q = Append(p, [ctn |-> o, pos |-> 0])
           /\ n = BeginsSize(e, o)
  <2>1. /\ Len(q) = Len(p) + 1 /\ Len(p) \in Nat /\ \A i \in 1 .. Len(p) : q[i] = p[i]
        /\ q[Len(q)] = [ctn |-> o, pos |-> 0]
    BY <1>4, EnteredPath, LenProperties
  <2>2. q[Len(q)].ctn = o /\ q[Len(q)].pos = 0
    BY <2>1
  <2>3. \A i \in 1 .. Len(q) : i \in 1 .. Len(p) \/ i = Len(q)
    BY <2>1
  <2>4. \A i \in 1 .. Len(q) : heap[q[i].ctn] # <<>>
    BY <1>3, <1>4, <2>1, <2>2, <2>3 DEF Readable
  <2> QED
    BY <1>3, <1>4, <2>2, <2>4 DEF SizeState
<1>5. CASE label = "fail"
  BY <1>5 DEF SizeState
<1>6. CASE Len(heap[o]) > 0 /\ label = "lock" /\ q = p /\ want = o /\ n = BeginsSize(e, o)
  BY <1>3, <1>6 DEF SizeState
<1> QED
  BY <1>2, <1>4, <1>5, <1>6 DEF Meets

LEMMA SizesNow ==
    ASSUME SizeInv, NEW e \in Encoders
    PROVE  SizeState(heap, pc[e], path[e], size[e], pend[e], out[e])
  BY DEF SizeInv, SizesOf

LEMMA SizesMoved ==
    ASSUME SizeInv, NEW e \in Encoders, heap' = heap,
           NEW label, NEW q, NEW n, NEW want, NEW objs, NEW text, NEW why,
           Moves(e, label, q, n, want, objs, text, why),
           SizeState(heap, label, q, n, want, text)
    PROVE  \A f \in Encoders : SizesOf(f)'
<1>1. /\ pc'[e] = label /\ path'[e] = q /\ size'[e] = n /\ pend'[e] = want /\ out'[e] = text
      /\ \A f \in Encoders \ {e} : /\ pc'[f] = pc[f] /\ path'[f] = path[f] /\ size'[f] = size[f]
                                   /\ pend'[f] = pend[f] /\ out'[f] = out[f]
  BY DEF SizeInv, TypesInv, TypeOK, Moves
<1>2. SizesOf(e)'
  BY <1>1 DEF SizesOf
<1>3. ASSUME NEW f \in Encoders \ {e} PROVE SizesOf(f)'
  BY <1>1, SizesNow DEF SizesOf
<1> QED
  BY <1>2, <1>3

LEMMA SizesGivenUp ==
    ASSUME NEW e, NEW label, NEW q, NEW n, NEW want, NEW objs, NEW text, NEW why,
           GaveUp(e, label, q, n, want, objs, text, why)
    PROVE  SizeState(heap, label, q, n, want, text)
  BY DEF GaveUp, SizeState

LEMMA StepSizes ==
    ASSUME SizeInv, NEW e \in Encoders, Step(e) PROVE \A f \in Encoders : SizesOf(f)'
<1> USE DEF SizeInv
<1>1. CASE Start(e)
  <2>4. PICK o \in Containers : \E label, q, n, want, objs, text, why :
                 /\ Moves(e, label, q, n, want, objs, text, why)
                 /\ \/ Meets(e, <<>>, o, label, q, n, want, objs, text, why)
                    \/ GaveUp(e, label, q, n, want, objs, text, why)
    BY <1>1, StartMoves
  <2>1. PICK label, q, n, want, objs, text, why :
                 /\ Moves(e, label, q, n, want, objs, text, why)
                 /\ \/ Meets(e, <<>>, o, label, q, n, want, objs, text, why)
                    \/ GaveUp(e, label, q, n, want, objs, text, why)
    BY <2>4
  <2>2. <<>> \in Seq(Frame) /\ heap' = heap
    BY <1>1, StartMoves
  <2>3. SizeState(heap, label, q, n, want, text)
    <3>1. /\ \A i \in 1 .. Len(<<>>) : heap[(<<>>)[i].ctn] # <<>>
          /\ <<>> # <<>> => Readable(heap, (<<>>)[Len(<<>>)].ctn, size[e])
      OBVIOUS
    <3>2. CASE Meets(e, <<>>, o, label, q, n, want, objs, text, why)
      BY <2>2, <3>1, <3>2, SizesMet
    <3>3. CASE GaveUp(e, label, q, n, want, objs, text, why)
      BY <3>3, SizesGivenUp
    <3> QED
      BY <2>1, <3>2, <3>3
  <2> QED
    BY <2>1, <2>2, <2>3, SizesMoved
<1>2. CASE Acquire(e)
  <2>1. PICK label, q, why :
           /\ Moves(e, label, q, size[e], None, held[e], out[e], why)
           /\ \/ label = "fail"
              \/ label = "val" /\ q = Append(path[e], [ctn |-> pend[e], pos |-> 0])
    BY <1>2, AcquireMoves
  <2>2. pc[e] = "lock" /\ heap' = heap
    BY <1>2, AcquireMoves
  <2>3. SizeState(heap, "lock", path[e], size[e], pend[e], out[e])
    BY <2>2, SizesNow
  <2>4. pend[e] \in Containers /\ path[e] \in Seq(Frame)
    BY <2>2, Typed DEF Containers
  <2>5. SizeState(heap, label, q, size[e], None, out[e])
    <3>1. CASE label = "fail"
      BY <3>1 DEF SizeState
    <3>2. CASE label = "val" /\ q = Append(path[e], [ctn |-> pend[e], pos |-> 0])
      <4>1. /\ Len(q) = Len(path[e]) + 1 /\ Len(path[e]) \in Nat
            /\ \A i \in 1 .. Len(path[e]) : q[i] = path[e][i]
            /\ q[Len(q)] = [ctn |-> pend[e], pos |-> 0]
        BY <2>4, <3>2, EnteredPath, LenProperties
      <4>2. q[Len(q)].ctn = pend[e] /\ q[Len(q)].pos = 0
        BY <4>1
      <4>3. \A i \in 1 .. Len(q) : i \in 1 .. Len(path[e]) \/ i = Len(q)
        BY <4>1
      <4>4. \A i \in 1 .. Len(q) : heap[q[i].ctn] # <<>>
        BY <2>3, <4>1, <4>2, <4>3 DEF SizeState, Readable
      <4> QED
        BY <2>3, <3>2, <4>2, <4>4 DEF SizeState
    <3> QED
      BY <2>1, <3>1, <3>2
  <2> QED
    BY <2>1, <2>2, <2>5, SizesMoved
<1>3. CASE Value(e)
  <2>1. PICK label, q, n, want, objs, text, why :
                 /\ Moves(e, label, q, n, want, objs, text, why)
                 /\ Looks(e, label, q, n, want, objs, text, why)
    BY <1>3, ValueMoves
  <2>2. pc[e] = "val" /\ ~AtEnd(e) /\ heap' = heap
    BY <1>3, ValueMoves
  <2>3. SizeState(heap, "val", path[e], size[e], pend[e], out[e])
    BY <2>2, SizesNow
  <2>4. path[e] # <<>> /\ path[e] \in Seq(Frame) /\ Len(path[e]) \in 1 .. Len(path[e])
    BY <2>2, Typed, LastFrame
  <2>5. /\ Advanced(e) \in Seq(Frame) /\ Len(Advanced(e)) = Len(path[e])
        /\ \A i \in 1 .. Len(path[e]) : Advanced(e)[i].ctn = path[e][i].ctn
    BY <2>4, AdvancedPath
  <2>6. /\ \A i \in 1 .. Len(Advanced(e)) : heap[Advanced(e)[i].ctn] # <<>>
        /\ Readable(heap, Advanced(e)[Len(Advanced(e))].ctn, size[e])
    BY <2>3, <2>4, <2>5 DEF SizeState
  <2>7. SizeState(heap, label, q, n, want, text)
    <3>1. ~(Cur(e).pos >= Len(heap[Cur(e).ctn]))
      <4>1. Cur(e).ctn \in Containers /\ Cur(e).pos \in Nat
        BY <2>4, LastFrame DEF Cur
      <4>2. Len(heap[Cur(e).ctn]) \in Nat /\ size[e] \in Nat
        BY <4>1, Typed, LenProperties
      <4>3. Readable(heap, Cur(e).ctn, size[e])
        BY <2>3 DEF SizeState, Cur
      <4> QED
        BY <2>2, <4>1, <4>2, <4>3 DEF AtEnd, Readable
    <3>2. CASE label = "val" /\ q = Advanced(e) /\ n = size[e] /\ text = out[e] \o <<"v", ",">>
      <4>1. EndsWithComma(text)
        BY <3>2, Typed, CommaLast, Tokens, Zenon
      <4> QED
        BY <2>6, <3>2, <4>1 DEF SizeState
    <3>3. CASE /\ Item(e) \in Containers
               /\ Meets(e, Advanced(e), Item(e), label, q, n, want, objs, text, why)
      BY <2>5, <2>6, <3>3, SizesMet
    <3>4. CASE GaveUp(e, label, q, n, want, objs, text, why)
      BY <3>4, SizesGivenUp
    <3> QED
      BY <2>1, <3>1, <3>2, <3>3, <3>4, Zenon DEF Looks
  <2> QED
    BY <2>1, <2>2, <2>7, SizesMoved
<1>4. CASE Close(e)
  <2>1. PICK label, q, n, want, objs, text, why :
                 /\ Moves(e, label, q, n, want, objs, text, why)
                 /\ CloseTo(e, label, q, n, want, objs, text, why)
    BY <1>4, CloseMoves
  <2>2. pc[e] = "val" /\ heap' = heap
    BY <1>4, CloseMoves
  <2>3. SizeState(heap, "val", path[e], size[e], pend[e], out[e])
    BY <2>2, SizesNow
  <2>4. path[e] # <<>> /\ path[e] \in Seq(Frame)
    BY <2>2, Typed
  <2>5. SizeState(heap, label, q, n, want, text)
    <3>1. CASE label = "success"
      BY <3>1 DEF SizeState
    <3>2. CASE /\ label = "val" /\ q = Dropped(e) /\ Len(path[e]) > 1
               /\ n = Len(heap[path[e][Len(path[e]) - 1].ctn]) /\ text = Closed(out[e], Cur(e).ctn)
      <4>1. /\ Len(q) = Len(path[e]) - 1 /\ Len(path[e]) \in Nat
            /\ \A i \in 1 .. Len(path[e]) - 1 : q[i] = path[e][i]
        BY <2>4, <3>2, BelowSeq, LenProperties DEF Dropped
      <4>2. \A i \in 1 .. Len(q) : q[i] = path[e][i] /\ i \in 1 .. Len(path[e])
        BY <4>1
      <4>3. \A i \in 1 .. Len(q) : heap[q[i].ctn] # <<>>
        BY <2>3, <4>2 DEF SizeState
      <4>4. Len(q) \in 1 .. Len(q) /\ Len(q) = Len(path[e]) - 1
        BY <3>2, <4>1
      <4>5. q[Len(q)].ctn \in Containers /\ n = Len(heap[q[Len(q)].ctn])
        <5>1. q \in Seq(Frame)
          BY <2>1 DEF Moves
        <5> QED
          BY <3>2, <4>2, <4>4, <5>1, LastFrame
      <4>6. Readable(heap, q[Len(q)].ctn, n)
        <5>1. heap[q[Len(q)].ctn] \in Seq(Values) /\ heap[q[Len(q)].ctn] # <<>>
          BY <4>3, <4>4, <4>5, Typed
        <5>2. n \in Nat /\ n # 0
          BY <4>5, <5>1, EmptySeq
        <5> QED
          BY <4>5, <5>1, <5>2 DEF Readable
      <4>7. EndsWithComma(text)
        <5>1. Below(out[e]) \in Seq(Text) /\ <<Ends(Cur(e).ctn), ",">> \in Seq(Text)
          BY Typed, BelowSeq, Tokens
        <5> QED
          BY <3>2, <5>1, CommaLast, Zenon DEF Closed
      <4> QED
        BY <3>2, <4>3, <4>6, <4>7 DEF SizeState
    <3>3. CASE GaveUp(e, label, q, n, want, objs, text, why)
      BY <3>3, SizesGivenUp
    <3> QED
      BY <2>1, <3>1, <3>2, <3>3 DEF CloseTo
  <2> QED
    BY <2>1, <2>2, <2>5, SizesMoved
<1>5. CASE Finish(e)
  <2>1. PICK label, q, n, want, objs, text, why :
                 /\ Moves(e, label, q, n, want, objs, text, why)
                 /\ label \in {"ok", "fail"}
    BY <1>5, FinishMoves DEF GaveUp
  <2>2. SizeState(heap, label, q, n, want, text)
    BY <2>1 DEF SizeState
  <2>3. heap' = heap
    BY <1>5, FinishMoves
  <2> QED
    BY <2>1, <2>2, <2>3, SizesMoved
<1>6. CASE Unwind(e)
  <2>1. SizeState(heap, "error", path[e], size[e], pend[e], out[e])
    BY DEF SizeState
  <2>2. heap' = heap /\ Moves(e, "error", path[e], size[e], pend[e], {}, out[e], err[e])
    BY <1>6, UnwindMoves
  <2> QED
    BY <2>1, <2>2, SizesMoved
<1> QED
  BY <1>1, <1>2, <1>3, <1>4, <1>5, <1>6 DEF Step

\* No other thread takes values from containers, or none runs while a call does.
NothingShrinks == "pop" \in Mutations => Builds \subseteq {TRUE}

LEMMA MutateSizes == ASSUME SizeInv, NothingShrinks, Mutate PROVE \A f \in Encoders : SizesOf(f)'
<1> SUFFICES ASSUME NEW f \in Encoders PROVE SizesOf(f)'
  OBVIOUS
<1> USE DEF SizeInv
<1>1. PICK o \in Lockable, s \in Seq(Values) :
         /\ owner[o] = None /\ heap' = [heap EXCEPT ![o] = s]
         /\ \/ s = Append(heap[o], Leaf)
            \/ s = Below(heap[o]) /\ heap[o] # <<>> /\ "pop" \in Mutations
  BY MutateMoves
<1>2. /\ UNCHANGED <<gil, owner, pc, path, size, pend, held, out, err, root>>
      /\ gil => \A e \in Encoders : ~Active(e)
  BY MutateMoves
<1>3. SizeState(heap, pc[f], path[f], size[f], pend[f], out[f])
  BY SizesNow
<1>4. CASE pc[f] \notin {"val", "lock"}
  BY <1>2, <1>3, <1>4 DEF SizesOf, SizeState
<1>5. CASE pc[f] \in {"val", "lock"}
  <2>1. ~gil
    BY <1>2, <1>5 DEF Active, Ended
  <2>2. s = Append(heap[o], Leaf)
    BY <1>1, <2>1, Typed DEF NothingShrinks
  <2>3. heap[o] \in Seq(Values) /\ Leaf \in Values
    BY Typed DEF Containers, Values
  <2>4. s # <<>> /\ Len(heap[o]) \in Nat /\ Len(s) = Len(heap[o]) + 1
    BY <2>2, <2>3, AppendProperties, LenProperties
  <2>5. \A x \in Containers : heap'[x] = IF x = o THEN s ELSE heap[x]
    BY <1>1, Typed
  <2>6. \A x \in Containers : heap[x] # <<>> => heap'[x] # <<>>
    BY <2>4, <2>5
  <2>7. ASSUME NEW x \in Containers, Readable(heap, x, size[f]) PROVE Readable(heap', x, size[f])
    <3>1. size[f] \in Nat
      BY Typed
    <3> QED
      BY <2>4, <2>5, <2>7, <3>1 DEF Readable
  <2>8. \A i \in 1 .. Len(path[f]) : path[f][i].ctn \in Containers
    <3> SUFFICES ASSUME NEW i \in 1 .. Len(path[f]) PROVE path[f][i].ctn \in Containers
      OBVIOUS
    <3>1. path[f][i] \in Frame
      BY Typed, ElementOfSeq
    <3> QED
      BY <3>1 DEF Frame
  <2>9. \A i \in 1 .. Len(path[f]) : heap'[path[f][i].ctn] # <<>>
    BY <1>3, <1>5, <2>6, <2>8 DEF SizeState
  <2>10. CASE pc[f] = "val"
    <3>1. path[f][Len(path[f])].ctn \in Containers
      BY <2>10, Typed, LastFrame
    <3>2. Readable(heap', path[f][Len(path[f])].ctn, size[f])
      BY <1>3, <2>7, <2>10, <3>1 DEF SizeState
    <3>3. SizeState(heap', "val", path[f], size[f], pend[f], out[f])
      BY <1>3, <2>9, <2>10, <3>2 DEF SizeState
    <3> QED
      BY <1>2, <2>10, <3>3 DEF SizesOf
  <2>11. CASE pc[f] = "lock"
    <3>1. pend[f] \in Containers
      BY <2>11, Typed DEF Containers
    <3>2. Readable(heap', pend[f], size[f])
      BY <1>3, <2>7, <2>11, <3>1 DEF SizeState
    <3>3. SizeState(heap', "lock", path[f], size[f], pend[f], out[f])
      BY <1>3, <2>9, <2>11, <3>2 DEF SizeState
    <3> QED
      BY <1>2, <2>11, <3>3 DEF SizesOf
  <2> QED
    BY <1>5, <2>10, <2>11
<1> QED
  BY <1>4, <1>5

LEMMA NextSizes == ASSUME SizeInv, NothingShrinks, [Next]_vars PROVE SizeInv'
<1>1. TypesInv'
  BY NextTypes DEF SizeInv
<1>2. CASE \E e \in Encoders : Step(e)
  BY <1>1, <1>2, StepSizes DEF SizeInv
<1>3. CASE Mutate
  BY <1>1, <1>3, MutateSizes DEF SizeInv
<1>4. CASE UNCHANGED vars
  <2>1. \A e \in Encoders : SizesOf(e)'
    BY <1>4 DEF vars, SizeInv, SizesOf
  <2> QED
    BY <1>1, <2>1 DEF SizeInv
<1> QED
  BY <1>2, <1>3, <1>4 DEF Next, Finished

\* As long as no other thread takes values from a list or dict that is being walked,
\* a list is read below its end only, and whatever is closed has a value: the last
\* token is its comma.  Appending is harmless, although the size is read before the
\* mutex is locked.
THEOREM SizesKept == ASSUME NothingShrinks PROVE Spec => []SizesHold
<1>1. Init => SizeInv
  <2>1. Init => TypesInv
    BY InitLocks DEF LockInv
  <2> QED
    BY <2>1 DEF Init, SizeInv, SizesOf, SizeState
<1>2. SizeInv /\ [Next]_vars => SizeInv'
  BY NextSizes
<1>3. SizeInv => SizesHold
  <2> SUFFICES ASSUME SizeInv, NEW e \in Encoders
               PROVE  /\ pc[e] # "wild"
                      /\ pc[e] = "val" => heap[Cur(e).ctn] # <<>>
                      /\ pc[e] = "val" /\ AtEnd(e) => EndsWithComma(out[e])
    BY Zenon DEF SizesHold, EndsWithComma
  <2>1. SizeState(heap, pc[e], path[e], size[e], pend[e], out[e])
    BY SizesNow
  <2>2. ASSUME pc[e] = "val", AtEnd(e) PROVE EndsWithComma(out[e])
    <3>1. path[e] # <<>> /\ path[e] \in Seq(Frame)
      BY <2>2, Typed DEF SizeInv
    <3>2. Cur(e).ctn \in Containers /\ Cur(e).pos \in Nat
      BY <3>1, LastFrame DEF Cur
    <3>3. heap[Cur(e).ctn] \in Seq(Values) /\ size[e] \in Nat
      BY <3>2, Typed DEF SizeInv
    <3>4. heap[Cur(e).ctn] # <<>> /\ (Cur(e).ctn \notin Dicts => 0 < size[e])
      BY <2>1, <2>2 DEF SizeState, Readable, Cur
    <3>5. Len(heap[Cur(e).ctn]) \in Nat /\ Len(heap[Cur(e).ctn]) # 0
      BY <3>3, <3>4, EmptySeq
    <3>6. Cur(e).pos # 0
      BY <2>2, <3>2, <3>3, <3>4, <3>5 DEF AtEnd
    <3> QED
      BY <2>1, <2>2, <3>6 DEF SizeState, Cur
  <2> QED
    BY <2>1, <2>2 DEF SizeState, Readable, Cur
<1> QED
  BY <1>1, <1>2, <1>3, PTL DEF Spec

-----------------------------------------------------------------------------
(* Heaps without a circle. *)

\* Every container is above those it holds: what a heap without a circle allows.
Ranks(rank, h) ==
    \A o \in Containers : \A i \in 1 .. Len(h[o]) :
        h[o][i] \in Containers => rank[h[o][i]] < rank[o]

\* o is below every container of p, so far that the depth of p fits above it.
BelowPath(rank, p, o, r) ==
    /\ \A i \in 1 .. Len(p) : rank[o] < rank[p[i].ctn]
    /\ rank[o] + Len(p) <= rank[r]

\* A path goes down, from r; what is waited for is below it; a call is not told of a
\* circle, and of too many levels only when there may be.
RankState(rank, label, p, want, r, why) ==
    /\ label \in {"val", "lock"} =>
          /\ \A i, j \in 1 .. Len(p) : i < j => rank[p[j].ctn] < rank[p[i].ctn]
          /\ \A i \in 1 .. Len(p) : rank[p[i].ctn] + i <= rank[r] + 1
    /\ label = "lock" => BelowPath(rank, p, want, r)
    /\ why # "circular"
    /\ why = "depth" => MaxDepth <= rank[r]
    /\ label = "idle" => why = "none"

RanksOf(rank, e) == RankState(rank, pc[e], path[e], pend[e], root[e], err[e])

RankInv(rank) == LockInv /\ Ranks(rank, heap) /\ \A e \in Encoders : RanksOf(rank, e)

LEMMA RanksEntered ==
    ASSUME NEW rank \in [Containers -> Nat], NEW p \in Seq(Frame), NEW o \in Containers,
           NEW r \in Containers, NEW want, NEW why,
           BelowPath(rank, p, o, r),
           \A i, j \in 1 .. Len(p) : i < j => rank[p[j].ctn] < rank[p[i].ctn],
           \A i \in 1 .. Len(p) : rank[p[i].ctn] + i <= rank[r] + 1,
           why # "circular", why = "depth" => MaxDepth <= rank[r]
    PROVE  RankState(rank, "val", Append(p, [ctn |-> o, pos |-> 0]), want, r, why)
<1> DEFINE q == Append(p, [ctn |-> o, pos |-> 0])
<1>1. /\ Len(q) = Len(p) + 1 /\ Len(p) \in Nat
      /\ \A i \in 1 .. Len(p) : q[i] = p[i]
      /\ q[Len(q)] = [ctn |-> o, pos |-> 0]
  BY EnteredPath, LenProperties
<1>2. q[Len(q)].ctn = o
  BY <1>1
<1> HIDE DEF q
<1>3. \A i \in 1 .. Len(q) : i \in 1 .. Len(p) \/ i = Len(q)
  BY <1>1
<1>4. \A i, j \in 1 .. Len(q) : i < j => rank[q[j].ctn] < rank[q[i].ctn]
  <2> SUFFICES ASSUME NEW i \in 1 .. Len(q), NEW j \in 1 .. Len(q), i < j
               PROVE  rank[q[j].ctn] < rank[q[i].ctn]
    OBVIOUS
  <2>1. i \in 1 .. Len(p)
    BY <1>1
  <2>2. CASE j \in 1 .. Len(p)
    BY <1>1, <2>1, <2>2
  <2>3. CASE j = Len(q)
    BY <1>1, <1>2, <2>1, <2>3 DEF BelowPath
  <2> QED
    BY <1>3, <2>2, <2>3
<1>5. \A i \in 1 .. Len(q) : rank[q[i].ctn] + i <= rank[r] + 1
  <2> SUFFICES ASSUME NEW i \in 1 .. Len(q) PROVE rank[q[i].ctn] + i <= rank[r] + 1
    OBVIOUS
  <2>1. CASE i \in 1 .. Len(p)
    BY <1>1, <2>1
  <2>2. CASE i = Len(q)
    <3>1. rank[o] \in Nat /\ rank[r] \in Nat /\ rank[o] + Len(p) <= rank[r]
      BY DEF BelowPath
    <3> QED
      BY <1>1, <1>2, <2>2, <3>1
  <2> QED
    BY <1>3, <2>1, <2>2
<1> QED
  BY <1>4, <1>5 DEF RankState, q

\* A container is met below path p.
LEMMA RanksMet ==
    ASSUME NEW rank \in [Containers -> Nat], NEW e \in Encoders, NEW p \in Seq(Frame),
           NEW o \in Containers, NEW r \in Containers,
           BelowPath(rank, p, o, r),
           \A i, j \in 1 .. Len(p) : i < j => rank[p[j].ctn] < rank[p[i].ctn],
           \A i \in 1 .. Len(p) : rank[p[i].ctn] + i <= rank[r] + 1,
           err[e] # "circular", err[e] = "depth" => MaxDepth <= rank[r],
           \A x \in held[e] : Inside(p, x),
           NEW label, NEW q, NEW n, NEW want, NEW objs, NEW text, NEW why,
           Meets(e, p, o, label, q, n, want, objs, text, why)
    PROVE  RankState(rank, label, q, want, r, why)
<1>1. CASE label \in {"success", "val"} /\ q = p /\ why = err[e]
  BY <1>1 DEF RankState
<1>2. CASE label = "val" /\ q = Append(p, [ctn |-> o, pos |-> 0]) /\ why = err[e]
  BY <1>2, RanksEntered
<1>3. CASE label = "fail" /\ Len(p) = MaxDepth /\ why = "depth"
  <2>1. rank[o] \in Nat /\ rank[r] \in Nat /\ MaxDepth \in Nat /\ rank[o] + MaxDepth <= rank[r]
    BY <1>3, DepthAssumption DEF BelowPath
  <2>2. MaxDepth <= rank[r]
    BY <2>1
  <2> QED
    BY <1>3, <2>2 DEF RankState
<1>4. CASE o \in held[e]
  <2>1. PICK i \in 1 .. Len(p) : p[i].ctn = o
    BY <1>4 DEF Inside
  <2>2. rank[o] < rank[o] /\ rank[o] \in Nat
    BY <2>1 DEF BelowPath
  <2> QED
    BY <2>2
<1>5. CASE label = "lock" /\ q = p /\ want = o /\ why = err[e]
  BY <1>5 DEF RankState
<1> QED
  BY <1>1, <1>2, <1>3, <1>4, <1>5 DEF Meets

LEMMA RanksMoved ==
    ASSUME NEW rank, RankInv(rank), NEW e \in Encoders, NEW r, root' = [root EXCEPT ![e] = r],
           NEW label, NEW q, NEW n, NEW want, NEW objs, NEW text, NEW why,
           Moves(e, label, q, n, want, objs, text, why),
           RankState(rank, label, q, want, r, why)
    PROVE  \A f \in Encoders : RanksOf(rank, f)'
<1>1. /\ pc'[e] = label /\ path'[e] = q /\ pend'[e] = want /\ err'[e] = why /\ root'[e] = r
      /\ \A f \in Encoders \ {e} : /\ pc'[f] = pc[f] /\ path'[f] = path[f] /\ pend'[f] = pend[f]
                                   /\ err'[f] = err[f] /\ root'[f] = root[f]
  BY DEF RankInv, LockInv, TypesInv, TypeOK, Moves
<1>2. RanksOf(rank, e)'
  BY <1>1 DEF RanksOf
<1>3. ASSUME NEW f \in Encoders \ {e} PROVE RanksOf(rank, f)'
  BY <1>1 DEF RankInv, RanksOf
<1> QED
  BY <1>2, <1>3

LEMMA RanksGivenUp ==
    ASSUME NEW rank, NEW e, NEW r,
           NEW label, NEW q, NEW n, NEW want, NEW objs, NEW text, NEW why,
           GaveUp(e, label, q, n, want, objs, text, why)
    PROVE  RankState(rank, label, q, want, r, why)
  BY DEF GaveUp, RankState

LEMMA StepRanks ==
    ASSUME NEW rank \in [Containers -> Nat], RankInv(rank), NEW e \in Encoders, Step(e)
    PROVE  \A f \in Encoders : RanksOf(rank, f)'
<1> USE DEF LockInv
<1>0. /\ LockInv /\ Ranks(rank, heap)
      /\ RankState(rank, pc[e], path[e], pend[e], root[e], err[e])
      /\ LockState(gil, e, owner, pc[e], path[e], held[e], pend[e], root[e])
      /\ root = [root EXCEPT ![e] = root[e]] /\ held[e] \subseteq Lockable
  BY LocksNow DEF RankInv, RanksOf
<1>1. CASE Start(e)
  <2>1. PICK o \in Containers : /\ root' = [root EXCEPT ![e] = o]
           /\ \E label, q, n, want, objs, text, why :
                 /\ Moves(e, label, q, n, want, objs, text, why)
                 /\ \/ Meets(e, <<>>, o, label, q, n, want, objs, text, why)
                    \/ GaveUp(e, label, q, n, want, objs, text, why)
    BY <1>0, <1>1, StartMoves
  <2>2. PICK label, q, n, want, objs, text, why :
                 /\ Moves(e, label, q, n, want, objs, text, why)
                 /\ \/ Meets(e, <<>>, o, label, q, n, want, objs, text, why)
                    \/ GaveUp(e, label, q, n, want, objs, text, why)
    BY <2>1
  <2>3. pc[e] = "idle"
    BY <1>0, <1>1, StartMoves
  <2>4. err[e] = "none" /\ held[e] = {} /\ <<>> \in Seq(Frame)
    BY <1>0, <2>3 DEF RankState, LockState
  <2>5. BelowPath(rank, <<>>, o, o)
    <3>1. rank[o] \in Nat
      OBVIOUS
    <3> QED
      BY <3>1 DEF BelowPath
  <2>6. RankState(rank, label, q, want, o, why)
    <3>1. CASE Meets(e, <<>>, o, label, q, n, want, objs, text, why)
      <4>1. /\ \A i, j \in 1 .. Len(<<>>) : i < j => rank[(<<>>)[j].ctn] < rank[(<<>>)[i].ctn]
            /\ \A i \in 1 .. Len(<<>>) : rank[(<<>>)[i].ctn] + i <= rank[o] + 1
        OBVIOUS
      <4>2. err[e] # "circular" /\ err[e] # "depth" /\ \A x \in held[e] : Inside(<<>>, x)
        BY <2>4
      <4> QED
        BY <2>4, <2>5, <3>1, <4>1, <4>2, RanksMet
    <3>2. CASE GaveUp(e, label, q, n, want, objs, text, why)
      BY <3>2, RanksGivenUp
    <3> QED
      BY <2>2, <3>1, <3>2
  <2> QED
    BY <2>1, <2>2, <2>6, RanksMoved
<1>2. CASE Acquire(e)
  <2>1. PICK label, q, why :
           /\ Moves(e, label, q, size[e], None, held[e], out[e], why)
           /\ \/ label = "fail" /\ q = path[e] /\ Len(path[e]) = MaxDepth /\ why = "depth"
              \/ /\ label = "val" /\ why = err[e]
                 /\ q = Append(path[e], [ctn |-> pend[e], pos |-> 0])
    BY <1>0, <1>2, AcquireMoves
  <2>2. pc[e] = "lock" /\ root' = root
    BY <1>0, <1>2, AcquireMoves
  <2>3. RankState(rank, "lock", path[e], pend[e], root[e], err[e])
    BY <1>0, <2>2
  <2>4. pend[e] \in Containers /\ path[e] \in Seq(Frame) /\ root[e] \in Containers
    <3>1. pend[e] \in Containers /\ path[e] \in Seq(Frame)
      BY <1>0, <2>2, Typed DEF Containers
    <3>2. path[e] # <<>> => path[e][1].ctn \in Containers
      <4>1. path[e] # <<>> => 1 \in 1 .. Len(path[e])
        BY <3>1, EmptySeq
      <4>2. path[e] # <<>> => path[e][1] \in Frame
        BY <3>1, <4>1, ElementOfSeq
      <4> QED
        BY <4>2 DEF Frame
    <3> QED
      BY <1>0, <2>2, <3>1, <3>2 DEF LockState
  <2>5. RankState(rank, label, q, None, root[e], why)
    <3>1. CASE label = "fail" /\ Len(path[e]) = MaxDepth /\ why = "depth"
      <4>1. /\ rank[pend[e]] \in Nat /\ rank[root[e]] \in Nat /\ MaxDepth \in Nat
            /\ rank[pend[e]] + MaxDepth <= rank[root[e]]
        BY <2>3, <2>4, <3>1, DepthAssumption DEF BelowPath, RankState
      <4>2. MaxDepth <= rank[root[e]]
        BY <4>1
      <4> QED
        BY <3>1, <4>2 DEF RankState
    <3>2. CASE label = "val" /\ why = err[e] /\ q = Append(path[e], [ctn |-> pend[e], pos |-> 0])
      <4>1. /\ BelowPath(rank, path[e], pend[e], root[e])
            /\ \A i, j \in 1 .. Len(path[e]) : i < j => rank[path[e][j].ctn] < rank[path[e][i].ctn]
            /\ \A i \in 1 .. Len(path[e]) : rank[path[e][i].ctn] + i <= rank[root[e]] + 1
            /\ why # "circular" /\ (why = "depth" => MaxDepth <= rank[root[e]])
        BY <2>3, <3>2 DEF RankState
      <4> QED
        BY <2>4, <3>2, <4>1, RanksEntered
    <3> QED
      BY <2>1, <3>1, <3>2
  <2> QED
    BY <1>0, <2>1, <2>2, <2>5, RanksMoved
<1>3. CASE Value(e)
  <2>1. PICK label, q, n, want, objs, text, why :
                 /\ Moves(e, label, q, n, want, objs, text, why)
                 /\ Looks(e, label, q, n, want, objs, text, why)
    BY <1>0, <1>3, ValueMoves
  <2>2. pc[e] = "val" /\ root' = root
    BY <1>0, <1>3, ValueMoves
  <2>3. /\ RankState(rank, "val", path[e], pend[e], root[e], err[e])
        /\ LockState(gil, e, owner, "val", path[e], held[e], pend[e], root[e])
    BY <1>0, <2>2
  <2>4. /\ path[e] # <<>> /\ path[e] \in Seq(Frame)
        /\ Len(path[e]) \in Nat \ {0} /\ Len(path[e]) \in 1 .. Len(path[e])
        /\ Cur(e).ctn \in Containers /\ Cur(e).pos \in Nat
    BY <1>0, <2>2, Typed, LastFrame DEF Cur
  <2>5. root[e] \in Containers
    <3>1. 1 \in 1 .. Len(path[e])
      BY <2>4
    <3>2. path[e][1] \in Frame
      BY <2>4, <3>1, ElementOfSeq
    <3> QED
      BY <2>3, <2>4, <3>2 DEF Frame, LockState
  <2> DEFINE p == Advanced(e)
  <2>6. /\ p \in Seq(Frame) /\ Len(p) = Len(path[e]) /\ p # <<>>
        /\ \A i \in 1 .. Len(path[e]) : p[i].ctn = path[e][i].ctn
        /\ \A x : Inside(p, x) <=> Inside(path[e], x)
    BY <2>4, AdvancedPath, AdvancedInside
  <2> HIDE DEF p
  <2>7. /\ \A i, j \in 1 .. Len(p) : i < j => rank[p[j].ctn] < rank[p[i].ctn]
        /\ \A i \in 1 .. Len(p) : rank[p[i].ctn] + i <= rank[root[e]] + 1
    BY <2>3, <2>6 DEF RankState
  <2>8. \A x \in held[e] : Inside(p, x)
    BY <1>0, <2>3, <2>6, LocksNow DEF LockState
  <2>9. RankState(rank, label, q, want, root[e], why)
    <3>1. CASE label = "wild" /\ why = err[e]
      BY <2>3, <3>1 DEF RankState
    <3>2. CASE label = "val" /\ q = p /\ why = err[e]
      BY <2>3, <2>7, <3>2 DEF RankState
    <3>3. CASE /\ Item(e) \in Containers /\ Cur(e).pos < Len(heap[Cur(e).ctn])
               /\ Meets(e, p, Item(e), label, q, n, want, objs, text, why)
      <4>1. rank[Item(e)] < rank[Cur(e).ctn]
        <5>1. Len(heap[Cur(e).ctn]) \in Nat
          BY <1>0, <2>4, Typed, LenProperties
        <5>2. Cur(e).pos + 1 \in 1 .. Len(heap[Cur(e).ctn])
          BY <2>4, <3>3, <5>1
        <5> QED
          BY <1>0, <2>4, <3>3, <5>2 DEF Ranks, Item
      <4>2. /\ rank[Item(e)] \in Nat /\ rank[Cur(e).ctn] \in Nat /\ rank[root[e]] \in Nat
            /\ \A x \in Containers : rank[x] \in Nat
        BY <2>4, <2>5, <3>3
      <4>3. /\ rank[Cur(e).ctn] + Len(path[e]) <= rank[root[e]] + 1
            /\ \A i \in 1 .. Len(path[e]) : i # Len(path[e]) => rank[Cur(e).ctn] < rank[path[e][i].ctn]
        BY <2>3, <2>4 DEF RankState, Cur
      <4>4. rank[Item(e)] + Len(path[e]) <= rank[root[e]]
        BY <2>4, <4>1, <4>2, <4>3
      <4>5. \A i \in 1 .. Len(path[e]) : rank[Item(e)] < rank[path[e][i].ctn]
        <5> SUFFICES ASSUME NEW i \in 1 .. Len(path[e])
                     PROVE  rank[Item(e)] < rank[path[e][i].ctn]
          OBVIOUS
        <5>1. CASE i = Len(path[e])
          BY <4>1, <5>1 DEF Cur
        <5>2. CASE i # Len(path[e])
          <6>1. path[e][i] \in Frame
            BY <2>4, ElementOfSeq
          <6>2. rank[path[e][i].ctn] \in Nat
            BY <4>2, <6>1 DEF Frame
          <6>3. rank[Cur(e).ctn] < rank[path[e][i].ctn]
            BY <4>3, <5>2
          <6> QED
            BY <4>1, <4>2, <6>2, <6>3
        <5> QED
          BY <5>1, <5>2
      <4>6. BelowPath(rank, p, Item(e), root[e])
        BY <2>6, <4>4, <4>5 DEF BelowPath
      <4>7. err[e] # "circular" /\ (err[e] = "depth" => MaxDepth <= rank[root[e]])
        BY <2>3 DEF RankState
      <4> QED
        BY <2>5, <2>6, <2>7, <2>8, <3>3, <4>6, <4>7, RanksMet
    <3>4. CASE GaveUp(e, label, q, n, want, objs, text, why)
      BY <3>4, RanksGivenUp
    <3> QED
      BY <2>1, <3>1, <3>2, <3>3, <3>4, Zenon DEF Looks, p
  <2> QED
    BY <1>0, <2>1, <2>2, <2>9, RanksMoved
<1>4. CASE Close(e)
  <2>1. PICK label, q, n, want, objs, text, why :
                 /\ Moves(e, label, q, n, want, objs, text, why)
                 /\ CloseTo(e, label, q, n, want, objs, text, why)
    BY <1>0, <1>4, CloseMoves
  <2>2. pc[e] = "val" /\ root' = root
    BY <1>0, <1>4, CloseMoves
  <2>3. RankState(rank, "val", path[e], pend[e], root[e], err[e])
    BY <1>0, <2>2
  <2>4. path[e] \in Seq(Frame)
    BY <1>0, Typed
  <2>5. RankState(rank, label, q, want, root[e], why)
    <3>1. CASE label = "success" /\ why = err[e]
      BY <2>3, <3>1 DEF RankState
    <3>2. CASE label = "val" /\ q = Dropped(e) /\ Len(path[e]) > 1 /\ why = err[e]
      <4>1. /\ Len(q) = Len(path[e]) - 1 /\ Len(path[e]) \in Nat
            /\ \A i \in 1 .. Len(path[e]) - 1 : q[i] = path[e][i]
        <5>1. path[e] # <<>>
          BY <3>2
        <5> QED
          BY <2>4, <3>2, <5>1, BelowSeq, LenProperties DEF Dropped
      <4>2. \A i \in 1 .. Len(q) : q[i] = path[e][i] /\ i \in 1 .. Len(path[e])
        BY <4>1
      <4> QED
        BY <2>3, <3>2, <4>2 DEF RankState
    <3>3. CASE GaveUp(e, label, q, n, want, objs, text, why)
      BY <3>3, RanksGivenUp
    <3> QED
      BY <2>1, <3>1, <3>2, <3>3 DEF CloseTo
  <2> QED
    BY <1>0, <2>1, <2>2, <2>5, RanksMoved
<1>5. CASE Finish(e)
  <2>1. PICK label, q, n, want, objs, text, why :
                 /\ Moves(e, label, q, n, want, objs, text, why)
                 /\ \/ label = "ok" /\ why = err[e]
                    \/ label = "fail" /\ why = "other"
    BY <1>0, <1>5, FinishMoves DEF GaveUp
  <2>2. RankState(rank, label, q, want, root[e], why)
    BY <1>0, <2>1 DEF RankState
  <2>3. root' = root
    BY <1>0, <1>5, FinishMoves
  <2> QED
    BY <1>0, <2>1, <2>2, <2>3, RanksMoved
<1>6. CASE Unwind(e)
  <2>1. RankState(rank, "error", path[e], pend[e], root[e], err[e])
    BY <1>0 DEF RankState
  <2>2. root' = root /\ Moves(e, "error", path[e], size[e], pend[e], {}, out[e], err[e])
    BY <1>0, <1>6, UnwindMoves
  <2> QED
    BY <1>0, <2>1, <2>2, RanksMoved
<1> QED
  BY <1>1, <1>2, <1>3, <1>4, <1>5, <1>6 DEF Step

LEMMA NextRanks ==
    ASSUME NEW rank \in [Containers -> Nat], ~SetMayFail, RankInv(rank), [Next]_vars
    PROVE  RankInv(rank)'
<1>1. LockInv'
  BY NextLocks DEF RankInv
<1>2. CASE \E e \in Encoders : Step(e)
  <2>1. PICK e \in Encoders : Step(e)
    BY <1>2
  <2>2. heap' = heap
    BY <2>1 DEF Step, Start, Acquire, Value, Close, Finish, Unwind
  <2>3. Ranks(rank, heap)'
    BY <2>2 DEF RankInv, Ranks
  <2>4. \A f \in Encoders : RanksOf(rank, f)'
    BY <2>1, StepRanks
  <2> QED
    BY <1>1, <2>3, <2>4 DEF RankInv
<1>3. CASE Mutate
  <2>1. PICK o \in Lockable, s \in Seq(Values) :
           /\ heap' = [heap EXCEPT ![o] = s]
           /\ \/ s = Append(heap[o], Leaf)
              \/ s = Below(heap[o]) /\ heap[o] # <<>>
    BY <1>3, MutateMoves DEF RankInv, LockInv
  <2>2. /\ heap \in [Containers -> Seq(Values)] /\ o \in Containers /\ Leaf \notin Containers
        /\ heap[o] \in Seq(Values) /\ Leaf \in Values
    BY ObjectsAssumption DEF RankInv, LockInv, TypesInv, TypeOK, Containers, Values
  <2>3. \A i \in 1 .. Len(s) : s[i] \in Containers => i \in 1 .. Len(heap[o]) /\ s[i] = heap[o][i]
    <3>1. CASE s = Append(heap[o], Leaf)
      <4>1. /\ Len(s) = Len(heap[o]) + 1 /\ Len(heap[o]) \in Nat /\ s[Len(heap[o]) + 1] = Leaf
            /\ \A i \in 1 .. Len(heap[o]) : s[i] = heap[o][i]
        BY <2>2, <3>1, AppendProperties, LenProperties
      <4> QED
        BY <2>2, <4>1
    <3>2. CASE s = Below(heap[o]) /\ heap[o] # <<>>
      <4>1. /\ Len(s) = Len(heap[o]) - 1 /\ Len(heap[o]) \in Nat
            /\ \A i \in 1 .. Len(heap[o]) - 1 : s[i] = heap[o][i]
        BY <2>2, <3>2, BelowSeq, LenProperties
      <4> QED
        BY <4>1
    <3> QED
      BY <2>1, <3>1, <3>2
  <2>4. Ranks(rank, heap')
    <3> SUFFICES ASSUME NEW x \in Containers, NEW i \in 1 .. Len(heap'[x]), heap'[x][i] \in Containers
                 PROVE  rank[heap'[x][i]] < rank[x]
      BY DEF Ranks
    <3>1. CASE x = o
      BY <2>1, <2>2, <2>3, <3>1 DEF RankInv, Ranks
    <3>2. CASE x # o
      BY <2>1, <2>2, <3>2 DEF RankInv, Ranks
    <3> QED
      BY <3>1, <3>2
  <2>5. UNCHANGED <<pc, path, pend, err, root>>
    BY <1>3 DEF Mutate
  <2>6. \A f \in Encoders : RanksOf(rank, f)'
    BY <2>5 DEF RankInv, RanksOf
  <2> QED
    BY <1>1, <2>4, <2>6 DEF RankInv, Ranks
<1>4. CASE UNCHANGED vars
  BY <1>1, <1>4 DEF vars, RankInv, Ranks, RanksOf
<1> QED
  BY <1>2, <1>3, <1>4 DEF Next, Finished

LEMMA InitRanks ==
    ASSUME NEW rank \in [Containers -> Nat], \A h \in Heaps : Ranks(rank, h), Init
    PROVE  RankInv(rank)
<1>1. LockInv /\ Ranks(rank, heap)
  BY InitLocks DEF Init
<1>2. ASSUME NEW e \in Encoders PROVE RanksOf(rank, e)
  BY DEF Init, RanksOf, RankState
<1> QED
  BY <1>1, <1>2 DEF RankInv

\* The rank of what an encoder waits for.
LEMMA NoCircle ==
    ASSUME NEW rank \in [Containers -> Nat], RankInv(rank), NEW S \in SUBSET Encoders
    PROVE  ~WaitInCircle(S)
<1> SUFFICES ASSUME WaitInCircle(S) PROVE FALSE
  OBVIOUS
<1> DEFINE waited == {rank[pend[e]] : e \in S}
<1>1. \A e \in S : e \in Encoders /\ pc[e] = "lock" /\ owner[pend[e]] \in S
  BY DEF WaitInCircle
<1>2. \A e \in S : pend[e] \in Lockable /\ pend[e] \in Containers
  BY <1>1, Typed DEF RankInv, LockInv, Containers
<1>3. waited \subseteq Nat /\ waited # {}
  BY <1>2 DEF WaitInCircle
<1>4. PICK m \in waited : \A n \in waited : m <= n
  <2> HIDE DEF waited
  <2>1. PICK m \in waited : \A n \in waited : ~(<<n, m>> \in OpToRel(<, Nat))
    BY <1>3, NatLessThanWellFounded, WFMin
  <2>2. \A n \in waited : ~(n < m)
    BY <1>3, <2>1 DEF OpToRel
  <2>3. m \in Nat /\ waited \subseteq Nat
    BY <1>3
  <2>4. ASSUME NEW n \in waited PROVE m <= n
    BY <2>2, <2>3
  <2> QED
    BY <2>4
<1>5. PICK e \in S : m = rank[pend[e]]
  OBVIOUS
<1> DEFINE f == owner[pend[e]]
<1>6. f \in S /\ f \in Encoders /\ pc[f] = "lock"
  BY <1>1
<1>7. Inside(path[f], pend[e])
  <2>1. LockState(gil, f, owner, "lock", path[f], held[f], pend[f], root[f])
    BY <1>6, LocksNow, SMTT(30) DEF RankInv
  <2> QED
    BY <1>2, <2>1 DEF LockState
<1>8. rank[pend[f]] < rank[pend[e]]
  <2>1. RankState(rank, "lock", path[f], pend[f], root[f], err[f])
    BY <1>6 DEF RankInv, RanksOf
  <2> QED
    BY <1>7, <2>1 DEF RankState, BelowPath, Inside
<1>9. rank[pend[e]] <= rank[pend[f]] /\ rank[pend[e]] \in Nat /\ rank[pend[f]] \in Nat
  BY <1>2, <1>4, <1>5, <1>6
<1> HIDE DEF f
<1> QED
  BY <1>8, <1>9

\* On a heap without circles, which is one whose containers can be ranked so that each
\* is above what it holds, no encoders wait for each other's mutexes, and none for its
\* own: locking from outer to inner is one order for all, whoever starts where.
THEOREM NoDeadlock ==
    ASSUME NEW rank \in [Containers -> Nat], \A h \in Heaps : Ranks(rank, h), ~SetMayFail
    PROVE  Spec => [](\A S \in SUBSET Encoders : ~WaitInCircle(S))
<1>1. Init => RankInv(rank)
  BY InitRanks
<1>2. RankInv(rank) /\ [Next]_vars => RankInv(rank)'
  BY NextRanks
<1>3. RankInv(rank) => \A S \in SUBSET Encoders : ~WaitInCircle(S)
  BY NoCircle
<1> QED
  BY <1>1, <1>2, <1>3, PTL DEF Spec

\* On such a heap nobody is told of a circular reference, however often a container is
\* met, and of too many levels only if the argument has that rank or more: with the
\* height of a container for its rank, if it has more levels than the walk may enter.
THEOREM NoFalseErrors ==
    ASSUME NEW rank \in [Containers -> Nat], \A h \in Heaps : Ranks(rank, h), ~SetMayFail
    PROVE  Spec => [](\A e \in Encoders : /\ err[e] # "circular"
                                          /\ err[e] = "depth" => rank[root[e]] >= MaxDepth)
<1>1. Init => RankInv(rank)
  BY InitRanks
<1>2. RankInv(rank) /\ [Next]_vars => RankInv(rank)'
  BY NextRanks
<1>3. RankInv(rank) => \A e \in Encoders : /\ err[e] # "circular"
                                           /\ err[e] = "depth" => rank[root[e]] >= MaxDepth
  <2> SUFFICES ASSUME RankInv(rank), NEW e \in Encoders
               PROVE  err[e] # "circular" /\ (err[e] = "depth" => MaxDepth <= rank[root[e]])
    OBVIOUS
  <2> QED
    BY DEF RankInv, RanksOf, RankState
<1> QED
  BY <1>1, <1>2, <1>3, PTL DEF Spec

-----------------------------------------------------------------------------
(* The text of a container, by that of its values. *)

\* The texts of all values.
Texts == [Values -> Seq(Text)]

\* What precedes a comma.
Commas(text) == [v \in Values |-> Append(text[v], ",")]

LEMMA ListedIsFlat ==
    ASSUME NEW text \in Texts, NEW s \in Seq(Values)
    PROVE  Commas(text) \in Texts /\ Listed(text, s) = Flat(Commas(text), s)
<1>1. ASSUME NEW v \in Values PROVE Append(text[v], ",") \in Seq(Text)
  <2>1. text[v] \in Seq(Text) /\ "," \in Text
    BY DEF Texts, Text
  <2> QED
    BY <2>1, AppendProperties
<1>2. Commas(text) \in Texts
  BY <1>1 DEF Commas, Texts
<1>3. \A i \in 1 .. Len(s) : Append(text[s[i]], ",") = Commas(text)[s[i]]
  <2> TAKE i \in 1 .. Len(s)
  <2>1. s[i] \in Values
    BY ElementOfSeq
  <2> QED
    BY <2>1 DEF Commas
<1>4. [i \in 1 .. Len(s) |-> Append(text[s[i]], ",")] = [i \in 1 .. Len(s) |-> Commas(text)[s[i]]]
  BY <1>3
<1> QED
  BY <1>2, <1>4 DEF Listed, Flat

LEMMA ListedEmpty == ASSUME NEW text PROVE Listed(text, <<>>) = <<>>
<1>1. [i \in 1 .. Len(<<>>) |-> Append(text[<<>>[i]], ",")] \in Seq({})
  OBVIOUS
<1>2. [i \in 1 .. Len(<<>>) |-> Append(text[<<>>[i]], ",")] = <<>>
  BY <1>1, EmptySeq
<1> QED
  BY <1>2, FlattenEmpty DEF Listed

LEMMA ListedAppend ==
    ASSUME NEW text \in Texts, NEW s \in Seq(Values), NEW v \in Values
    PROVE  /\ Listed(text, s) \in Seq(Text) /\ Append(text[v], ",") \in Seq(Text)
           /\ Listed(text, Append(s, v)) = Listed(text, s) \o Append(text[v], ",")
<1>1. Append(s, v) \in Seq(Values)
  BY AppendProperties
<1>2. /\ Commas(text) \in Texts /\ Listed(text, s) = Flat(Commas(text), s)
      /\ Listed(text, Append(s, v)) = Flat(Commas(text), Append(s, v))
  BY <1>1, ListedIsFlat
<1>3. Commas(text) \in [Values -> Seq(Text)]
  BY <1>2 DEF Texts
<1>4. /\ Flat(Commas(text), s) \in Seq(Text)
      /\ Flat(Commas(text), Append(s, v)) = Flat(Commas(text), s) \o Commas(text)[v]
  BY <1>3, FlatTyped, FlatAppend
<1>5. Commas(text)[v] = Append(text[v], ",") /\ Commas(text)[v] \in Seq(Text)
  BY <1>3 DEF Commas
<1> QED
  BY <1>2, <1>4, <1>5

\* Two tokens.
LEMMA Pair == ASSUME NEW a, NEW b PROVE <<a>> \o <<b>> = <<a, b>>
<1> DEFINE T == {a, b}
           c == <<a>> \o <<b>>
           d == <<a, b>>
<1>1. <<a>> \in Seq(T) /\ <<b>> \in Seq(T) /\ d \in Seq(T)
  OBVIOUS
<1>2. Len(<<a>>) = 1 /\ Len(<<b>>) = 1 /\ Len(d) = 2 /\ d[1] = a /\ d[2] = b
  OBVIOUS
<1>3. c \in Seq(T) /\ Len(c) = 1 + 1 /\ \A i \in 1 .. 1 + 1 : c[i] = IF i <= 1 THEN <<a>>[i] ELSE <<b>>[i - 1]
  BY <1>1, <1>2, ConcatProperties
<1>4. c[1] = a /\ c[2] = b
  BY <1>3
<1> HIDE DEF c, d
<1>5. \A i \in 1 .. Len(c) : c[i] = d[i]
  <2>1. 1 .. Len(c) = {1, 2}
    BY <1>3
  <2> QED
    BY <1>2, <1>4, <2>1
<1>6. c \in Seq(T) /\ d \in Seq(T) /\ Len(c) = Len(d)
  BY <1>1, <1>2, <1>3
<1> HIDE DEF T
<1>7. c = d
  BY <1>5, <1>6, SeqEqual
<1> QED
  BY <1>7 DEF c, d

\* The function in the definition of Rendered.
RenderedAt(h, f, n) ==
    [v \in Values |->
        IF v = Leaf THEN <<"v">>
        ELSE LET values == IF n = 0 THEN <<>> ELSE Below(Listed(f[n - 1], h[v]))
             IN  <<Begins(v)>> \o values \o <<Ends(v)>>]

RenderedBy(f, h) == f = [n \in 0 .. MaxDepth |-> RenderedAt(h, f, n)]

LEMMA RenderedAtTyped ==
    ASSUME NEW h \in [Containers -> Seq(Values)], NEW f, NEW n \in 0 .. MaxDepth,
           n # 0 => f[n - 1] \in Texts
    PROVE  RenderedAt(h, f, n) \in Texts
<1> SUFFICES ASSUME NEW v \in Values
             PROVE  (IF v = Leaf THEN <<"v">>
                     ELSE LET values == IF n = 0 THEN <<>> ELSE Below(Listed(f[n - 1], h[v]))
                          IN  <<Begins(v)>> \o values \o <<Ends(v)>>) \in Seq(Text)
  BY DEF RenderedAt, Texts
<1>1. <<"v">> \in Seq(Text) /\ <<Begins(v)>> \in Seq(Text) /\ <<Ends(v)>> \in Seq(Text) /\ <<>> \in Seq(Text)
  <2>1. "v" \in Text /\ Begins(v) \in Text /\ Ends(v) \in Text
    BY DEF Text, Begins, Ends
  <2> QED
    BY <2>1
<1>2. ASSUME v # Leaf, n # 0 PROVE Below(Listed(f[n - 1], h[v])) \in Seq(Text)
  <2>1. h[v] \in Seq(Values) /\ f[n - 1] \in Texts
    BY <1>2 DEF Values
  <2>2. Leaf \in Values
    BY DEF Values
  <2>3. Listed(f[n - 1], h[v]) \in Seq(Text)
    BY <2>1, <2>2, ListedAppend
  <2> QED
    BY <2>3, BelowSeq
<1> DEFINE values == IF n = 0 THEN <<>> ELSE Below(Listed(f[n - 1], h[v]))
<1>3. v # Leaf => values \in Seq(Text)
  BY <1>1, <1>2
<1> HIDE DEF values
<1>4. v # Leaf => <<Begins(v)>> \o values \o <<Ends(v)>> \in Seq(Text)
  BY <1>1, <1>3, ConcatProperties
<1> QED
  BY <1>1, <1>4 DEF values

LEMMA RenderedDefined ==
    ASSUME NEW h \in [Containers -> Seq(Values)]
    PROVE  \E f : RenderedBy(f, h)
<1> DEFINE S == 0 .. MaxDepth
           rank == [n \in S |-> n]
           step == [x \in [S -> Texts] \X S |-> RenderedAt(h, x[1], x[2])]
<1>1. rank \in [S -> Nat] /\ Texts # {}
  <2>1. MaxDepth \in Nat /\ <<>> \in Seq(Text)
    BY DepthAssumption
  <2>2. [v \in Values |-> <<>>] \in Texts
    BY <2>1 DEF Texts
  <2> QED
    BY <2>1, <2>2
<1>2. ASSUME NEW f \in [S -> Texts], NEW n \in S PROVE step[<<f, n>>] = RenderedAt(h, f, n)
  OBVIOUS
<1>3. step \in [[S -> Texts] \X S -> Texts]
  <2>1. ASSUME NEW x \in [S -> Texts] \X S PROVE RenderedAt(h, x[1], x[2]) \in Texts
    <3>1. x[1] \in [S -> Texts] /\ x[2] \in S /\ (x[2] # 0 => x[2] - 1 \in S)
      BY DepthAssumption
    <3>2. x[2] # 0 => x[1][x[2] - 1] \in Texts
      BY <3>1
    <3> HIDE DEF S
    <3> QED
      BY <3>1, <3>2, RenderedAtTyped DEF S
  <2> HIDE DEF S
  <2> QED
    BY <2>1
<1>4. ASSUME NEW n \in S, NEW g \in [S -> Texts], NEW k \in [S -> Texts], Agree(S, rank, rank[n], g, k)
      PROVE  step[<<g, n>>] = step[<<k, n>>]
  <2>1. n # 0 => g[n - 1] = k[n - 1]
    <3>1. n # 0 => n - 1 \in S /\ rank[n - 1] < rank[n]
      BY DepthAssumption
    <3> QED
      BY <1>4, <3>1 DEF Agree
  <2>2. RenderedAt(h, g, n) = RenderedAt(h, k, n)
    BY <2>1 DEF RenderedAt
  <2> HIDE DEF step
  <2> QED
    BY <1>2, <2>2
<1> HIDE DEF rank, step
<1>5. Decreases(S, Texts, rank, step)
  <2> HIDE DEF S
  <2> QED
    BY <1>1, <1>3, <1>4, Zenon DEF Decreases
<1>6. PICK f : Solves(S, Texts, step, f)
  BY <1>5, Recursion
<1>7. f = [n \in S |-> RenderedAt(h, f, n)]
  BY <1>2, <1>6 DEF Solves
<1> QED
  BY <1>7 DEF RenderedBy

\* What the text of a value is.
LEMMA RenderedIs ==
    ASSUME NEW h \in [Containers -> Seq(Values)], NEW n \in 0 .. MaxDepth
    PROVE  /\ Rendered(h)[n] \in Texts
           /\ Rendered(h)[n][Leaf] = <<"v">>
           /\ \A o \in Containers : h[o] = <<>> => Rendered(h)[n][o] = <<Begins(o), Ends(o)>>
           /\ n # 0 => \A o \in Containers :
                 Rendered(h)[n][o] = <<Begins(o)>> \o Below(Listed(Rendered(h)[n - 1], h[o])) \o <<Ends(o)>>
<1> DEFINE f == CHOOSE g : RenderedBy(g, h)
<1>1. Rendered(h) = f
  BY Zenon DEF Rendered, RenderedBy, RenderedAt
<1>2. RenderedBy(f, h)
  BY RenderedDefined
<1> HIDE DEF f
<1>3. \A m \in 0 .. MaxDepth : f[m] = RenderedAt(h, f, m)
  <2>1. f = [m \in 0 .. MaxDepth |-> RenderedAt(h, f, m)]
    BY <1>2 DEF RenderedBy
  <2> QED
    BY <2>1, Zenon
<1> DEFINE G == {m \in Nat : m \in 0 .. MaxDepth => f[m] \in Texts}
<1>4. MaxDepth \in Nat
  BY DepthAssumption
<1>5. 0 \in G
  <2>1. 0 \in 0 .. MaxDepth
    BY <1>4
  <2> QED
    BY <1>3, <2>1, RenderedAtTyped
<1>6. ASSUME NEW m \in Nat, m \in G PROVE m + 1 \in G
  <2> SUFFICES ASSUME m + 1 \in 0 .. MaxDepth PROVE f[m + 1] \in Texts
    OBVIOUS
  <2>1. m \in 0 .. MaxDepth /\ m + 1 - 1 = m
    BY <1>4
  <2>2. f[m + 1 - 1] \in Texts
    BY <1>6, <2>1
  <2>3. RenderedAt(h, f, m + 1) \in Texts
    BY <2>2, RenderedAtTyped
  <2> QED
    BY <1>3, <2>3
<1> HIDE DEF G
<1>7. \A m \in Nat : m \in G
  BY <1>5, <1>6, SetInduction
<1>8. f[n] \in Texts
  <2>1. n \in Nat
    OBVIOUS
  <2> QED
    BY <1>7, <2>1 DEF G
<1>9. f[n] = RenderedAt(h, f, n) /\ Leaf \in Values /\ Containers \subseteq Values /\ Leaf \notin Containers
  BY <1>3, ObjectsAssumption DEF Values
<1>10. f[n][Leaf] = <<"v">>
  BY <1>9 DEF RenderedAt
<1>11. ASSUME NEW o \in Containers
       PROVE  f[n][o] = <<Begins(o)>> \o (IF n = 0 THEN <<>> ELSE Below(Listed(f[n - 1], h[o]))) \o <<Ends(o)>>
  <2>1. o \in Values /\ o # Leaf
    BY <1>9
  <2> QED
    BY <1>9, <2>1, Zenon DEF RenderedAt
<1>12. ASSUME NEW o \in Containers, h[o] = <<>> PROVE f[n][o] = <<Begins(o), Ends(o)>>
  <2>1. Listed(f[n - 1], <<>>) = <<>> /\ Below(<<>>) = <<>>
    BY ListedEmpty DEF Below
  <2>2. (IF n = 0 THEN <<>> ELSE Below(Listed(f[n - 1], h[o]))) = <<>>
    BY <1>12, <2>1
  <2>3. f[n][o] = <<Begins(o)>> \o <<>> \o <<Ends(o)>>
    BY <1>11, <2>2, Zenon
  <2>4. ASSUME NEW a, NEW b PROVE <<a>> \o <<>> \o <<b>> = <<a, b>>
    <3>1. <<a>> \in Seq({a}) /\ <<a>> \o <<b>> = <<a, b>>
      BY Pair
    <3>2. <<a>> \o <<>> = <<a>>
      BY <3>1, ConcatEmptySeq
    <3> QED
      BY <3>1, <3>2
  <2> QED
    BY <2>3, <2>4, Zenon
<1> QED
  BY <1>1, <1>8, <1>10, <1>11, <1>12

\* Container o is the i-th of a path and k of its values are written: the text of it.
Level(h, i, o, k) == <<Begins(o)>> \o Listed(Rendered(h)[MaxDepth - i], SubSeq(h[o], 1, k))

\* The text of a path before its last container: in each of the others, the value
\* counted last is the one the path goes on with.
Before(h, p) == FlattenSeq([i \in 1 .. Len(p) - 1 |-> Level(h, i, p[i].ctn, p[i].pos - 1)])

\* The first k values of o, the i-th of a path, are not too deep.
Shallow(h, i, o, k) == \A j \in 1 .. k : ~Deeper(h, h[o][j], MaxDepth - i)

\* Path p, of a walk that began with r, is a path of the heap: each container is the
\* value counted last of the one before.
Follows(h, p, r) ==
    /\ p # <<>> /\ p[1].ctn = r
    /\ \A i \in 1 .. Len(p) : h[p[i].ctn] # <<>> /\ p[i].pos <= Len(h[p[i].ctn])
    /\ \A i \in 1 .. Len(p) - 1 : p[i].pos >= 1 /\ h[p[i].ctn][p[i].pos] = p[i + 1].ctn

\* What was passed on path p was not too deep, and was written.
Passed(h, p, text) ==
    LET n == Len(p) IN
    /\ \A i \in 1 .. n - 1 : Shallow(h, i, p[i].ctn, p[i].pos - 1)
    /\ Shallow(h, n, p[n].ctn, p[n].pos)
    /\ text = Before(h, p) \o Level(h, n, p[n].ctn, p[n].pos)

Walked(h, p, n, objs, text, r) ==
    /\ Follows(h, p, r) /\ Passed(h, p, text)
    /\ p[Len(p)].ctn \notin Dicts => n = Len(h[p[Len(p)].ctn])
    /\ \A x \in objs : Inside(p, x)

Entering(p, o) == Append(p, [ctn |-> o, pos |-> 0])

TreeState(h, label, p, n, want, objs, text, why, r) ==
    /\ label = "idle" => objs = {} /\ text = <<>> /\ why = "none"
    /\ label = "val" => Walked(h, p, n, objs, text, r)
    /\ label = "lock" => Walked(h, Entering(p, want), n, objs, text, r)
    /\ label \in {"success", "ok"} =>
          /\ r \in Containers /\ ~Deeper(h, r, MaxDepth)
          /\ text = IF label = "ok" THEN Rendered(h)[MaxDepth][r] ELSE Append(Rendered(h)[MaxDepth][r], ",")
    /\ why = "circular" => r \in Circular(h)
    /\ why = "depth" => Deeper(h, r, MaxDepth)

TreeOf(e) ==
    TreeState(heap, pc[e], path[e], size[e], pend[e], held[e], out[e], err[e], root[e])

TreeInv == \A e \in Encoders : pc[e] = "idle" \/ ~changed[e] => TreeOf(e)

\* Each container of a path is in the one before, and what is waited for in the last.
LinkState(h, label, p, want) ==
    /\ label \in {"val", "lock"} => \A i \in 1 .. Len(p) - 1 : p[i + 1].ctn \in Inner(h, p[i].ctn)
    /\ label = "lock" /\ p # <<>> => want \in Inner(h, p[Len(p)].ctn)

LinkInv == \A e \in Encoders : LinkState(heap, pc[e], path[e], pend[e])

LEMMA TextsAssociate == \A a, b, c \in Seq(Text) : a \o (b \o c) = (a \o b) \o c
<1> TAKE a, b, c \in Seq(Text)
<1>1. (a \o b) \o c = a \o (b \o c)
  BY ConcatAssociative
<1> QED
  BY <1>1

LEMMA BelowConcat ==
    ASSUME NEW T, NEW a \in Seq(T), NEW b \in Seq(T), b # <<>>
    PROVE  Below(a \o b) = a \o Below(b)
<1> DEFINE c == a \o b
           d == a \o Below(b)
<1>1. /\ Len(a) \in Nat /\ Len(b) \in Nat /\ Len(b) >= 1
      /\ Below(b) \in Seq(T) /\ Len(Below(b)) = Len(b) - 1
      /\ \A i \in 1 .. Len(b) - 1 : Below(b)[i] = b[i]
  BY EmptySeq, BelowSeq
<1>2. /\ c \in Seq(T) /\ Len(c) = Len(a) + Len(b)
      /\ \A i \in 1 .. Len(a) + Len(b) : c[i] = IF i <= Len(a) THEN a[i] ELSE b[i - Len(a)]
  BY ConcatProperties
<1>3. /\ d \in Seq(T) /\ Len(d) = Len(a) + Len(Below(b))
      /\ \A i \in 1 .. Len(a) + Len(Below(b)) : d[i] = IF i <= Len(a) THEN a[i] ELSE Below(b)[i - Len(a)]
  BY <1>1, ConcatProperties
<1> HIDE DEF c, d
<1>4. c # <<>>
  BY <1>1, <1>2
<1>5. /\ Below(c) \in Seq(T) /\ Len(Below(c)) = Len(c) - 1
      /\ \A i \in 1 .. Len(c) - 1 : Below(c)[i] = c[i]
  BY <1>2, <1>4, BelowSeq
<1>6. Len(Below(c)) = Len(d)
  BY <1>1, <1>2, <1>3, <1>5
<1>7. ASSUME NEW i \in 1 .. Len(d) PROVE Below(c)[i] = d[i]
  <2>1. i \in 1 .. Len(c) - 1 /\ i \in 1 .. Len(a) + Len(b) /\ i \in 1 .. Len(a) + Len(Below(b))
    BY <1>1, <1>2, <1>3
  <2>2. Below(c)[i] = IF i <= Len(a) THEN a[i] ELSE b[i - Len(a)]
    BY <1>2, <1>5, <2>1
  <2>3. d[i] = IF i <= Len(a) THEN a[i] ELSE Below(b)[i - Len(a)]
    BY <1>3, <2>1
  <2>4. ~(i <= Len(a)) => i - Len(a) \in 1 .. Len(b) - 1
    BY <1>1, <2>1
  <2>5. ~(i <= Len(a)) => Below(b)[i - Len(a)] = b[i - Len(a)]
    BY <1>1, <2>4
  <2> QED
    BY <2>2, <2>3, <2>5
<1>8. Below(c) = d
  BY <1>3, <1>5, <1>6, <1>7, SeqEqual
<1> QED
  BY <1>8 DEF c, d

\* The first values of a sequence.
LEMMA FirstValues ==
    ASSUME NEW T, NEW s \in Seq(T)
    PROVE  /\ SubSeq(s, 1, 0) = <<>> /\ SubSeq(s, 1, Len(s)) = s
           /\ \A k \in 0 .. Len(s) - 1 :
                 /\ SubSeq(s, 1, k) \in Seq(T) /\ s[k + 1] \in T
                 /\ SubSeq(s, 1, k + 1) = Append(SubSeq(s, 1, k), s[k + 1])
<1>1. SubSeq(s, 1, 0) = <<>> /\ SubSeq(s, 1, Len(s)) = s
  BY SubSeqEmpty, SubSeqFull
<1>2. ASSUME NEW k \in 0 .. Len(s) - 1
      PROVE  /\ SubSeq(s, 1, k) \in Seq(T) /\ s[k + 1] \in T
             /\ SubSeq(s, 1, k + 1) = Append(SubSeq(s, 1, k), s[k + 1])
  <2>1. Len(s) \in Nat /\ k + 1 \in 1 .. Len(s) /\ 1 \in 1 .. Len(s) /\ k + 1 - 1 = k /\ k \in Int
    BY LenProperties
  <2>2. s[k + 1] \in T /\ \A i \in 1 .. k : s[i] \in T
    BY <2>1, ElementOfSeq
  <2>3. SubSeq(s, 1, k) \in Seq(T)
    BY <2>1, <2>2, SubSeqProperties
  <2>4. SubSeq(s, 1, k + 1) = SubSeq(s, 1, k + 1 - 1) \o <<s[k + 1]>>
    BY <2>1, SubSeqRecursiveSecond
  <2>5. Append(SubSeq(s, 1, k), s[k + 1]) = SubSeq(s, 1, k) \o <<s[k + 1]>>
    BY <2>2, <2>3, AppendIsConcat
  <2> QED
    BY <2>1, <2>2, <2>3, <2>4, <2>5
<1> QED
  BY <1>1, <1>2

\* The text of the i-th container of a path, when none of its values is written,
\* and when one more is.
LEMMA LevelStarts ==
    ASSUME NEW h \in [Containers -> Seq(Values)], NEW i, NEW o \in Containers
    PROVE  Level(h, i, o, 0) = <<Begins(o)>> /\ <<Begins(o)>> \in Seq(Text)
<1>1. h[o] \in Seq(Values) /\ <<Begins(o)>> \in Seq(Text)
  BY Tokens
<1>2. SubSeq(h[o], 1, 0) = <<>>
  BY <1>1, FirstValues
<1>3. Level(h, i, o, 0) = <<Begins(o)>> \o <<>>
  BY <1>2, ListedEmpty, Zenon DEF Level
<1> QED
  BY <1>1, <1>3, ConcatEmptySeq

\* What is written of a value inside of i containers.
ValueText(h, i, v) == Append(Rendered(h)[MaxDepth - i][v], ",")

LEMMA LevelTyped ==
    ASSUME NEW h \in [Containers -> Seq(Values)], NEW i \in 1 .. MaxDepth, NEW o \in Containers,
           NEW k \in 0 .. Len(h[o])
    PROVE  Level(h, i, o, k) \in Seq(Text)
<1>1. h[o] \in Seq(Values) /\ <<Begins(o)>> \in Seq(Text) /\ Leaf \in Values
  BY Tokens DEF Values
<1>2. MaxDepth - i \in 0 .. MaxDepth
  BY DepthAssumption
<1>3. Rendered(h)[MaxDepth - i] \in Texts
  BY <1>2, RenderedIs
<1>4. SubSeq(h[o], 1, k) \in Seq(Values)
  <2>1. \A j \in 1 .. k : h[o][j] \in Values
    BY <1>1, ElementOfSeq
  <2> QED
    BY <2>1, SubSeqProperties
<1>5. Listed(Rendered(h)[MaxDepth - i], SubSeq(h[o], 1, k)) \in Seq(Text)
  BY <1>1, <1>3, <1>4, ListedAppend
<1> QED
  BY <1>1, <1>5, ConcatProperties DEF Level

LEMMA LevelGoesOn ==
    ASSUME NEW h \in [Containers -> Seq(Values)], NEW i \in 1 .. MaxDepth, NEW o \in Containers,
           NEW k \in Nat, k < Len(h[o])
    PROVE  /\ h[o][k + 1] \in Values
           /\ ValueText(h, i, h[o][k + 1]) \in Seq(Text)
           /\ Level(h, i, o, k + 1) = Level(h, i, o, k) \o ValueText(h, i, h[o][k + 1])
<1> DEFINE s == SubSeq(h[o], 1, k)
           v == h[o][k + 1]
           r == Rendered(h)[MaxDepth - i]
<1>1. h[o] \in Seq(Values) /\ <<Begins(o)>> \in Seq(Text) /\ k \in 0 .. Len(h[o]) - 1
  <2>1. h[o] \in Seq(Values) /\ <<Begins(o)>> \in Seq(Text)
    BY Tokens
  <2>2. Len(h[o]) \in Nat
    BY <2>1, LenProperties
  <2> QED
    BY <2>1, <2>2
<1>2. s \in Seq(Values) /\ v \in Values /\ SubSeq(h[o], 1, k + 1) = Append(s, v)
  BY <1>1, FirstValues
<1>3. r \in Texts
  <2>1. MaxDepth - i \in 0 .. MaxDepth
    BY DepthAssumption
  <2> QED
    BY <2>1, RenderedIs
<1>4. Level(h, i, o, k + 1) = <<Begins(o)>> \o Listed(r, Append(s, v)) /\ Level(h, i, o, k) = <<Begins(o)>> \o Listed(r, s)
  BY <1>2, Zenon DEF Level
<1> DEFINE b == <<Begins(o)>>
           l == Listed(r, s)
           t == Append(r[v], ",")
<1> HIDE DEF s, v, r
<1>5. /\ Listed(r, s) \in Seq(Text) /\ Append(r[v], ",") \in Seq(Text)
      /\ Listed(r, Append(s, v)) = Listed(r, s) \o Append(r[v], ",")
  BY <1>2, <1>3, ListedAppend
<1>6. Level(h, i, o, k + 1) = Level(h, i, o, k) \o Append(r[v], ",")
  <2>1. Level(h, i, o, k + 1) = b \o (l \o t) /\ Level(h, i, o, k) = b \o l
    BY <1>4, <1>5
  <2>2. b \in Seq(Text) /\ l \in Seq(Text) /\ t \in Seq(Text)
    BY <1>1, <1>5
  <2> HIDE DEF b, l, t
  <2>3. b \o (l \o t) = (b \o l) \o t
    BY <2>2, TextsAssociate, Zenon
  <2> QED
    BY <2>1, <2>3 DEF t
<1> QED
  BY <1>2, <1>5, <1>6 DEF ValueText, r, v

\* The text of a whole container that has values: the last comma gives way to its end.
LEMMA LevelEnds ==
    ASSUME NEW h \in [Containers -> Seq(Values)], NEW i \in 1 .. MaxDepth, NEW o \in Containers,
           h[o] # <<>>
    PROVE  /\ Level(h, i, o, Len(h[o])) \in Seq(Text) /\ Level(h, i, o, Len(h[o])) # <<>>
           /\ Rendered(h)[MaxDepth - i + 1][o] \in Seq(Text)
           /\ Closed(Level(h, i, o, Len(h[o])), o) = Append(Rendered(h)[MaxDepth - i + 1][o], ",")
<1> DEFINE m == MaxDepth - i
           s == h[o]
           t == Listed(Rendered(h)[m], s)
           b == <<Begins(o)>>
<1>1. s \in Seq(Values) /\ Len(s) \in Nat /\ Len(s) >= 1
  <2>1. s \in Seq(Values)
    OBVIOUS
  <2>2. Len(s) \in Nat /\ Len(s) # 0
    BY <2>1, EmptySeq
  <2> QED
    BY <2>1, <2>2
<1>2. m \in 0 .. MaxDepth /\ m + 1 \in 0 .. MaxDepth /\ m + 1 # 0 /\ m + 1 - 1 = m
  BY DepthAssumption
<1>3. Rendered(h)[m] \in Texts
  BY <1>2, RenderedIs
<1> DEFINE k == m + 1
<1>0. k \in 0 .. MaxDepth /\ k # 0 /\ k - 1 = m
  BY <1>2
<1> HIDE DEF k
<1>4. Rendered(h)[k][o] = b \o Below(t) \o <<Ends(o)>> /\ Rendered(h)[k][o] \in Seq(Text)
  <2>1. Rendered(h)[k] \in Texts /\
        (k # 0 => \A x \in Containers :
            Rendered(h)[k][x] = <<Begins(x)>> \o Below(Listed(Rendered(h)[k - 1], h[x])) \o <<Ends(x)>>)
    BY <1>0, RenderedIs
  <2>2. Rendered(h)[k][o] = <<Begins(o)>> \o Below(Listed(Rendered(h)[k - 1], h[o])) \o <<Ends(o)>>
    BY <1>0, <2>1, Zenon
  <2>3. Rendered(h)[k][o] = <<Begins(o)>> \o Below(Listed(Rendered(h)[m], h[o])) \o <<Ends(o)>>
    BY <1>0, <2>2
  <2>4. o \in Values
    BY DEF Values
  <2> QED
    BY <2>1, <2>3, <2>4 DEF Texts
<1>5. Level(h, i, o, Len(s)) = b \o t
  <2>1. SubSeq(s, 1, Len(s)) = s
    BY <1>1, FirstValues
  <2> QED
    BY <2>1, Zenon DEF Level
<1>6. t \in Seq(Text) /\ t # <<>>
  <2> DEFINE f == SubSeq(s, 1, Len(s) - 1)
             v == s[Len(s)]
             r == Rendered(h)[m]
  <2>1. Len(s) - 1 \in 0 .. Len(s) - 1 /\ Len(s) - 1 + 1 = Len(s)
    BY <1>1
  <2>2. f \in Seq(Values) /\ v \in Values /\ Append(f, v) = s
    <3>1. f \in Seq(Values) /\ s[Len(s) - 1 + 1] \in Values
          /\ SubSeq(s, 1, Len(s) - 1 + 1) = Append(f, s[Len(s) - 1 + 1]) /\ SubSeq(s, 1, Len(s)) = s
      BY <1>1, <2>1, FirstValues
    <3> QED
      BY <2>1, <3>1
  <2>3. t = Listed(r, s) /\ r \in Texts
    BY <1>3
  <2> HIDE DEF f, v, r, s, t
  <2>4. /\ Listed(r, f) \in Seq(Text) /\ Append(r[v], ",") \in Seq(Text)
        /\ t = Listed(r, f) \o Append(r[v], ",")
    BY <2>2, <2>3, ListedAppend
  <2>5. Append(r[v], ",") # <<>>
    <3> DEFINE x == r[v]
    <3>1. x \in Seq(Text) /\ "," \in Text
      BY <2>2, <2>3 DEF Texts, Text
    <3> HIDE DEF x
    <3>2. Append(x, ",") # <<>>
      BY <3>1, AppendProperties, Zenon
    <3> QED
      BY <3>2 DEF x
  <2>6. t \in Seq(Text)
    BY <2>4, ConcatProperties
  <2>7. t # <<>>
    BY <2>4, <2>5, ConcatSimplifications
  <2> QED
    BY <2>6, <2>7
<1>7. b \in Seq(Text) /\ <<Ends(o)>> \in Seq(Text) /\ <<",">> \in Seq(Text) /\ <<Ends(o), ",">> \in Seq(Text) /\ b # <<>>
  <2>1. Begins(o) \in Text /\ Ends(o) \in Text /\ "," \in Text
    BY DEF Text, Begins, Ends
  <2>2. \A x, y \in Text : <<x>> \in Seq(Text) /\ <<x, y>> \in Seq(Text) /\ <<x>> # <<>>
    OBVIOUS
  <2> QED
    BY <2>1, <2>2, Zenon
<1> HIDE DEF s, t, b, m
<1>8. Below(t) \in Seq(Text) /\ b \o t \in Seq(Text) /\ b \o t # <<>> /\ Below(b \o t) = b \o Below(t)
  <2>1. Below(t) \in Seq(Text) /\ b \o t \in Seq(Text) /\ Below(b \o t) = b \o Below(t)
    BY <1>6, <1>7, BelowSeq, BelowConcat, ConcatProperties
  <2>2. b \o t # <<>>
    BY <1>6, <1>7, ConcatSimplifications
  <2> QED
    BY <2>1, <2>2
<1>9. Closed(b \o t, o) = Append(Rendered(h)[k][o], ",")
  <2> DEFINE x == b \o Below(t)
             r == Rendered(h)[k][o]
  <2>1. x \in Seq(Text)
    BY <1>7, <1>8, ConcatProperties
  <2>2. r \in Seq(Text) /\ r = x \o <<Ends(o)>>
    BY <1>4
  <2>3. Closed(b \o t, o) = x \o <<Ends(o), ",">>
    BY <1>8, Zenon DEF Closed
  <2>4. <<Ends(o), ",">> = <<Ends(o)>> \o <<",">>
    BY Pair
  <2> HIDE DEF x, r
  <2>5. Append(r, ",") = r \o <<",">>
    <3>1. "," \in Text
      BY DEF Text
    <3> QED
      BY <2>2, <3>1, AppendIsConcat
  <2>6. x \o (<<Ends(o)>> \o <<",">>) = (x \o <<Ends(o)>>) \o <<",">>
    <3> DEFINE y == <<Ends(o)>>
               z == <<",">>
    <3>1. y \in Seq(Text) /\ z \in Seq(Text)
      BY <1>7
    <3> HIDE DEF y, z
    <3>2. x \o (y \o z) = (x \o y) \o z
      BY <2>1, <3>1, TextsAssociate, Zenon
    <3> QED
      BY <3>2 DEF y, z
  <2>7. Closed(b \o t, o) = Append(r, ",")
    BY <2>2, <2>3, <2>4, <2>5, <2>6, Zenon
  <2> QED
    BY <2>7 DEF r
<1> QED
  BY <1>4, <1>5, <1>8, <1>9 DEF k, m, s

-----------------------------------------------------------------------------
(* Depth and circles. *)

\* Nothing is deep in an empty container, or in what is none.
LEMMA EmptyNotDeep ==
    ASSUME NEW h, NEW o, h[o] = <<>> \/ o \notin Containers, NEW n \in Nat
    PROVE  ~Deeper(h, o, n)
<1> SUFFICES ASSUME Deeper(h, o, n) PROVE FALSE
  OBVIOUS
<1>1. PICK s \in [1 .. n + 1 -> Containers] : s[1] = o /\ \A i \in 1 .. n + 1 : h[s[i]] # <<>>
  BY DEF Deeper
<1>2. 1 \in 1 .. n + 1
  OBVIOUS
<1> QED
  BY <1>1, <1>2

\* A container is one deeper than what is in it.
LEMMA DeeperInner ==
    ASSUME NEW h, NEW o, NEW n \in Nat, Deeper(h, o, n + 1)
    PROVE  o \in Containers /\ h[o] # <<>> /\ \E x \in Inner(h, o) : Deeper(h, x, n)
<1>1. PICK s \in [1 .. n + 2 -> Containers] :
         /\ s[1] = o
         /\ \A i \in 1 .. n + 2 : h[s[i]] # <<>>
         /\ \A i \in 1 .. n + 1 : s[i + 1] \in Inner(h, s[i])
  <2>1. n + 1 + 1 = n + 2
    OBVIOUS
  <2> QED
    BY <2>1 DEF Deeper
<1> DEFINE t == [i \in 1 .. n + 1 |-> s[i + 1]]
<1>2. 1 \in 1 .. n + 2 /\ 1 \in 1 .. n + 1
  OBVIOUS
<1>3. \A i \in 1 .. n + 1 : i + 1 \in 1 .. n + 2
  OBVIOUS
<1>4. \A i \in 1 .. n : i \in 1 .. n + 1 /\ i + 1 \in 1 .. n + 1 /\ i + 1 \in 1 .. n + 2
  OBVIOUS
<1>5. t \in [1 .. n + 1 -> Containers] /\ t[1] = s[2] /\ \A i \in 1 .. n + 1 : t[i] = s[i + 1]
  BY <1>2, <1>3
<1> HIDE DEF t
<1>6. \A i \in 1 .. n + 1 : h[t[i]] # <<>>
  BY <1>1, <1>3, <1>5
<1>7. \A i \in 1 .. n : t[i + 1] \in Inner(h, t[i])
  BY <1>1, <1>4, <1>5
<1>8. Deeper(h, s[2], n)
  BY <1>5, <1>6, <1>7 DEF Deeper
<1>9. s[2] \in Inner(h, o)
  BY <1>1, <1>2
<1> QED
  BY <1>1, <1>2, <1>8, <1>9

LEMMA InnerDeeper ==
    ASSUME NEW h, NEW o \in Containers, h[o] # <<>>, NEW n \in Nat,
           NEW x \in Inner(h, o), Deeper(h, x, n)
    PROVE  Deeper(h, o, n + 1)
<1>1. PICK t \in [1 .. n + 1 -> Containers] :
         /\ t[1] = x
         /\ \A i \in 1 .. n + 1 : h[t[i]] # <<>>
         /\ \A i \in 1 .. n : t[i + 1] \in Inner(h, t[i])
  BY DEF Deeper
<1> DEFINE s == [i \in 1 .. n + 2 |-> IF i = 1 THEN o ELSE t[i - 1]]
<1>2. \A i \in 1 .. n + 2 : i # 1 => i - 1 \in 1 .. n + 1
  OBVIOUS
<1>3. \A i \in 1 .. n + 1 : /\ i \in 1 .. n + 2 /\ i + 1 \in 1 .. n + 2 /\ i + 1 # 1 /\ i + 1 - 1 = i
                            /\ i # 1 => i - 1 \in 1 .. n /\ i - 1 + 1 = i
  OBVIOUS
<1>4. 1 \in 1 .. n + 2 /\ n + 1 + 1 = n + 2
  OBVIOUS
<1>5. /\ s \in [1 .. n + 2 -> Containers] /\ s[1] = o
      /\ \A i \in 1 .. n + 2 : i # 1 => s[i] = t[i - 1]
  BY <1>2, <1>4
<1> HIDE DEF s
<1>6. \A i \in 1 .. n + 2 : h[s[i]] # <<>>
  BY <1>1, <1>2, <1>5
<1>7. ASSUME NEW i \in 1 .. n + 1 PROVE s[i + 1] \in Inner(h, s[i])
  <2>1. s[i + 1] = t[i]
    BY <1>3, <1>5
  <2>2. CASE i = 1
    BY <1>1, <1>5, <2>1, <2>2
  <2>3. CASE i # 1
    <3>1. i - 1 \in 1 .. n /\ i - 1 + 1 = i /\ i \in 1 .. n + 2
      BY <1>3, <2>3
    <3>2. t[i - 1 + 1] \in Inner(h, t[i - 1])
      BY <1>1, <3>1
    <3> QED
      BY <1>5, <2>1, <2>3, <3>1, <3>2
  <2> QED
    BY <2>2, <2>3
<1> QED
  BY <1>4, <1>5, <1>6, <1>7 DEF Deeper

LEMMA InnerIn ==
    ASSUME NEW h, NEW o, NEW x
    PROVE  /\ x \in Inner(h, o) => x \in Containers
           /\ h[o] \in Seq(Values) => /\ x \in Inner(h, o) => h[o] # <<>>
                                      /\ x \in Inner(h, o) => \E i \in 1 .. Len(h[o]) : h[o][i] = x
                                      /\ \A i \in 1 .. Len(h[o]) : h[o][i] \in Containers => h[o][i] \in Inner(h, o)
<1>1. ASSUME h[o] \in Seq(Values) PROVE DOMAIN h[o] = 1 .. Len(h[o])
  BY <1>1, LenProperties
<1>2. Inner(h, o) = {h[o][i] : i \in DOMAIN h[o]} \cap Containers
  BY DEF Inner, Range
<1>3. ASSUME h[o] \in Seq(Values), x \in Inner(h, o) PROVE \E i \in 1 .. Len(h[o]) : h[o][i] = x
  BY <1>1, <1>2, <1>3
<1>4. ASSUME h[o] \in Seq(Values), x \in Inner(h, o) PROVE h[o] # <<>>
  BY <1>3, <1>4
<1>5. ASSUME h[o] \in Seq(Values), NEW i \in 1 .. Len(h[o]), h[o][i] \in Containers PROVE h[o][i] \in Inner(h, o)
  BY <1>1, <1>2, <1>5
<1> QED
  BY <1>2, <1>3, <1>4, <1>5

\* A container is no deeper than n + 1 when its values are no deeper than n.
LEMMA ShallowOuter ==
    ASSUME NEW h \in [Containers -> Seq(Values)], NEW o \in Containers, NEW n \in Nat,
           \A j \in 1 .. Len(h[o]) : ~Deeper(h, h[o][j], n)
    PROVE  ~Deeper(h, o, n + 1)
<1> SUFFICES ASSUME Deeper(h, o, n + 1) PROVE FALSE
  OBVIOUS
<1>1. PICK x \in Inner(h, o) : Deeper(h, x, n)
  BY DeeperInner
<1>2. h[o] \in Seq(Values)
  OBVIOUS
<1>3. PICK j \in 1 .. Len(h[o]) : h[o][j] = x
  BY <1>2, InnerIn
<1> QED
  BY <1>1, <1>3

\* Where a circle is reached, the walk goes as deep as one likes.
LEMMA CircularDeep ==
    ASSUME NEW h \in [Containers -> Seq(Values)], NEW r \in Circular(h), NEW n \in Nat
    PROVE  Deeper(h, r, n)
<1>1. PICK S \in SUBSET Containers : r \in S /\ \A o \in S : Inner(h, o) \cap S # {}
  BY DEF Circular
<1> DEFINE G == {m \in Nat : \A o \in S : Deeper(h, o, m)}
<1>2. \A o \in S : o \in Containers /\ h[o] # <<>> /\ \E x \in S : x \in Inner(h, o)
  <2> SUFFICES ASSUME NEW o \in S PROVE o \in Containers /\ h[o] # <<>> /\ \E x \in S : x \in Inner(h, o)
    OBVIOUS
  <2>1. PICK x \in S : x \in Inner(h, o)
    BY <1>1
  <2>2. o \in Containers /\ h[o] \in Seq(Values)
    OBVIOUS
  <2>3. h[o] # <<>>
    BY <2>1, <2>2, InnerIn
  <2> QED
    BY <2>1, <2>2, <2>3
<1>3. 0 \in G
  <2> SUFFICES ASSUME NEW o \in S PROVE Deeper(h, o, 0)
    OBVIOUS
  <2> DEFINE s == [i \in 1 .. 0 + 1 |-> o]
  <2>1. s \in [1 .. 0 + 1 -> Containers] /\ s[1] = o /\ \A i \in 1 .. 0 + 1 : s[i] = o
    OBVIOUS
  <2> HIDE DEF s
  <2> QED
    BY <1>2, <2>1 DEF Deeper
<1>4. ASSUME NEW m \in Nat, m \in G PROVE m + 1 \in G
  <2> SUFFICES ASSUME NEW o \in S PROVE Deeper(h, o, m + 1)
    OBVIOUS
  <2>1. PICK x \in S : x \in Inner(h, o)
    BY <1>2
  <2>2. Deeper(h, x, m)
    BY <1>4
  <2> QED
    BY <1>2, <2>1, <2>2, InnerDeeper
<1> HIDE DEF G
<1>5. \A m \in Nat : m \in G
  BY <1>3, <1>4, SetInduction
<1>6. n \in G
  BY <1>5
<1> QED
  BY <1>1, <1>6 DEF G

-----------------------------------------------------------------------------
(* Paths and the text before their last container. *)

LEMMA BelowAppend ==
    ASSUME NEW T, NEW s \in Seq(T), NEW x \in T
    PROVE  Below(Append(s, x)) = s
<1> DEFINE a == Append(s, x)
<1>1. /\ a \in Seq(T) /\ a # <<>> /\ Len(a) = Len(s) + 1 /\ Len(s) \in Nat
      /\ \A i \in 1 .. Len(s) : a[i] = s[i]
  BY AppendProperties, LenProperties
<1> HIDE DEF a
<1>2. /\ Below(a) \in Seq(T) /\ Len(Below(a)) = Len(a) - 1
      /\ \A i \in 1 .. Len(a) - 1 : Below(a)[i] = a[i]
  BY <1>1, BelowSeq
<1>3. Len(Below(a)) = Len(s) /\ \A i \in 1 .. Len(s) : Below(a)[i] = s[i]
  BY <1>1, <1>2
<1>4. Below(a) = s
  BY <1>2, <1>3, SeqEqual
<1> QED
  BY <1>4 DEF a

\* Path q is p with one more value of its last container counted.
Counted(p, q) ==
    /\ p \in Seq(Frame) /\ q \in Seq(Frame) /\ p # <<>> /\ q # <<>> /\ Len(q) = Len(p)
    /\ \A i \in 1 .. Len(p) - 1 : q[i] = p[i]
    /\ q[Len(p)].ctn = p[Len(p)].ctn /\ q[Len(p)].pos = p[Len(p)].pos + 1

LEMMA AdvancedCounts ==
    ASSUME NEW e \in Encoders, path[e] \in Seq(Frame), path[e] # <<>>
    PROVE  Counted(path[e], Advanced(e))
<1>1. /\ Advanced(e) \in Seq(Frame) /\ Len(Advanced(e)) = Len(path[e]) /\ Advanced(e) # <<>>
      /\ \A i \in 1 .. Len(path[e]) : Advanced(e)[i].ctn = path[e][i].ctn
      /\ Advanced(e)[Len(path[e])].pos = path[e][Len(path[e])].pos + 1
  BY AdvancedPath DEF Cur
<1>2. Len(path[e]) \in 1 .. Len(path[e]) /\ Len(path[e]) \in Nat
  BY LastFrame
<1>3. \A i \in 1 .. Len(path[e]) - 1 : Advanced(e)[i] = path[e][i]
  <2> SUFFICES ASSUME NEW i \in 1 .. Len(path[e]) - 1 PROVE Advanced(e)[i] = path[e][i]
    OBVIOUS
  <2>1. i # Len(path[e]) /\ i \in 1 .. Len(path[e])
    BY <1>2
  <2>2. path[e] \in [1 .. Len(path[e]) -> Frame]
    BY LenProperties
  <2> QED
    BY <2>1, <2>2 DEF Advanced
<1> QED
  BY <1>1, <1>2, <1>3 DEF Counted

\* The containers of the path but the last have values that are counted.
Counts(h, q) == \A i \in 1 .. Len(q) - 1 : q[i].pos >= 1 /\ q[i].pos <= Len(h[q[i].ctn])

LEMMA FrameOf ==
    ASSUME NEW q \in Seq(Frame), NEW i \in 1 .. Len(q)
    PROVE  q[i] \in Frame /\ q[i].ctn \in Containers /\ q[i].pos \in Nat
<1>1. q[i] \in Frame
  BY ElementOfSeq
<1> QED
  BY <1>1 DEF Frame

\* The text before the last container is of those before: none for the outermost, and
\* else what its parent had before its last value, after what was before the parent.
LEMMA BeforeFirst ==
    ASSUME NEW h, NEW q, Len(q) = 1
    PROVE  Before(h, q) = <<>>
<1>1. [i \in 1 .. Len(q) - 1 |-> Level(h, i, q[i].ctn, q[i].pos - 1)] = <<>>
  OBVIOUS
<1> QED
  BY <1>1, FlattenEmpty DEF Before

LEMMA BeforeSame ==
    ASSUME NEW h, NEW p, NEW q, Len(p) = Len(q), \A i \in 1 .. Len(p) - 1 : q[i] = p[i]
    PROVE  Before(h, q) = Before(h, p)
<1>1. [i \in 1 .. Len(q) - 1 |-> Level(h, i, q[i].ctn, q[i].pos - 1)]
         = [i \in 1 .. Len(p) - 1 |-> Level(h, i, p[i].ctn, p[i].pos - 1)]
  OBVIOUS
<1> QED
  BY <1>1 DEF Before

LEMMA BeforeStep ==
    ASSUME NEW h \in [Containers -> Seq(Values)], NEW q \in Seq(Frame), Counts(h, q),
           Len(q) >= 2, Len(q) <= MaxDepth + 1
    PROVE  LET i == Len(q) - 1
           IN  /\ Before(h, Below(q)) \in Seq(Text) /\ Before(h, q) \in Seq(Text)
               /\ Level(h, i, q[i].ctn, q[i].pos - 1) \in Seq(Text)
               /\ Before(h, q) = Before(h, Below(q)) \o Level(h, i, q[i].ctn, q[i].pos - 1)
<1> DEFINE b == Below(q)
           m == Len(q) - 2
           L(i) == Level(h, i, q[i].ctn, q[i].pos - 1)
           s == [i \in 1 .. m |-> L(i)]
<1>1. Len(q) \in Nat /\ m \in Nat /\ MaxDepth \in Nat /\ Len(q) - 1 = m + 1 /\ q # <<>>
  BY DepthAssumption, EmptySeq
<1>2. Len(b) - 1 = m /\ \A i \in 1 .. m : b[i] = q[i]
  <2>1. Len(b) = Len(q) - 1 /\ \A i \in 1 .. Len(q) - 1 : b[i] = q[i]
    BY <1>1, BelowSeq
  <2>2. Len(q) - 1 = m + 1 /\ m \in Nat
    BY <1>1
  <2> HIDE DEF b, m, s
  <2>3. Len(b) - 1 = m
    BY <2>1, <2>2
  <2>4. ASSUME NEW i \in 1 .. m PROVE b[i] = q[i]
    <3>1. i \in 1 .. Len(q) - 1
      BY <2>2
    <3> QED
      BY <2>1, <3>1, Zenon
  <2> QED
    BY <2>3, <2>4
<1>3. \A i \in 1 .. m + 1 : L(i) \in Seq(Text)
  <2> SUFFICES ASSUME NEW i \in 1 .. m + 1 PROVE L(i) \in Seq(Text)
    OBVIOUS
  <2>1. i \in 1 .. MaxDepth /\ i \in 1 .. Len(q) /\ i \in 1 .. Len(q) - 1
    BY <1>1
  <2>2. q[i].ctn \in Containers /\ q[i].pos \in Nat
    BY <2>1, FrameOf
  <2>3. Len(h[q[i].ctn]) \in Nat
    BY <2>2, LenProperties
  <2>4. q[i].pos - 1 \in 0 .. Len(h[q[i].ctn])
    BY <2>1, <2>2, <2>3 DEF Counts
  <2> QED
    BY <2>1, <2>2, <2>4, LevelTyped
<1> HIDE DEF L
<1>4. s \in Seq(Seq(Text)) /\ L(m + 1) \in Seq(Text) /\ Len(s) = m
  BY <1>1, <1>3
<1>5. [i \in 1 .. m + 1 |-> L(i)] = Append(s, L(m + 1))
  <2> DEFINE f == [i \in 1 .. m + 1 |-> L(i)]
             a == Append(s, L(m + 1))
  <2>1. f \in Seq(Seq(Text)) /\ Len(f) = m + 1 /\ \A i \in 1 .. m + 1 : f[i] = L(i)
    BY <1>1, <1>3
  <2>2. \A i \in 1 .. m : s[i] = L(i)
    OBVIOUS
  <2> HIDE DEF s
  <2>3. /\ a \in Seq(Seq(Text)) /\ Len(a) = m + 1 /\ a[m + 1] = L(m + 1)
        /\ \A i \in 1 .. m : a[i] = s[i]
    BY <1>4, AppendProperties
  <2> HIDE DEF f, a
  <2>4. \A i \in 1 .. m + 1 : i \in 1 .. m \/ i = m + 1
    <3>1. \A k \in Nat : \A i \in 1 .. k + 1 : i \in 1 .. k \/ i = k + 1
      OBVIOUS
    <3> HIDE DEF m
    <3> QED
      BY <1>1, <3>1
  <2>5. \A i \in 1 .. m + 1 : f[i] = a[i]
    BY <2>1, <2>2, <2>3, <2>4
  <2>6. f = a
    BY <2>1, <2>3, <2>5, SeqEqual
  <2> QED
    BY <2>6 DEF f, a
<1>6. Before(h, b) = FlattenSeq(s)
  <2>1. [i \in 1 .. Len(b) - 1 |-> Level(h, i, b[i].ctn, b[i].pos - 1)] = s
    BY <1>2 DEF L
  <2> QED
    BY <2>1 DEF Before
<1>7. Before(h, q) = FlattenSeq(Append(s, L(m + 1)))
  <2>1. [i \in 1 .. Len(q) - 1 |-> Level(h, i, q[i].ctn, q[i].pos - 1)] = [i \in 1 .. m + 1 |-> L(i)]
    BY <1>1 DEF L
  <2> QED
    BY <1>5, <2>1 DEF Before
<1> HIDE DEF s
<1>8. /\ FlattenSeq(s) \in Seq(Text)
      /\ FlattenSeq(Append(s, L(m + 1))) = FlattenSeq(s) \o L(m + 1)
  BY <1>4, FlattenTyped, FlattenAppend
<1>9. Before(h, q) = Before(h, b) \o L(m + 1) /\ Before(h, b) \in Seq(Text)
  BY <1>6, <1>7, <1>8
<1>10. Before(h, q) \in Seq(Text)
  BY <1>4, <1>9, ConcatProperties
<1> QED
  BY <1>1, <1>4, <1>9, <1>10 DEF b, L

LEMMA BeforeTyped ==
    ASSUME NEW h \in [Containers -> Seq(Values)], NEW q \in Seq(Frame), q # <<>>, Counts(h, q),
           Len(q) <= MaxDepth + 1
    PROVE  Before(h, q) \in Seq(Text)
<1>1. Len(q) \in Nat \ {0}
  BY EmptySeq
<1>2. CASE Len(q) = 1
  <2>1. Before(h, q) = <<>> /\ <<>> \in Seq(Text)
    BY <1>2, BeforeFirst
  <2> QED
    BY <2>1
<1>3. CASE Len(q) >= 2
  BY <1>3, BeforeStep
<1>4. Len(q) = 1 \/ Len(q) >= 2
  <2>1. \A k \in Nat \ {0} : k = 1 \/ k >= 2
    OBVIOUS
  <2> QED
    BY <1>1, <2>1, Zenon
<1> QED
  BY <1>2, <1>3, <1>4

-----------------------------------------------------------------------------
(* What the walk has written on its way. *)

\* The path of a walk and its text so far.
LEMMA WalkedPath ==
    ASSUME NEW h \in [Containers -> Seq(Values)], NEW p \in Seq(Frame), NEW n, NEW objs, NEW text,
           NEW r, Walked(h, p, n, objs, text, r)
    PROVE  /\ p # <<>> /\ Counts(h, p) /\ Len(p) \in Nat \ {0} /\ Len(p) \in 1 .. Len(p)
           /\ p[Len(p)].ctn \in Containers /\ p[Len(p)].pos \in Nat /\ h[p[Len(p)].ctn] # <<>>
           /\ h[p[Len(p)].ctn] \in Seq(Values) /\ Len(h[p[Len(p)].ctn]) \in Nat
           /\ p[Len(p)].pos <= Len(h[p[Len(p)].ctn])
<1>1. p # <<>> /\ \A i \in 1 .. Len(p) : h[p[i].ctn] # <<>> /\ p[i].pos <= Len(h[p[i].ctn])
  BY DEF Walked, Follows
<1>2. /\ Len(p) \in Nat \ {0} /\ Len(p) \in 1 .. Len(p)
      /\ p[Len(p)].ctn \in Containers /\ p[Len(p)].pos \in Nat
  BY <1>1, LastFrame
<1>3. h[p[Len(p)].ctn] \in Seq(Values) /\ Len(h[p[Len(p)].ctn]) \in Nat
  BY <1>2, LenProperties
<1>4. Counts(h, p)
  <2>1. \A i \in 1 .. Len(p) - 1 : i \in 1 .. Len(p)
    BY <1>2
  <2> QED
    BY <1>1, <2>1 DEF Walked, Follows, Counts
<1> QED
  BY <1>1, <1>2, <1>3, <1>4

\* A walk begins with its argument.
LEMMA WalkedStarts ==
    ASSUME NEW h \in [Containers -> Seq(Values)], NEW o \in Containers, h[o] # <<>>,
           NEW n, o \notin Dicts => n = Len(h[o]), NEW objs, objs \subseteq {o}
    PROVE  Walked(h, Entering(<<>>, o), n, objs, <<Begins(o)>>, o)
<1> DEFINE q == Entering(<<>>, o)
<1>1. q \in Seq(Frame) /\ q # <<>> /\ Len(q) = 1 /\ q[1] = [ctn |-> o, pos |-> 0]
  <2> DEFINE e == <<>>
  <2>1. e \in Seq(Frame) /\ Len(e) = 0
    OBVIOUS
  <2> HIDE DEF e
  <2>2. LET x == Append(e, [ctn |-> o, pos |-> 0])
        IN  /\ x \in Seq(Frame) /\ x # <<>> /\ Len(x) = Len(e) + 1
            /\ x[Len(x)] = [ctn |-> o, pos |-> 0]
    BY <2>1, EnteredPath
  <2> QED
    BY <2>1, <2>2 DEF Entering, e
<1>2. q[1].ctn = o /\ q[1].pos = 0
  BY <1>1
<1> HIDE DEF q
<1>3. Follows(h, q, o)
  <2>1. h[o] \in Seq(Values) /\ Len(h[o]) \in Nat
    BY LenProperties
  <2> QED
    BY <1>1, <1>2, <2>1 DEF Follows
<1>4. Passed(h, q, <<Begins(o)>>)
  <2>1. Shallow(h, 1, o, 0)
    BY DEF Shallow
  <2>2. Before(h, q) = <<>> /\ Level(h, 1, o, 0) = <<Begins(o)>> /\ <<Begins(o)>> \in Seq(Text)
    BY <1>1, BeforeFirst, LevelStarts
  <2>3. <<Begins(o)>> = Before(h, q) \o Level(h, 1, o, 0)
    BY <2>2, ConcatEmptySeq
  <2> QED
    BY <1>1, <1>2, <2>1, <2>3 DEF Passed
<1>5. \A x \in objs : Inside(q, x)
  BY <1>1, <1>2 DEF Inside
<1> QED
  BY <1>1, <1>2, <1>3, <1>4, <1>5 DEF Walked, q

\* A walk that counts a value which is no deeper than it may be goes on; what it has
\* in front of the value is the text it had.
LEMMA CountedFollows ==
    ASSUME NEW h \in [Containers -> Seq(Values)], NEW p, NEW q, Counted(p, q), NEW r,
           Follows(h, p, r), p[Len(p)].pos < Len(h[p[Len(p)].ctn])
    PROVE  /\ Follows(h, q, r) /\ Before(h, q) = Before(h, p)
           /\ \A x : Inside(q, x) <=> Inside(p, x)
<1>1. /\ p \in Seq(Frame) /\ q \in Seq(Frame) /\ p # <<>> /\ q # <<>> /\ Len(q) = Len(p)
      /\ \A i \in 1 .. Len(p) - 1 : q[i] = p[i]
      /\ q[Len(p)].ctn = p[Len(p)].ctn /\ q[Len(p)].pos = p[Len(p)].pos + 1
  BY DEF Counted
<1> DEFINE l == Len(p)
<1>2. /\ l \in Nat \ {0} /\ l \in 1 .. l /\ 1 \in 1 .. l
      /\ \A i \in 1 .. l : i \in 1 .. l - 1 \/ i = l
      /\ \A i \in 1 .. l - 1 : i \in 1 .. l /\ i + 1 \in 1 .. l
  BY <1>1, LastFrame
<1>3. \A i \in 1 .. l : q[i].ctn = p[i].ctn
  BY <1>1, <1>2
<1>4. /\ \A i \in 1 .. l : h[p[i].ctn] # <<>> /\ p[i].pos <= Len(h[p[i].ctn])
      /\ \A i \in 1 .. l - 1 : p[i].pos >= 1 /\ h[p[i].ctn][p[i].pos] = p[i + 1].ctn
      /\ p[1].ctn = r
  BY DEF Follows
<1>5. p[l].ctn \in Containers /\ p[l].pos \in Nat /\ Len(h[p[l].ctn]) \in Nat
  <2>1. p[l].ctn \in Containers /\ p[l].pos \in Nat
    BY <1>1, LastFrame
  <2> QED
    BY <2>1, LenProperties
<1>6. q[l].pos <= Len(h[q[l].ctn])
  BY <1>1, <1>5
<1> HIDE DEF l
<1>7. \A i \in 1 .. l : h[q[i].ctn] # <<>> /\ q[i].pos <= Len(h[q[i].ctn])
  <2> SUFFICES ASSUME NEW i \in 1 .. l PROVE h[q[i].ctn] # <<>> /\ q[i].pos <= Len(h[q[i].ctn])
    OBVIOUS
  <2>1. CASE i = l
    BY <1>2, <1>3, <1>4, <1>6, <2>1
  <2>2. CASE i \in 1 .. l - 1
    <3>1. q[i] = p[i] /\ i \in 1 .. l
      BY <1>1, <1>2, <2>2 DEF l
    <3> QED
      BY <1>4, <3>1
  <2> QED
    BY <1>2, <2>1, <2>2
<1>8. \A i \in 1 .. l - 1 : q[i].pos >= 1 /\ h[q[i].ctn][q[i].pos] = q[i + 1].ctn
  <2> SUFFICES ASSUME NEW i \in 1 .. l - 1
               PROVE  q[i].pos >= 1 /\ h[q[i].ctn][q[i].pos] = q[i + 1].ctn
    OBVIOUS
  <2>1. q[i] = p[i] /\ q[i + 1].ctn = p[i + 1].ctn
    BY <1>1, <1>2, <1>3 DEF l
  <2> QED
    BY <1>4, <2>1
<1>9. q[1].ctn = r
  BY <1>2, <1>3, <1>4
<1>10. Follows(h, q, r)
  BY <1>1, <1>7, <1>8, <1>9 DEF Follows, l
<1>11. Before(h, q) = Before(h, p)
  BY <1>1, BeforeSame
<1> QED
  BY <1>1, <1>3, <1>10, <1>11 DEF Inside, l

LEMMA WalkedCounts ==
    ASSUME NEW h \in [Containers -> Seq(Values)], NEW p, NEW q, Counted(p, q), Len(p) <= MaxDepth,
           NEW n, NEW objs, NEW text, NEW r, Walked(h, p, n, objs, text, r),
           p[Len(p)].pos < Len(h[p[Len(p)].ctn]),
           NEW v, v = h[p[Len(p)].ctn][p[Len(p)].pos + 1], ~Deeper(h, v, MaxDepth - Len(p))
    PROVE  Walked(h, q, n, objs, text \o ValueText(h, Len(p), v), r)
<1> DEFINE l == Len(p)
           o == p[l].ctn
           k == p[l].pos
<1>1. /\ p \in Seq(Frame) /\ q \in Seq(Frame) /\ Len(q) = l
      /\ \A i \in 1 .. l - 1 : q[i] = p[i]
      /\ q[l].ctn = o /\ q[l].pos = k + 1
  BY DEF Counted
<1>2. /\ p # <<>> /\ Counts(h, p) /\ l \in Nat \ {0} /\ l \in 1 .. l
      /\ o \in Containers /\ k \in Nat /\ Len(h[o]) \in Nat
  BY <1>1, WalkedPath
<1>3. /\ Follows(h, q, r) /\ Before(h, q) = Before(h, p)
      /\ \A x : Inside(q, x) <=> Inside(p, x)
  BY CountedFollows DEF Walked
<1>4. /\ \A i \in 1 .. l - 1 : Shallow(h, i, p[i].ctn, p[i].pos - 1)
      /\ Shallow(h, l, o, k)
      /\ text = Before(h, p) \o Level(h, l, o, k)
  BY DEF Walked, Passed
<1>5. l \in 1 .. MaxDepth /\ k \in 0 .. Len(h[o]) /\ k < Len(h[o]) /\ l <= MaxDepth + 1
  BY <1>2, DepthAssumption
<1> DEFINE a == Before(h, p)
           b == Level(h, l, o, k)
           t == ValueText(h, l, v)
<1>6. a \in Seq(Text) /\ b \in Seq(Text)
  <2>1. a \in Seq(Text)
    BY <1>1, <1>2, <1>5, BeforeTyped
  <2>2. b \in Seq(Text)
    BY <1>2, <1>5, LevelTyped, SMTT(20)
  <2> QED
    BY <2>1, <2>2
<1>7. t \in Seq(Text) /\ Level(h, l, o, k + 1) = b \o t
  BY <1>2, <1>5, LevelGoesOn
<1>8. Shallow(h, l, o, k + 1)
  <2>1. \A j \in 1 .. k + 1 : j \in 1 .. k \/ j = k + 1
    BY <1>2
  <2> QED
    BY <1>4, <2>1 DEF Shallow
<1>9. \A i \in 1 .. l - 1 : Shallow(h, i, q[i].ctn, q[i].pos - 1)
  BY <1>1, <1>4
<1>10. text \o t = a \o (b \o t)
  <2>1. text = a \o b
    BY <1>4
  <2> HIDE DEF a, b, t
  <2> QED
    BY <1>6, <1>7, <2>1, TextsAssociate
<1> HIDE DEF t
<1>11. Passed(h, q, text \o t)
  BY <1>1, <1>3, <1>7, <1>8, <1>9, <1>10 DEF Passed
<1>12. (q[Len(q)].ctn \notin Dicts => n = Len(h[q[Len(q)].ctn])) /\ \A x \in objs : Inside(q, x)
  BY <1>1, <1>3 DEF Walked
<1> QED
  BY <1>3, <1>11, <1>12 DEF Walked, t

\* A walk enters the value it counts.
CountsLast(h, q, v, r) ==
    /\ h \in [Containers -> Seq(Values)] /\ q \in Seq(Frame) /\ q # <<>> /\ Follows(h, q, r)
    /\ v \in Containers /\ h[v] # <<>>
    /\ q[Len(q)].pos >= 1 /\ h[q[Len(q)].ctn][q[Len(q)].pos] = v

EntersTo(h, q, v, r, t) ==
    /\ Follows(h, t, r) /\ t \in Seq(Frame) /\ t # <<>> /\ Len(t) = Len(q) + 1
    /\ \A i \in 1 .. Len(q) : t[i] = q[i]
    /\ t[Len(t)].ctn = v /\ t[Len(t)].pos = 0
    /\ \A x : Inside(t, x) <=> Inside(q, x) \/ x = v

LEMMA EnteredFollows ==
    ASSUME NEW h, NEW q, NEW v, NEW r, CountsLast(h, q, v, r)
    PROVE  EntersTo(h, q, v, r, Entering(q, v))
<1> DEFINE t == Entering(q, v)
           l == Len(q)
<1> USE DEF CountsLast
<1>1. /\ t \in Seq(Frame) /\ t # <<>> /\ Len(t) = l + 1 /\ \A i \in 1 .. l : t[i] = q[i]
      /\ t[Len(t)] = [ctn |-> v, pos |-> 0] /\ \A x : Inside(t, x) <=> Inside(q, x) \/ x = v
  BY EnteredPath, EnteredInside DEF Entering
<1> HIDE DEF t
<1>2. t[Len(t)].ctn = v /\ t[Len(t)].pos = 0
  BY <1>1
<1>3. l \in Nat \ {0} /\ l \in 1 .. l
  BY LastFrame
<1>4. /\ \A k \in Nat : \A i \in 1 .. k + 1 : i \in 1 .. k \/ i = k + 1
      /\ \A k \in Nat \ {0} : k + 1 - 1 = k /\ 1 \in 1 .. k
      /\ \A k \in Nat \ {0} : \A i \in 1 .. k : (i + 1 \in 1 .. k /\ i \in 1 .. k - 1) \/ i = k
  OBVIOUS
<1>5. /\ q[1].ctn = r
      /\ \A i \in 1 .. l : h[q[i].ctn] # <<>> /\ q[i].pos <= Len(h[q[i].ctn])
      /\ \A i \in 1 .. l - 1 : q[i].pos >= 1 /\ h[q[i].ctn][q[i].pos] = q[i + 1].ctn
  BY DEF Follows
<1> HIDE DEF l
<1>6. t[1].ctn = r
  BY <1>1, <1>3, <1>4, <1>5
<1>7. ASSUME NEW i \in 1 .. l + 1 PROVE h[t[i].ctn] # <<>> /\ t[i].pos <= Len(h[t[i].ctn])
  <2>1. CASE i \in 1 .. l
    BY <1>1, <1>5, <2>1
  <2>2. CASE i = l + 1
    <3>1. h[v] \in Seq(Values) /\ Len(h[v]) \in Nat
      BY LenProperties
    <3> QED
      BY <1>1, <1>2, <2>2, <3>1
  <2> QED
    BY <1>3, <1>4, <2>1, <2>2
<1>8. ASSUME NEW i \in 1 .. l PROVE t[i].pos >= 1 /\ h[t[i].ctn][t[i].pos] = t[i + 1].ctn
  <2>1. CASE i = l
    BY <1>1, <1>2, <1>3, <2>1 DEF l
  <2>2. CASE i + 1 \in 1 .. l /\ i \in 1 .. l - 1
    <3>1. t[i] = q[i] /\ t[i + 1] = q[i + 1]
      BY <1>1, <2>2
    <3> QED
      BY <1>5, <2>2, <3>1
  <2> QED
    BY <1>3, <1>4, <2>1, <2>2
<1>9. Follows(h, t, r)
  <2>1. Len(t) - 1 = l
    <3>1. Len(t) = l + 1 /\ l \in Nat
      BY <1>1, <1>3
    <3> QED
      BY <3>1
  <2> QED
    BY <1>1, <1>6, <1>7, <1>8, <2>1 DEF Follows
<1> QED
  BY <1>1, <1>2, <1>9 DEF t, l, EntersTo

LEMMA WalkedEnters ==
    ASSUME NEW h \in [Containers -> Seq(Values)], NEW p, NEW q, Counted(p, q), Len(p) <= MaxDepth,
           NEW n, NEW objs, NEW text, NEW r, Walked(h, p, n, objs, text, r),
           p[Len(p)].pos < Len(h[p[Len(p)].ctn]),
           NEW v \in Containers, v = h[p[Len(p)].ctn][p[Len(p)].pos + 1], h[v] # <<>>,
           NEW m, v \notin Dicts => m = Len(h[v]), NEW more, more \subseteq objs \cup {v}
    PROVE  Walked(h, Entering(q, v), m, more, text \o <<Begins(v)>>, r)
<1> DEFINE l == Len(p)
           o == p[l].ctn
           k == p[l].pos
           t == Entering(q, v)
<1>1. /\ p \in Seq(Frame) /\ q \in Seq(Frame) /\ q # <<>> /\ Len(q) = l
      /\ \A i \in 1 .. l - 1 : q[i] = p[i]
      /\ q[l].ctn = o /\ q[l].pos = k + 1
  BY DEF Counted
<1>2. /\ p # <<>> /\ Counts(h, p) /\ l \in Nat \ {0} /\ l \in 1 .. l
      /\ o \in Containers /\ k \in Nat /\ Len(h[o]) \in Nat
  BY <1>1, WalkedPath
<1>3. /\ Follows(h, q, r) /\ Before(h, q) = Before(h, p)
      /\ \A x : Inside(q, x) <=> Inside(p, x)
  BY CountedFollows DEF Walked
<1>4. /\ \A i \in 1 .. l - 1 : Shallow(h, i, p[i].ctn, p[i].pos - 1)
      /\ Shallow(h, l, o, k)
      /\ text = Before(h, p) \o Level(h, l, o, k)
  BY DEF Walked, Passed
<1>5. /\ Follows(h, t, r) /\ t \in Seq(Frame) /\ t # <<>> /\ Len(t) = l + 1
      /\ \A i \in 1 .. l : t[i] = q[i]
      /\ t[Len(t)].ctn = v /\ t[Len(t)].pos = 0
      /\ \A x : Inside(t, x) <=> Inside(q, x) \/ x = v
  <2>1. q[Len(q)].pos >= 1 /\ h[q[Len(q)].ctn][q[Len(q)].pos] = v
    BY <1>1, <1>2, SMTT(20)
  <2>2. CountsLast(h, q, v, r) /\ l = Len(q)
    BY <1>1, <1>3, <2>1 DEF CountsLast
  <2> HIDE DEF l, t, k, o
  <2>3. EntersTo(h, q, v, r, t)
    BY <2>2, EnteredFollows, Zenon DEF t
  <2> QED
    BY <2>2, <2>3 DEF EntersTo
<1>6. Below(t) = q
  <2>1. [ctn |-> v, pos |-> 0] \in Frame
    BY DEF Frame
  <2> QED
    BY <1>1, <2>1, BelowAppend DEF Entering
<1> HIDE DEF t
<1>7. t[l].ctn = o /\ t[l].pos = k + 1 /\ t[l].pos - 1 = k /\ Len(t) - 1 = l
  BY <1>1, <1>2, <1>5
<1>8. Before(h, t) = text
  <2>1. Counts(h, t)
    <3>1. \A i \in 1 .. Len(t) - 1 : i \in 1 .. Len(t)
      BY <1>2, <1>5
    <3> QED
      BY <1>5, <3>1 DEF Follows, Counts
  <2>2. Len(t) >= 2 /\ Len(t) <= MaxDepth + 1
    BY <1>2, <1>5, DepthAssumption
  <2>3. Before(h, t) = Before(h, Below(t)) \o Level(h, Len(t) - 1, t[Len(t) - 1].ctn, t[Len(t) - 1].pos - 1)
    BY <1>5, <2>1, <2>2, BeforeStep
  <2>4. Before(h, t) = Before(h, q) \o Level(h, l, o, k)
    <3> HIDE DEF l, o, k
    <3> QED
      BY <1>6, <1>7, <2>3
  <2> QED
    BY <1>3, <1>4, <2>4
<1>9. Level(h, l + 1, v, 0) = <<Begins(v)>> /\ Shallow(h, l + 1, v, 0)
  BY LevelStarts DEF Shallow
<1>10. ASSUME NEW i \in 1 .. l PROVE Shallow(h, i, t[i].ctn, t[i].pos - 1)
  <2>1. CASE i = l
    <3>1. Shallow(h, l, t[l].ctn, t[l].pos - 1)
      BY <1>4, <1>7
    <3> QED
      BY <2>1, <3>1
  <2>2. CASE i \in 1 .. l - 1
    <3>1. t[i] = q[i] /\ q[i] = p[i]
      BY <1>1, <1>5, <2>2, Zenon
    <3>2. Shallow(h, i, p[i].ctn, p[i].pos - 1)
      BY <1>4, <2>2, Zenon
    <3> QED
      BY <3>1, <3>2, Zenon
  <2> QED
    BY <1>2, <2>1, <2>2
<1>11. Passed(h, t, text \o <<Begins(v)>>)
  BY <1>5, <1>7, <1>8, <1>9, <1>10 DEF Passed
<1>12. /\ t[Len(t)].ctn \notin Dicts => m = Len(h[t[Len(t)].ctn])
       /\ \A x \in more : Inside(t, x)
  BY <1>3, <1>5 DEF Walked
<1> QED
  BY <1>5, <1>11, <1>12 DEF Walked, t

\* A walk that is at the end of a container goes on in its parent, of which this was
\* the value counted last.
LEMMA WalkedCloses ==
    ASSUME NEW h \in [Containers -> Seq(Values)], NEW p \in Seq(Frame), Len(p) <= MaxDepth,
           NEW n, NEW objs, NEW text, NEW r, Walked(h, p, n, objs, text, r), Len(p) > 1,
           p[Len(p)].pos >= Len(h[p[Len(p)].ctn])
    PROVE  Walked(h, Below(p), Len(h[p[Len(p) - 1].ctn]), objs \ {p[Len(p)].ctn},
                  Closed(text, p[Len(p)].ctn), r)
<1> DEFINE l == Len(p)
           o == p[l].ctn
           m == l - 1
           f == p[m].ctn
           k == p[m].pos
           b == Below(p)
<1>1. /\ p # <<>> /\ Counts(h, p) /\ l \in Nat \ {0} /\ l \in 1 .. l
      /\ o \in Containers /\ p[l].pos \in Nat /\ h[o] # <<>> /\ h[o] \in Seq(Values)
      /\ Len(h[o]) \in Nat /\ p[l].pos <= Len(h[o])
  BY WalkedPath
<1>2. p[l].pos = Len(h[o])
  BY <1>1
<1>3. /\ m \in 1 .. MaxDepth /\ l \in 1 .. MaxDepth /\ m \in 1 .. l /\ m \in 1 .. l - 1
      /\ m \in Nat \ {0} /\ m + 1 = l /\ l >= 2 /\ l <= MaxDepth + 1
      /\ MaxDepth - m = MaxDepth - l + 1 /\ MaxDepth - l \in Nat
  BY <1>1, DepthAssumption
<1>4. /\ b \in Seq(Frame) /\ Len(b) = m /\ \A i \in 1 .. m : b[i] = p[i]
  BY <1>1, BelowSeq
<1>5. f \in Containers /\ k \in Nat /\ Len(h[f]) \in Nat
  <2>1. f \in Containers /\ k \in Nat
    BY <1>3, FrameOf
  <2> QED
    BY <2>1, LenProperties
<1>6. k >= 1 /\ k <= Len(h[f]) /\ h[f][k] = o
  BY <1>3 DEF Walked, Follows
<1>7. /\ \A i \in 1 .. l - 1 : Shallow(h, i, p[i].ctn, p[i].pos - 1)
      /\ Shallow(h, l, o, Len(h[o]))
      /\ text = Before(h, p) \o Level(h, l, o, Len(h[o]))
  BY <1>2 DEF Walked, Passed
<1> HIDE DEF b
<1>8. Follows(h, b, r)
  <2>1. \A i \in 1 .. m : i \in 1 .. l
    BY <1>3
  <2>2. \A i \in 1 .. m - 1 : i \in 1 .. l - 1 /\ i \in 1 .. m /\ i + 1 \in 1 .. m
    BY <1>3
  <2>3. b # <<>> /\ 1 \in 1 .. m
    BY <1>3, <1>4
  <2>4. /\ p[1].ctn = r
        /\ \A i \in 1 .. l : h[p[i].ctn] # <<>> /\ p[i].pos <= Len(h[p[i].ctn])
        /\ \A i \in 1 .. l - 1 : p[i].pos >= 1 /\ h[p[i].ctn][p[i].pos] = p[i + 1].ctn
    BY DEF Walked, Follows
  <2> HIDE DEF m, l
  <2> QED
    BY <1>4, <2>1, <2>2, <2>3, <2>4 DEF Follows
<1> DEFINE a == Before(h, b)
           x == Level(h, m, f, k - 1)
           y == Level(h, l, o, Len(h[o]))
           t == ValueText(h, m, o)
<1>9. /\ a \in Seq(Text) /\ x \in Seq(Text) /\ Before(h, p) \in Seq(Text)
      /\ Before(h, p) = a \o x
  <2>1. /\ Before(h, Below(p)) \in Seq(Text) /\ Before(h, p) \in Seq(Text)
        /\ Level(h, Len(p) - 1, p[Len(p) - 1].ctn, p[Len(p) - 1].pos - 1) \in Seq(Text)
        /\ Before(h, p) = Before(h, Below(p)) \o Level(h, Len(p) - 1, p[Len(p) - 1].ctn, p[Len(p) - 1].pos - 1)
    BY <1>1, <1>3, BeforeStep
  <2> QED
    BY <2>1, Zenon DEF b, m, f, k
<1>10. /\ y \in Seq(Text) /\ y # <<>> /\ Closed(y, o) = t
  <2>1. /\ y \in Seq(Text) /\ y # <<>>
        /\ Closed(y, o) = Append(Rendered(h)[MaxDepth - l + 1][o], ",")
    BY <1>1, <1>3, LevelEnds
  <2> QED
    BY <1>3, <2>1 DEF ValueText
<1>11. t \in Seq(Text) /\ Level(h, m, f, k) = x \o t
  <2> DEFINE j == k - 1
  <2>1. j \in Nat /\ j < Len(h[f]) /\ j + 1 = k
    BY <1>5, <1>6
  <2> HIDE DEF j
  <2>2. ValueText(h, m, h[f][j + 1]) \in Seq(Text)
        /\ Level(h, m, f, j + 1) = Level(h, m, f, j) \o ValueText(h, m, h[f][j + 1])
    BY <1>3, <1>5, <2>1, LevelGoesOn, ZenonT(30)
  <2> QED
    BY <1>6, <2>1, <2>2 DEF j
<1>12. Closed(text, o) = a \o Level(h, m, f, k)
  <2> DEFINE c == <<Ends(o), ",">>
             g == Before(h, p)
             z == Below(y)
  <2>1. Below(text) = g \o z /\ z \in Seq(Text)
    BY <1>7, <1>9, <1>10, BelowConcat, BelowSeq
  <2>2. c \in Seq(Text)
    BY Tokens
  <2>3. Closed(text, o) = Below(text) \o c /\ Closed(y, o) = z \o c
    BY Zenon DEF Closed
  <2> HIDE DEF c, z
  <2>4. Closed(text, o) = (g \o z) \o c /\ t = z \o c
    BY <1>10, <2>1, <2>3, Zenon
  <2>5. (g \o z) \o c = g \o (z \o c)
    <3> HIDE DEF g
    <3>1. g \in Seq(Text)
      BY <1>9 DEF g
    <3> QED
      BY <2>1, <2>2, <3>1, TextsAssociate, Zenon
  <2>6. (a \o x) \o t = a \o (x \o t)
    <3>1. a \in Seq(Text) /\ x \in Seq(Text) /\ t \in Seq(Text)
      BY <1>9, <1>11
    <3> HIDE DEF a, x, t
    <3> QED
      BY <3>1, TextsAssociate, Zenon
  <2>7. Closed(text, o) = g \o t /\ g = a \o x
    BY <1>9, <2>4, <2>5, Zenon
  <2> HIDE DEF a, x, t, g
  <2> QED
    BY <1>11, <2>6, <2>7, Zenon
<1>13. Shallow(h, m, f, k)
  <2>1. ~Deeper(h, o, MaxDepth - l + 1)
    <3>1. \A j \in 1 .. Len(h[o]) : ~Deeper(h, h[o][j], MaxDepth - l)
      BY <1>7 DEF Shallow
    <3> QED
      BY <1>1, <1>3, <3>1, ShallowOuter
  <2>2. Shallow(h, m, f, k - 1)
    BY <1>3, <1>7
  <2>3. \A j \in 1 .. k : j \in 1 .. k - 1 \/ j = k
    BY <1>5
  <2> QED
    BY <1>3, <1>6, <2>1, <2>2, <2>3 DEF Shallow
<1>14. Passed(h, b, Closed(text, o))
  <2>1. \A i \in 1 .. m - 1 : Shallow(h, i, b[i].ctn, b[i].pos - 1)
    <3>1. \A i \in 1 .. m - 1 : i \in 1 .. l - 1 /\ i \in 1 .. m
      BY <1>3
    <3> QED
      BY <1>4, <1>7, <3>1
  <2>2. b[m] = p[m]
    BY <1>3, <1>4
  <2> HIDE DEF a, m
  <2> QED
    BY <1>4, <1>12, <1>13, <2>1, <2>2 DEF Passed, a
<1>15. b[Len(b)] = p[m]
  BY <1>3, <1>4
<1>16. \A z \in objs \ {o} : Inside(b, z)
  <2> SUFFICES ASSUME NEW z \in objs, z # o PROVE Inside(b, z)
    OBVIOUS
  <2>1. PICK i \in 1 .. l : p[i].ctn = z
    BY DEF Walked, Inside
  <2>2. i \in 1 .. m
    BY <1>3, <2>1
  <2> QED
    BY <1>4, <2>1, <2>2 DEF Inside
<1> QED
  BY <1>8, <1>14, <1>15, <1>16 DEF Walked, b

\* At the end of the outermost container the text is that of the argument.
LEMMA WalkedEnds ==
    ASSUME NEW h \in [Containers -> Seq(Values)], NEW p \in Seq(Frame),
           NEW n, NEW objs, NEW text, NEW r, Walked(h, p, n, objs, text, r), Len(p) = 1,
           p[Len(p)].pos >= Len(h[p[Len(p)].ctn])
    PROVE  /\ r \in Containers /\ ~Deeper(h, r, MaxDepth)
           /\ Closed(text, p[Len(p)].ctn) = Append(Rendered(h)[MaxDepth][r], ",")
<1>1. /\ p # <<>> /\ p[1].ctn \in Containers /\ p[1].pos \in Nat /\ h[p[1].ctn] # <<>>
      /\ h[p[1].ctn] \in Seq(Values) /\ Len(h[p[1].ctn]) \in Nat /\ p[1].pos = Len(h[p[1].ctn])
      /\ p[1].ctn = r
  <2>1. /\ p # <<>> /\ p[1].ctn \in Containers /\ p[1].pos \in Nat /\ h[p[1].ctn] # <<>>
        /\ h[p[1].ctn] \in Seq(Values) /\ Len(h[p[1].ctn]) \in Nat /\ p[1].pos <= Len(h[p[1].ctn])
    BY WalkedPath
  <2>2. p[1].ctn = r /\ p[1].pos >= Len(h[p[1].ctn])
    BY DEF Walked, Follows
  <2> QED
    BY <2>1, <2>2
<1> DEFINE y == Level(h, 1, r, Len(h[r]))
<1>2. Shallow(h, 1, r, Len(h[r])) /\ text = Before(h, p) \o y
  BY <1>1 DEF Walked, Passed
<1>3. 1 \in 1 .. MaxDepth /\ MaxDepth - 1 \in Nat /\ MaxDepth - 1 + 1 = MaxDepth
  BY DepthAssumption
<1>4. y \in Seq(Text) /\ Closed(y, r) = Append(Rendered(h)[MaxDepth][r], ",")
  <2>1. /\ y \in Seq(Text) /\ Closed(y, r) = Append(Rendered(h)[MaxDepth - 1 + 1][r], ",")
    BY <1>1, <1>3, LevelEnds
  <2> QED
    BY <1>3, <2>1
<1>5. text = y
  <2>1. Before(h, p) = <<>>
    BY BeforeFirst
  <2> HIDE DEF y
  <2> QED
    BY <1>2, <1>4, <2>1, ConcatEmptySeq
<1>6. ~Deeper(h, r, MaxDepth)
  <2>1. \A j \in 1 .. Len(h[r]) : ~Deeper(h, h[r][j], MaxDepth - 1)
    BY <1>2 DEF Shallow
  <2>2. ~Deeper(h, r, MaxDepth - 1 + 1)
    BY <1>1, <1>3, <2>1, ShallowOuter
  <2> QED
    BY <1>3, <2>2
<1> HIDE DEF y
<1> QED
  BY <1>1, <1>4, <1>5, <1>6

\* Each container of a path is in the one before it.
LEMMA FollowsInner ==
    ASSUME NEW h \in [Containers -> Seq(Values)], NEW q \in Seq(Frame), NEW r, Follows(h, q, r),
           NEW i \in 1 .. Len(q) - 1
    PROVE  q[i + 1].ctn \in Inner(h, q[i].ctn)
<1>1. i \in 1 .. Len(q) /\ i + 1 \in 1 .. Len(q) /\ Len(q) \in Nat
  BY LenProperties
<1>2. q[i].ctn \in Containers /\ q[i].pos \in Nat /\ q[i + 1].ctn \in Containers
  BY <1>1, FrameOf
<1>3. /\ q[i].pos >= 1 /\ q[i].pos <= Len(h[q[i].ctn])
      /\ h[q[i].ctn][q[i].pos] = q[i + 1].ctn
  BY <1>1 DEF Follows
<1>4. h[q[i].ctn] \in Seq(Values) /\ Len(h[q[i].ctn]) \in Nat
  BY <1>2, LenProperties
<1>5. q[i].pos \in 1 .. Len(h[q[i].ctn])
  BY <1>2, <1>3, <1>4
<1> QED
  BY <1>2, <1>3, <1>4, <1>5, InnerIn

\* A path of one container more than the walk may enter shows that its argument is too deep.
LEMMA ChainDeeper ==
    ASSUME NEW h \in [Containers -> Seq(Values)], NEW q \in Seq(Frame), NEW r, Follows(h, q, r),
           Len(q) = MaxDepth + 1
    PROVE  Deeper(h, r, MaxDepth)
<1> DEFINE s == [i \in 1 .. MaxDepth + 1 |-> q[i].ctn]
<1>1. \A i \in 1 .. MaxDepth : i \in 1 .. MaxDepth + 1 /\ i + 1 \in 1 .. MaxDepth + 1
  BY DepthAssumption
<1>2. 1 \in 1 .. MaxDepth + 1 /\ Len(q) - 1 = MaxDepth
  BY DepthAssumption
<1>3. \A i \in 1 .. MaxDepth + 1 : q[i].ctn \in Containers
  BY FrameOf
<1>4. s \in [1 .. MaxDepth + 1 -> Containers] /\ \A i \in 1 .. MaxDepth + 1 : s[i] = q[i].ctn
  BY <1>3
<1>5. q[1].ctn = r /\ \A i \in 1 .. MaxDepth + 1 : h[q[i].ctn] # <<>>
  BY DEF Follows
<1>6. \A i \in 1 .. MaxDepth : q[i + 1].ctn \in Inner(h, q[i].ctn)
  BY <1>2, FollowsInner
<1> HIDE DEF s
<1>7. /\ s[1] = r /\ \A i \in 1 .. MaxDepth + 1 : h[s[i]] # <<>>
      /\ \A i \in 1 .. MaxDepth : s[i + 1] \in Inner(h, s[i])
  BY <1>1, <1>2, <1>4, <1>5, <1>6
<1> QED
  BY <1>4, <1>7, Zenon DEF Deeper

\* A path that comes back to one of its containers shows that its argument has no end.
LEMMA CircleFound ==
    ASSUME NEW h \in [Containers -> Seq(Values)], NEW q \in Seq(Frame), NEW r, Follows(h, q, r),
           NEW i \in 1 .. Len(q) - 1, q[i].ctn = q[Len(q)].ctn
    PROVE  r \in Circular(h)
<1> DEFINE S == {q[j].ctn : j \in 1 .. Len(q)}
<1>1. S \in SUBSET Containers
  BY FrameOf
<1>2. 1 \in 1 .. Len(q) /\ i + 1 \in 1 .. Len(q) /\ Len(q) \in Nat
  BY LenProperties
<1>3. r \in S
  BY <1>2 DEF Follows
<1>4. ASSUME NEW j \in 1 .. Len(q) PROVE Inner(h, q[j].ctn) \cap S # {}
  <2>1. CASE j = Len(q)
    <3>1. q[i + 1].ctn \in Inner(h, q[j].ctn)
      BY <2>1, FollowsInner
    <3> QED
      BY <1>2, <3>1
  <2>2. CASE j # Len(q)
    <3>1. j \in 1 .. Len(q) - 1 /\ j + 1 \in 1 .. Len(q)
      BY <1>2, <2>2
    <3>2. q[j + 1].ctn \in Inner(h, q[j].ctn)
      BY <3>1, FollowsInner
    <3> QED
      BY <3>1, <3>2
  <2> QED
    BY <2>1, <2>2
<1>5. \A o \in S : Inner(h, o) \cap S # {}
  BY <1>4
<1> HIDE DEF S
<1> QED
  BY <1>1, <1>3, <1>5, Zenon DEF Circular

-----------------------------------------------------------------------------
(* What each step comes to for the text and the errors. *)

LEMMA Triple == ASSUME NEW a, NEW b, NEW c PROVE Append(<<a, b>>, c) = <<a, b, c>>
<1> DEFINE T == {a, b, c}
           s == <<a, b>>
           t == Append(s, c)
           d == <<a, b, c>>
<1>1. s \in Seq(T) /\ d \in Seq(T) /\ c \in T
  OBVIOUS
<1>2. Len(s) = 2 /\ s[1] = a /\ s[2] = b /\ Len(d) = 3 /\ d[1] = a /\ d[2] = b /\ d[3] = c
  OBVIOUS
<1> HIDE DEF T, s, d
<1>3. /\ t \in Seq(T) /\ Len(t) = Len(s) + 1 /\ t[Len(s) + 1] = c
      /\ \A i \in 1 .. Len(s) : t[i] = s[i]
  BY <1>1, AppendProperties
<1> HIDE DEF t
<1>4. Len(t) = 3 /\ t[1] = a /\ t[2] = b /\ t[3] = c
  BY <1>2, <1>3
<1>5. \A i \in 1 .. Len(t) : t[i] = d[i]
  <2>1. 1 .. Len(t) = {1, 2, 3}
    BY <1>4
  <2> QED
    BY <1>2, <1>4, <2>1
<1>6. t = d
  BY <1>1, <1>2, <1>3, <1>4, <1>5, SeqEqual
<1> QED
  BY <1>6 DEF t, s, d

LEMMA Depths == MaxDepth \in Nat /\ MaxDepth \in 0 .. MaxDepth
  BY DepthAssumption

\* Encoder e, called with r, is about to meet o with p for its path: the walk will have
\* been there if it enters o or waits for it, and is there if o is empty.
ComesTo(e, p, o, r) ==
    /\ heap[o] # <<>> => \A objs \in SUBSET (held[e] \cup {o}) :
           Walked(heap, Entering(p, o), BeginsSize(e, o), objs, BeginsText(e, o), r)
    /\ heap[o] = <<>> =>
           IF p = <<>> THEN o = r /\ out[e] = <<>>
           ELSE Walked(heap, p, size[e], held[e], out[e] \o <<Begins(o), Ends(o), ",">>, r)
    /\ \A x \in held[e] : Inside(p, x)
    /\ err[e] = "circular" => r \in Circular(heap)
    /\ err[e] = "depth" => Deeper(heap, r, MaxDepth)

LEMMA TreeMet ==
    ASSUME TypesInv, NEW e \in Encoders, NEW o \in Containers, NEW p \in Seq(Frame),
           NEW r, ComesTo(e, p, o, r),
           NEW label, NEW q, NEW n, NEW want, NEW objs, NEW text, NEW why,
           Meets(e, p, o, label, q, n, want, objs, text, why)
    PROVE  TreeState(heap, label, q, n, want, objs, text, why, r)
<1>1. /\ heap \in [Containers -> Seq(Values)] /\ heap[o] \in Seq(Values)
      /\ Len(heap[o]) = 0 => heap[o] = <<>>
      /\ Len(heap[o]) > 0 => heap[o] # <<>>
  <2>1. /\ \A s \in Seq(Values) : Len(s) = 0 => s = <<>>
        /\ \A s \in Seq(Values) : Len(s) > 0 => s # <<>>
    BY EmptySeq
  <2>2. heap \in [Containers -> Seq(Values)] /\ heap[o] \in Seq(Values)
    BY Typed
  <2> QED
    BY <2>1, <2>2, Zenon
<1>2. CASE /\ Len(heap[o]) = 0 /\ label = (IF p = <<>> THEN "success" ELSE "val") /\ q = p
           /\ n = size[e] /\ objs = held[e] /\ why = err[e]
           /\ text = out[e] \o <<Begins(o), Ends(o), ",">>
  <2>1. CASE p = <<>>
    <3> DEFINE t == <<Begins(o), Ends(o)>>
               u == <<Begins(o), Ends(o), ",">>
    <3>1. o = r /\ out[e] = <<>> /\ heap[r] = <<>>
      BY <1>1, <1>2, <2>1 DEF ComesTo
    <3>2. Rendered(heap)[MaxDepth][r] = t
      <4>1. \A x \in Containers : heap[x] = <<>> => Rendered(heap)[MaxDepth][x] = <<Begins(x), Ends(x)>>
        BY <1>1, Depths, RenderedIs
      <4> QED
        BY <3>1, <4>1, Zenon
    <3>3. Append(t, ",") = u
      BY Triple
    <3>4. u \in Seq(Text)
      BY Tokens
    <3> HIDE DEF t, u
    <3>5. text = u
      BY <1>2, <3>1, <3>4, ConcatEmptySeq DEF u
    <3>6. ~Deeper(heap, r, MaxDepth)
      BY <3>1, EmptyNotDeep, Depths
    <3>7. text = Append(Rendered(heap)[MaxDepth][r], ",") /\ r \in Containers
      BY <3>1, <3>2, <3>3, <3>5
    <3>8. label = "success"
      BY <1>2, <2>1
    <3>9. /\ why = "circular" => r \in Circular(heap)
          /\ why = "depth" => Deeper(heap, r, MaxDepth)
      BY <1>2 DEF ComesTo
    <3> QED
      BY <3>6, <3>7, <3>8, <3>9, Zenon DEF TreeState
  <2>2. CASE p # <<>>
    BY <1>1, <1>2, <2>2 DEF TreeState, ComesTo
  <2> QED
    BY <2>1, <2>2
<1>3. CASE /\ Len(heap[o]) > 0 /\ label = "val" /\ q = Append(p, [ctn |-> o, pos |-> 0])
           /\ objs = held[e] /\ n = BeginsSize(e, o) /\ text = BeginsText(e, o) /\ why = err[e]
  <2>1. held[e] \in SUBSET (held[e] \cup {o})
    OBVIOUS
  <2>2. Walked(heap, Entering(p, o), n, objs, text, r)
    BY <1>1, <1>3, <2>1, Zenon DEF ComesTo
  <2>3. Walked(heap, q, n, objs, text, r)
    BY <1>3, <2>2, Zenon DEF Entering
  <2>4. /\ why = "circular" => r \in Circular(heap)
        /\ why = "depth" => Deeper(heap, r, MaxDepth)
    BY <1>3 DEF ComesTo
  <2>5. label = "val"
    BY <1>3
  <2>6. label # "idle" /\ label # "lock" /\ label \notin {"success", "ok"}
    BY <2>5
  <2> QED
    BY <2>3, <2>4, <2>6, Zenon DEF TreeState
<1>4. CASE Len(heap[o]) > 0 /\ label = "fail"
  <2> DEFINE t == Entering(p, o)
  <2>1. Follows(heap, t, r)
    <3>1. held[e] \in SUBSET (held[e] \cup {o})
      OBVIOUS
    <3> QED
      BY <1>1, <1>4, <3>1, Zenon DEF Walked, ComesTo
  <2>2. /\ t \in Seq(Frame) /\ t # <<>> /\ Len(t) = Len(p) + 1
        /\ \A i \in 1 .. Len(p) : t[i] = p[i]
        /\ t[Len(t)] = [ctn |-> o, pos |-> 0] /\ Len(p) \in Nat
    BY EnteredPath, LenProperties DEF Entering
  <2> HIDE DEF t
  <2>3. t[Len(t)].ctn = o
    BY <2>2
  <2>4. CASE Len(p) = MaxDepth /\ why = "depth"
    BY <1>1, <1>4, <2>1, <2>2, <2>4, ChainDeeper DEF TreeState
  <2>5. CASE o \in held[e] /\ why = "circular"
    <3>1. PICK i \in 1 .. Len(p) : p[i].ctn = o
      BY <2>5 DEF Inside, ComesTo
    <3>2. i \in 1 .. Len(t) - 1 /\ t[i].ctn = t[Len(t)].ctn
      <4>1. Len(t) - 1 = Len(p)
        BY <2>2
      <4> QED
        BY <2>2, <2>3, <3>1, <4>1
    <3>3. r \in Circular(heap)
      BY <1>1, <2>1, <2>2, <3>2, CircleFound
    <3> QED
      BY <1>4, <2>5, <3>3 DEF TreeState
  <2> QED
    BY <1>4, <2>4, <2>5 DEF Meets
<1>5. CASE /\ Len(heap[o]) > 0 /\ label = "lock" /\ q = p /\ want = o
           /\ objs \in {held[e], held[e] \cup {o}}
           /\ n = BeginsSize(e, o) /\ text = BeginsText(e, o) /\ why = err[e]
  <2>1. objs \in SUBSET (held[e] \cup {o})
    BY <1>5
  <2>2. Walked(heap, Entering(p, o), BeginsSize(e, o), objs, BeginsText(e, o), r)
    BY <1>1, <1>5, <2>1, Zenon DEF ComesTo
  <2> QED
    BY <1>5, <2>2 DEF TreeState, ComesTo
<1> QED
  BY <1>2, <1>3, <1>4, <1>5 DEF Meets

LEMMA TreeGivenUp ==
    ASSUME NEW e, NEW h, NEW r,
           NEW label, NEW q, NEW n, NEW want, NEW objs, NEW text, NEW why,
           GaveUp(e, label, q, n, want, objs, text, why)
    PROVE  label # "idle" /\ TreeState(h, label, q, n, want, objs, text, why, r)
  BY DEF GaveUp, TreeState

\* A step of e that leaves the containers alone.
LEMMA TreeMoved ==
    ASSUME TypesInv, TreeInv, NEW e \in Encoders, heap' = heap, changed' = changed,
           NEW r, root' = [root EXCEPT ![e] = r],
           NEW label, NEW q, NEW n, NEW want, NEW objs, NEW text, NEW why,
           Moves(e, label, q, n, want, objs, text, why), label # "idle",
           changed[e] \/ TreeState(heap, label, q, n, want, objs, text, why, r)
    PROVE  TreeInv'
<1>1. /\ pc'[e] = label /\ path'[e] = q /\ size'[e] = n /\ pend'[e] = want /\ held'[e] = objs
      /\ out'[e] = text /\ err'[e] = why /\ root'[e] = r
  BY DEF TypesInv, TypeOK, Moves
<1>2. ASSUME NEW f \in Encoders \ {e}
      PROVE  /\ pc'[f] = pc[f] /\ path'[f] = path[f] /\ size'[f] = size[f] /\ pend'[f] = pend[f]
             /\ held'[f] = held[f] /\ out'[f] = out[f] /\ err'[f] = err[f] /\ root'[f] = root[f]
  BY DEF TypesInv, TypeOK, Moves
<1>3. ASSUME ~changed'[e] PROVE TreeOf(e)'
  BY <1>1, <1>3 DEF TreeOf
<1>4. ASSUME NEW f \in Encoders \ {e}, pc'[f] = "idle" \/ ~changed'[f] PROVE TreeOf(f)'
  <2>1. TreeOf(f)
    BY <1>2, <1>4 DEF TreeInv
  <2> QED
    BY <1>2, <2>1 DEF TreeOf
<1> QED
  BY <1>1, <1>3, <1>4 DEF TreeInv

LEMMA StartTree ==
    ASSUME TypesInv, TreeInv, NEW e \in Encoders, Start(e) PROVE TreeInv'
<1>1. PICK o \in Containers :
         /\ root' = [root EXCEPT ![e] = o]
         /\ \E label, q, n, want, objs, text, why :
               /\ Moves(e, label, q, n, want, objs, text, why)
               /\ \/ Meets(e, <<>>, o, label, q, n, want, objs, text, why)
                  \/ GaveUp(e, label, q, n, want, objs, text, why)
  BY StartMoves
<1>2. PICK label, q, n, want, objs, text, why :
               /\ Moves(e, label, q, n, want, objs, text, why)
               /\ \/ Meets(e, <<>>, o, label, q, n, want, objs, text, why)
                  \/ GaveUp(e, label, q, n, want, objs, text, why)
  BY <1>1
<1>3. heap' = heap /\ changed' = changed /\ pc[e] = "idle"
  BY StartMoves
<1>4. held[e] = {} /\ out[e] = <<>> /\ err[e] = "none"
  BY <1>3 DEF TreeInv, TreeOf, TreeState
<1> DEFINE p == <<>>
<1>5. p \in Seq(Frame)
  OBVIOUS
<1>6. ComesTo(e, p, o, o)
  <2>1. ASSUME heap[o] # <<>>, NEW objs_1 \in SUBSET (held[e] \cup {o})
        PROVE  Walked(heap, Entering(p, o), BeginsSize(e, o), objs_1, BeginsText(e, o), o)
    <3>1. objs_1 \subseteq {o} /\ (o \notin Dicts => BeginsSize(e, o) = Len(heap[o]))
      BY <1>4, <2>1 DEF BeginsSize
    <3>2. heap \in [Containers -> Seq(Values)]
      BY Typed
    <3>3. Walked(heap, Entering(p, o), BeginsSize(e, o), objs_1, <<Begins(o)>>, o)
      BY <2>1, <3>1, <3>2, WalkedStarts
    <3>4. BeginsText(e, o) = <<Begins(o)>>
      <4>1. <<Begins(o)>> \in Seq(Text)
        BY Tokens
      <4> QED
        BY <1>4, <4>1, ConcatEmptySeq DEF BeginsText
    <3> QED
      BY <3>3, <3>4
  <2>2. \A x \in held[e] : Inside(p, x)
    BY <1>4
  <2> QED
    BY <1>4, <2>1, <2>2 DEF ComesTo
<1> HIDE DEF p
<1>7. label # "idle" /\ TreeState(heap, label, q, n, want, objs, text, why, o)
  <2>1. CASE Meets(e, p, o, label, q, n, want, objs, text, why)
    <3>1. TreeState(heap, label, q, n, want, objs, text, why, o)
      BY <1>5, <1>6, <2>1, TreeMet
    <3>2. label # "idle"
      BY <2>1 DEF Meets
    <3> QED
      BY <3>1, <3>2
  <2>2. CASE GaveUp(e, label, q, n, want, objs, text, why)
    BY <2>2, TreeGivenUp
  <2> QED
    BY <1>2, <2>1, <2>2 DEF p
<1> QED
  BY <1>1, <1>2, <1>3, <1>7, TreeMoved

LEMMA AcquireTree ==
    ASSUME TypesInv, TreeInv, NEW e \in Encoders, Acquire(e) PROVE TreeInv'
<1>1. PICK label, q, why :
         /\ Moves(e, label, q, size[e], None, held[e], out[e], why)
         /\ \/ label = "fail" /\ q = path[e] /\ Len(path[e]) = MaxDepth /\ why = "depth"
            \/ /\ label = "val" /\ why = err[e]
               /\ q = Append(path[e], [ctn |-> pend[e], pos |-> 0])
  BY AcquireMoves
<1>2. heap' = heap /\ changed' = changed /\ root' = root /\ pc[e] = "lock"
  BY AcquireMoves
<1>3. root' = [root EXCEPT ![e] = root[e]]
  BY <1>2, Typed
<1>4. ASSUME ~changed[e] PROVE TreeState(heap, label, q, size[e], None, held[e], out[e], why, root[e])
  <2>1. TreeState(heap, "lock", path[e], size[e], pend[e], held[e], out[e], err[e], root[e])
    BY <1>2, <1>4 DEF TreeInv, TreeOf
  <2>2. /\ Walked(heap, Entering(path[e], pend[e]), size[e], held[e], out[e], root[e])
        /\ err[e] = "circular" => root[e] \in Circular(heap)
        /\ err[e] = "depth" => Deeper(heap, root[e], MaxDepth)
    BY <2>1 DEF TreeState
  <2>3. CASE label = "fail" /\ q = path[e] /\ Len(path[e]) = MaxDepth /\ why = "depth"
    <3> DEFINE t == Entering(path[e], pend[e])
    <3>1. pend[e] \in Containers /\ path[e] \in Seq(Frame) /\ heap \in [Containers -> Seq(Values)]
      BY <1>2, Typed DEF Containers
    <3>2. t \in Seq(Frame) /\ Len(t) = MaxDepth + 1
      BY <2>3, <3>1, EnteredPath DEF Entering
    <3>3. Follows(heap, t, root[e])
      BY <2>2 DEF Walked
    <3> HIDE DEF t
    <3>4. Deeper(heap, root[e], MaxDepth)
      BY <3>1, <3>2, <3>3, ChainDeeper
    <3> QED
      BY <2>3, <3>4 DEF TreeState
  <2>4. CASE label = "val" /\ why = err[e] /\ q = Append(path[e], [ctn |-> pend[e], pos |-> 0])
    <3>1. Walked(heap, q, size[e], held[e], out[e], root[e])
      BY <2>2, <2>4, Zenon DEF Entering
    <3>2. label # "idle" /\ label # "lock" /\ label \notin {"success", "ok"}
      BY <2>4
    <3>3. /\ why = "circular" => root[e] \in Circular(heap)
          /\ why = "depth" => Deeper(heap, root[e], MaxDepth)
      BY <2>2, <2>4
    <3> QED
      BY <3>1, <3>2, <3>3, Zenon DEF TreeState
  <2> QED
    BY <1>1, <2>3, <2>4
<1>5. label # "idle"
  BY <1>1
<1> QED
  BY <1>1, <1>2, <1>3, <1>4, <1>5, TreeMoved

LEMMA ValueTexts ==
    ASSUME NEW h \in [Containers -> Seq(Values)], NEW i \in 1 .. MaxDepth
    PROVE  /\ ValueText(h, i, Leaf) = <<"v", ",">>
           /\ \A o \in Containers : h[o] = <<>> => ValueText(h, i, o) = <<Begins(o), Ends(o), ",">>
<1> DEFINE m == MaxDepth - i
<1>1. m \in 0 .. MaxDepth
  BY DepthAssumption
<1> HIDE DEF m
<1>2. /\ Rendered(h)[m][Leaf] = <<"v">>
      /\ \A o \in Containers : h[o] = <<>> => Rendered(h)[m][o] = <<Begins(o), Ends(o)>>
  BY <1>1, RenderedIs
<1>3. Append(<<"v">>, ",") = <<"v", ",">>
  <2> DEFINE s == <<"v">>
  <2>1. s \in Seq(Text) /\ "," \in Text
    BY DEF Text
  <2> HIDE DEF s
  <2>2. Append(s, ",") = s \o <<",">>
    BY <2>1, AppendIsConcat
  <2> QED
    BY <2>2, Pair DEF s
<1>4. \A o : Append(<<Begins(o), Ends(o)>>, ",") = <<Begins(o), Ends(o), ",">>
  BY Triple
<1> QED
  BY <1>2, <1>3, <1>4, Zenon DEF ValueText, m

\* What is known of an encoder between values, and of the value it looks at next.
LEMMA ValueAhead ==
    ASSUME TypesInv, TreeInv, NEW e \in Encoders, pc[e] = "val", ~changed[e]
    PROVE  /\ Walked(heap, path[e], size[e], held[e], out[e], root[e])
           /\ err[e] = "circular" => root[e] \in Circular(heap)
           /\ err[e] = "depth" => Deeper(heap, root[e], MaxDepth)
           /\ path[e] \in Seq(Frame) /\ path[e] # <<>> /\ Len(path[e]) \in 1 .. MaxDepth
           /\ Len(path[e]) <= MaxDepth /\ heap \in [Containers -> Seq(Values)]
           /\ AtEnd(e) <=> path[e][Len(path[e])].pos >= Len(heap[path[e][Len(path[e])].ctn])
           /\ ~AtEnd(e) => path[e][Len(path[e])].pos < Len(heap[path[e][Len(path[e])].ctn])
<1>1. TreeState(heap, "val", path[e], size[e], pend[e], held[e], out[e], err[e], root[e])
  BY DEF TreeInv, TreeOf
<1>2. /\ Walked(heap, path[e], size[e], held[e], out[e], root[e])
      /\ err[e] = "circular" => root[e] \in Circular(heap)
      /\ err[e] = "depth" => Deeper(heap, root[e], MaxDepth)
  BY <1>1 DEF TreeState
<1>3. /\ path[e] \in Seq(Frame) /\ path[e] # <<>> /\ Len(path[e]) <= MaxDepth
      /\ heap \in [Containers -> Seq(Values)]
  BY Typed
<1>4. Len(path[e]) \in Nat \ {0}
  BY <1>3, LastFrame
<1>5. /\ Cur(e).ctn \in Containers /\ Cur(e).pos \in Nat /\ Len(heap[Cur(e).ctn]) \in Nat
  BY <1>2, <1>3, WalkedPath DEF Cur
<1>6. Cur(e).ctn \notin Dicts => size[e] = Len(heap[Cur(e).ctn])
  BY <1>2 DEF Walked, Cur
<1>7. AtEnd(e) <=> Cur(e).pos >= Len(heap[Cur(e).ctn])
  BY <1>6 DEF AtEnd
<1>8. ~AtEnd(e) => Cur(e).pos < Len(heap[Cur(e).ctn])
  BY <1>5, <1>7
<1>9. Len(path[e]) \in 1 .. MaxDepth
  BY <1>3, <1>4, DepthAssumption
<1> QED
  BY <1>2, <1>3, <1>7, <1>8, <1>9 DEF Cur

LEMMA ValueTree ==
    ASSUME TypesInv, TreeInv, NEW e \in Encoders, Value(e) PROVE TreeInv'
<1>1. PICK label, q, n, want, objs, text, why :
                 /\ Moves(e, label, q, n, want, objs, text, why)
                 /\ Looks(e, label, q, n, want, objs, text, why)
  BY ValueMoves
<1>2. heap' = heap /\ changed' = changed /\ root' = root /\ pc[e] = "val" /\ ~AtEnd(e)
  BY ValueMoves
<1>3. root' = [root EXCEPT ![e] = root[e]]
  BY <1>2, Typed
<1>4. label # "idle"
  BY <1>1 DEF Looks, Meets, GaveUp
<1>5. ASSUME ~changed[e] PROVE TreeState(heap, label, q, n, want, objs, text, why, root[e])
  <2> DEFINE p == path[e]
             a == Advanced(e)
             l == Len(p)
             v == Item(e)
             r == root[e]
  <2>1. /\ Walked(heap, p, size[e], held[e], out[e], r)
        /\ err[e] = "circular" => r \in Circular(heap)
        /\ err[e] = "depth" => Deeper(heap, r, MaxDepth)
        /\ p \in Seq(Frame) /\ p # <<>> /\ l \in 1 .. MaxDepth /\ l <= MaxDepth
        /\ heap \in [Containers -> Seq(Values)]
        /\ p[l].pos < Len(heap[p[l].ctn])
    BY <1>2, <1>5, ValueAhead
  <2>2. Counted(p, a)
    BY <2>1, AdvancedCounts
  <2>3. a \in Seq(Frame) /\ a # <<>> /\ p = path[e]
    BY <2>2 DEF Counted
  <2>4. v = heap[p[l].ctn][p[l].pos + 1]
    BY DEF Item, Cur
  <2>5. \A x \in held[e] : Inside(a, x)
    <3>1. \A x \in held[e] : Inside(p, x)
      BY <2>1 DEF Walked
    <3> QED
      BY <2>1, <3>1, AdvancedInside
  <2>6. MaxDepth - l \in Nat
    BY <2>1, DepthAssumption
  <2> HIDE DEF p, a, v, r
  <2>7. heap[v] = <<>> \/ v \notin Containers
          => Walked(heap, a, size[e], held[e], out[e] \o ValueText(heap, l, v), r)
    <3> SUFFICES ASSUME heap[v] = <<>> \/ v \notin Containers
                 PROVE  Walked(heap, a, size[e], held[e], out[e] \o ValueText(heap, l, v), r)
      OBVIOUS
    <3>1. ~Deeper(heap, v, MaxDepth - l)
      BY <2>6, EmptyNotDeep
    <3> QED
      BY <2>1, <2>2, <2>4, <3>1, WalkedCounts
  <2>8. CASE label = "wild" /\ why = err[e]
    <3>1. /\ why = "circular" => r \in Circular(heap)
          /\ why = "depth" => Deeper(heap, r, MaxDepth)
      BY <2>1, <2>8
    <3>2. label # "idle" /\ label # "val" /\ label # "lock" /\ label \notin {"success", "ok"}
      BY <2>8
    <3> QED
      BY <3>1, <3>2, Zenon DEF TreeState, r
  <2>9. CASE /\ label = "val" /\ v = Leaf /\ q = a /\ n = size[e] /\ objs = held[e]
             /\ text = out[e] \o <<"v", ",">> /\ why = err[e]
    <3>1. v \notin Containers /\ ValueText(heap, l, v) = <<"v", ",">>
      BY <2>1, <2>9, ObjectsAssumption, ValueTexts
    <3>2. Walked(heap, q, n, objs, text, r)
      BY <2>7, <2>9, <3>1
    <3>3. label # "idle" /\ label # "lock" /\ label \notin {"success", "ok"}
      BY <2>9
    <3>4. /\ why = "circular" => r \in Circular(heap)
          /\ why = "depth" => Deeper(heap, r, MaxDepth)
      BY <2>1, <2>9
    <3> QED
      BY <3>2, <3>3, <3>4, Zenon DEF TreeState, r
  <2>10. CASE v \in Containers /\ Meets(e, a, v, label, q, n, want, objs, text, why)
    <3>1. ASSUME heap[v] # <<>>, NEW more \in SUBSET (held[e] \cup {v})
          PROVE  Walked(heap, Entering(a, v), BeginsSize(e, v), more, BeginsText(e, v), r)
      <4> DEFINE m == BeginsSize(e, v)
                 t == BeginsText(e, v)
      <4>1. v \notin Dicts => m = Len(heap[v])
        BY DEF BeginsSize
      <4>2. t = out[e] \o <<Begins(v)>> /\ more \subseteq held[e] \cup {v}
        BY <3>1, Zenon DEF BeginsText
      <4> HIDE DEF m, t
      <4>3. Walked(heap, Entering(a, v), m, more, out[e] \o <<Begins(v)>>, r)
        BY <2>1, <2>2, <2>4, <2>10, <3>1, <4>1, <4>2, WalkedEnters
      <4> QED
        BY <4>2, <4>3 DEF m, t
    <3>2. ASSUME heap[v] = <<>>
          PROVE  Walked(heap, a, size[e], held[e], out[e] \o <<Begins(v), Ends(v), ",">>, r)
      <4>1. ValueText(heap, l, v) = <<Begins(v), Ends(v), ",">>
        BY <2>1, <2>10, <3>2, ValueTexts
      <4> QED
        BY <2>7, <3>2, <4>1
    <3>3. ComesTo(e, a, v, r)
      BY <2>1, <2>3, <2>5, <3>1, <3>2, Zenon DEF ComesTo
    <3>4. TreeState(heap, label, q, n, want, objs, text, why, r)
      BY <2>3, <2>10, <3>3, TreeMet
    <3> QED
      BY <3>4 DEF r
  <2>11. CASE GaveUp(e, label, q, n, want, objs, text, why)
    BY <2>11, TreeGivenUp
  <2>12. \/ label = "wild" /\ why = err[e]
         \/ /\ label = "val" /\ v = Leaf /\ q = a /\ n = size[e] /\ objs = held[e]
            /\ text = out[e] \o <<"v", ",">> /\ why = err[e]
         \/ v \in Containers /\ Meets(e, a, v, label, q, n, want, objs, text, why)
         \/ GaveUp(e, label, q, n, want, objs, text, why)
    BY <1>1, Zenon DEF Looks, a, v
  <2> QED
    BY <2>8, <2>9, <2>10, <2>11, <2>12 DEF r
<1> QED
  BY <1>1, <1>2, <1>3, <1>4, <1>5, TreeMoved

LEMMA CloseTree ==
    ASSUME TypesInv, TreeInv, NEW e \in Encoders, Close(e) PROVE TreeInv'
<1>1. PICK label, q, n, want, objs, text, why :
                 /\ Moves(e, label, q, n, want, objs, text, why)
                 /\ CloseTo(e, label, q, n, want, objs, text, why)
  BY CloseMoves
<1>2. heap' = heap /\ changed' = changed /\ root' = root /\ pc[e] = "val" /\ AtEnd(e)
  BY CloseMoves
<1>3. root' = [root EXCEPT ![e] = root[e]]
  BY <1>2, Typed
<1>4. label # "idle"
  BY <1>1 DEF CloseTo, GaveUp
<1>5. ASSUME ~changed[e] PROVE TreeState(heap, label, q, n, want, objs, text, why, root[e])
  <2> DEFINE p == path[e]
             l == Len(p)
             o == p[l].ctn
             r == root[e]
  <2>1. /\ Walked(heap, p, size[e], held[e], out[e], r)
        /\ err[e] = "circular" => r \in Circular(heap)
        /\ err[e] = "depth" => Deeper(heap, r, MaxDepth)
        /\ p \in Seq(Frame) /\ p # <<>> /\ l <= MaxDepth
        /\ heap \in [Containers -> Seq(Values)]
        /\ p[l].pos >= Len(heap[p[l].ctn])
    BY <1>2, <1>5, ValueAhead
  <2>2. o = Cur(e).ctn
    BY DEF Cur
  <2>3. why = err[e] => /\ why = "circular" => r \in Circular(heap)
                        /\ why = "depth" => Deeper(heap, r, MaxDepth)
    BY <2>1
  <2>4. CASE label = "success" /\ l = 1 /\ why = err[e] /\ text = Closed(out[e], o)
    <3>1. /\ r \in Containers /\ ~Deeper(heap, r, MaxDepth)
          /\ Closed(out[e], o) = Append(Rendered(heap)[MaxDepth][r], ",")
      <4> HIDE DEF p, r
      <4> QED
        BY <2>1, <2>4, WalkedEnds
    <3>2. label # "idle" /\ label # "lock" /\ label # "val" /\ label # "ok"
      BY <2>4
    <3> QED
      BY <2>3, <2>4, <3>1, <3>2, Zenon DEF TreeState
  <2>5. CASE /\ label = "val" /\ q = Below(p) /\ l > 1 /\ n = Len(heap[p[l - 1].ctn])
             /\ objs = held[e] \ {o} /\ why = err[e] /\ text = Closed(out[e], o)
    <3>1. Walked(heap, Below(p), Len(heap[p[l - 1].ctn]), held[e] \ {o}, Closed(out[e], o), r)
      <4> HIDE DEF p, r
      <4> QED
        BY <2>1, <2>5, WalkedCloses
    <3>2. Walked(heap, q, n, objs, text, r)
      BY <2>5, <3>1, Zenon
    <3>3. label # "idle" /\ label # "lock" /\ label \notin {"success", "ok"}
      BY <2>5
    <3> QED
      BY <2>3, <2>5, <3>2, <3>3, Zenon DEF TreeState
  <2>6. CASE GaveUp(e, label, q, n, want, objs, text, why)
    BY <2>6, TreeGivenUp
  <2> QED
    BY <1>1, <2>2, <2>4, <2>5, <2>6, Zenon DEF CloseTo, Dropped
<1> QED
  BY <1>1, <1>2, <1>3, <1>4, <1>5, TreeMoved

LEMMA FinishTree ==
    ASSUME TypesInv, TreeInv, NEW e \in Encoders, Finish(e) PROVE TreeInv'
<1>1. PICK label, q, n, want, objs, text, why :
                 /\ Moves(e, label, q, n, want, objs, text, why)
                 /\ \/ label = "ok" /\ why = err[e] /\ text = Below(out[e])
                    \/ GaveUp(e, label, q, n, want, objs, text, why)
  BY FinishMoves
<1>2. heap' = heap /\ changed' = changed /\ root' = root /\ pc[e] = "success"
  BY FinishMoves
<1>3. root' = [root EXCEPT ![e] = root[e]]
  BY <1>2, Typed
<1>4. label # "idle"
  BY <1>1 DEF GaveUp
<1>5. ASSUME ~changed[e] PROVE TreeState(heap, label, q, n, want, objs, text, why, root[e])
  <2> DEFINE r == root[e]
             t == Rendered(heap)[MaxDepth][r]
  <2>1. TreeState(heap, "success", path[e], size[e], pend[e], held[e], out[e], err[e], r)
    BY <1>2, <1>5 DEF TreeInv, TreeOf
  <2>2. /\ r \in Containers /\ ~Deeper(heap, r, MaxDepth) /\ out[e] = Append(t, ",")
        /\ err[e] = "circular" => r \in Circular(heap)
        /\ err[e] = "depth" => Deeper(heap, r, MaxDepth)
    BY <2>1 DEF TreeState
  <2>3. t \in Seq(Text) /\ "," \in Text
    <3>1. heap \in [Containers -> Seq(Values)] /\ r \in Values
      BY <2>2, Typed DEF Values
    <3>2. Rendered(heap)[MaxDepth] \in Texts
      BY <3>1, Depths, RenderedIs
    <3> QED
      BY <3>1, <3>2 DEF Texts, Text
  <2> HIDE DEF r, t
  <2>4. CASE label = "ok" /\ why = err[e] /\ text = Below(out[e])
    <3>1. Below(Append(t, ",")) = t
      BY <2>3, BelowAppend, Zenon
    <3>2. text = t
      BY <2>2, <2>4, <3>1
    <3> QED
      BY <2>2, <2>4, <3>2 DEF TreeState, t, r
  <2>5. CASE GaveUp(e, label, q, n, want, objs, text, why)
    BY <2>5, TreeGivenUp
  <2> QED
    BY <1>1, <2>4, <2>5
<1> QED
  BY <1>1, <1>2, <1>3, <1>4, <1>5, TreeMoved

LEMMA UnwindTree ==
    ASSUME TypesInv, TreeInv, NEW e \in Encoders, Unwind(e) PROVE TreeInv'
<1> DEFINE label == "error"
           objs == {}
<1>1. /\ heap' = heap /\ changed' = changed /\ root' = root /\ pc[e] = "fail"
      /\ Moves(e, label, path[e], size[e], pend[e], objs, out[e], err[e])
  BY UnwindMoves
<1>2. root' = [root EXCEPT ![e] = root[e]]
  BY <1>1, Typed
<1>3. ASSUME ~changed[e]
      PROVE  TreeState(heap, label, path[e], size[e], pend[e], objs, out[e], err[e], root[e])
  <2>1. TreeState(heap, "fail", path[e], size[e], pend[e], held[e], out[e], err[e], root[e])
    BY <1>1, <1>3 DEF TreeInv, TreeOf
  <2> QED
    BY <2>1 DEF TreeState
<1>4. label # "idle"
  OBVIOUS
<1> HIDE DEF label, objs
<1> QED
  BY <1>1, <1>2, <1>3, <1>4, TreeMoved

\* Whatever other threads change, only calls that have begun are told.
LEMMA MutateTree == ASSUME TypesInv, TreeInv, Mutate PROVE TreeInv'
<1>1. UNCHANGED <<pc, path, size, pend, held, out, err, root>> /\ changed' = [e \in Encoders |-> pc[e] # "idle"]
  BY DEF Mutate
<1> SUFFICES ASSUME NEW e \in Encoders, pc'[e] = "idle" \/ ~changed'[e] PROVE TreeOf(e)'
  BY DEF TreeInv
<1>2. pc[e] = "idle"
  BY <1>1
<1>3. TreeState(heap, "idle", path[e], size[e], pend[e], held[e], out[e], err[e], root[e])
  BY <1>2 DEF TreeInv, TreeOf
<1>4. TreeState(heap', "idle", path[e], size[e], pend[e], held[e], out[e], err[e], root[e])
  BY <1>3 DEF TreeState
<1> QED
  BY <1>1, <1>2, <1>4 DEF TreeOf

LEMMA NextTree == ASSUME TypesInv, TreeInv, [Next]_vars PROVE TreeInv'
<1>1. ASSUME NEW e \in Encoders, Step(e) PROVE TreeInv'
  BY <1>1, StartTree, AcquireTree, ValueTree, CloseTree, FinishTree, UnwindTree DEF Step
<1>2. CASE UNCHANGED vars
  BY <1>2 DEF vars, TreeInv, TreeOf
<1> QED
  BY <1>1, <1>2, MutateTree DEF Next, Finished

LEMMA InitTree == Init => TreeInv
<1> SUFFICES ASSUME Init, NEW e \in Encoders PROVE TreeOf(e)
  BY DEF TreeInv
<1>1. pc[e] = "idle" /\ held[e] = {} /\ out[e] = <<>> /\ err[e] = "none"
  BY DEF Init
<1> QED
  BY <1>1 DEF TreeOf, TreeState

LEMMA TreeImplies == ASSUME TypesInv, TreeInv PROVE OutputIsTheTree /\ ErrorsExact
<1> SUFFICES ASSUME NEW e \in Encoders, ~changed[e]
             PROVE  /\ pc[e] = "ok" => out[e] = Rendered(heap)[MaxDepth][root[e]]
                    /\ err[e] = "circular" => root[e] \in Circular(heap)
                    /\ err[e] = "depth" => Deeper(heap, root[e], MaxDepth)
                    /\ pc[e] = "ok" => /\ root[e] \notin Circular(heap)
                                       /\ ~Deeper(heap, root[e], MaxDepth)
  BY DEF OutputIsTheTree, ErrorsExact
<1>1. TreeState(heap, pc[e], path[e], size[e], pend[e], held[e], out[e], err[e], root[e])
  BY DEF TreeInv, TreeOf
<1>2. /\ err[e] = "circular" => root[e] \in Circular(heap)
      /\ err[e] = "depth" => Deeper(heap, root[e], MaxDepth)
      /\ pc[e] = "ok" => /\ ~Deeper(heap, root[e], MaxDepth)
                         /\ out[e] = Rendered(heap)[MaxDepth][root[e]]
  BY <1>1 DEF TreeState
<1>3. heap \in [Containers -> Seq(Values)]
  BY Typed
<1>4. root[e] \in Circular(heap) => Deeper(heap, root[e], MaxDepth)
  BY <1>3, Depths, CircularDeep
<1> QED
  BY <1>2, <1>4

\* The text of a call that succeeds is the text of its argument, of whatever depth and
\* shape, if nobody changed what the walk reads: commas, brackets and what is left of
\* each container when it is returned to.
THEOREM TextOfTheTree == Spec => []OutputIsTheTree
<1>1. Init => TypesInv /\ TreeInv
  BY InitTypes, InitTree
<1>2. TypesInv /\ TreeInv /\ [Next]_vars => TypesInv' /\ TreeInv'
  BY NextTypes, NextTree
<1>3. TypesInv /\ TreeInv => OutputIsTheTree
  BY TreeImplies
<1> QED
  BY <1>1, <1>2, <1>3, PTL DEF Spec

\* A call reports a circle only if one is reached from its argument, and too many
\* nested structures only if the argument is nested deeper than MaxDepth; if it
\* succeeds there was neither.
THEOREM ErrorsOfTheTree == Spec => []ErrorsExact
<1>1. Init => TypesInv /\ TreeInv
  BY InitTypes, InitTree
<1>2. TypesInv /\ TreeInv /\ [Next]_vars => TypesInv' /\ TreeInv'
  BY NextTypes, NextTree
<1>3. TypesInv /\ TreeInv => ErrorsExact
  BY TreeImplies
<1> QED
  BY <1>1, <1>2, <1>3, PTL DEF Spec

-----------------------------------------------------------------------------
(* Who waits for whom. *)

Linked(h, p) == \A i \in 1 .. Len(p) - 1 : p[i + 1].ctn \in Inner(h, p[i].ctn)

LEMMA LinksEntered ==
    ASSUME NEW h, NEW p \in Seq(Frame), Linked(h, p), NEW o \in Containers,
           p # <<>> => o \in Inner(h, p[Len(p)].ctn)
    PROVE  Linked(h, Append(p, [ctn |-> o, pos |-> 0]))
<1> DEFINE q == Append(p, [ctn |-> o, pos |-> 0])
<1>1. /\ Len(q) = Len(p) + 1 /\ Len(p) \in Nat /\ \A i \in 1 .. Len(p) : q[i] = p[i]
      /\ q[Len(q)] = [ctn |-> o, pos |-> 0]
  BY EnteredPath, LenProperties
<1> HIDE DEF q
<1>2. q[Len(q)].ctn = o
  BY <1>1
<1> SUFFICES ASSUME NEW i \in 1 .. Len(q) - 1 PROVE q[i + 1].ctn \in Inner(h, q[i].ctn)
  BY DEF Linked, q
<1>3. i \in 1 .. Len(p)
  BY <1>1
<1>4. CASE i = Len(p)
  <2>1. p # <<>>
    BY <1>3
  <2> QED
    BY <1>1, <1>2, <1>3, <1>4, <2>1
<1>5. CASE i # Len(p)
  <2>1. i \in 1 .. Len(p) - 1 /\ i + 1 \in 1 .. Len(p)
    BY <1>1, <1>3, <1>5
  <2> QED
    BY <1>1, <2>1 DEF Linked
<1> QED
  BY <1>4, <1>5

LEMMA LinksMet ==
    ASSUME NEW e, NEW p \in Seq(Frame), Linked(heap, p), NEW o \in Containers,
           p # <<>> => o \in Inner(heap, p[Len(p)].ctn),
           NEW label, NEW q, NEW n, NEW want, NEW objs, NEW text, NEW why,
           Meets(e, p, o, label, q, n, want, objs, text, why)
    PROVE  LinkState(heap, label, q, want)
<1>1. CASE (label = "val" \/ label = "success") /\ q = p
  BY <1>1 DEF LinkState, Linked
<1>2. CASE label = "val" /\ q = Append(p, [ctn |-> o, pos |-> 0])
  <2>1. Linked(heap, q)
    BY <1>2, LinksEntered
  <2> QED
    BY <1>2, <2>1 DEF LinkState, Linked
<1>3. CASE label = "fail"
  BY <1>3 DEF LinkState
<1>4. CASE label = "lock" /\ q = p /\ want = o
  BY <1>4 DEF LinkState, Linked
<1> QED
  BY <1>1, <1>2, <1>3, <1>4 DEF Meets

LEMMA LinksGivenUp ==
    ASSUME NEW e, NEW label, NEW q, NEW n, NEW want, NEW objs, NEW text, NEW why,
           GaveUp(e, label, q, n, want, objs, text, why)
    PROVE  LinkState(heap, label, q, want)
  BY DEF GaveUp, LinkState

LEMMA LinksMoved ==
    ASSUME TypesInv, LinkInv, NEW e \in Encoders, heap' = heap,
           NEW label, NEW q, NEW n, NEW want, NEW objs, NEW text, NEW why,
           Moves(e, label, q, n, want, objs, text, why), LinkState(heap, label, q, want)
    PROVE  LinkInv'
<1>1. /\ pc'[e] = label /\ path'[e] = q /\ pend'[e] = want
      /\ \A f \in Encoders \ {e} : pc'[f] = pc[f] /\ path'[f] = path[f] /\ pend'[f] = pend[f]
  BY DEF TypesInv, TypeOK, Moves
<1>2. LinkState(heap', pc'[e], path'[e], pend'[e])
  BY <1>1
<1>3. ASSUME NEW f \in Encoders \ {e} PROVE LinkState(heap', pc'[f], path'[f], pend'[f])
  <2>1. LinkState(heap, pc[f], path[f], pend[f])
    BY DEF LinkInv
  <2> QED
    BY <1>1, <2>1
<1>4. ASSUME NEW f \in Encoders PROVE LinkState(heap', pc'[f], path'[f], pend'[f])
  BY <1>2, <1>3
<1> QED
  BY <1>4 DEF LinkInv

LEMMA StepLinks ==
    ASSUME TypesInv, LinkInv, NEW e \in Encoders, Step(e) PROVE LinkInv'
<1>1. CASE Start(e)
  <2>1. PICK o \in Containers : \E label, q, n, want, objs, text, why :
                 /\ Moves(e, label, q, n, want, objs, text, why)
                 /\ \/ Meets(e, <<>>, o, label, q, n, want, objs, text, why)
                    \/ GaveUp(e, label, q, n, want, objs, text, why)
    BY <1>1, StartMoves
  <2>2. PICK label, q, n, want, objs, text, why :
                 /\ Moves(e, label, q, n, want, objs, text, why)
                 /\ \/ Meets(e, <<>>, o, label, q, n, want, objs, text, why)
                    \/ GaveUp(e, label, q, n, want, objs, text, why)
    BY <2>1
  <2>3. heap' = heap
    BY <1>1, StartMoves
  <2> DEFINE p == <<>>
  <2>4. p \in Seq(Frame) /\ Linked(heap, p) /\ p = <<>>
    BY DEF Linked
  <2> HIDE DEF p
  <2>5. LinkState(heap, label, q, want)
    <3>1. CASE Meets(e, p, o, label, q, n, want, objs, text, why)
      BY <2>4, <3>1, LinksMet
    <3>2. CASE GaveUp(e, label, q, n, want, objs, text, why)
      BY <3>2, LinksGivenUp
    <3> QED
      BY <2>2, <3>1, <3>2 DEF p
  <2> QED
    BY <2>2, <2>3, <2>5, LinksMoved
<1>2. CASE Acquire(e)
  <2>1. PICK label, q, why :
           /\ Moves(e, label, q, size[e], None, held[e], out[e], why)
           /\ \/ label = "fail"
              \/ label = "val" /\ q = Append(path[e], [ctn |-> pend[e], pos |-> 0])
    BY <1>2, AcquireMoves
  <2>2. pc[e] = "lock" /\ heap' = heap
    BY <1>2, AcquireMoves
  <2>3. pend[e] \in Containers /\ path[e] \in Seq(Frame)
    BY <2>2, Typed DEF Containers
  <2>4. LinkState(heap, "lock", path[e], pend[e])
    BY <2>2 DEF LinkInv
  <2>5. Linked(heap, path[e]) /\ (path[e] # <<>> => pend[e] \in Inner(heap, path[e][Len(path[e])].ctn))
    BY <2>4 DEF LinkState, Linked
  <2>6. LinkState(heap, label, q, None)
    <3>1. CASE label = "fail"
      BY <3>1 DEF LinkState
    <3>2. CASE label = "val" /\ q = Append(path[e], [ctn |-> pend[e], pos |-> 0])
      <4>1. Linked(heap, q)
        BY <2>3, <2>5, <3>2, LinksEntered
      <4> QED
        BY <3>2, <4>1 DEF LinkState, Linked
    <3> QED
      BY <2>1, <3>1, <3>2
  <2> QED
    BY <2>1, <2>2, <2>6, LinksMoved
<1>3. CASE Value(e)
  <2>1. PICK label, q, n, want, objs, text, why :
                 /\ Moves(e, label, q, n, want, objs, text, why)
                 /\ Looks(e, label, q, n, want, objs, text, why)
    BY <1>3, ValueMoves
  <2>2. pc[e] = "val" /\ heap' = heap
    BY <1>3, ValueMoves
  <2> DEFINE p == path[e]
             a == Advanced(e)
             v == Item(e)
  <2>3. p # <<>> /\ p \in Seq(Frame) /\ Len(p) \in 1 .. Len(p) /\ Len(p) \in Nat
    BY <2>2, Typed, LastFrame
  <2>4. /\ a \in Seq(Frame) /\ Len(a) = Len(p) /\ \A i \in 1 .. Len(p) : a[i].ctn = p[i].ctn
    BY <2>3, AdvancedPath
  <2>5. Linked(heap, p)
    <3>1. LinkState(heap, "val", p, pend[e])
      BY <2>2 DEF LinkInv
    <3> QED
      BY <3>1 DEF LinkState, Linked
  <2>6. v \in Containers /\ Cur(e).pos < Len(heap[Cur(e).ctn]) => v \in Inner(heap, p[Len(p)].ctn)
    <3>1. Cur(e).ctn \in Containers /\ Cur(e).pos \in Nat
      BY <2>3, LastFrame DEF Cur
    <3>2. heap[Cur(e).ctn] \in Seq(Values) /\ Len(heap[Cur(e).ctn]) \in Nat
      BY <3>1, Typed, LenProperties
    <3>3. Cur(e).pos < Len(heap[Cur(e).ctn]) => Cur(e).pos + 1 \in 1 .. Len(heap[Cur(e).ctn])
      BY <3>1, <3>2
    <3> QED
      BY <3>1, <3>2, <3>3, InnerIn DEF Item, Cur
  <2> HIDE DEF p, a, v
  <2>7. Linked(heap, a)
    <3>1. \A i \in 1 .. Len(p) - 1 : i \in 1 .. Len(p) /\ i + 1 \in 1 .. Len(p)
      BY <2>3
    <3> QED
      BY <2>4, <2>5, <3>1 DEF Linked
  <2>8. LinkState(heap, label, q, want)
    <3>1. CASE label = "wild"
      BY <3>1 DEF LinkState
    <3>2. CASE label = "val" /\ q = a
      BY <2>7, <3>2 DEF LinkState, Linked
    <3>3. CASE /\ v \in Containers /\ Cur(e).pos < Len(heap[Cur(e).ctn])
               /\ Meets(e, a, v, label, q, n, want, objs, text, why)
      <4>1. v \in Inner(heap, a[Len(a)].ctn)
        BY <2>3, <2>4, <2>6, <3>3
      <4> QED
        BY <2>4, <2>7, <3>3, <4>1, LinksMet
    <3>4. CASE GaveUp(e, label, q, n, want, objs, text, why)
      BY <3>4, LinksGivenUp
    <3>5. \/ label = "wild"
          \/ label = "val" /\ q = a
          \/ /\ v \in Containers /\ Cur(e).pos < Len(heap[Cur(e).ctn])
             /\ Meets(e, a, v, label, q, n, want, objs, text, why)
          \/ GaveUp(e, label, q, n, want, objs, text, why)
      BY <2>1, Zenon DEF Looks, a, v
    <3> QED
      BY <3>1, <3>2, <3>3, <3>4, <3>5
  <2> QED
    BY <2>1, <2>2, <2>8, LinksMoved
<1>4. CASE Close(e)
  <2>1. PICK label, q, n, want, objs, text, why :
                 /\ Moves(e, label, q, n, want, objs, text, why)
                 /\ CloseTo(e, label, q, n, want, objs, text, why)
    BY <1>4, CloseMoves
  <2>2. pc[e] = "val" /\ heap' = heap
    BY <1>4, CloseMoves
  <2>3. path[e] # <<>> /\ path[e] \in Seq(Frame)
    BY <2>2, Typed
  <2>4. Linked(heap, path[e])
    <3>1. LinkState(heap, "val", path[e], pend[e])
      BY <2>2 DEF LinkInv
    <3> QED
      BY <3>1 DEF LinkState, Linked
  <2>5. LinkState(heap, label, q, want)
    <3>1. CASE label = "success" \/ label = "fail"
      BY <3>1 DEF LinkState
    <3>2. CASE label = "val" /\ q = Dropped(e)
      <4>1. /\ Len(q) = Len(path[e]) - 1 /\ Len(path[e]) \in Nat
            /\ \A i \in 1 .. Len(path[e]) - 1 : q[i] = path[e][i]
        BY <2>3, <3>2, BelowSeq, LenProperties DEF Dropped
      <4>2. \A i \in 1 .. Len(q) - 1 : /\ i \in 1 .. Len(path[e]) - 1
                                       /\ q[i] = path[e][i] /\ q[i + 1] = path[e][i + 1]
        BY <4>1
      <4>3. Linked(heap, q)
        BY <2>4, <4>2 DEF Linked
      <4> QED
        BY <3>2, <4>3 DEF LinkState, Linked
    <3> QED
      BY <2>1, <3>1, <3>2 DEF CloseTo, GaveUp
  <2> QED
    BY <2>1, <2>2, <2>5, LinksMoved
<1>5. CASE Finish(e)
  <2>1. PICK label, q, n, want, objs, text, why :
                 /\ Moves(e, label, q, n, want, objs, text, why)
                 /\ label \in {"ok", "fail"}
    BY <1>5, FinishMoves DEF GaveUp
  <2>2. LinkState(heap, label, q, want)
    BY <2>1 DEF LinkState
  <2>3. heap' = heap
    BY <1>5, FinishMoves
  <2> QED
    BY <2>1, <2>2, <2>3, LinksMoved
<1>6. CASE Unwind(e)
  <2>1. PICK label, q, n, want, objs, text, why :
                 /\ Moves(e, label, q, n, want, objs, text, why)
                 /\ label = "error"
    BY <1>6, UnwindMoves
  <2>2. LinkState(heap, label, q, want)
    BY <2>1 DEF LinkState
  <2>3. heap' = heap
    BY <1>6, UnwindMoves
  <2> QED
    BY <2>1, <2>2, <2>3, LinksMoved
<1> QED
  BY <1>1, <1>2, <1>3, <1>4, <1>5, <1>6 DEF Step

\* What is on the path of an encoder is locked by it or a tuple: nobody changes it.
LEMMA MutateLinks == ASSUME LockInv, LinkInv, Mutate PROVE LinkInv'
<1>1. /\ UNCHANGED <<gil, owner, pc, path, pend, held, root>>
      /\ gil => \A e \in Encoders : ~Active(e)
  BY DEF Mutate
<1>2. PICK o \in Lockable : owner[o] = None /\ \E s \in Seq(Values) : heap' = [heap EXCEPT ![o] = s]
  <2>1. PICK o \in Lockable :
        /\ owner[o] = None
        /\ \/ heap' = [heap EXCEPT ![o] = Append(heap[o], Leaf)]
           \/ heap' = [heap EXCEPT ![o] = Below(heap[o])]
    BY DEF Mutate
  <2>2. heap[o] \in Seq(Values) /\ Leaf \in Values
    BY DEF LockInv, TypesInv, TypeOK, Containers, Values
  <2>3. Append(heap[o], Leaf) \in Seq(Values) /\ Below(heap[o]) \in Seq(Values)
    BY <2>2, AppendProperties, BelowSeq
  <2> QED
    BY <2>1, <2>3
<1>3. \A x \in Containers : x # o => heap'[x] = heap[x]
  BY <1>2 DEF LockInv, TypesInv, TypeOK
<1> SUFFICES ASSUME NEW e \in Encoders, pc[e] \in {"val", "lock"}
             PROVE  LinkState(heap', pc[e], path[e], pend[e])
  BY <1>1 DEF LinkInv, LinkState
<1>4. path[e] \in Seq(Frame)
  BY Typed DEF LockInv
<1>5. \A i \in 1 .. Len(path[e]) : heap'[path[e][i].ctn] = heap[path[e][i].ctn]
  <2> SUFFICES ASSUME NEW i \in 1 .. Len(path[e]), path[e][i].ctn = o PROVE FALSE
    BY <1>3, <1>4, FrameOf
  <2>1. ~gil
    BY <1>1 DEF Active, Ended
  <2>2. LockState(gil, e, owner, pc[e], path[e], held[e], pend[e], root[e])
    BY LocksNow
  <2>3. Inside(path[e], o)
    BY DEF Inside
  <2>4. owner[o] = e
    BY <2>1, <2>2, <2>3 DEF LockState
  <2>5. None \notin Encoders
    BY ObjectsAssumption
  <2> QED
    BY <1>2, <2>4, <2>5
<1>6. \A i \in 1 .. Len(path[e]) : Inner(heap', path[e][i].ctn) = Inner(heap, path[e][i].ctn)
  BY <1>5 DEF Inner
<1>7. LinkState(heap, pc[e], path[e], pend[e])
  BY DEF LinkInv
<1>8. Len(path[e]) \in Nat /\ (path[e] # <<>> => Len(path[e]) \in 1 .. Len(path[e]))
  BY <1>4, LastFrame, LenProperties
<1>9. \A i \in 1 .. Len(path[e]) - 1 : i \in 1 .. Len(path[e])
  BY <1>8
<1> QED
  BY <1>6, <1>7, <1>8, <1>9 DEF LinkState

LEMMA NextLinks == ASSUME LockInv, LinkInv, [Next]_vars PROVE LinkInv'
<1>1. ASSUME NEW e \in Encoders, Step(e) PROVE LinkInv'
  BY <1>1, StepLinks DEF LockInv
<1>2. CASE UNCHANGED vars
  BY <1>2 DEF vars, LinkInv
<1> QED
  BY <1>1, <1>2, MutateLinks DEF Next, Finished

LEMMA InitLinks == Init => LinkInv
  BY DEF Init, LinkInv, LinkState

\* The containers that the encoders of a waiting circle are inside of: each holds the
\* next on its path, or what is waited for, which is on the path of another.
LEMMA CircleIsCircular ==
    ASSUME LockInv, LinkInv, NEW S \in SUBSET Encoders, WaitInCircle(S)
    PROVE  Circular(heap) # {}
<1> DEFINE on == {x \in Containers : \E e \in S : Inside(path[e], x)}
<1>1. \A e \in S : e \in Encoders /\ pc[e] = "lock" /\ owner[pend[e]] \in S
  BY DEF WaitInCircle
<1>2. ASSUME NEW e \in S
      PROVE  /\ path[e] \in Seq(Frame) /\ pend[e] \in Lockable /\ pend[e] \in Containers
             /\ LinkState(heap, "lock", path[e], pend[e])
             /\ LockState(gil, e, owner, "lock", path[e], held[e], pend[e], root[e])
  <2>1. e \in Encoders /\ pc[e] = "lock"
    BY <1>1
  <2>2. path[e] \in Seq(Frame) /\ pend[e] \in Lockable /\ pend[e] \in Containers
    BY <2>1, Typed DEF LockInv, Containers
  <2>3. LinkState(heap, "lock", path[e], pend[e])
    BY <2>1 DEF LinkInv
  <2>4. LockState(gil, e, owner, "lock", path[e], held[e], pend[e], root[e])
    BY <2>1, LocksNow
  <2> QED
    BY <2>2, <2>3, <2>4
<1>3. ASSUME NEW e \in S PROVE pend[e] \in on
  <2>1. owner[pend[e]] \in S
    BY <1>1
  <2> DEFINE f == owner[pend[e]]
  <2>2. LockState(gil, f, owner, "lock", path[f], held[f], pend[f], root[f])
    BY <1>2, <2>1
  <2>3. pend[e] \in Lockable /\ pend[e] \in Containers
    BY <1>2
  <2>4. Inside(path[f], pend[e])
    BY <2>2, <2>3 DEF LockState
  <2> QED
    BY <2>1, <2>3, <2>4
<1>4. ASSUME NEW x \in on PROVE Inner(heap, x) \cap on # {}
  <2>1. PICK e \in S : Inside(path[e], x)
    OBVIOUS
  <2>2. PICK i \in 1 .. Len(path[e]) : path[e][i].ctn = x
    BY <2>1 DEF Inside
  <2>3. path[e] \in Seq(Frame) /\ Len(path[e]) \in Nat
    BY <1>2, LenProperties
  <2>4. CASE i = Len(path[e])
    <3>1. path[e] # <<>>
      BY <2>2
    <3>2. pend[e] \in Inner(heap, x)
      BY <1>2, <2>2, <2>4, <3>1 DEF LinkState
    <3> QED
      BY <1>3, <3>2
  <2>5. CASE i # Len(path[e])
    <3>1. i \in 1 .. Len(path[e]) - 1 /\ i + 1 \in 1 .. Len(path[e])
      BY <2>2, <2>3, <2>5
    <3>2. path[e][i + 1].ctn \in Inner(heap, x)
      BY <1>2, <2>2, <3>1 DEF LinkState
    <3>3. path[e][i + 1].ctn \in Containers
      BY <2>3, <3>1, FrameOf
    <3>4. path[e][i + 1].ctn \in on
      BY <3>1, <3>3 DEF Inside
    <3> QED
      BY <3>2, <3>4
  <2> QED
    BY <2>4, <2>5
<1>5. on # {}
  <2>1. PICK e \in S : TRUE
    BY DEF WaitInCircle
  <2> QED
    BY <1>3
<1>6. on \in SUBSET Containers
  OBVIOUS
<1> HIDE DEF on
<1>7. PICK x \in on : TRUE
  BY <1>5
<1>8. on \in {T \in SUBSET Containers : \A o \in T : Inner(heap, o) \cap T # {}}
  BY <1>4, <1>6
<1>9. x \in Circular(heap)
  BY <1>7, <1>8, Zenon DEF Circular
<1> QED
  BY <1>9

\* Encoders wait for each other in a circle, or one for itself, only if a container of
\* the heap reaches itself: two that lock shared containers in the order of their paths
\* do not block each other.
THEOREM CirclesOfTheHeap == ASSUME ~SetMayFail PROVE Spec => []DeadlockNeedsCycle
<1>1. Init => LockInv /\ LinkInv
  BY InitLocks, InitLinks
<1>2. LockInv /\ LinkInv /\ [Next]_vars => LockInv' /\ LinkInv'
  BY NextLocks, NextLinks
<1>3. LockInv /\ LinkInv => DeadlockNeedsCycle
  BY CircleIsCircular DEF DeadlockNeedsCycle
<1> QED
  BY <1>1, <1>2, <1>3, PTL DEF Spec
============================================================================
