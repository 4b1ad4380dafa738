--------------------------- MODULE DecoderProofs ---------------------------
(***************************************************************************)
(* Proofs about Decoder, for every set of keys, every bound on the         *)
(* document, every recursion limit and initial stack size, with and        *)
(* without hooks.                                                          *)
(***************************************************************************)
EXTENDS DecoderGrammar, DataInduction, FiniteSetTheorems

Container == [arr : BOOLEAN, len : Nat, start : Nat]

-----------------------------------------------------------------------------
(* The helpers on stacks. *)

\* A container has a count, and its values take so many slots.
LEMMA SlotsNat ==
    ASSUME NEW x \in Container
    PROVE  /\ x.arr \in BOOLEAN /\ x.len \in Nat /\ x.start \in Nat
           /\ Slots(x) \in Nat
BY DEF Container, Slots

\* Dropping the n topmost entries of a stack leaves the others where they are.
LEMMA BelowStack ==
    ASSUME NEW S, NEW s \in Seq(S), NEW n \in Nat, n <= Len(s)
    PROVE  /\ Below(s, n) \in Seq(S)
           /\ Len(Below(s, n)) = Len(s) - n
           /\ \A i \in 1 .. Len(s) - n : Below(s, n)[i] = s[i]
<1>1. \A i \in 1 .. Len(s) - n : s[i] \in S
  BY ElementOfSeq
<1>2. /\ SubSeq(s, 1, Len(s) - n) \in Seq(S)
      /\ Len(SubSeq(s, 1, Len(s) - n)) = IF 1 <= Len(s) - n THEN Len(s) - n - 1 + 1 ELSE 0
      /\ \A i \in 1 .. Len(s) - n - 1 + 1 : SubSeq(s, 1, Len(s) - n)[i] = s[1 + i - 1]
  BY <1>1, SubSeqProperties
<1> QED
  BY <1>2 DEF Below

\* Pushing any object onto a stack.
LEMMA AppendStack ==
    ASSUME NEW S, NEW s \in Seq(S), NEW v
    PROVE  /\ Append(s, v) \in Seq(S \cup {v})
           /\ Len(Append(s, v)) = Len(s) + 1
           /\ Append(s, v)[Len(s) + 1] = v
<1>1. s \in Seq(S \cup {v})
  BY SeqMonotonic
<1> QED
  BY <1>1

\* incr_decode_ctn_size changes the count of the innermost container only.
LEMMA CountedStack ==
    ASSUME NEW c \in Seq(Container), c # <<>>
    PROVE  /\ Counted(c) \in Seq(Container)
           /\ Len(Counted(c)) = Len(c)
           /\ \A i \in 1 .. Len(c) :
                /\ Counted(c)[i].arr = c[i].arr
                /\ Counted(c)[i].start = c[i].start
                /\ Counted(c)[i].len = IF i = Len(c) THEN c[i].len + 1 ELSE c[i].len
<1> DEFINE e == [c[Len(c)] EXCEPT !.len = @ + 1]
<1>1. Len(c) \in 1 .. Len(c) /\ \A i \in 1 .. Len(c) : c[i] \in Container
  BY ElementOfSeq, EmptySeq
<1>2. e \in Container /\ e.arr = c[Len(c)].arr /\ e.start = c[Len(c)].start
      /\ e.len = c[Len(c)].len + 1
  BY <1>1 DEF Container
<1>3. Counted(c) = [c EXCEPT ![Len(c)] = e]
  BY DEF Counted
<1> QED
  BY <1>1, <1>2, <1>3, ExceptSeq

-----------------------------------------------------------------------------
(* How a layout changes. *)

\* Counting a value just pushed, after its key in an object.
LEMMA LayoutCount ==
    ASSUME NEW c \in Seq(Container), NEW n \in Nat, NEW p \in {0, 1},
           IsLayout(c, n, p), p = IF c[Len(c)].arr THEN 0 ELSE 1
    PROVE  IsLayout(Counted(c), n + 1, 0)
<1>1. Len(c) \in 1 .. Len(c) /\ \A i \in 1 .. Len(c) : c[i] \in Container
  BY ElementOfSeq, EmptySeq DEF IsLayout
<1>2. c # <<>>
  BY DEF IsLayout
<1> DEFINE d == Counted(c)
<1>3. /\ d \in Seq(Container) /\ Len(d) = Len(c)
      /\ \A i \in 1 .. Len(c) :
            /\ d[i].arr = c[i].arr /\ d[i].start = c[i].start
            /\ d[i].len = IF i = Len(c) THEN c[i].len + 1 ELSE c[i].len
  BY <1>2, CountedStack
<1> HIDE DEF d
<1>4. \A i \in 1 .. Len(c) - 1 : Slots(d[i]) = Slots(c[i])
  BY <1>1, <1>3 DEF Slots
<1>5. Slots(d[Len(c)]) = Slots(c[Len(c)]) + 1 + p
  <2>1. c[Len(c)].len \in Nat
    BY <1>1, SlotsNat
  <2> QED
    BY <2>1, <1>1, <1>3 DEF Slots
<1>6. d # <<>>
  BY <1>1, <1>3, EmptySeq
<1>7. \A i \in 1 .. Len(d) - 1 :
        d[i + 1].start = d[i].start + Slots(d[i]) + (IF d[i].arr THEN 0 ELSE 1)
  <2> SUFFICES ASSUME NEW i \in 1 .. Len(c) - 1
               PROVE  d[i + 1].start = d[i].start + Slots(d[i]) + (IF d[i].arr THEN 0 ELSE 1)
    BY <1>3
  <2>1. i \in 1 .. Len(c) /\ i + 1 \in 1 .. Len(c)
    BY <1>1
  <2> QED
    BY <2>1, <1>3, <1>4 DEF IsLayout
<1>8. d[1].start = 0
  BY <1>1, <1>3 DEF IsLayout
<1>9. n + 1 = d[Len(d)].start + Slots(d[Len(d)]) + 0
  <2>1. n = c[Len(c)].start + Slots(c[Len(c)]) + p
    BY DEF IsLayout
  <2>2. c[Len(c)].start \in Nat /\ Slots(c[Len(c)]) \in Nat
    BY <1>1, SlotsNat
  <2>3. Len(d) = Len(c) /\ d[Len(c)].start = c[Len(c)].start
    BY <1>1, <1>3
  <2> QED
    BY <2>1, <2>2, <2>3, <1>5
<1>10. IsLayout(d, n + 1, 0)
  BY <1>6, <1>7, <1>8, <1>9 DEF IsLayout
<1> QED
  BY <1>10 DEF d

\* Opening a container inside the innermost one.
LEMMA LayoutOpen ==
    ASSUME NEW c \in Seq(Container), NEW n \in Nat, NEW p \in {0, 1},
           NEW a \in BOOLEAN,
           IsLayout(c, n, p), p = IF c[Len(c)].arr THEN 0 ELSE 1
    PROVE  IsLayout(Append(c, [arr |-> a, len |-> 0, start |-> n]), n, 0)
<1> DEFINE e == [arr |-> a, len |-> 0, start |-> n]
<1> DEFINE d == Append(c, e)
<1>1. Len(c) \in 1 .. Len(c) /\ \A i \in 1 .. Len(c) : c[i] \in Container
  BY ElementOfSeq, EmptySeq DEF IsLayout
<1>2. e \in Container /\ Slots(e) = 0 /\ e.start = n
  BY DEF Container, Slots
<1>3. d # <<>> /\ Len(d) = Len(c) + 1 /\ d[Len(c) + 1] = e
      /\ \A i \in 1 .. Len(c) : d[i] = c[i]
  BY <1>1, <1>2
<1>4. \A i \in 1 .. Len(d) - 1 :
        d[i + 1].start = d[i].start + Slots(d[i]) + (IF d[i].arr THEN 0 ELSE 1)
  <2> SUFFICES ASSUME NEW i \in 1 .. Len(c)
               PROVE  d[i + 1].start = c[i].start + Slots(c[i]) + (IF c[i].arr THEN 0 ELSE 1)
    BY <1>3
  <2>1. CASE i = Len(c)
    BY <2>1, <1>2, <1>3 DEF IsLayout
  <2>2. CASE i # Len(c)
    BY <2>2, <1>1, <1>3 DEF IsLayout
  <2> QED
    BY <2>1, <2>2
<1>5. d[1].start = 0
  BY <1>1, <1>3 DEF IsLayout
<1> HIDE DEF d, e
<1>6. n = d[Len(d)].start + Slots(d[Len(d)]) + 0
  BY <1>2, <1>3
<1>7. IsLayout(d, n, 0)
  BY <1>3, <1>4, <1>5, <1>6 DEF IsLayout
<1> QED
  BY <1>7 DEF d, e

\* Replacing the values of the innermost container by the one it became, and
\* counting it in its parent.
LEMMA LayoutClose ==
    ASSUME NEW c \in Seq(Container), NEW n \in Nat,
           IsLayout(c, n, 0), Len(c) > 1
    PROVE  IsLayout(Counted(Below(c, 1)), n - Slots(c[Len(c)]) + 1, 0)
<1> DEFINE b == Below(c, 1)
<1>1. Len(c) \in Nat /\ Len(c) >= 2 /\ \A i \in 1 .. Len(c) : c[i] \in Container
  <2>1. Len(c) \in Nat \ {0}
    BY EmptySeq DEF IsLayout
  <2>2. Len(c) >= 2
    BY <2>1
  <2>3. \A i \in 1 .. Len(c) : c[i] \in Container
    BY ElementOfSeq
  <2> QED
    BY <2>1, <2>2, <2>3
<1>2. b \in Seq(Container) /\ Len(b) = Len(c) - 1 /\ \A i \in 1 .. Len(c) - 1 : b[i] = c[i]
  BY <1>1, BelowStack
<1> DEFINE p == IF b[Len(b)].arr THEN 0 ELSE 1
<1>3. c[Len(c)].start = b[Len(b)].start + Slots(b[Len(b)]) + p
  <2>1. Len(b) \in 1 .. Len(c) - 1 /\ Len(b) + 1 = Len(c)
    BY <1>1, <1>2
  <2> QED
    BY <2>1, <1>2 DEF IsLayout
<1>4. c[Len(c)].start \in Nat /\ n - Slots(c[Len(c)]) = c[Len(c)].start
  <2>1. c[Len(c)].start \in Nat /\ Slots(c[Len(c)]) \in Nat
    BY <1>1, SlotsNat
  <2> QED
    BY <2>1 DEF IsLayout
<1>5. b # <<>>
  BY <1>1, <1>2, EmptySeq
<1> HIDE DEF b
<1>6. IsLayout(b, c[Len(c)].start, p)
  BY <1>1, <1>2, <1>3, <1>5 DEF IsLayout
<1>7. IsLayout(Counted(b), c[Len(c)].start + 1, 0)
  BY <1>2, <1>4, <1>6, LayoutCount
<1> QED
  BY <1>4, <1>7 DEF b

-----------------------------------------------------------------------------
(* The inductive invariant. *)

\* The object stack is a sequence (of whatever objects).
ObjsStack == \E S : objs \in Seq(S)

\* The label tells the kind of the innermost container, nothing is owned at
\* the start and nothing is lost before a failure.
LabelInv ==
    /\ pc \in {"arr_val_begin", "arr_val_end"} => Top.arr
    /\ pc \in {"obj_key_begin", "obj_key_end", "obj_val_begin", "obj_val_end"} => ~Top.arr
    /\ pc = "start" => objs = <<>> /\ heap = {} /\ ctn = <<>>
    /\ pc \notin {"cleanup", "failed"} => lost = 0
    /\ cap >= ObjBufferInit

IInv == TypeOK /\ ObjsStack /\ LabelInv /\ StackAccount /\ RefsBalanced /\ CapacityOK

Error == {"syntax", "depth", "memory", "hook"}
Active == Labels \ {"cleanup", "failed", "done", "wild"}

\* What an initial state is.
LEMMA InitInv == Init => IInv
<1> SUFFICES ASSUME Init PROVE IInv
  OBVIOUS
<1> USE DEF Init
<1>1. TypeOK
  <2>1. ctn \in Seq(Container) /\ Len(ctn) = 0 /\ input \in Seq(Token)
    BY EmptySeq
  <2>2. Len(ctn) <= DecodeMaxRecursion /\ cap \in Nat
    BY <2>1, RecursionAssumption, BufferAssumption
  <2>3. pc \in Labels /\ heap \subseteq {"strbuf", "objstack"} /\ refs \in Int /\ lost \in Nat
    BY DEF Labels
  <2>4. err \in {"none", "syntax", "depth", "memory", "hook"} /\ oom \in BOOLEAN
    OBVIOUS
  <2> HIDE DEF Init
  <2> QED
    BY <2>1, <2>2, <2>3, <2>4 DEF TypeOK, Container
<1>2. ObjsStack
  BY EmptySeq DEF ObjsStack
<1>3. LabelInv
  BY BufferAssumption DEF LabelInv
<1>4. StackAccount
  BY DEF StackAccount, Running
<1>5. RefsBalanced
  BY DEF RefsBalanced
<1>6. CapacityOK
  BY BufferAssumption DEF CapacityOK
<1> QED
  BY <1>1, <1>2, <1>3, <1>4, <1>5, <1>6 DEF IInv

\* A step to failed_cleanup keeps the invariant when the references it still
\* owns are those on the stack, and at most one more that it lost to a failed
\* growth.
LEMMA FailureInv ==
    ASSUME IInv, pc \in Active,
           NEW S, objs' \in Seq(S), Len(objs') <= cap,
           refs' = Len(objs') + lost', lost' \in {0, 1}, lost' = 1 => oom',
           oom' \in BOOLEAN, err' \in Error, pc' = "cleanup",
           input' \in Seq(Token), UNCHANGED <<ctn, cap, heap>>
    PROVE  IInv'
<1> USE DEF IInv, Active, Error, Labels
<1>1. Len(objs') \in Nat
  BY EmptySeq, LenProperties
<1>2. TypeOK'
  BY <1>1 DEF TypeOK
<1>3. ObjsStack'
  BY DEF ObjsStack
<1>4. LabelInv'
  BY DEF LabelInv
<1>5. StackAccount'
  BY DEF StackAccount, Running
<1>6. RefsBalanced'
  BY DEF RefsBalanced
<1>7. CapacityOK'
  BY DEF CapacityOK
<1> QED
  BY <1>2, <1>3, <1>4, <1>5, <1>6, <1>7

\* Two such steps that leave the stacks alone.
LEMMA RejectInv ==
    ASSUME IInv, pc \in Active, input' \in Seq(Token), NEW e \in Error, Reject(e)
    PROVE  IInv'
<1> PICK S : objs \in Seq(S)
  BY DEF IInv, ObjsStack
<1> QED
  BY FailureInv DEF Reject, Fail, IInv, TypeOK, RefsBalanced, CapacityOK, Active

LEMMA CreationFailsInv ==
    ASSUME IInv, pc \in Active, input' \in Seq(Token), NEW e \in Error, CreationFails(e)
    PROVE  IInv'
<1> PICK S : objs \in Seq(S)
  BY DEF IInv, ObjsStack
<1> QED
  BY FailureInv DEF CreationFails, Fail, IInv, TypeOK, RefsBalanced, CapacityOK, Active

\* One more slot is enough for a push onto a stack that filled its buffer.
LEMMA RoomAfterGrowth ==
    ASSUME NEW l \in Nat, NEW n \in Nat, NEW old \in Nat, NEW new \in Nat,
           l <= old, new >= old + 1
    PROVE  l - n + 1 <= new
  OBVIOUS

\* A push onto what is left of the object stack keeps the invariant when the
\* references are those of what is left and of the new object, and the
\* containers lay out the stack with the new object.
LEMMA PushInv ==
    ASSUME IInv, pc \in Running, input' \in Seq(Token),
           NEW n \in Nat, n <= Len(objs), NEW v, NEW k, k = Len(objs) - n + 1,
           NEW c, c \in Seq(Container), Len(c) <= DecodeMaxRecursion,
           NEW next \in Running \cup {"doc_end"}, NEW e \in Error,
           next \in {"arr_val_begin", "arr_val_end"} => c[Len(c)].arr,
           next \in {"obj_key_begin", "obj_key_end", "obj_val_begin", "obj_val_end"}
              => ~c[Len(c)].arr,
           next \in Running
              => IsLayout(c, k, IF next \in {"obj_key_end", "obj_val_begin"} THEN 1 ELSE 0),
           next = "doc_end" => k = 1,
           Push(Below(objs, n), v, k, c, next, e)
    PROVE  IInv'
<1> DEFINE b == Below(objs, n)
<1>1. PICK S : objs \in Seq(S)
  BY DEF IInv, ObjsStack
<1>2. b \in Seq(S) /\ Len(b) = Len(objs) - n /\ Len(objs) \in Nat
  BY <1>1, BelowStack, LenProperties
<1>3. lost = 0 /\ Len(objs) <= cap /\ cap \in Nat /\ cap >= ObjBufferInit /\ pc \in Active
  BY DEF IInv, RefsBalanced, CapacityOK, LabelInv, Running, TypeOK, Active, Labels
<1> HIDE DEF b
<1>4. CASE /\ Len(b) >= cap
           /\ Fail(e)
           /\ objs' = b /\ refs' = k /\ lost' = lost + 1 /\ oom' = TRUE
           /\ UNCHANGED <<ctn, cap, heap>>
  BY <1>2, <1>3, <1>4, FailureInv DEF Fail
<1>5. CASE /\ objs' = Append(b, v) /\ refs' = k /\ ctn' = c /\ pc' = next
           /\ UNCHANGED <<lost, err, oom>>
           /\ \/ Len(b) < cap /\ UNCHANGED <<cap, heap>>
              \/ Len(b) >= cap /\ cap' = Grown(cap) /\ heap' = heap \cup {"objstack"}
  <2>1. Append(b, v) \in Seq(S \cup {v}) /\ Len(Append(b, v)) = Len(b) + 1
    BY <1>2, AppendStack
  <2>2. objs' \in Seq(S \cup {v}) /\ Len(objs') = k /\ k \in Nat
    BY <1>2, <1>5, <2>1
  <2>3. Len(objs') <= cap' /\ cap' \in Nat /\ cap' >= ObjBufferInit
        /\ ("objstack" \in heap' <=> cap' > ObjBufferInit)
    <3>1. ObjBufferInit \in Nat /\ ObjBufferInit > 0
      BY BufferAssumption
    <3>2. "objstack" \in heap <=> cap > ObjBufferInit
      BY <1>3 DEF IInv, CapacityOK, Active
    <3>3. CASE Len(b) < cap /\ UNCHANGED <<cap, heap>>
      BY <1>2, <1>3, <1>5, <2>1, <3>2, <3>3
    <3>4. CASE Len(b) >= cap /\ cap' = Grown(cap) /\ heap' = heap \cup {"objstack"}
      <4>1. cap' \in Nat /\ cap' > ObjBufferInit /\ cap' >= cap + 1
        BY <1>3, <3>1, <3>4 DEF Grown
      <4>2. Len(objs') = Len(objs) - n + 1
        BY <1>2, <1>5, <2>1
      <4>3. Len(objs') <= cap'
        BY <1>2, <1>3, <4>1, <4>2, RoomAfterGrowth
      <4>4. ObjBufferInit <= cap' /\ "objstack" \in heap'
        BY <3>1, <3>4, <4>1
      <4> QED
        BY <3>1, <4>1, <4>3, <4>4
    <3> QED
      BY <1>5, <3>3, <3>4
  <2>4. TypeOK'
    <3>1. refs' \in Int /\ lost' \in Nat /\ cap' \in Nat /\ err' = err /\ oom' = oom
      BY <1>3, <1>5, <2>2, <2>3
    <3>2. heap' \subseteq {"strbuf", "objstack"} /\ pc' \in Labels
      BY <1>5 DEF TypeOK, IInv, Labels
    <3> QED
      BY <1>5, <3>1, <3>2 DEF TypeOK, IInv, Container
  <2>5. ObjsStack'
    BY <2>2 DEF ObjsStack
  <2>6. LabelInv'
    BY <1>3, <1>5, <2>3 DEF LabelInv, Running, Top
  <2>7. StackAccount'
    BY <1>5, <2>2 DEF StackAccount, KeyPending, Running
  <2>8. RefsBalanced'
    BY <1>2, <1>3, <1>5, <2>2 DEF RefsBalanced, Running
  <2>9. CapacityOK'
    BY <2>3 DEF CapacityOK
  <2> QED
    BY <2>4, <2>5, <2>6, <2>7, <2>8, <2>9 DEF IInv
<1> QED
  BY <1>4, <1>5 DEF Push, b

-----------------------------------------------------------------------------
(* Every step keeps the invariant. *)

LEMMA ReadInput ==
    ASSUME TypeOK, NEW t \in Token, Read(t)
    PROVE  input' \in Seq(Token)
BY DEF TypeOK, Read

\* What the invariant says of an open container at a label of the reader.
LEMMA AtLabel ==
    ASSUME IInv, pc \in Running
    PROVE  /\ ctn \in Seq(Container) /\ ctn # <<>> /\ Len(ctn) \in Nat /\ Len(ctn) >= 1
           /\ Len(ctn) <= DecodeMaxRecursion
           /\ Top \in Container /\ Slots(Top) \in Nat
           /\ Len(objs) \in Nat /\ refs = Len(objs)
           /\ IsLayout(ctn, Len(objs), KeyPending)
           /\ Slots(Top) + KeyPending <= Len(objs)
<1> USE DEF IInv
<1>1. ctn \in Seq(Container) /\ IsLayout(ctn, Len(objs), KeyPending) /\ Len(ctn) <= DecodeMaxRecursion
  BY DEF TypeOK, StackAccount, Container
<1>2. ctn # <<>> /\ Len(ctn) \in Nat /\ Len(ctn) >= 1
  BY <1>1, EmptySeq DEF IsLayout
<1>3. Top \in Container
  BY <1>1, <1>2, ElementOfSeq DEF Top
<1>4. Len(objs) \in Nat
  BY LenProperties DEF ObjsStack
<1>5. refs = Len(objs)
  BY <1>4 DEF RefsBalanced, LabelInv, Running
<1>6. Len(objs) = Top.start + Slots(Top) + KeyPending
  BY <1>1 DEF IsLayout, Top
<1>7. KeyPending \in Nat
  BY DEF KeyPending
<1> QED
  BY <1>1, <1>2, <1>3, <1>4, <1>5, <1>6, <1>7, SlotsNat

\* The container stack with one more value counted, when the label expects it.
LEMMA CountedInv ==
    ASSUME IInv, pc \in ValueLabels
    PROVE  /\ Counted(ctn) \in Seq(Container) /\ Len(Counted(ctn)) = Len(ctn)
           /\ Counted(ctn)[Len(ctn)].arr = Top.arr
           /\ Top.arr <=> pc = "arr_val_begin"
           /\ IsLayout(Counted(ctn), Len(objs) + 1, 0)
<1>1. pc \in Running
  BY DEF ValueLabels, Running
<1>2. Top.arr \in BOOLEAN
  BY <1>1, AtLabel, SlotsNat
<1>3. (Top.arr <=> pc = "arr_val_begin") /\ KeyPending = IF Top.arr THEN 0 ELSE 1
  BY <1>2 DEF IInv, LabelInv, ValueLabels, KeyPending
<1>4. Len(ctn) \in 1 .. Len(ctn)
  BY <1>1, AtLabel
<1> QED
  BY <1>1, <1>3, <1>4, AtLabel, CountedStack, LayoutCount DEF Top

LEMMA ValueStepInv ==
    ASSUME IInv, pc \in ValueLabels, input' \in Seq(Token), NEW v, ValueStep(v)
    PROVE  IInv'
<1>1. pc \in Running /\ pc \in Active
  BY DEF ValueLabels, Running, Active, Labels
<1>2. CASE CreationFails("syntax")
  BY <1>1, <1>2, CreationFailsInv DEF Error
<1> DEFINE next == ValueEnd(pc = "arr_val_begin")
<1>3. CASE Push(objs, v, refs + 1, Counted(ctn), next, "syntax")
  <2>1. PICK S : objs \in Seq(S)
    BY DEF IInv, ObjsStack
  <2>2. Below(objs, 0) = objs
    BY <2>1, SubSeqFull, LenProperties DEF Below
  <2>3. next \in {"arr_val_end", "obj_val_end"} /\ (next = "arr_val_end" <=> Top.arr)
    BY CountedInv DEF ValueEnd
  <2>4. Push(Below(objs, 0), v, Len(objs) - 0 + 1, Counted(ctn), next, "syntax")
    BY <1>1, <1>3, <2>2, AtLabel
  <2> HIDE DEF next
  <2> QED
    BY <1>1, <2>3, <2>4, CountedInv, AtLabel, PushInv DEF Running, Error
<1> QED
  BY <1>2, <1>3 DEF ValueStep

LEMMA ReadKeyInv == IInv /\ ReadKey => IInv'
<1> SUFFICES ASSUME IInv, pc = "obj_key_begin", NEW k \in Keys, Read(k),
                    \/ CreationFails("syntax")
                    \/ Push(objs, StrValue(k), refs + 1, ctn, "obj_key_end", "syntax")
             PROVE  IInv'
  BY DEF ReadKey
<1>1. pc \in Running /\ pc \in Active
  BY DEF Running, Active, Labels
<1>2. input' \in Seq(Token)
  BY ReadInput DEF IInv, Token
<1>3. CASE CreationFails("syntax")
  BY <1>1, <1>2, <1>3, CreationFailsInv DEF Error
<1>4. CASE Push(objs, StrValue(k), refs + 1, ctn, "obj_key_end", "syntax")
  <2>1. PICK S : objs \in Seq(S)
    BY DEF IInv, ObjsStack
  <2>2. Below(objs, 0) = objs
    BY <2>1, SubSeqFull, LenProperties DEF Below
  <2>3. Push(Below(objs, 0), StrValue(k), Len(objs) - 0 + 1, ctn, "obj_key_end", "syntax")
    BY <1>1, <1>4, <2>2, AtLabel
  <2>4. ~ctn[Len(ctn)].arr
    BY DEF IInv, LabelInv, Top
  <2>5. IsLayout(ctn, Len(objs) - 0 + 1, 1)
    <3>1. IsLayout(ctn, Len(objs), 0) /\ Slots(Top) \in Nat /\ Top.start \in Nat
      BY <1>1, AtLabel, SlotsNat DEF KeyPending
    <3> QED
      BY <3>1, <1>1, AtLabel DEF IsLayout, Top
  <2> QED
    BY <1>1, <1>2, <2>3, <2>4, <2>5, AtLabel, PushInv DEF Running, Error
<1> QED
  BY <1>3, <1>4

\* Opening a container: nothing on the object stack yet, nothing counted.
LEMMA OpenedContainer ==
    ASSUME ObjsStack, NEW t
    PROVE  /\ Opened(t) \in Container /\ Opened(t).start = Len(objs)
           /\ Slots(Opened(t)) = 0 /\ (Opened(t).arr <=> t = "arr_open")
<1>1. Len(objs) \in Nat
  BY LenProperties DEF ObjsStack
<1> DEFINE a == t = "arr_open"
<1>2. a \in BOOLEAN /\ Opened(t) = [arr |-> a, len |-> 0, start |-> Len(objs)]
  BY DEF Opened
<1>3. a <=> t = "arr_open"
  OBVIOUS
<1> HIDE DEF a
<1>4. /\ Opened(t) \in Container /\ Opened(t).start = Len(objs)
      /\ Slots(Opened(t)) = 0
  BY <1>1, <1>2 DEF Container, Slots
<1>5. Opened(t).arr = a
  BY <1>2
<1> QED
  BY <1>3, <1>4, <1>5

LEMMA OpenContainerInv == IInv /\ OpenContainer => IInv'
<1> SUFFICES ASSUME IInv, OpenContainer PROVE IInv'
  OBVIOUS
<1>o. PICK t \in {"arr_open", "obj_open"} :
        /\ pc \in ValueLabels /\ Read(t)
        /\ \/ /\ CtnHasRoom
              /\ ctn' = Append(ctn, Opened(t))
              /\ pc' = IF t = "arr_open" THEN "arr_val_begin" ELSE "obj_key_begin"
              /\ UNCHANGED <<objs, cap, heap, refs, lost, err, oom>>
           \/ ~CtnHasRoom /\ Reject("depth")
  BY DEF OpenContainer
<1>1. pc \in Running /\ pc \in Active
  BY <1>o DEF ValueLabels, Running, Active, Labels
<1>2. input' \in Seq(Token)
  BY <1>o, ReadInput DEF IInv, Token, Punct
<1>3. CASE Reject("depth")
  BY <1>1, <1>2, <1>3, RejectInv DEF Error
<1>4. CASE /\ CtnHasRoom
           /\ ctn' = Append(ctn, Opened(t))
           /\ pc' = IF t = "arr_open" THEN "arr_val_begin" ELSE "obj_key_begin"
           /\ UNCHANGED <<objs, cap, heap, refs, lost, err, oom>>
  <2> DEFINE o == Opened(t)
  <2>1. ctn \in Seq(Container) /\ Len(ctn) \in Nat /\ Len(ctn) >= 1 /\ Len(objs) \in Nat
    BY <1>1, AtLabel
  <2>2. o \in Container /\ o.start = Len(objs) /\ Slots(o) = 0 /\ (o.arr <=> t = "arr_open")
    BY OpenedContainer DEF IInv
  <2>3. o = [arr |-> t = "arr_open", len |-> 0, start |-> Len(objs)]
    BY DEF Opened
  <2> HIDE DEF o
  <2> DEFINE d == Append(ctn, o)
  <2>4. ctn' = d /\ d \in Seq(Container) /\ Len(d) = Len(ctn) + 1 /\ d[Len(d)] = o
    <3>1. d \in Seq(Container \cup {o}) /\ Len(d) = Len(ctn) + 1 /\ d[Len(ctn) + 1] = o
      BY <2>1, AppendStack
    <3>3. Container \cup {o} = Container
      BY <2>2
    <3>2. ctn' = d
      BY <1>4 DEF o
    <3> QED
      BY <3>1, <3>2, <3>3
  <2> HIDE DEF d
  <2>5. TypeOK'
    <3>1. Len(ctn') <= DecodeMaxRecursion
      BY <1>4, <2>1, <2>4, RecursionAssumption DEF CtnHasRoom
    <3> QED
      BY <1>2, <1>4, <2>4, <3>1 DEF IInv, TypeOK, Labels, Running, Container
  <2>6. ObjsStack'
    BY <1>4 DEF IInv, ObjsStack
  <2>7. LabelInv'
    BY <1>1, <1>4, <2>2, <2>4 DEF IInv, LabelInv, Running, Top
  <2>8. StackAccount'
    <3>1. IsLayout(ctn, Len(objs), KeyPending) /\ KeyPending \in {0, 1}
      BY <1>1, AtLabel DEF KeyPending
    <3>2. KeyPending = IF ctn[Len(ctn)].arr THEN 0 ELSE 1
      BY <1>o DEF IInv, LabelInv, KeyPending, ValueLabels, Top
    <3>3. IsLayout(Append(ctn, o), Len(objs), 0)
      BY <2>1, <2>3, <3>1, <3>2, LayoutOpen
    <3> QED
      BY <1>4, <2>4, <3>3 DEF StackAccount, KeyPending, Running, d
  <2>9. RefsBalanced'
    BY <1>1, <1>4 DEF IInv, RefsBalanced, LabelInv, Running
  <2>10. CapacityOK'
    BY <1>1, <1>4 DEF IInv, CapacityOK, Running
  <2> QED
    BY <2>5, <2>6, <2>7, <2>8, <2>9, <2>10 DEF IInv
<1> QED
  BY <1>o, <1>3, <1>4

\* At the end of a container its values are on the stack and no key waits.
\* What the container becomes is counted in its parent, if it has one.
LEMMA CloseLayout ==
    ASSUME IInv, pc \in Running, KeyPending = 0
    PROVE  /\ CtnAfterClose \in Seq(Container) /\ Len(CtnAfterClose) <= DecodeMaxRecursion
           /\ AfterClose \in {"arr_val_end", "obj_val_end", "doc_end"}
           /\ AfterClose = "arr_val_end" => CtnAfterClose[Len(CtnAfterClose)].arr
           /\ AfterClose = "obj_val_end" => ~CtnAfterClose[Len(CtnAfterClose)].arr
           /\ AfterClose # "doc_end" =>
                IsLayout(CtnAfterClose, Len(objs) - Slots(Top) + 1, 0)
           /\ AfterClose = "doc_end" => Len(objs) - Slots(Top) + 1 = 1
<1>1. PICK n \in Nat : n = Len(ctn)
  BY AtLabel
<1>2. /\ ctn \in Seq(Container) /\ n \in Nat /\ n >= 1 /\ n <= DecodeMaxRecursion
      /\ Top \in Container /\ Slots(Top) \in Nat /\ Len(objs) \in Nat
      /\ IsLayout(ctn, Len(objs), 0)
  BY <1>1, AtLabel
<1>3. CASE n = 1
  <2>1. CtnAfterClose = <<>> /\ AfterClose = "doc_end"
    BY <1>1, <1>3 DEF CtnAfterClose, AfterClose
  <2>2. Len(objs) = Slots(Top)
    BY <1>1, <1>2, <1>3 DEF IsLayout, Top
  <2> QED
    BY <1>2, <2>1, <2>2, EmptySeq, RecursionAssumption
<1>4. CASE n > 1
  <2> DEFINE b == Below(ctn, 1)
  <2>1. CtnAfterClose = Counted(b) /\ AfterClose = ValueEnd(ctn[n - 1].arr)
    BY <1>1, <1>2, <1>4 DEF CtnAfterClose, AfterClose
  <2>2. b \in Seq(Container) /\ Len(b) = n - 1 /\ b[n - 1] = ctn[n - 1]
    <3> ctn \in Seq(Container) /\ 1 <= Len(ctn)
      BY <1>1, <1>2
    <3>1. /\ b \in Seq(Container) /\ Len(b) = Len(ctn) - 1
          /\ \A i \in 1 .. Len(ctn) - 1 : b[i] = ctn[i]
      BY BelowStack
    <3>2. n - 1 \in 1 .. Len(ctn) - 1
      BY <1>1, <1>4
    <3> QED
      BY <1>1, <3>1, <3>2
  <2>3. b # <<>>
    BY <1>1, <1>2, <1>4, <2>2, EmptySeq
  <2> HIDE DEF b
  <2>4. /\ Counted(b) \in Seq(Container) /\ Len(Counted(b)) = n - 1
        /\ Counted(b)[n - 1].arr = ctn[n - 1].arr
    <3>1. b \in Seq(Container) /\ b # <<>>
      BY <2>2, <2>3
    <3>2. /\ Counted(b) \in Seq(Container) /\ Len(Counted(b)) = Len(b)
          /\ \A i \in 1 .. Len(b) : Counted(b)[i].arr = b[i].arr
      BY <3>1, CountedStack
    <3>3. n - 1 \in 1 .. Len(b)
      BY <1>1, <1>4, <2>2
    <3> QED
      BY <2>2, <3>2, <3>3
  <2>5. IsLayout(Counted(b), Len(objs) - Slots(Top) + 1, 0)
    BY <1>1, <1>2, <1>4, LayoutClose DEF Top, b
  <2>6. ctn[n - 1].arr \in BOOLEAN
    BY <1>1, <1>2, <1>4, ElementOfSeq, SlotsNat
  <2>7. AfterClose \in {"arr_val_end", "obj_val_end"} /\ (AfterClose = "arr_val_end" <=> ctn[n - 1].arr)
    BY <2>1, <2>6 DEF ValueEnd
  <2>8. Len(CtnAfterClose) = n - 1 /\ n - 1 <= DecodeMaxRecursion
    BY <1>2, <2>1, <2>4, RecursionAssumption
  <2>9. AfterClose # "doc_end" /\ CtnAfterClose[Len(CtnAfterClose)].arr = ctn[n - 1].arr
    BY <2>1, <2>4, <2>7, <2>8
  <2> QED
    BY <2>1, <2>4, <2>5, <2>7, <2>8, <2>9
<1> QED
  BY <1>2, <1>3, <1>4

LEMMA PushContainerInv ==
    ASSUME IInv, pc \in Running, KeyPending = 0, input' \in Seq(Token),
           NEW v, NEW hook, PushContainer(v, hook)
    PROVE  IInv'
<1> DEFINE w == IF hook THEN Hooked(v) ELSE v
<1>1. Slots(Top) \in Nat /\ Slots(Top) <= Len(objs) /\ refs = Len(objs)
  BY AtLabel
<1>2. Push(Below(objs, Slots(Top)), w, Len(objs) - Slots(Top) + 1, CtnAfterClose,
           AfterClose, "memory")
  BY <1>1 DEF PushContainer, Remaining
<1> HIDE DEF w
<1> QED
  BY <1>1, <1>2, CloseLayout, PushInv DEF Running, Error

\* The steps that give the values of a container up: after a failing
\* _PyDict_SetItem_KnownHash and after a hook that raises.
LEMMA DropValuesInv ==
    ASSUME IInv, pc \in Running, KeyPending = 0, input' \in Seq(Token),
           NEW e \in Error, Fail(e), objs' = Remaining, refs' = refs - Slots(Top),
           oom' \in BOOLEAN, UNCHANGED <<ctn, cap, heap, lost>>
    PROVE  IInv'
<1>1. Slots(Top) \in Nat /\ Slots(Top) <= Len(objs) /\ refs = Len(objs) /\ Len(objs) \in Nat
  BY AtLabel
<1>2. PICK S : objs \in Seq(S)
  BY DEF IInv, ObjsStack
<1>3. objs' \in Seq(S) /\ Len(objs') = Len(objs) - Slots(Top)
  BY <1>1, <1>2, BelowStack DEF Remaining
<1>4. lost = 0 /\ Len(objs) <= cap /\ cap \in Nat /\ pc \in Active
  BY DEF IInv, LabelInv, Running, CapacityOK, TypeOK, Active, Labels
<1> QED
  BY <1>1, <1>3, <1>4, FailureInv DEF Fail

LEMMA EndArrayInv ==
    ASSUME IInv, pc \in {"arr_val_begin", "arr_val_end"}, input' \in Seq(Token), EndArray
    PROVE  IInv'
<1>1. pc \in Running /\ pc \in Active /\ KeyPending = 0
  BY DEF Running, Active, Labels, KeyPending
<1>2. CASE CreationFails("memory")
  BY <1>1, <1>2, CreationFailsInv DEF Error
<1>3. CASE HookFails
  <2>1. oom' \in BOOLEAN
    BY <1>3 DEF HookFails, IInv, TypeOK
  <2> QED
    BY <1>1, <1>3, <2>1, DropValuesInv DEF HookFails, Error
<1>4. CASE PushContainer(ListValue(Collected), ArrayHook)
  BY <1>1, <1>4, PushContainerInv
<1> QED
  BY <1>2, <1>3, <1>4 DEF EndArray

LEMMA EndObjectInv ==
    ASSUME IInv, pc \in {"obj_key_begin", "obj_val_end"}, input' \in Seq(Token), EndObject
    PROVE  IInv'
<1>1. pc \in Running /\ pc \in Active /\ KeyPending = 0
  BY DEF Running, Active, Labels, KeyPending
<1>2. CASE CreationFails("memory")
  BY <1>1, <1>2, CreationFailsInv DEF Error
<1>3. CASE /\ Fail("memory")
           /\ objs' = LeftAfterSetItem /\ refs' = refs - Slots(Top) /\ oom' = TRUE
           /\ UNCHANGED <<ctn, cap, heap, lost>>
  BY <1>1, <1>3, DropValuesInv DEF LeftAfterSetItem, Error
<1>4. CASE HookFails
  <2>1. oom' \in BOOLEAN
    BY <1>4 DEF HookFails, IInv, TypeOK
  <2> QED
    BY <1>1, <1>4, <2>1, DropValuesInv DEF HookFails, Error
<1>5. CASE PushContainer(DictValue(Collected), ObjectHook)
  BY <1>1, <1>5, PushContainerInv
<1> QED
  BY <1>2, <1>3, <1>4, <1>5 DEF EndObject

LEMMA CloseInv == IInv /\ (CloseArray \/ CloseObject) => IInv'
<1>1. ASSUME IInv, CloseArray PROVE IInv'
  <2>1. input' \in Seq(Token) /\ pc \in {"arr_val_begin", "arr_val_end"}
    BY <1>1, ReadInput DEF CloseArray, IInv, Token, Punct
  <2>2. pc \in Active
    BY <2>1 DEF Active, Labels, Running
  <2> QED
    BY <1>1, <2>1, <2>2, EndArrayInv, RejectInv DEF CloseArray, Error
<1>2. ASSUME IInv, CloseObject PROVE IInv'
  <2>1. input' \in Seq(Token) /\ pc \in {"obj_key_begin", "obj_val_end"}
    BY <1>2, ReadInput DEF CloseObject, IInv, Token, Punct
  <2>2. pc \in Active
    BY <2>1 DEF Active, Labels, Running
  <2> QED
    BY <1>2, <2>1, <2>2, EndObjectInv, RejectInv DEF CloseObject, Error
<1> QED
  BY <1>1, <1>2

LEMMA ReadValueInv == IInv /\ (ReadScalar \/ ReadString) => IInv'
<1>1. ASSUME IInv, ReadScalar PROVE IInv'
  BY <1>1, ReadInput, ValueStepInv DEF ReadScalar, IInv, Token
<1>2. ASSUME IInv, ReadString PROVE IInv'
  <2> PICK k \in Keys : Read(k) /\ ValueStep(StrValue(k)) /\ pc \in ValueLabels
    BY <1>2 DEF ReadString
  <2>1. input' \in Seq(Token)
    BY <1>2, ReadInput DEF IInv, Token
  <2> QED
    BY <1>2, <2>1, ValueStepInv
<1> QED
  BY <1>1, <1>2

LEMMA SeparatorInv == IInv /\ Separator => IInv'
<1> SUFFICES ASSUME IInv, Separator PROVE IInv'
  OBVIOUS
<1>1. PICK next \in {"arr_val_begin", "obj_key_begin", "obj_val_begin"} :
        /\ Goto(next)
        /\ pc = IF next = "arr_val_begin" THEN "arr_val_end"
                ELSE IF next = "obj_key_begin" THEN "obj_val_end" ELSE "obj_key_end"
  BY DEF Separator
<1>2. input' \in Seq(Token)
  BY ReadInput DEF Separator, IInv, Token, Punct
<1>3. TypeOK'
  BY <1>1, <1>2 DEF Goto, IInv, TypeOK, Labels, Running
<1>4. ObjsStack'
  BY <1>1 DEF Goto, IInv, ObjsStack
<1>5. LabelInv'
  BY <1>1 DEF Goto, IInv, LabelInv, Top
<1>6. StackAccount'
  BY <1>1 DEF Goto, IInv, StackAccount, KeyPending, Running
<1>7. RefsBalanced'
  BY <1>1 DEF Goto, IInv, RefsBalanced, LabelInv
<1>8. CapacityOK'
  BY <1>1 DEF Goto, IInv, CapacityOK
<1> QED
  BY <1>3, <1>4, <1>5, <1>6, <1>7, <1>8 DEF IInv

LEMMA RefusalInv == IInv /\ (NoDocument \/ Unexpected) => IInv'
<1>1. ASSUME IInv, NoDocument PROVE IInv'
  <2>1. /\ input' \in Seq(Token) /\ pc \in Active
        /\ Reject("syntax") \/ CreationFails("memory")
    BY <1>1, ReadInput DEF NoDocument, IInv, Token, Punct, Active, Labels
  <2> QED
    BY <1>1, <2>1, RejectInv, CreationFailsInv DEF Error
<1>2. ASSUME IInv, Unexpected PROVE IInv'
  <2>1. input' \in Seq(Token) /\ pc \in Active /\ Reject("syntax")
    BY <1>2, ReadInput DEF Unexpected, IInv, Active, Labels, Running
  <2> QED
    BY <1>2, <2>1, RejectInv DEF Error
<1> QED
  BY <1>1, <1>2

\* At the start nothing is on the stacks and nothing is owned.
LEMMA AtStart ==
    ASSUME IInv, pc = "start"
    PROVE  /\ objs = <<>> /\ Len(objs) = 0 /\ refs = 0 /\ lost = 0 /\ heap = {}
           /\ ctn = <<>> /\ pc \in Active
<1>1. objs = <<>> /\ Len(objs) = 0 /\ heap = {} /\ ctn = <<>> /\ lost = 0
  BY EmptySeq DEF IInv, LabelInv
<1> QED
  BY <1>1 DEF IInv, RefsBalanced, Active, Labels

LEMMA OpenRootInv == IInv /\ OpenRoot => IInv'
<1> SUFFICES ASSUME IInv, OpenRoot PROVE IInv'
  OBVIOUS
<1>o. PICK t \in {"arr_open", "obj_open"} :
        /\ Read(t)
        /\ \/ /\ heap' \in {heap, heap \cup {"strbuf"}}
              /\ ctn' = <<Opened(t)>>
              /\ pc' = IF t = "arr_open" THEN "arr_val_begin" ELSE "obj_key_begin"
              /\ UNCHANGED <<objs, cap, refs, lost, err, oom>>
           \/ CreationFails("memory")
  BY DEF OpenRoot
<1>1. objs = <<>> /\ Len(objs) = 0 /\ refs = 0 /\ lost = 0 /\ heap = {} /\ pc \in Active
      /\ pc = "start"
  BY AtStart DEF OpenRoot
<1>2. input' \in Seq(Token)
  BY <1>o, ReadInput DEF IInv, Token, Punct
<1>3. CASE CreationFails("memory")
  BY <1>1, <1>2, <1>3, CreationFailsInv DEF Error
<1>4. CASE /\ heap' \in {heap, heap \cup {"strbuf"}}
           /\ ctn' = <<Opened(t)>>
           /\ pc' = IF t = "arr_open" THEN "arr_val_begin" ELSE "obj_key_begin"
           /\ UNCHANGED <<objs, cap, refs, lost, err, oom>>
  <2> DEFINE o == Opened(t)
  <2>1. o \in Container /\ o.start = 0 /\ Slots(o) = 0 /\ (o.arr <=> t = "arr_open")
    BY <1>1, OpenedContainer DEF IInv
  <2> HIDE DEF o
  <2>2. ctn' \in Seq(Container) /\ Len(ctn') = 1 /\ ctn'[1] = o /\ ctn' # <<>>
    BY <1>4, <2>1 DEF o
  <2>3. TypeOK'
    <3>1. Len(ctn') <= DecodeMaxRecursion
      BY <2>2, RecursionAssumption
    <3>2. heap' \subseteq {"strbuf", "objstack"} /\ pc' \in Labels
      BY <1>1, <1>4 DEF Labels, Running
    <3> QED
      BY <1>2, <1>4, <2>2, <3>1, <3>2 DEF IInv, TypeOK, Container
  <2>4. ObjsStack'
    BY <1>4 DEF IInv, ObjsStack
  <2>5. LabelInv'
    BY <1>1, <1>4, <2>1, <2>2 DEF IInv, LabelInv, Top
  <2>6. StackAccount'
    <3>1. IsLayout(ctn', 0, 0)
      BY <2>1, <2>2 DEF IsLayout
    <3>2. KeyPending' = 0 /\ Len(objs') = 0 /\ pc' \notin {"doc_end", "single_end", "done"}
      BY <1>1, <1>4 DEF KeyPending
    <3> QED
      BY <3>1, <3>2 DEF StackAccount
  <2>7. RefsBalanced'
    BY <1>1, <1>4 DEF IInv, RefsBalanced
  <2>8. CapacityOK'
    BY <1>1, <1>4 DEF IInv, CapacityOK
  <2> QED
    BY <2>3, <2>4, <2>5, <2>6, <2>7, <2>8 DEF IInv
<1> QED
  BY <1>o, <1>3, <1>4

LEMMA SingleValueInv ==
    ASSUME IInv, pc = "start", input' \in Seq(Token), NEW v, SingleValue(v)
    PROVE  IInv'
<1>1. objs = <<>> /\ Len(objs) = 0 /\ refs = 0 /\ lost = 0 /\ heap = {}
  BY AtStart
<1>2. objs' \in Seq({v}) /\ Len(objs') = 1
  BY DEF SingleValue
<1>3. TypeOK'
  BY <1>1 DEF SingleValue, IInv, TypeOK, Labels
<1>4. ObjsStack'
  BY <1>2 DEF ObjsStack
<1>5. LabelInv'
  BY <1>1 DEF SingleValue, IInv, LabelInv
<1>6. StackAccount'
  BY <1>2 DEF SingleValue, StackAccount, Running
<1>7. RefsBalanced'
  BY <1>1, <1>2 DEF SingleValue, RefsBalanced
<1>8. CapacityOK'
  BY <1>1, <1>2, BufferAssumption DEF SingleValue, IInv, CapacityOK, LabelInv, TypeOK
<1> QED
  BY <1>3, <1>4, <1>5, <1>6, <1>7, <1>8 DEF IInv

LEMMA RootValueInv == IInv /\ (RootScalar \/ RootString) => IInv'
<1>1. ASSUME IInv, RootScalar PROVE IInv'
  <2>1. input' \in Seq(Token) /\ pc = "start" /\ pc \in Active
    BY <1>1, ReadInput DEF RootScalar, IInv, Token, Active, Labels
  <2> QED
    BY <1>1, <2>1, SingleValueInv, CreationFailsInv DEF RootScalar, Error
<1>2. ASSUME IInv, RootString PROVE IInv'
  <2>1. PICK k \in Keys :
          /\ Read(k)
          /\ \/ SingleValue(StrValue(k))
             \/ CreationFails("syntax") \/ CreationFails("memory")
             \/ /\ pc' = "wild" /\ oom' = TRUE
                /\ UNCHANGED <<ctn, objs, cap, heap, refs, lost, err>>
    BY <1>2 DEF RootString
  <2>2. input' \in Seq(Token) /\ pc = "start" /\ pc \in Active
    BY <1>2, <2>1, ReadInput DEF RootString, IInv, Token, Active, Labels
  <2>3. CASE SingleValue(StrValue(k)) \/ CreationFails("syntax") \/ CreationFails("memory")
    BY <1>2, <2>2, <2>3, SingleValueInv, CreationFailsInv DEF Error
  <2>4. CASE /\ pc' = "wild" /\ oom' = TRUE
             /\ UNCHANGED <<ctn, objs, cap, heap, refs, lost, err>>
    <3>1. objs = <<>> /\ Len(objs) = 0 /\ refs = 0 /\ lost = 0 /\ heap = {}
      BY <1>2, <2>2, AtStart
    <3>2. TypeOK'
      BY <1>2, <2>2, <2>4 DEF IInv, TypeOK, Labels
    <3>3. ObjsStack' /\ LabelInv'
      BY <1>2, <2>4, <3>1 DEF IInv, ObjsStack, LabelInv
    <3>4. StackAccount' /\ RefsBalanced' /\ CapacityOK'
      BY <1>2, <2>2, <2>4, <3>1 DEF IInv, StackAccount, RefsBalanced, CapacityOK, Running
    <3> QED
      BY <3>2, <3>3, <3>4 DEF IInv
  <2> QED
    BY <2>1, <2>3, <2>4
<1> QED
  BY <1>1, <1>2

\* What FreeBuffers leaves.
LEMMA AllFreed ==
    ASSUME IInv, pc \notin {"done", "failed"}, FreeBuffers
    PROVE  heap' = {}
BY DEF FreeBuffers, IInv, CapacityOK, TypeOK

LEMMA DocEndInv == IInv /\ DocEnd => IInv'
<1> SUFFICES ASSUME IInv, DocEnd PROVE IInv'
  OBVIOUS
<1>1. pc \in {"doc_end", "single_end"} /\ pc \in Active
  BY DEF DocEnd, Active, Labels
<1>2. PICK t \in Token :
        /\ Read(t)
        /\ \/ Reject("syntax")
           \/ /\ pc' = "done" /\ FreeBuffers
              /\ UNCHANGED <<ctn, objs, cap, refs, lost, err, oom>>
  BY DEF DocEnd
<1>3. input' \in Seq(Token)
  BY <1>2, ReadInput DEF IInv
<1>4. CASE Reject("syntax")
  BY <1>1, <1>3, <1>4, RejectInv DEF Error
<1>5. CASE /\ pc' = "done" /\ FreeBuffers
           /\ UNCHANGED <<ctn, objs, cap, refs, lost, err, oom>>
  <2>1. heap' = {} /\ Len(objs) = 1 /\ lost = 0
    BY <1>1, <1>5, AllFreed DEF IInv, StackAccount, LabelInv
  <2>2. TypeOK'
    BY <1>3, <1>5, <2>1 DEF IInv, TypeOK, Labels
  <2>3. ObjsStack' /\ LabelInv'
    BY <1>5, <2>1 DEF IInv, ObjsStack, LabelInv
  <2>4. StackAccount' /\ RefsBalanced' /\ CapacityOK'
    BY <1>1, <1>5, <2>1 DEF IInv, StackAccount, RefsBalanced, CapacityOK, Running
  <2> QED
    BY <2>2, <2>3, <2>4 DEF IInv
<1> QED
  BY <1>2, <1>4, <1>5

LEMMA FailedCleanupInv == IInv /\ FailedCleanup => IInv'
<1> SUFFICES ASSUME IInv, FailedCleanup PROVE IInv'
  OBVIOUS
<1>1. heap' = {}
  BY AllFreed DEF FailedCleanup
<1>2. objs' = <<>> /\ Len(objs') = 0 /\ Len(objs) \in Nat /\ refs' = lost
  BY EmptySeq, LenProperties DEF FailedCleanup, IInv, RefsBalanced, ObjsStack, TypeOK
<1>3. TypeOK'
  BY <1>1, <1>2 DEF FailedCleanup, IInv, TypeOK, Labels
<1>4. ObjsStack'
  BY <1>2, EmptySeq DEF ObjsStack
<1>5. LabelInv' /\ StackAccount'
  BY <1>2 DEF FailedCleanup, IInv, LabelInv, StackAccount, Running
<1>6. RefsBalanced' /\ CapacityOK'
  BY <1>1, <1>2 DEF FailedCleanup, IInv, RefsBalanced, CapacityOK, TypeOK
<1> QED
  BY <1>3, <1>4, <1>5, <1>6 DEF IInv

LEMMA StutterInv == IInv /\ UNCHANGED vars => IInv'
BY DEF vars, IInv, TypeOK, ObjsStack, LabelInv, StackAccount, RefsBalanced, CapacityOK,
       KeyPending, Top

-----------------------------------------------------------------------------
(* Keys.  StackAccount tells how many slots each container takes; that every   *)
(* second slot of an object is a string, whether or not its value is there     *)
(* yet, is inductive with it.                                                  *)

\* Where the slots of the i-th of the containers c end on the object stack s.
FrameEnd(c, s, i) == IF i = Len(c) THEN Len(s) ELSE c[i + 1].start

KeysIn(c, s) ==
    /\ \A i, m \in 1 .. Len(c) : i <= m => c[i].start <= c[m].start
    /\ \A i \in 1 .. Len(c) : ~c[i].arr =>
        \A j \in Nat : c[i].start + 2 * j + 1 <= FrameEnd(c, s, i)
                       => s[c[i].start + 2 * j + 1].kind = "str"

KeysInv == pc \in Running => KeysIn(ctn, objs)

\* A push on the slots of the innermost container: of a value, of a value after
\* its key, or of a key.
LEMMA KeysAfterPush ==
    ASSUME NEW S, NEW s \in Seq(S), NEW v, NEW c \in Seq(Container), NEW p \in {0, 1},
           IsLayout(c, Len(s), p), KeysIn(c, s),
           c[Len(c)].arr \/ p = 1 \/ v.kind = "str",
           NEW d, Len(d) = Len(c),
           \A i \in 1 .. Len(c) : d[i].arr = c[i].arr /\ d[i].start = c[i].start
    PROVE  KeysIn(d, Append(s, v))
<1>1. Len(c) \in 1 .. Len(c) /\ \A i \in 1 .. Len(c) : c[i] \in Container
  BY ElementOfSeq, EmptySeq DEF IsLayout
<1>2. Len(s) \in Nat /\ Len(Append(s, v)) = Len(s) + 1
  BY AppendStack, LenProperties
<1>3. \A k \in 1 .. Len(s) : Append(s, v)[k] = s[k]
  <2>1. s \in Seq(S \cup {v})
    BY SeqMonotonic
  <2> QED
    BY <2>1
<1>4. Append(s, v)[Len(s) + 1] = v
  BY AppendStack
<1> SUFFICES ASSUME NEW i \in 1 .. Len(c), ~c[i].arr, NEW j \in Nat,
                    c[i].start + 2 * j + 1 <= FrameEnd(d, Append(s, v), i)
             PROVE  Append(s, v)[c[i].start + 2 * j + 1].kind = "str"
  <2>1. \A i, m \in 1 .. Len(d) : i <= m => d[i].start <= d[m].start
    BY DEF KeysIn
  <2>2. \A i \in 1 .. Len(c) : d[i].start = c[i].start /\ d[i].arr = c[i].arr
    OBVIOUS
  <2> QED
    BY <2>1, <2>2 DEF KeysIn
<1>5. c[i].start \in Nat /\ c[i].start + 2 * j + 1 \in Nat \ {0}
  BY <1>1, SlotsNat
<1> DEFINE k == c[i].start + 2 * j + 1
<1>6. CASE k <= FrameEnd(c, s, i)
  <2>1. s[k].kind = "str"
    BY <1>6 DEF KeysIn
  <2>2. k <= Len(s)
    <3>1. CASE i = Len(c)
      BY <1>6, <3>1 DEF FrameEnd
    <3>2. CASE i # Len(c)
      <4>1. i + 1 \in 1 .. Len(c) /\ i + 1 - 1 = i
        BY <1>1, <3>2
      <4>2. c[i + 1].start <= c[Len(c)].start
        BY <1>1, <4>1 DEF KeysIn
      <4>3. c[i + 1].start \in Nat /\ c[Len(c)].start \in Nat /\ Slots(c[Len(c)]) \in Nat
        BY <1>1, <4>1, SlotsNat
      <4>4. c[Len(c)].start <= Len(s)
        BY <1>2, <4>3 DEF IsLayout
      <4> QED
        BY <1>2, <1>5, <1>6, <3>2, <4>1, <4>2, <4>3, <4>4 DEF FrameEnd
    <3> QED
      BY <3>1, <3>2
  <2> QED
    BY <1>2, <1>3, <1>5, <2>1, <2>2
<1>7. CASE ~(k <= FrameEnd(c, s, i))
  <2>1. i = Len(c)
    <3>1. ASSUME i # Len(c) PROVE FALSE
      <4>1. i + 1 \in 1 .. Len(c)
        BY <1>1, <3>1
      <4>2. d[i + 1].start = c[i + 1].start
        BY <4>1
      <4> QED
        BY <1>7, <3>1, <4>2 DEF FrameEnd
    <3> QED
      BY <3>1
  <2>2. k = Len(s) + 1
    BY <1>2, <1>5, <1>7, <2>1 DEF FrameEnd
  <2>3. Len(s) = c[i].start + 2 * c[i].len + p /\ c[i].len \in Nat
    BY <1>1, <2>1, SlotsNat DEF IsLayout, Slots
  <2>4. p # 1
    <3>1. ASSUME p = 1 PROVE FALSE
      <4>1. c[i].start + 2 * j + 1 = c[i].start + 2 * c[i].len + 1 + 1
        BY <2>2, <2>3, <3>1
      <4>2. \A a, l, m \in Nat : a + 2 * l + 1 # a + 2 * m + 1 + 1
        OBVIOUS
      <4>3. c[i].start \in Nat /\ c[i].len \in Nat
        BY <1>5, <2>3
      <4> QED
        BY <4>1, <4>2, <4>3
    <3> QED
      BY <3>1
  <2>5. v.kind = "str"
    BY <2>1, <2>4
  <2> QED
    BY <1>4, <2>2, <2>5
<1> QED
  BY <1>6, <1>7

\* A container opened inside the innermost one.
LEMMA KeysAfterOpen ==
    ASSUME NEW S, NEW s \in Seq(S), NEW c \in Seq(Container), NEW p \in {0, 1},
           IsLayout(c, Len(s), p), KeysIn(c, s), NEW e \in Container, e.start = Len(s)
    PROVE  KeysIn(Append(c, e), s)
<1>1. Len(c) \in 1 .. Len(c) /\ \A i \in 1 .. Len(c) : c[i] \in Container
  BY ElementOfSeq, EmptySeq DEF IsLayout
<1>2. Len(s) \in Nat
  BY LenProperties
<1> DEFINE d == Append(c, e)
<1>3. Len(d) = Len(c) + 1 /\ d[Len(c) + 1] = e /\ \A i \in 1 .. Len(c) : d[i] = c[i]
  BY <1>1
<1> HIDE DEF d
<1>4. c[Len(c)].start \in Nat /\ c[Len(c)].start <= Len(s)
  <2>1. c[Len(c)].start \in Nat /\ Slots(c[Len(c)]) \in Nat
    BY <1>1, SlotsNat
  <2> QED
    BY <1>2, <2>1 DEF IsLayout
<1>5. \A i \in 1 .. Len(c) : c[i].start \in Nat /\ c[i].start <= Len(s)
  <2> SUFFICES ASSUME NEW i \in 1 .. Len(c) PROVE c[i].start \in Nat /\ c[i].start <= Len(s)
    OBVIOUS
  <2>1. c[i].start \in Nat
    BY <1>1, SlotsNat
  <2>2. c[i].start <= c[Len(c)].start
    BY <1>1 DEF KeysIn
  <2> QED
    BY <1>2, <1>4, <2>1, <2>2
<1>6. ASSUME NEW i \in 1 .. Len(d), NEW m \in 1 .. Len(d), i <= m
      PROVE  d[i].start <= d[m].start
  <2>1. CASE m \in 1 .. Len(c)
    <3>1. i \in 1 .. Len(c)
      BY <1>1, <1>6, <2>1
    <3> QED
      BY <1>3, <1>6, <2>1, <3>1 DEF KeysIn
  <2>2. CASE m = Len(c) + 1
    <3>1. i = Len(c) + 1 \/ i \in 1 .. Len(c)
      BY <1>1, <1>3
    <3> QED
      BY <1>2, <1>3, <1>5, <2>2, <3>1
  <2> QED
    BY <1>1, <1>3, <2>1, <2>2
<1>7. ASSUME NEW i \in 1 .. Len(d), ~d[i].arr, NEW j \in Nat,
             d[i].start + 2 * j + 1 <= FrameEnd(d, s, i)
      PROVE  s[d[i].start + 2 * j + 1].kind = "str"
  <2>1. CASE i = Len(c) + 1
    <3>1. FrameEnd(d, s, i) = Len(s) /\ d[i].start = Len(s)
      BY <1>3, <2>1 DEF FrameEnd
    <3> QED
      BY <1>2, <1>7, <3>1
  <2>2. CASE i \in 1 .. Len(c)
    <3>1. FrameEnd(d, s, i) = FrameEnd(c, s, i)
      BY <1>1, <1>3, <2>2 DEF FrameEnd
    <3>2. d[i] = c[i]
      BY <1>3, <2>2
    <3> QED
      BY <1>7, <2>2, <3>1, <3>2 DEF KeysIn
  <2> QED
    BY <1>1, <1>3, <2>1, <2>2
<1>8. KeysIn(d, s)
  BY <1>6, <1>7 DEF KeysIn
<1> QED
  BY <1>8 DEF d

\* A key of a container lies below where the next container starts, and so below the
\* start of the innermost one.
LEMMA KeyBelow ==
    ASSUME NEW a \in Nat, NEW b \in Nat, NEW e \in Nat, NEW j \in Nat,
           a + 2 * j + 1 <= b, b <= e
    PROVE  a + 2 * j + 1 \in 1 .. e
  OBVIOUS

\* The innermost container closed, its slots dropped.
LEMMA KeysAfterDrop ==
    ASSUME NEW S, NEW s \in Seq(S), NEW c \in Seq(Container), Len(c) > 1,
           IsLayout(c, Len(s), 0), KeysIn(c, s)
    PROVE  KeysIn(Below(c, 1), Below(s, Slots(c[Len(c)])))
<1>1. Len(c) \in 1 .. Len(c) /\ \A i \in 1 .. Len(c) : c[i] \in Container
  BY ElementOfSeq, EmptySeq DEF IsLayout
<1>2. /\ Len(s) \in Nat /\ Slots(c[Len(c)]) \in Nat /\ c[Len(c)].start \in Nat
      /\ Len(s) = c[Len(c)].start + Slots(c[Len(c)])
  BY <1>1, SlotsNat, LenProperties DEF IsLayout
<1> DEFINE d == Below(c, 1)
           r == Below(s, Slots(c[Len(c)]))
<1>3. Len(d) = Len(c) - 1 /\ \A i \in 1 .. Len(c) - 1 : d[i] = c[i]
  <2> 1 <= Len(c)
    BY <1>1
  <2> QED
    BY BelowStack
<1>4. Len(r) = c[Len(c)].start /\ \A k \in 1 .. c[Len(c)].start : r[k] = s[k]
  <2>1. Slots(c[Len(c)]) <= Len(s) /\ Len(s) - Slots(c[Len(c)]) = c[Len(c)].start
    BY <1>2
  <2>2. /\ Len(r) = Len(s) - Slots(c[Len(c)])
        /\ \A k \in 1 .. Len(s) - Slots(c[Len(c)]) : r[k] = s[k]
    BY <1>2, <2>1, BelowStack
  <2> QED
    BY <2>1, <2>2
<1> HIDE DEF d, r
<1>5. \A i \in 1 .. Len(d) : i \in 1 .. Len(c) /\ d[i] = c[i]
  BY <1>1, <1>3
<1>6. ASSUME NEW i \in 1 .. Len(d), ~d[i].arr, NEW j \in Nat,
             d[i].start + 2 * j + 1 <= FrameEnd(d, r, i)
      PROVE  r[d[i].start + 2 * j + 1].kind = "str"
  <2>1. d[i] = c[i] /\ i \in 1 .. Len(c) /\ i + 1 \in 1 .. Len(c) /\ i # Len(c)
    BY <1>1, <1>3
  <2>2. FrameEnd(d, r, i) = c[i + 1].start
    <3>1. CASE i = Len(d)
      BY <1>1, <1>3, <1>4, <3>1 DEF FrameEnd
    <3>2. CASE i # Len(d)
      <4>1. i + 1 \in 1 .. Len(d)
        BY <1>1, <1>3, <3>2
      <4> QED
        BY <1>5, <3>2, <4>1 DEF FrameEnd
    <3> QED
      BY <3>1, <3>2
  <2>3. FrameEnd(c, s, i) = c[i + 1].start
    BY <2>1 DEF FrameEnd
  <2>4. s[c[i].start + 2 * j + 1].kind = "str"
    BY <1>6, <2>1, <2>2, <2>3 DEF KeysIn
  <2>5. c[i + 1].start <= c[Len(c)].start /\ c[i + 1].start \in Nat /\ c[i].start \in Nat
    BY <1>1, <2>1, SlotsNat, SMTT(30) DEF KeysIn
  <2>6. c[i].start + 2 * j + 1 \in 1 .. c[Len(c)].start
    <3>1. c[i].start + 2 * j + 1 <= c[i + 1].start
      BY <1>6, <2>1, <2>2
    <3>2. c[Len(c)].start \in Nat
      BY <1>2
    <3> QED
      BY <2>5, <3>1, <3>2, KeyBelow
  <2> QED
    BY <1>4, <2>1, <2>4, <2>6
<1>7. \A i, m \in 1 .. Len(d) : i <= m => d[i].start <= d[m].start
  BY <1>5 DEF KeysIn
<1>8. KeysIn(d, r)
  BY <1>6, <1>7 DEF KeysIn
<1> QED
  BY <1>8 DEF d, r

\* A push that does not fail.
LEMMA PushDone ==
    ASSUME NEW below, NEW v, NEW owned, NEW c, NEW next, NEW e,
           Push(below, v, owned, c, next, e), pc' \in Running
    PROVE  objs' = Append(below, v) /\ ctn' = c
BY DEF Push, Fail, Running

\* A value or key is pushed on the stack as it is.
LEMMA PushHereKeys ==
    ASSUME IInv, KeysInv, pc \in Running, NEW v, NEW owned, NEW c, NEW next, NEW e,
           Push(objs, v, owned, c, next, e),
           c = ctn \/ c = Counted(ctn), KeyPending = 1 \/ Top.arr \/ v.kind = "str"
    PROVE  KeysInv'
<1> SUFFICES ASSUME pc' \in Running PROVE KeysIn(ctn', objs')
  BY DEF KeysInv
<1>1. PICK S : objs \in Seq(S)
  BY DEF IInv, ObjsStack
<1>2. ctn \in Seq(Container) /\ ctn # <<>> /\ IsLayout(ctn, Len(objs), KeyPending)
  BY AtLabel
<1>3. KeyPending \in {0, 1} /\ KeysIn(ctn, objs)
  BY DEF KeyPending, KeysInv
<1>4. Len(c) = Len(ctn) /\ \A i \in 1 .. Len(ctn) : c[i].arr = ctn[i].arr /\ c[i].start = ctn[i].start
  BY <1>2, CountedStack
<1>5. objs' = Append(objs, v) /\ ctn' = c
  BY PushDone
<1>6. ctn[Len(ctn)].arr \/ KeyPending = 1 \/ v.kind = "str"
  BY DEF Top
<1>7. KeysIn(c, Append(objs, v))
  BY <1>1, <1>2, <1>3, <1>4, <1>6, KeysAfterPush
<1> QED
  BY <1>5, <1>7

LEMMA ReadKeys == IInv /\ KeysInv /\ (ReadScalar \/ ReadString \/ ReadKey) => KeysInv'
<1>1. ASSUME IInv, KeysInv, pc \in ValueLabels, NEW v, ValueStep(v) PROVE KeysInv'
  <2>1. pc \in Running
    BY <1>1 DEF ValueLabels, Running
  <2>2. KeyPending = 1 \/ Top.arr
    BY <1>1 DEF IInv, LabelInv, ValueLabels, KeyPending
  <2>3. CASE CreationFails("syntax")
    BY <2>3 DEF CreationFails, Fail, KeysInv, Running
  <2>4. CASE Push(objs, v, refs + 1, Counted(ctn), ValueEnd(pc = "arr_val_begin"), "syntax")
    BY <1>1, <2>1, <2>2, <2>4, PushHereKeys
  <2> QED
    BY <1>1, <2>3, <2>4 DEF ValueStep
<1>2. ASSUME IInv, KeysInv, pc = "obj_key_begin", NEW k \in Keys,
             \/ CreationFails("syntax")
             \/ Push(objs, StrValue(k), refs + 1, ctn, "obj_key_end", "syntax")
      PROVE  KeysInv'
  <2>1. pc \in Running /\ StrValue(k).kind = "str"
    BY <1>2 DEF Running, StrValue
  <2>2. CASE CreationFails("syntax")
    BY <2>2 DEF CreationFails, Fail, KeysInv, Running
  <2>3. CASE Push(objs, StrValue(k), refs + 1, ctn, "obj_key_end", "syntax")
    BY <1>2, <2>1, <2>3, PushHereKeys
  <2> QED
    BY <1>2, <2>2, <2>3
<1> QED
  BY <1>1, <1>2 DEF ReadScalar, ReadString, ReadKey

LEMMA OpenKeys == IInv /\ KeysInv /\ (OpenRoot \/ OpenContainer) => KeysInv'
<1>1. ASSUME IInv, OpenRoot PROVE KeysInv'
  <2> SUFFICES ASSUME pc' \in Running PROVE KeysIn(ctn', objs')
    BY DEF KeysInv
  <2>1. PICK t : ctn' = <<Opened(t)>> /\ objs' = objs
    BY <1>1 DEF OpenRoot, CreationFails, Fail, Running
  <2>2. objs = <<>>
    BY <1>1 DEF OpenRoot, IInv, LabelInv
  <2>3. Len(ctn') = 1 /\ ctn'[1].start = 0 /\ Len(objs') = 0
    BY <2>1, <2>2 DEF Opened
  <2>4. \A i \in 1 .. Len(ctn') : i = 1
    BY <2>3
  <2> QED
    BY <2>3, <2>4 DEF KeysIn, FrameEnd
<1>2. ASSUME IInv, KeysInv, OpenContainer PROVE KeysInv'
  <2> SUFFICES ASSUME pc' \in Running PROVE KeysIn(ctn', objs')
    BY DEF KeysInv
  <2>1. PICK t : ctn' = Append(ctn, Opened(t)) /\ objs' = objs
    BY <1>2 DEF OpenContainer, Reject, Fail, Running
  <2>2. pc \in Running
    BY <1>2 DEF OpenContainer, ValueLabels, Running
  <2>3. PICK S : objs \in Seq(S)
    BY <1>2 DEF IInv, ObjsStack
  <2>4. Len(objs) \in Nat
    BY <1>2, <2>2, AtLabel
  <2>5. Opened(t) \in Container /\ Opened(t).start = Len(objs)
    BY <2>4 DEF Opened, Container
  <2>6. KeyPending \in {0, 1} /\ KeysIn(ctn, objs)
    BY <1>2, <2>2 DEF KeyPending, KeysInv
  <2>7. ctn \in Seq(Container) /\ IsLayout(ctn, Len(objs), KeyPending)
    BY <1>2, <2>2, AtLabel
  <2> QED
    BY <2>1, <2>3, <2>5, <2>6, <2>7, KeysAfterOpen
<1> QED
  BY <1>1, <1>2

LEMMA CloseKeys == IInv /\ KeysInv /\ (CloseArray \/ CloseObject) => KeysInv'
<1> SUFFICES ASSUME IInv, KeysInv, CloseArray \/ CloseObject, pc' \in Running
             PROVE  KeysIn(ctn', objs')
  BY DEF KeysInv
<1>1. pc \in Running /\ KeyPending = 0
  BY DEF CloseArray, CloseObject, Running, KeyPending
<1>2. \E v, hook : PushContainer(v, hook)
  BY DEF CloseArray, CloseObject, EndArray, EndObject, CreationFails, HookFails, Reject,
         Fail, Running
<1>3. PICK v, hook : PushContainer(v, hook)
  BY <1>2
<1> DEFINE w == IF hook THEN Hooked(v) ELSE v
<1>4. objs' = Append(Remaining, w) /\ ctn' = CtnAfterClose /\ pc' = AfterClose
  BY <1>3, PushDone DEF PushContainer, Push, Fail, Running
<1>5. /\ ctn \in Seq(Container) /\ Len(ctn) \in Nat /\ Len(ctn) >= 1 /\ Len(objs) \in Nat
      /\ IsLayout(ctn, Len(objs), 0) /\ KeysIn(ctn, objs)
      /\ Slots(Top) \in Nat /\ Slots(Top) <= Len(objs)
  BY <1>1, AtLabel DEF KeysInv
<1>6. Len(ctn) > 1 /\ CtnAfterClose = Counted(Below(ctn, 1))
  <2>1. pc' # "doc_end"
    BY DEF Running
  <2>2. Len(ctn) # 1
    BY <1>4, <2>1 DEF AfterClose
  <2>3. CtnAfterClose = Counted(Below(ctn, 1))
    BY <2>2 DEF CtnAfterClose
  <2>4. \A n \in Nat : n >= 1 /\ n # 1 => n > 1
    OBVIOUS
  <2>5. Len(ctn) > 1
    BY <1>5, <2>2, <2>4
  <2> QED
    BY <2>3, <2>5
<1>7. PICK S : objs \in Seq(S)
  BY DEF IInv, ObjsStack
<1> DEFINE b == Below(ctn, 1)
<1>8. /\ b \in Seq(Container) /\ Len(b) = Len(ctn) - 1
      /\ \A i \in 1 .. Len(ctn) - 1 : b[i] = ctn[i]
  BY <1>5, BelowStack
<1>9. b # <<>>
  BY <1>5, <1>6, <1>8
<1>10. Remaining \in Seq(S) /\ Len(Remaining) = Len(objs) - Slots(Top)
  BY <1>5, <1>7, BelowStack DEF Remaining
<1>11. KeysIn(b, Remaining)
  BY <1>5, <1>6, <1>7, KeysAfterDrop DEF Remaining, Top
<1> HIDE DEF b, w
<1>12. ctn[Len(ctn) - 1].arr \in BOOLEAN /\ b[Len(b)] = ctn[Len(ctn) - 1]
  <2>1. Len(ctn) - 1 \in 1 .. Len(ctn) - 1 /\ Len(ctn) - 1 \in 1 .. Len(ctn)
    BY <1>5, <1>6
  <2> QED
    BY <1>5, <1>8, <2>1, ElementOfSeq, SlotsNat
<1>13. \E p \in {0, 1} : IsLayout(b, Len(Remaining), p) /\ (b[Len(b)].arr \/ p = 1)
  <2> DEFINE last == ctn[Len(ctn)]
             up == ctn[Len(ctn) - 1]
             p == IF up.arr THEN 0 ELSE 1
  <2>1. Len(ctn) - 1 \in 1 .. Len(ctn) - 1 /\ Len(ctn) - 1 + 1 = Len(ctn)
    BY <1>5, <1>6
  <2>2. last.start = up.start + Slots(up) + p
    BY <1>5, <2>1 DEF IsLayout
  <2>3. Len(objs) = last.start + Slots(last) /\ last.start \in Nat /\ Slots(last) \in Nat
    <3>1. last \in Container
      BY <1>5, ElementOfSeq
    <3> QED
      BY <1>5, <3>1, SlotsNat DEF IsLayout
  <2>4. Len(Remaining) = last.start
    BY <1>10, <2>3 DEF Top
  <2>5. \A i \in 1 .. Len(b) - 1 :
            b[i + 1].start = b[i].start + Slots(b[i]) + (IF b[i].arr THEN 0 ELSE 1)
    <3> SUFFICES ASSUME NEW i \in 1 .. Len(b) - 1
                 PROVE  b[i + 1].start = b[i].start + Slots(b[i]) + (IF b[i].arr THEN 0 ELSE 1)
      OBVIOUS
    <3>1. i \in 1 .. Len(ctn) - 1 /\ i + 1 \in 1 .. Len(ctn) - 1
      BY <1>5, <1>8
    <3> QED
      BY <1>5, <1>8, <3>1 DEF IsLayout
  <2>6. b[1].start = 0
    <3>1. 1 \in 1 .. Len(ctn) - 1
      BY <1>5, <1>6
    <3> QED
      BY <1>5, <1>8, <3>1 DEF IsLayout
  <2>7. IsLayout(b, Len(Remaining), p)
    BY <1>9, <1>12, <2>2, <2>4, <2>5, <2>6 DEF IsLayout
  <2>8. p \in {0, 1} /\ (b[Len(b)].arr \/ p = 1)
    BY <1>12
  <2> HIDE DEF p
  <2> QED
    BY <2>7, <2>8
<1>14. /\ Len(Counted(b)) = Len(b)
       /\ \A i \in 1 .. Len(b) : Counted(b)[i].arr = b[i].arr /\ Counted(b)[i].start = b[i].start
  BY <1>8, <1>9, CountedStack
<1>15. KeysIn(Counted(b), Append(Remaining, w))
  BY <1>8, <1>10, <1>11, <1>13, <1>14, KeysAfterPush
<1> QED
  BY <1>4, <1>6, <1>15 DEF b

LEMMA OtherKeys ==
    ASSUME IInv, KeysInv,
           \/ NoDocument \/ RootScalar \/ RootString \/ Separator \/ Unexpected
           \/ DocEnd \/ FailedCleanup \/ UNCHANGED vars
    PROVE  KeysInv'
<1> SUFFICES ASSUME pc' \in Running PROVE KeysIn(ctn', objs')
  BY DEF KeysInv
<1>1. pc \in Running /\ UNCHANGED <<ctn, objs>>
  BY DEF NoDocument, RootScalar, RootString, SingleValue, Separator, Goto, Unexpected, DocEnd,
         FailedCleanup, Reject, CreationFails, Fail, vars, Running
<1> QED
  BY <1>1 DEF KeysInv

-----------------------------------------------------------------------------
(* The theorems. *)

\* What the runs check of the reader on small documents holds for every document,
\* recursion limit and buffer size, with and without hooks, and wherever an
\* allocation or a hook fails.
THEOREM InductiveInvariant == Spec => []IInv
<1>1. Init => IInv
  BY InitInv
<1>2. IInv /\ [Next]_vars => IInv'
  <2> SUFFICES ASSUME IInv, [Next]_vars PROVE IInv'
    OBVIOUS
  <2> USE DEF Next
  <2>1. CASE NoDocument \/ Unexpected
    BY <2>1, RefusalInv
  <2>2. CASE OpenRoot
    BY <2>2, OpenRootInv
  <2>3. CASE RootScalar \/ RootString
    BY <2>3, RootValueInv
  <2>4. CASE ReadScalar \/ ReadString
    BY <2>4, ReadValueInv
  <2>5. CASE ReadKey
    BY <2>5, ReadKeyInv
  <2>6. CASE OpenContainer
    BY <2>6, OpenContainerInv
  <2>7. CASE CloseArray \/ CloseObject
    BY <2>7, CloseInv
  <2>8. CASE Separator
    BY <2>8, SeparatorInv
  <2>9. CASE DocEnd
    BY <2>9, DocEndInv
  <2>10. CASE FailedCleanup
    BY <2>10, FailedCleanupInv
  <2>11. CASE Returned \/ UNCHANGED vars
    BY <2>11, StutterInv DEF Returned
  <2> QED
    BY <2>1, <2>2, <2>3, <2>4, <2>5, <2>6, <2>7, <2>8, <2>9, <2>10, <2>11
<1> QED
  BY <1>1, <1>2, PTL DEF Spec

\* The reader's variables stay in their ranges; the container stack never
\* outgrows decoder_ctx_container_buffer.
THEOREM TypeCorrect == Spec => []TypeOK
<1>1. IInv => TypeOK
  BY DEF IInv
<1> QED
  BY <1>1, InductiveInvariant, PTL

\* decode_arr and decode_obj pop exactly the values of their container, and one
\* object is left when the document ends.
THEOREM StackAccounted == Spec => []StackAccount
<1>1. IInv => StackAccount
  BY DEF IInv
<1> QED
  BY <1>1, InductiveInvariant, PTL

\* No failure path drops a reference twice or keeps one, but for the object that
\* a failing growth of the object stack abandons; no buffer outlives the call.
THEOREM ReferencesBalanced == Spec => []RefsBalanced
<1>1. IInv => RefsBalanced
  BY DEF IInv
<1> QED
  BY <1>1, InductiveInvariant, PTL

\* The object stack is never written past its end, and the test on its capacity
\* tells a malloc'ed one from the one in the decoder context.
THEOREM CapacityRespected == Spec => []CapacityOK
<1>1. IInv => CapacityOK
  BY DEF IInv
<1> QED
  BY <1>1, InductiveInvariant, PTL

\* What decode_obj takes for keys are strings, for any nesting of containers: the
\* keys of a suspended object are still there when the containers inside it are
\* closed.
THEOREM KeysChecked == Spec => []KeysAreStrings
<1>1. Init => KeysInv
  BY DEF Init, KeysInv, Running
<1>2. IInv /\ KeysInv /\ [Next]_vars => KeysInv'
  BY ReadKeys, OpenKeys, CloseKeys, OtherKeys DEF Next, Returned
<1>3. IInv /\ KeysInv => KeysAreStrings
  <2> SUFFICES ASSUME IInv, KeysInv, pc \in Running, ~Top.arr PROVE KeysAreStrings
    BY DEF KeysAreStrings, KeyPending, IInv, LabelInv, Running
  <2>1. /\ Len(ctn) \in 1 .. Len(ctn) /\ Top \in Container /\ Len(objs) \in Nat
        /\ IsLayout(ctn, Len(objs), KeyPending) /\ KeysIn(ctn, objs)
    BY AtLabel DEF KeysInv
  <2>2. Top.start \in Nat /\ Top.len \in Nat /\ Len(objs) = Top.start + 2 * Top.len + KeyPending
    BY <2>1, SlotsNat DEF IsLayout, Top, Slots
  <2>3. \A j \in Nat : Top.start + 2 * j + 1 <= Len(objs) => objs[Top.start + 2 * j + 1].kind = "str"
    BY <2>1 DEF KeysIn, FrameEnd, Top
  <2>4. ASSUME KeyPending = 1 PROVE objs[Len(objs)].kind = "str"
    <3>1. Top.start + 2 * Top.len + 1 = Len(objs)
      BY <2>2, <2>4
    <3> QED
      BY <2>1, <2>2, <2>3, <3>1
  <2>5. ASSUME pc \in {"obj_val_end", "obj_key_begin"}, NEW j \in 1 .. Top.len
        PROVE  objs[Len(objs) - 2 * Top.len + 2 * j - 1].kind = "str"
    <3>1. KeyPending = 0
      BY <2>5 DEF KeyPending
    <3>2. j - 1 \in Nat /\ Top.start + 2 * (j - 1) + 1 <= Len(objs)
      BY <2>2, <3>1
    <3>3. Len(objs) - 2 * Top.len + 2 * j - 1 = Top.start + 2 * (j - 1) + 1
      BY <2>2, <3>1, SMTT(30)
    <3> QED
      BY <2>3, <3>2, <3>3
  <2> QED
    BY <2>4, <2>5 DEF KeysAreStrings
<1> QED
  BY <1>1, <1>2, <1>3, InductiveInvariant, PTL DEF Spec

-----------------------------------------------------------------------------
(* How deep the document is nested.                                        *)

\* What a token adds to the number of open containers.
Change(t) == CASE t \in {"arr_open", "obj_open"}   -> 1
               [] t \in {"arr_close", "obj_close"} -> -1
               [] OTHER -> 0

\* A sum over the positions of s up to n is one over those of a longer text.
LEMMA OpenAtAppend ==
    ASSUME NEW s \in Seq(Token), NEW t \in Token
    PROVE  /\ \A n \in 0 .. Len(s) : OpenAt(Append(s, t), n) = OpenAt(s, n)
           /\ OpenAt(Append(s, t), Len(s) + 1) = OpenAt(s, Len(s)) + Change(t)
           /\ OpenAt(s, Len(s)) \in Int
<1>1. /\ Len(s) \in Nat /\ \A i \in 1 .. Len(s) : Append(s, t)[i] = s[i]
      /\ Append(s, t)[Len(s) + 1] = t
  BY AppendProperties
<1>2. ASSUME NEW n \in 0 .. Len(s) PROVE OpenAt(Append(s, t), n) = OpenAt(s, n)
  <2>1. Opens(Append(s, t), n) = Opens(s, n) /\ Closes(Append(s, t), n) = Closes(s, n)
    BY <1>1 DEF Opens, Closes
  <2> QED
    BY <2>1 DEF OpenAt
<1> DEFINE P == Opens(s, Len(s))
           Q == Closes(s, Len(s))
<1>3. /\ IsFiniteSet(P) /\ IsFiniteSet(Q) /\ Len(s) + 1 \notin P /\ Len(s) + 1 \notin Q
  <2>1. P \subseteq 1 .. Len(s) /\ Q \subseteq 1 .. Len(s)
    BY DEF Opens, Closes
  <2>2. IsFiniteSet(1 .. Len(s)) /\ Len(s) + 1 \notin 1 .. Len(s)
    BY <1>1, FS_Interval
  <2> HIDE DEF P, Q
  <2> QED
    BY <2>1, <2>2, FS_Subset
<1>4. /\ Cardinality(P) \in Nat /\ Cardinality(P \cup {Len(s) + 1}) = Cardinality(P) + 1
      /\ Cardinality(Q) \in Nat /\ Cardinality(Q \cup {Len(s) + 1}) = Cardinality(Q) + 1
  BY <1>3, FS_CardinalityType, FS_AddElement
<1>5. /\ Opens(Append(s, t), Len(s) + 1) = IF Change(t) = 1 THEN P \cup {Len(s) + 1} ELSE P
      /\ Closes(Append(s, t), Len(s) + 1) = IF Change(t) = -1 THEN Q \cup {Len(s) + 1} ELSE Q
  BY <1>1 DEF Opens, Closes, Change
<1>6. Change(t) \in {-1, 0, 1}
  BY DEF Change
<1> HIDE DEF P, Q
<1>7. OpenAt(s, Len(s)) = Cardinality(P) - Cardinality(Q)
  BY DEF OpenAt, P, Q
<1> QED
  BY <1>2, <1>4, <1>5, <1>6, <1>7 DEF OpenAt

\* No exception is set before something fails.
ErrInv == pc \notin {"cleanup", "failed"} => err = "none"

\* The tokens read account for the open containers: one per entry of the container
\* stack, and none but at a label of the reader.
DepthInv ==
    /\ pc \in Running => OpenAt(input, Len(input)) = Len(ctn)
    /\ pc \in {"start", "doc_end", "single_end"} => OpenAt(input, Len(input)) = 0
    /\ pc \in Running \cup {"start", "doc_end", "single_end", "done"} =>
         \A n \in 1 .. Len(input) : OpenAt(input, n) <= DecodeMaxRecursion
    /\ err = "depth" => OpenAt(input, Len(input)) = DecodeMaxRecursion + 1

LEMMA NextErr == IInv /\ ErrInv /\ [Next]_vars => ErrInv'
<1> SUFFICES ASSUME IInv, ErrInv, [Next]_vars PROVE ErrInv'
  OBVIOUS
<1> USE DEF ErrInv, Fail, Reject, CreationFails, Goto
<1>1. CASE NoDocument \/ OpenRoot \/ RootScalar \/ RootString \/ Separator \/ Unexpected \/ OpenContainer
  BY <1>1 DEF NoDocument, OpenRoot, RootScalar, RootString, SingleValue, Separator, Unexpected,
              OpenContainer, ValueLabels, Running
<1>2. CASE ReadScalar \/ ReadString \/ ReadKey
  BY <1>2 DEF ReadScalar, ReadString, ReadKey, ValueStep, Push, ValueLabels
<1>3. CASE CloseArray \/ CloseObject
  BY <1>3 DEF CloseArray, CloseObject, EndArray, EndObject, HookFails, PushContainer, Push
<1>4. CASE DocEnd \/ FailedCleanup \/ Returned \/ UNCHANGED vars
  BY <1>4 DEF DocEnd, FailedCleanup, Returned, vars
<1> QED
  BY <1>1, <1>2, <1>3, <1>4 DEF Next

\* Reading a token while the document is read.
LEMMA ReadDepth ==
    ASSUME IInv, DepthInv, NEW t \in Token, Read(t),
           pc \in Running \cup {"start", "doc_end", "single_end"}
    PROVE  /\ OpenAt(input, Len(input)) \in Int
           /\ OpenAt(input', Len(input')) = OpenAt(input, Len(input)) + Change(t)
           /\ OpenAt(input', Len(input')) <= DecodeMaxRecursion =>
                \A n \in 1 .. Len(input') : OpenAt(input', n) <= DecodeMaxRecursion
<1>1. input \in Seq(Token) /\ input' = Append(input, t) /\ Len(input) \in Nat
  BY LenProperties DEF IInv, TypeOK, Read
<1>2. Len(input') = Len(input) + 1
  BY <1>1, AppendProperties
<1>3. /\ \A n \in 0 .. Len(input) : OpenAt(input', n) = OpenAt(input, n)
      /\ OpenAt(input', Len(input) + 1) = OpenAt(input, Len(input)) + Change(t)
      /\ OpenAt(input, Len(input)) \in Int
  BY <1>1, OpenAtAppend
<1>4. \A n \in 1 .. Len(input) : OpenAt(input, n) <= DecodeMaxRecursion
  BY DEF DepthInv
<1>5. \A n \in 1 .. Len(input') : n \in 1 .. Len(input) \/ n = Len(input')
  BY <1>1, <1>2
<1>6. \A n \in 1 .. Len(input) : OpenAt(input', n) <= DecodeMaxRecursion
  BY <1>1, <1>3, <1>4
<1> QED
  BY <1>2, <1>3, <1>5, <1>6

\* A step that fails, but for the depth.
LEMMA FailedDepth ==
    ASSUME pc' \in {"cleanup", "failed", "wild"}, err' # "depth"
    PROVE  DepthInv'
BY DEF DepthInv, Running

\* A token that goes on with the document.
LEMMA StepDepth ==
    ASSUME IInv, DepthInv, NEW t \in Token, Read(t),
           pc \in Running \cup {"start", "doc_end", "single_end"}, err' # "depth",
           NEW n, n = OpenAt(input, Len(input)) + Change(t), n <= DecodeMaxRecursion,
           pc' \in Running => n = Len(ctn'),
           pc' \in {"start", "doc_end", "single_end"} => n = 0
    PROVE  DepthInv'
BY ReadDepth DEF DepthInv

LEMMA PushDepth ==
    ASSUME NEW below, NEW v, NEW owned, NEW c, NEW next, NEW e,
           Push(below, v, owned, c, next, e), e # "depth", err # "depth"
    PROVE  /\ err' # "depth"
           /\ pc' = "cleanup" \/ (pc' = next /\ ctn' = c)
BY DEF Push, Fail

\* One container less is open after a closing bracket.
LEMMA ClosedStack ==
    ASSUME IInv, pc \in Running, KeyPending = 0
    PROVE  /\ Len(CtnAfterClose) = Len(ctn) - 1
           /\ AfterClose \in {"arr_val_end", "obj_val_end", "doc_end"}
           /\ AfterClose = "doc_end" <=> Len(ctn) = 1
<1>1. ctn \in Seq(Container) /\ Len(ctn) \in Nat /\ Len(ctn) >= 1
  BY AtLabel
<1>2. CASE Len(ctn) = 1
  BY <1>2 DEF CtnAfterClose, AfterClose
<1>3. CASE Len(ctn) # 1
  <2> DEFINE b == Below(ctn, 1)
  <2>1. b \in Seq(Container) /\ Len(b) = Len(ctn) - 1
    BY <1>1, BelowStack
  <2>2. b # <<>>
    BY <1>1, <1>3, <2>1, EmptySeq
  <2>3. CtnAfterClose = Counted(b)
    BY <1>3 DEF CtnAfterClose
  <2> HIDE DEF b
  <2>4. Len(Counted(b)) = Len(b)
    BY <2>1, <2>2, CountedStack
  <2> QED
    BY <1>3, <2>1, <2>3, <2>4 DEF AfterClose, ValueEnd
<1> QED
  BY <1>2, <1>3

LEMMA NextDepth == IInv /\ ErrInv /\ DepthInv /\ [Next]_vars => DepthInv'
<1> SUFFICES ASSUME IInv, ErrInv, DepthInv, [Next]_vars PROVE DepthInv'
  OBVIOUS
<1>0. /\ DecodeMaxRecursion \in Nat /\ DecodeMaxRecursion >= 1
      /\ pc \in Running => Len(ctn) \in Nat /\ Len(ctn) <= DecodeMaxRecursion
      /\ pc \in Running \cup {"start", "doc_end", "single_end"} => err = "none"
  BY RecursionAssumption, AtLabel DEF ErrInv, Running
<1>1. CASE NoDocument
  BY <1>0, <1>1, FailedDepth DEF NoDocument, Reject, CreationFails, Fail
<1>2. CASE OpenRoot
  <2> PICK t \in {"arr_open", "obj_open"} :
        /\ Read(t)
        /\ \/ /\ ctn' = <<Opened(t)>> /\ err' = err
              /\ pc' = IF t = "arr_open" THEN "arr_val_begin" ELSE "obj_key_begin"
           \/ CreationFails("memory")
    BY <1>2 DEF OpenRoot
  <2>1. t \in Token /\ Change(t) = 1 /\ pc = "start" /\ OpenAt(input, Len(input)) = 0
    BY <1>2 DEF Token, Punct, Change, OpenRoot, DepthInv
  <2>2. CASE CreationFails("memory")
    BY <2>2, FailedDepth DEF CreationFails, Fail
  <2>3. CASE ctn' = <<Opened(t)>> /\ err' = err /\ pc' \in {"arr_val_begin", "obj_key_begin"}
    <3>1. Len(ctn') = 1 /\ err' # "depth"
      BY <1>0, <2>1, <2>3
    <3> QED
      BY <1>0, <2>1, <2>3, <3>1, StepDepth
  <2> QED
    BY <2>2, <2>3
<1>3. CASE RootScalar \/ RootString
  <2>1. PICK t \in Keys \cup {Scalar} : Read(t)
    BY <1>3 DEF RootScalar, RootString
  <2>2. t \in Token /\ Change(t) = 0 /\ pc = "start" /\ OpenAt(input, Len(input)) = 0
    BY <1>3, KeysAssumption DEF Token, Punct, Change, Scalar, RootScalar, RootString, DepthInv
  <2>3. err' # "depth" /\ pc' \in {"single_end", "cleanup", "wild"}
    BY <1>0, <1>3, <2>2 DEF RootScalar, RootString, SingleValue, CreationFails, Fail
  <2>4. CASE pc' = "single_end"
    BY <1>0, <2>1, <2>2, <2>3, <2>4, StepDepth DEF Running
  <2> QED
    BY <2>3, <2>4, FailedDepth
<1>4. CASE ReadScalar \/ ReadString \/ ReadKey
  <2>1. PICK t \in Keys \cup {Scalar} : Read(t)
    BY <1>4 DEF ReadScalar, ReadString, ReadKey
  <2>2. t \in Token /\ Change(t) = 0 /\ pc \in Running
    BY <1>4, KeysAssumption
       DEF Token, Punct, Change, Scalar, ReadScalar, ReadString, ReadKey, ValueLabels, Running
  <2>3. Len(Counted(ctn)) = Len(ctn)
    BY <2>2, AtLabel, CountedStack
  <2>4. err' # "depth" /\ (pc' = "cleanup" \/ (pc' \in Running /\ Len(ctn') = Len(ctn)))
    BY <1>0, <1>4, <2>2, <2>3, PushDepth
       DEF ReadScalar, ReadString, ReadKey, ValueStep, ValueEnd, CreationFails, Fail, Running
  <2>5. CASE pc' \in Running /\ Len(ctn') = Len(ctn)
    <3>1. OpenAt(input, Len(input)) + Change(t) = Len(ctn)
      BY <1>0, <2>2 DEF DepthInv
    <3> QED
      BY <1>0, <2>1, <2>2, <2>4, <2>5, <3>1, StepDepth DEF Running
  <2> QED
    BY <2>4, <2>5, FailedDepth
<1>5. CASE OpenContainer
  <2> PICK t \in {"arr_open", "obj_open"} :
        /\ Read(t)
        /\ \/ /\ CtnHasRoom /\ ctn' = Append(ctn, Opened(t)) /\ err' = err
              /\ pc' = IF t = "arr_open" THEN "arr_val_begin" ELSE "obj_key_begin"
           \/ ~CtnHasRoom /\ Reject("depth")
    BY <1>5 DEF OpenContainer
  <2>1. /\ t \in Token /\ Change(t) = 1 /\ pc \in Running
        /\ OpenAt(input, Len(input)) = Len(ctn)
    BY <1>5 DEF Token, Punct, Change, OpenContainer, DepthInv, ValueLabels, Running
  <2>2. OpenAt(input', Len(input')) = Len(ctn) + 1
    BY <2>1, ReadDepth
  <2>3. CASE ~CtnHasRoom /\ Reject("depth")
    BY <1>0, <2>1, <2>2, <2>3 DEF Reject, Fail, DepthInv, CtnHasRoom, Running
  <2>4. CASE /\ CtnHasRoom /\ ctn' = Append(ctn, Opened(t)) /\ err' = err
             /\ pc' \in {"arr_val_begin", "obj_key_begin"}
    <3>1. Len(ctn') = Len(ctn) + 1
      BY <2>1, <2>4, AtLabel, AppendStack
    <3> QED
      BY <1>0, <2>1, <2>4, <3>1, StepDepth DEF CtnHasRoom, Running
  <2> QED
    BY <2>3, <2>4
<1>6. CASE CloseArray \/ CloseObject
  <2>1. PICK t \in {"arr_close", "obj_close"} : Read(t)
    BY <1>6 DEF CloseArray, CloseObject
  <2>2. /\ t \in Token /\ Change(t) = -1 /\ pc \in Running /\ KeyPending = 0
        /\ OpenAt(input, Len(input)) = Len(ctn)
    BY <1>6 DEF Token, Punct, Change, CloseArray, CloseObject, DepthInv, Running, KeyPending
  <2>3. err' # "depth" /\ (pc' = "cleanup" \/ (pc' = AfterClose /\ ctn' = CtnAfterClose))
    BY <1>0, <1>6, <2>2, PushDepth
       DEF CloseArray, CloseObject, EndArray, EndObject, HookFails, PushContainer, CreationFails,
           Reject, Fail
  <2>4. CASE pc' = AfterClose /\ ctn' = CtnAfterClose
    <3>1. Len(CtnAfterClose) = Len(ctn) - 1 /\ AfterClose \in {"arr_val_end", "obj_val_end", "doc_end"}
          /\ (AfterClose = "doc_end" => Len(ctn) = 1)
      BY <2>2, ClosedStack
    <3> QED
      BY <1>0, <2>1, <2>2, <2>3, <2>4, <3>1, StepDepth DEF Running
  <2> QED
    BY <2>3, <2>4, FailedDepth
<1>7. CASE Separator
  <2>1. PICK t \in {"comma", "colon"} : Read(t)
    BY <1>7 DEF Separator
  <2>2. /\ t \in Token /\ Change(t) = 0 /\ pc \in Running /\ pc' \in Running
        /\ ctn' = ctn /\ err' = err
    BY <1>7 DEF Token, Punct, Change, Separator, Goto, Running
  <2>3. OpenAt(input, Len(input)) + Change(t) = Len(ctn)
    BY <1>0, <2>2 DEF DepthInv
  <2> QED
    BY <1>0, <2>1, <2>2, <2>3, StepDepth DEF Running
<1>8. CASE Unexpected
  BY <1>0, <1>8, FailedDepth DEF Unexpected, Reject, Fail
<1>9. CASE DocEnd
  <2>1. PICK t \in Token : Read(t) /\ ((t # Eof /\ Reject("syntax")) \/ (t = Eof /\ pc' = "done" /\ err' = err))
    BY <1>9 DEF DocEnd
  <2>2. pc \in {"doc_end", "single_end"} /\ OpenAt(input, Len(input)) = 0
    BY <1>9 DEF DocEnd, DepthInv
  <2>3. CASE t = Eof /\ pc' = "done" /\ err' = err
    BY <1>0, <2>1, <2>2, <2>3, StepDepth DEF Running, Change, Eof
  <2> QED
    BY <2>1, <2>3, FailedDepth DEF Reject, Fail
<1>10. CASE FailedCleanup \/ Returned \/ UNCHANGED vars
  <2>1. input' = input /\ err' = err /\ (pc' = "failed" \/ (pc' = pc /\ ctn' = ctn))
    BY <1>10 DEF FailedCleanup, Returned, vars
  <2> QED
    BY <2>1 DEF DepthInv, Running
<1> QED
  BY <1>1, <1>2, <1>3, <1>4, <1>5, <1>6, <1>7, <1>8, <1>9, <1>10 DEF Next

\* "max recursion exceeded" is raised for the first container nested deeper than the
\* limit, and no document nested deeper is read to its end.
THEOREM DepthLimited == Spec => []DepthLimitExact
<1>1. Init => ErrInv /\ DepthInv
  <2> SUFFICES ASSUME Init PROVE ErrInv /\ DepthInv
    OBVIOUS
  <2>1. Len(input) = 0 /\ 1 .. 0 = {}
    BY DEF Init
  <2>2. OpenAt(input, 0) = 0
    BY <2>1, FS_EmptySet DEF OpenAt, Opens, Closes
  <2> QED
    BY <2>1, <2>2 DEF Init, ErrInv, DepthInv, Running
<1>2. IInv /\ ErrInv /\ DepthInv /\ [Next]_vars => ErrInv' /\ DepthInv'
  BY NextErr, NextDepth
<1>3. DepthInv => DepthLimitExact
  BY DEF DepthInv, DepthLimitExact
<1> QED
  BY <1>1, <1>2, <1>3, InductiveInvariant, PTL DEF Spec

-----------------------------------------------------------------------------
(* The grammar is a recursive function: there is one, by recursion on the   *)
(* number of tokens.                                                       *)

\* The categories of sentences of at most m tokens.
Upto(m) == {x \in Categories : x[2] <= m}

\* A category as a triple.
LEMMA CategoryParts ==
    ASSUME NEW x \in Categories
    PROVE  /\ x = <<x[1], x[2], x[3]>>
           /\ x[1] \in {"value", "elements", "members"} /\ x[2] \in 1 .. RefTokens
           /\ x[3] \in 0 .. DecodeMaxRecursion
BY DEF Categories

LEMMA RefTokensNat == RefTokens \in Nat /\ DecodeMaxRecursion \in Nat /\ RefTokens > MaxTokens /\ MaxTokens \in Nat
BY TokensAssumption, RecursionAssumption DEF RefTokens

\* g and h have the same sentences of fewer than n tokens.
Alike(g, h, n) == \A x \in Categories : x[2] < n => g[x] = h[x]

\* The rule of a category of n tokens uses sentences of fewer.
LEMMA ValueRuleLocal ==
    ASSUME NEW g, NEW h, NEW n \in 1 .. RefTokens, NEW d \in 0 .. DecodeMaxRecursion,
           Alike(g, h, n)
    PROVE  ValueRule(g, n, d) = ValueRule(h, n, d)
<1>1. ASSUME n >= 3, d >= 1, NEW k \in {"elements", "members"}
      PROVE  g[<<k, n - 2, d - 1>>] = h[<<k, n - 2, d - 1>>]
  <2>1. n - 2 \in 1 .. RefTokens /\ d - 1 \in 0 .. DecodeMaxRecursion /\ n - 2 < n
    BY <1>1, RefTokensNat
  <2>2. <<k, n - 2, d - 1>> \in Categories /\ <<k, n - 2, d - 1>>[2] = n - 2
    BY <2>1 DEF Categories
  <2> QED
    BY <2>1, <2>2 DEF Alike
<1>2. n >= 3 /\ d >= 1 => /\ g[<<"elements", n - 2, d - 1>>] = h[<<"elements", n - 2, d - 1>>]
                          /\ g[<<"members", n - 2, d - 1>>] = h[<<"members", n - 2, d - 1>>]
  BY <1>1
<1> QED
  BY <1>2, Zenon DEF ValueRule

LEMMA PartsAlike ==
    ASSUME NEW g, NEW h, NEW n \in 1 .. RefTokens, NEW d \in 0 .. DecodeMaxRecursion,
           Alike(g, h, n), NEW k \in {"value", "elements", "members"}, NEW i \in Int, 1 <= i, i < n
    PROVE  g[<<k, i, d>>] = h[<<k, i, d>>]
<1>1. i \in 1 .. RefTokens
  BY RefTokensNat
<1>2. <<k, i, d>> \in Categories /\ <<k, i, d>>[2] = i
  BY <1>1 DEF Categories
<1> QED
  BY <1>2 DEF Alike

LEMMA RuleLocal ==
    ASSUME NEW g, NEW h, NEW x \in Categories, Alike(g, h, x[2])
    PROVE  Rule(g, x) = Rule(h, x)
<1> DEFINE n == x[2]
           d == x[3]
<1>1. x[1] \in {"value", "elements", "members"} /\ n \in 1 .. RefTokens /\ d \in 0 .. DecodeMaxRecursion
  BY CategoryParts
<1>a. Alike(g, h, n)
  OBVIOUS
<1> HIDE DEF n, d
<1>2. ValueRule(g, n, d) = ValueRule(h, n, d)
  BY <1>1, <1>a, ValueRuleLocal
<1>3. ElementsRule(g, n, d) = ElementsRule(h, n, d)
  <2>1. ASSUME NEW i \in 1 .. n - 2
        PROVE  /\ g[<<"elements", i, d>>] = h[<<"elements", i, d>>]
               /\ g[<<"value", n - i - 1, d>>] = h[<<"value", n - i - 1, d>>]
    <3>1. i \in Int /\ 1 <= i /\ i < n /\ n - i - 1 \in Int /\ 1 <= n - i - 1 /\ n - i - 1 < n
      BY <1>1
    <3> QED
      BY <1>1, <1>a, <3>1, PartsAlike
  <2> QED
    BY <1>2, <2>1, SMTT(30) DEF ElementsRule
<1>4. MembersRule(g, n, d) = MembersRule(h, n, d)
  <2>1. ASSUME NEW i \in 1 .. n - 4
        PROVE  /\ g[<<"members", i, d>>] = h[<<"members", i, d>>]
               /\ g[<<"value", n - i - 3, d>>] = h[<<"value", n - i - 3, d>>]
    <3>1. i \in Int /\ 1 <= i /\ i < n /\ n - i - 3 \in Int /\ 1 <= n - i - 3 /\ n - i - 3 < n
      BY <1>1
    <3> QED
      BY <1>1, <1>a, <3>1, PartsAlike
  <2>2. n >= 3 => g[<<"value", n - 2, d>>] = h[<<"value", n - 2, d>>]
    <3>1. n >= 3 => n - 2 \in Int /\ 1 <= n - 2 /\ n - 2 < n
      BY <1>1
    <3> QED
      BY <1>1, <1>a, <3>1, PartsAlike
  <2> QED
    BY <2>1, <2>2, SMTT(30) DEF MembersRule
<1> QED
  BY <1>1, <1>2, <1>3, <1>4, Zenon DEF Rule, n, d

\* f has the sentences the rules give it.
Follows(f, m) == f = [x \in Upto(m) |-> Rule(f, x)]

\* The rules define the sentences: the recursion in the definition of Grammar ends.
LEMMA GrammarDefined == \A x \in Categories : Grammar[x] = Rule(Grammar, x)
<1> DEFINE G == {m \in Nat : \E f : Follows(f, m)}
<1>1. 0 \in G
  <2>1. Upto(0) = {}
    BY CategoryParts DEF Upto
  <2>2. Follows([x \in {} |-> {}], 0)
    BY <2>1 DEF Follows
  <2> QED
    BY <2>2
<1>2. ASSUME NEW m \in Nat, m \in G PROVE m + 1 \in G
  <2> PICK f : Follows(f, m)
    BY <1>2
  <2> DEFINE h == [x \in Upto(m + 1) |-> Rule(f, x)]
  <2>1. \A x \in Upto(m) : f[x] = Rule(f, x)
    BY Zenon DEF Follows
  <2>2. \A x \in Upto(m + 1) : h[x] = Rule(f, x)
    OBVIOUS
  <2>3. \A x \in Upto(m + 1) : Rule(h, x) = Rule(f, x)
    <3> SUFFICES ASSUME NEW x \in Upto(m + 1) PROVE Rule(h, x) = Rule(f, x)
      OBVIOUS
    <3>1. Alike(h, f, x[2])
      <4> SUFFICES ASSUME NEW y \in Categories, y[2] < x[2] PROVE h[y] = f[y]
        BY DEF Alike
      <4>1. x[2] \in Int /\ y[2] \in Int /\ x[2] <= m + 1
        BY CategoryParts DEF Upto
      <4>2. y[2] <= m /\ y[2] <= m + 1
        BY <4>1
      <4>3. y \in Upto(m) /\ y \in Upto(m + 1)
        BY <4>2 DEF Upto
      <4> QED
        BY <2>1, <2>2, <4>3
    <3>2. x \in Categories
      BY DEF Upto
    <3> HIDE DEF h
    <3> QED
      BY <3>1, <3>2, RuleLocal
  <2>4. h = [x \in Upto(m + 1) |-> Rule(h, x)]
    <3>1. \A x \in Upto(m + 1) : Rule(f, x) = Rule(h, x)
      BY <2>3, Zenon
    <3> DEFINE k == [x \in Upto(m + 1) |-> Rule(h, x)]
    <3>2. h = k
      <4> SUFFICES [x \in Upto(m + 1) |-> Rule(f, x)] = [x \in Upto(m + 1) |-> Rule(h, x)]
        BY Zenon
      <4> HIDE DEF h
      <4> QED
        BY <3>1, Zenon
    <3> QED
      BY <3>2
  <2> HIDE DEF h
  <2>5. Follows(h, m + 1)
    BY <2>4, Zenon DEF Follows
  <2> QED
    BY <2>5
<1> HIDE DEF G
<1>3. \A m \in Nat : m \in G
  BY <1>1, <1>2, SetInduction
<1>4. Upto(RefTokens) = Categories
  BY CategoryParts DEF Upto
<1>5. \E f : f = [x \in Categories |-> Rule(f, x)]
  <2>1. PICK f : Follows(f, RefTokens)
    BY <1>3, RefTokensNat DEF G
  <2> QED
    BY <1>4, <2>1, Zenon DEF Follows
<1>6. Grammar = [x \in Categories |-> Rule(Grammar, x)]
  BY <1>5, Zenon DEF Grammar
<1> QED
  BY <1>6, Zenon

-----------------------------------------------------------------------------
(* Sentences built from sentences.                                         *)

\* toks is a sentence of the category that denotes val.
Derives(kind, toks, val, d) == Sentence(toks, val) \in Grammar[<<kind, Len(toks), d>>]

Depths == 0 .. DecodeMaxRecursion

LEMMA ByRule ==
    ASSUME NEW n \in 1 .. RefTokens, NEW d \in Depths
    PROVE  /\ Grammar[<<"value", n, d>>] = ValueRule(Grammar, n, d)
           /\ Grammar[<<"elements", n, d>>] = ElementsRule(Grammar, n, d)
           /\ Grammar[<<"members", n, d>>] = MembersRule(Grammar, n, d)
<1>1. \A kind \in {"value", "elements", "members"} : <<kind, n, d>> \in Categories
  BY DEF Categories, Depths
<1>2. \A kind \in {"value", "elements", "members"} :
        Grammar[<<kind, n, d>>] = Rule(Grammar, <<kind, n, d>>)
  BY <1>1, GrammarDefined
<1>3. /\ Rule(Grammar, <<"value", n, d>>) = ValueRule(Grammar, n, d)
      /\ Rule(Grammar, <<"elements", n, d>>) = ElementsRule(Grammar, n, d)
      /\ Rule(Grammar, <<"members", n, d>>) = MembersRule(Grammar, n, d)
  BY DEF Rule
<1> QED
  BY <1>2, <1>3

LEMMA SingleDerived ==
    ASSUME NEW d \in Depths
    PROVE  /\ Derives("value", <<Scalar>>, ScalarValue, d)
           /\ \A k \in Keys : Derives("value", <<k>>, StrValue(k), d)
<1>1. 1 \in 1 .. RefTokens
  BY RefTokensNat
<1>2. /\ Sentence(<<Scalar>>, ScalarValue) \in ValueRule(Grammar, 1, d)
      /\ \A k \in Keys : Sentence(<<k>>, StrValue(k)) \in ValueRule(Grammar, 1, d)
  BY DEF ValueRule
<1>3. Len(<<Scalar>>) = 1 /\ \A k \in Keys : Len(<<k>>) = 1
  OBVIOUS
<1> QED
  BY <1>1, <1>2, <1>3, ByRule DEF Derives

LEMMA EmptyDerived ==
    ASSUME NEW d \in Depths, d >= 1, 2 <= RefTokens
    PROVE  /\ Derives("value", <<"arr_open", "arr_close">>, Array(<<>>), d)
           /\ Derives("value", <<"obj_open", "obj_close">>, Object(<<>>), d)
<1>1. 2 \in 1 .. RefTokens
  BY RefTokensNat
<1>2. /\ Sentence(<<"arr_open", "arr_close">>, Array(<<>>)) \in ValueRule(Grammar, 2, d)
      /\ Sentence(<<"obj_open", "obj_close">>, Object(<<>>)) \in ValueRule(Grammar, 2, d)
  BY DEF ValueRule
<1>3. Len(<<"arr_open", "arr_close">>) = 2 /\ Len(<<"obj_open", "obj_close">>) = 2
  OBVIOUS
<1> QED
  BY <1>1, <1>2, <1>3, ByRule DEF Derives

Opening(arr) == IF arr THEN "arr_open" ELSE "obj_open"
Closing(arr) == IF arr THEN "arr_close" ELSE "obj_close"
Items(arr)   == IF arr THEN "elements" ELSE "members"
Built(arr, vals) == IF arr THEN Array(vals) ELSE Object(vals)

LEMMA TokenSeqs ==
    /\ \A arr \in BOOLEAN : <<Opening(arr)>> \in Seq(Token) /\ <<Closing(arr)>> \in Seq(Token)
    /\ <<"comma">> \in Seq(Token) /\ \A k \in Keys : <<k>> \in Seq(Token) /\ <<k, "colon">> \in Seq(Token)
    /\ \A arr \in BOOLEAN : Len(<<Opening(arr)>>) = 1 /\ Len(<<Closing(arr)>>) = 1
    /\ Len(<<"comma">>) = 1 /\ \A k \in Keys : Len(<<k>>) = 1 /\ Len(<<k, "colon">>) = 2
BY DEF Token, Punct, Opening, Closing

\* The sentence between brackets.
LEMMA BracketsDerived ==
    ASSUME NEW arr \in BOOLEAN, NEW t \in Seq(Token), NEW vals, NEW d \in Depths, d >= 1,
           Derives(Items(arr), t, vals, d - 1), t # <<>>, Len(t) + 2 <= RefTokens
    PROVE  Derives("value", <<Opening(arr)>> \o t \o <<Closing(arr)>>, Built(arr, vals), d)
<1> DEFINE n == Len(t) + 2
           u == <<Opening(arr)>> \o t \o <<Closing(arr)>>
<1>1. Len(u) = n /\ Len(t) = n - 2 /\ n >= 3 /\ n \in 1 .. RefTokens
  <2>1. /\ <<Opening(arr)>> \o t \in Seq(Token) /\ Len(<<Opening(arr)>> \o t) = Len(t) + 1
    BY TokenSeqs, ConcatProperties
  <2>2. Len(u) = Len(t) + 2
    BY <2>1, TokenSeqs, ConcatProperties
  <2>3. Len(t) \in Nat /\ Len(t) # 0
    BY EmptySeq, LenProperties
  <2> QED
    BY <2>2, <2>3, RefTokensNat
<1>2. Sentence(t, vals) \in Grammar[<<Items(arr), n - 2, d - 1>>]
  BY <1>1 DEF Derives
<1>3. Sentence(t, vals).toks = t /\ Sentence(t, vals).val = vals
  BY DEF Sentence
<1>4. Sentence(u, Built(arr, vals)) \in ValueRule(Grammar, n, d)
  <2>1. CASE arr
    BY <1>1, <1>2, <1>3, <2>1 DEF ValueRule, Items, Opening, Closing, Built
  <2>2. CASE ~arr
    BY <1>1, <1>2, <1>3, <2>2 DEF ValueRule, Items, Opening, Closing, Built
  <2> QED
    BY <2>1, <2>2
<1> HIDE DEF n, u
<1>5. Derives("value", u, Built(arr, vals), d)
  BY <1>1, <1>4, ByRule DEF Derives
<1> QED
  BY <1>5 DEF u

\* u is an element, or a key and its value.
Item(arr, u, vs, d) ==
    IF arr
    THEN \E v : Derives("value", u, v, d) /\ vs = <<v>>
    ELSE \E k \in Keys, w \in Seq(Token) : \E v :
            u = <<k, "colon">> \o w /\ w # <<>> /\ Derives("value", w, v, d) /\ vs = <<StrValue(k), v>>

\* What the rule of n tokens takes for the last item of i tokens.
ItemSet(arr, i, d) ==
    IF arr THEN AsElements(Grammar[<<"value", i, d>>]) ELSE AsMembers(Grammar[<<"value", i - 2, d>>])

LEMMA ItemInSet ==
    ASSUME NEW arr \in BOOLEAN, NEW u \in Seq(Token), NEW vs, NEW d \in Depths, Item(arr, u, vs, d)
    PROVE  Sentence(u, vs) \in ItemSet(arr, Len(u), d) /\ (~arr => Len(u) >= 3)
<1>1. CASE arr
  <2>1. PICK v : Derives("value", u, v, d) /\ vs = <<v>>
    BY <1>1 DEF Item
  <2>2. Sentence(u, v).toks = u /\ Sentence(u, v).val = v
    BY DEF Sentence
  <2> QED
    BY <1>1, <2>1, <2>2 DEF ItemSet, AsElements, Derives
<1>2. CASE ~arr
  <2>a. PICK k \in Keys, w \in Seq(Token) : \E v :
            u = <<k, "colon">> \o w /\ w # <<>> /\ Derives("value", w, v, d) /\ vs = <<StrValue(k), v>>
    BY <1>2 DEF Item
  <2>1. PICK v : u = <<k, "colon">> \o w /\ w # <<>> /\ Derives("value", w, v, d) /\ vs = <<StrValue(k), v>>
    BY <2>a
  <2>2. Len(u) = 2 + Len(w) /\ Len(w) \in Nat /\ Len(w) # 0
    BY <2>1, TokenSeqs, ConcatProperties, EmptySeq, LenProperties
  <2>3. Sentence(w, v).toks = w /\ Sentence(w, v).val = v
    BY DEF Sentence
  <2>4. Len(u) - 2 = Len(w) /\ Len(u) >= 3
    BY <2>2
  <2> DEFINE values == Grammar[<<"value", Len(w), d>>]
  <2>5. Sentence(w, v) \in values
    BY <2>1 DEF Derives
  <2> HIDE DEF values
  <2>6. Sentence(u, vs) \in AsMembers(values)
    <3> DEFINE x == Sentence(w, v)
    <3>1. x \in values /\ x.toks = w /\ x.val = v
      BY <2>3, <2>5
    <3> HIDE DEF x
    <3>2. Sentence(u, vs) = Sentence(<<k, "colon">> \o x.toks, <<StrValue(k), x.val>>)
      BY <2>1, <3>1
    <3>3. Sentence(u, vs) \in AsMember(k, values)
      BY <3>1, <3>2, Zenon DEF AsMember
    <3> QED
      BY <3>3, Zenon DEF AsMembers
  <2>7. ItemSet(arr, Len(u), d) = AsMembers(values)
    BY <1>2, <2>4, Zenon DEF ItemSet, values
  <2> QED
    BY <2>4, <2>6, <2>7
<1> QED
  BY <1>1, <1>2

LEMMA FirstItem ==
    ASSUME NEW arr \in BOOLEAN, NEW u \in Seq(Token), u # <<>>, NEW vs, NEW d \in Depths,
           Item(arr, u, vs, d), Len(u) <= RefTokens
    PROVE  Derives(Items(arr), u, vs, d)
<1>1. Len(u) \in 1 .. RefTokens
  <2>1. Len(u) \in Nat /\ Len(u) # 0
    BY EmptySeq, LenProperties
  <2> QED
    BY <2>1, RefTokensNat
<1>2. Sentence(u, vs) \in ItemSet(arr, Len(u), d) /\ (~arr => Len(u) >= 3)
  BY ItemInSet
<1>3. CASE arr
  <2>1. Sentence(u, vs) \in ElementsRule(Grammar, Len(u), d)
    BY <1>1, <1>2, <1>3, ByRule DEF ElementsRule, ItemSet
  <2> QED
    BY <1>1, <1>3, <2>1, ByRule DEF Derives, Items
<1>4. CASE ~arr
  <2>1. Sentence(u, vs) \in MembersRule(Grammar, Len(u), d)
    BY <1>1, <1>2, <1>4 DEF MembersRule, ItemSet
  <2> QED
    BY <1>1, <1>4, <2>1, ByRule DEF Derives, Items
<1> QED
  BY <1>3, <1>4

LEMMA NextItem ==
    ASSUME NEW arr \in BOOLEAN, NEW t \in Seq(Token), t # <<>>, NEW u \in Seq(Token), u # <<>>,
           NEW vals, NEW vs, NEW d \in Depths, Derives(Items(arr), t, vals, d), Item(arr, u, vs, d),
           Len(t) + 1 + Len(u) <= RefTokens
    PROVE  Derives(Items(arr), t \o <<"comma">> \o u, vals \o vs, d)
<1> DEFINE n == Len(t) + 1 + Len(u)
           w == t \o <<"comma">> \o u
           i == Len(t)
<1>1. Len(w) = n /\ i \in Nat /\ i # 0 /\ Len(u) \in Nat /\ Len(u) # 0 /\ n \in 1 .. RefTokens
  <2>1. t \o <<"comma">> \in Seq(Token) /\ Len(t \o <<"comma">>) = Len(t) + 1
    BY TokenSeqs, ConcatProperties
  <2>2. Len(w) = Len(t) + 1 + Len(u)
    BY <2>1, ConcatProperties
  <2>3. i \in Nat /\ i # 0 /\ Len(u) \in Nat /\ Len(u) # 0
    BY EmptySeq, LenProperties
  <2> QED
    BY <2>2, <2>3, RefTokensNat
<1>2. Sentence(u, vs) \in ItemSet(arr, Len(u), d) /\ (~arr => Len(u) >= 3)
  BY ItemInSet
<1>3. Sentence(t, vals) \in Grammar[<<Items(arr), i, d>>]
  BY DEF Derives
<1>4. Sentence(w, vals \o vs) \in Listed(Grammar[<<Items(arr), i, d>>], ItemSet(arr, Len(u), d))
  <2>1. /\ Sentence(t, vals).toks = t /\ Sentence(t, vals).val = vals
        /\ Sentence(u, vs).toks = u /\ Sentence(u, vs).val = vs
    BY DEF Sentence
  <2> QED
    BY <1>2, <1>3, <2>1 DEF Listed
<1>n. Len(u) = n - i - 1
  BY <1>1
<1> HIDE DEF w, n, i
<1>5. CASE arr
  <2>1. i \in 1 .. n - 2 /\ ItemSet(arr, Len(u), d) = AsElements(Grammar[<<"value", n - i - 1, d>>])
    BY <1>1, <1>5, <1>n DEF ItemSet
  <2>2. Items(arr) = "elements"
    BY <1>5 DEF Items
  <2>3. Sentence(w, vals \o vs) \in ElementsRule(Grammar, n, d)
    BY <1>4, <2>1, <2>2 DEF ElementsRule
  <2> QED
    BY <1>1, <2>2, <2>3, ByRule DEF Derives, w
<1>6. CASE ~arr
  <2>1. i \in 1 .. n - 4 /\ ItemSet(arr, Len(u), d) = AsMembers(Grammar[<<"value", n - i - 3, d>>])
    <3>1. Len(u) - 2 = n - i - 3
      BY <1>1, <1>n
    <3>2. ItemSet(arr, Len(u), d) = AsMembers(Grammar[<<"value", Len(u) - 2, d>>])
      BY <1>6 DEF ItemSet
    <3>3. i \in 1 .. n - 4
      BY <1>1, <1>2, <1>6, <1>n
    <3> QED
      BY <3>1, <3>2, <3>3
  <2>2. Items(arr) = "members"
    BY <1>6 DEF Items
  <2>3. Sentence(w, vals \o vs) \in MembersRule(Grammar, n, d)
    BY <1>4, <2>1, <2>2 DEF MembersRule
  <2> QED
    BY <1>1, <2>2, <2>3, ByRule DEF Derives, w
<1> QED
  BY <1>5, <1>6

-----------------------------------------------------------------------------
(* What an open container has read: the tokens since its bracket, and the  *)
(* objects in its slots of the object stack.                               *)

IsSeq(vals) == \E S : vals \in Seq(S)

\* Nothing, or items and a comma.
Begun(arr, toks, vals, d) ==
    \/ toks = <<Opening(arr)>> /\ vals = <<>>
    \/ vals # <<>> /\ \E t \in Seq(Token) : /\ t # <<>> /\ Derives(Items(arr), t, vals, d)
                                            /\ toks = <<Opening(arr)>> \o t \o <<"comma">>

\* Items, of which the last may be the last of all.
Held(arr, toks, vals, d) ==
    vals # <<>> /\ \E t \in Seq(Token) : /\ t # <<>> /\ Derives(Items(arr), t, vals, d)
                                         /\ toks = <<Opening(arr)>> \o t

\* A key after what an object has read before it, and the colon after that.
KeyRead(toks, vals, d, rest) ==
    \E k \in Keys, t \in Seq(Token) : \E vs :
        /\ IsSeq(vs) /\ Begun(FALSE, t, vs, d)
        /\ toks = t \o <<k>> \o rest /\ vals = Append(vs, StrValue(k))

\* A value is the next thing to be read.
Waits(arr, toks, vals, d) ==
    IF arr THEN Begun(TRUE, toks, vals, d) ELSE KeyRead(toks, vals, d, <<"colon">>)

\* What the innermost container has read at label l.
Phase(l, toks, vals, d) ==
    CASE l = "arr_val_begin" -> Begun(TRUE, toks, vals, d)
      [] l = "arr_val_end"   -> Held(TRUE, toks, vals, d)
      [] l = "obj_key_begin" -> Begun(FALSE, toks, vals, d)
      [] l = "obj_key_end"   -> KeyRead(toks, vals, d, <<>>)
      [] l = "obj_val_begin" -> KeyRead(toks, vals, d, <<"colon">>)
      [] l = "obj_val_end"   -> Held(FALSE, toks, vals, d)

\* Two sequences of one element.
LEMMA PairConcat == ASSUME NEW a, NEW b PROVE <<a>> \o <<b>> = <<a, b>>
<1> DEFINE S == {a, b}
           s == <<a>>
           t == <<b>>
<1>1. s \in Seq(S) /\ t \in Seq(S) /\ Len(s) = 1 /\ Len(t) = 1 /\ s[1] = a /\ t[1] = b
  OBVIOUS
<1>2. <<a, b>> \in Seq(S) /\ Len(<<a, b>>) = 2 /\ <<a, b>>[1] = a /\ <<a, b>>[2] = b
  OBVIOUS
<1> HIDE DEF S, s, t
<1>3. /\ s \o t \in Seq(S) /\ Len(s \o t) = 2 /\ (s \o t)[1] = a /\ (s \o t)[2] = b
  BY <1>1, ConcatProperties
<1>4. \A i \in 1 .. 2 : (s \o t)[i] = <<a, b>>[i]
  <2>1. \A i \in 1 .. 2 : i = 1 \/ i = 2
    OBVIOUS
  <2> QED
    BY <1>2, <1>3, <2>1
<1>5. s \o t = <<a, b>>
  BY <1>2, <1>3, <1>4, SeqEqual
<1> QED
  BY <1>5 DEF s, t

LEMMA TextConcat ==
    ASSUME NEW s \in Seq(Token), NEW t \in Seq(Token)
    PROVE  /\ s \o t \in Seq(Token) /\ Len(s \o t) = Len(s) + Len(t)
           /\ Len(s) \in Nat /\ Len(t) \in Nat
BY ConcatProperties, LenProperties

\* One more item.
LEMMA ItemAdded ==
    ASSUME NEW arr \in BOOLEAN, NEW toks, NEW vals, IsSeq(vals), NEW u \in Seq(Token), u # <<>>,
           NEW vs, IsSeq(vs), vs # <<>>, NEW d \in Depths, Begun(arr, toks, vals, d), Item(arr, u, vs, d),
           toks \in Seq(Token), Len(toks) + Len(u) <= RefTokens
    PROVE  Held(arr, toks \o u, vals \o vs, d)
<1>0. Len(u) \in Nat
  BY LenProperties
<1>1. CASE toks = <<Opening(arr)>> /\ vals = <<>>
  <2>1. Len(u) <= RefTokens
    BY <1>0, <1>1, TokenSeqs, RefTokensNat
  <2>2. Derives(Items(arr), u, vs, d)
    BY <2>1, FirstItem
  <2>3. vals \o vs = vs
    BY <1>1, ConcatEmptySeq DEF IsSeq
  <2> QED
    BY <1>1, <2>2, <2>3 DEF Held
<1>2. CASE /\ vals # <<>>
           /\ \E t \in Seq(Token) : /\ t # <<>> /\ Derives(Items(arr), t, vals, d)
                                    /\ toks = <<Opening(arr)>> \o t \o <<"comma">>
  <2>1. PICK t \in Seq(Token) : /\ t # <<>> /\ Derives(Items(arr), t, vals, d)
                                /\ toks = <<Opening(arr)>> \o t \o <<"comma">>
    BY <1>2
  <2> DEFINE a == <<Opening(arr)>>
             c == <<"comma">>
  <2>2. a \in Seq(Token) /\ c \in Seq(Token) /\ Len(a) = 1 /\ Len(c) = 1
    BY TokenSeqs
  <2> HIDE DEF a, c
  <2>3. a \o t \in Seq(Token) /\ Len(a \o t) = 1 + Len(t) /\ Len(t) \in Nat
    <3>1. /\ a \o t \in Seq(Token) /\ Len(a \o t) = Len(a) + Len(t)
          /\ Len(a) \in Nat /\ Len(t) \in Nat
      BY <2>2, TextConcat, Zenon
    <3> QED
      BY <2>2, <3>1
  <2>4. Len((a \o t) \o c) = Len(t) + 2
    BY <2>2, <2>3, TextConcat
  <2>5. Len(t) + 1 + Len(u) <= RefTokens
    BY <1>0, <2>1, <2>3, <2>4, RefTokensNat DEF a, c
  <2>6. Derives(Items(arr), t \o c \o u, vals \o vs, d)
    BY <2>1, <2>5, NextItem DEF c
  <2>7. t \o c \in Seq(Token) /\ (t \o c) \o u \in Seq(Token) /\ t \o c \o u # <<>>
    <3>1. t \o c \in Seq(Token) /\ Len(t \o c) = Len(t) + 1
      BY <2>2, TextConcat
    <3>2. (t \o c) \o u \in Seq(Token) /\ Len((t \o c) \o u) = Len(t) + 1 + Len(u)
      BY <3>1, TextConcat
    <3> QED
      BY <1>0, <2>3, <3>1, <3>2
  <2>8. toks \o u = a \o (t \o c \o u)
    <3>1. toks = a \o (t \o c)
      BY <2>1, <2>2, <2>3, ConcatAssociative DEF a, c
    <3> QED
      BY <2>2, <2>7, <3>1, ConcatAssociative, SMTT(20)
  <2>9. vals \o vs # <<>>
    <3>1. PICK S, T : vals \in Seq(S) /\ vs \in Seq(T)
      BY DEF IsSeq
    <3>2. vals \in Seq(S \cup T) /\ vs \in Seq(S \cup T)
      BY <3>1, SeqMonotonic
    <3> QED
      BY <3>2, <1>2, ConcatEqualIffEmpty
  <2> QED
    BY <2>6, <2>7, <2>8, <2>9, Zenon DEF Held, a
<1> QED
  BY <1>1, <1>2 DEF Begun

LEMMA AppendConcat ==
    ASSUME NEW vals, NEW v, IsSeq(vals)
    PROVE  /\ Append(vals, v) = vals \o <<v>> /\ IsSeq(Append(vals, v))
           /\ IsSeq(<<v>>) /\ <<v>> # <<>> /\ Append(vals, v) # <<>>
<1>1. PICK S : vals \in Seq(S)
  BY DEF IsSeq
<1>2. vals \in Seq(S \cup {v})
  BY <1>1, SeqMonotonic
<1> QED
  BY <1>2, AppendIsConcat, AppendProperties DEF IsSeq

\* The value a container waited for.
LEMMA ValueAdded ==
    ASSUME NEW arr \in BOOLEAN, NEW toks \in Seq(Token), NEW vals, IsSeq(vals), NEW u \in Seq(Token),
           u # <<>>, NEW v, NEW d \in Depths, Waits(arr, toks, vals, d), Derives("value", u, v, d),
           Len(toks) + Len(u) <= RefTokens
    PROVE  Held(arr, toks \o u, Append(vals, v), d)
<1>0. Len(u) \in Nat /\ Len(toks) \in Nat
  BY LenProperties
<1>1. CASE arr
  <2> DEFINE x == <<v>>
  <2>1. Item(arr, u, x, d) /\ Begun(arr, toks, vals, d)
    BY <1>1 DEF Item, Waits
  <2>2. Append(vals, v) = vals \o x /\ IsSeq(x) /\ x # <<>>
    BY AppendConcat
  <2> HIDE DEF x
  <2> QED
    BY <2>1, <2>2, ItemAdded
<1>2. CASE ~arr
  <2>a. PICK k \in Keys, t \in Seq(Token) : \E vs :
            /\ IsSeq(vs) /\ Begun(FALSE, t, vs, d)
            /\ toks = t \o <<k>> \o <<"colon">> /\ vals = Append(vs, StrValue(k))
    BY <1>2 DEF Waits, KeyRead
  <2>1. PICK vs : /\ IsSeq(vs) /\ Begun(FALSE, t, vs, d)
                  /\ toks = t \o <<k>> \o <<"colon">> /\ vals = Append(vs, StrValue(k))
    BY <2>a
  <2> DEFINE m == <<k, "colon">>
             x == <<StrValue(k), v>>
  <2>2. m \in Seq(Token) /\ Len(m) = 2 /\ m = <<k>> \o <<"colon">>
    BY TokenSeqs
  <2>b. <<k>> \in Seq(Token) /\ <<"colon">> \in Seq(Token)
    BY DEF Token, Punct
  <2>3. toks = t \o m
    BY <2>1, <2>2, <2>b, ConcatAssociative
  <2> HIDE DEF m
  <2>4. m \o u \in Seq(Token) /\ Len(m \o u) = 2 + Len(u) /\ toks \o u = t \o (m \o u) /\ m \o u # <<>>
    <3>1. m \o u \in Seq(Token) /\ Len(m \o u) = 2 + Len(u) /\ toks \o u = t \o (m \o u)
      BY <2>2, <2>3, ConcatProperties, ConcatAssociative
    <3> QED
      BY <1>0, <3>1
  <2>5. Len(t) + Len(m \o u) <= RefTokens
    <3>1. Len(toks) = Len(t) + 2 /\ Len(t) \in Nat
      BY <2>2, <2>3, ConcatProperties, LenProperties
    <3> QED
      BY <1>0, <2>4, <3>1, RefTokensNat
  <2>6. Item(FALSE, m \o u, x, d)
    BY DEF Item, m
  <2>7. Append(vals, v) = vs \o x
    <3>1. PICK S : vs \in Seq(S)
      BY <2>1 DEF IsSeq
    <3> DEFINE T == S \cup {StrValue(k), v}
    <3>2. vs \in Seq(T) /\ <<StrValue(k)>> \in Seq(T) /\ <<v>> \in Seq(T)
      BY <3>1, SeqMonotonic
    <3>3. Append(vals, v) = vals \o <<v>> /\ vals = vs \o <<StrValue(k)>>
      BY <2>1, AppendConcat
    <3>4. (vs \o <<StrValue(k)>>) \o <<v>> = vs \o (<<StrValue(k)>> \o <<v>>)
      BY <3>2, ConcatAssociative
    <3>5. <<StrValue(k)>> \o <<v>> = x
      BY PairConcat
    <3> QED
      BY <3>3, <3>4, <3>5
  <2>8. IsSeq(x) /\ x # <<>>
    <3>1. x \in Seq({StrValue(k), v})
      OBVIOUS
    <3> QED
      BY <3>1 DEF IsSeq
  <2> HIDE DEF x
  <2>9. Held(FALSE, t \o (m \o u), vs \o x, d)
    BY <2>1, <2>4, <2>5, <2>6, <2>8, ItemAdded
  <2> QED
    BY <1>2, <2>4, <2>7, <2>9
<1> QED
  BY <1>1, <1>2

\* The container its closing bracket makes of its items.
LEMMA ContainerClosed ==
    ASSUME NEW arr \in BOOLEAN, NEW toks \in Seq(Token), NEW vals, NEW d \in Depths, d >= 1,
           Held(arr, toks, vals, d - 1) \/ (Begun(arr, toks, vals, d - 1) /\ vals = <<>>),
           Len(toks) + 1 <= RefTokens
    PROVE  Derives("value", toks \o <<Closing(arr)>>, Built(arr, vals), d)
<1>1. CASE Begun(arr, toks, vals, d - 1) /\ vals = <<>>
  <2>1. toks = <<Opening(arr)>> /\ Len(toks) = 1
    BY <1>1, TokenSeqs DEF Begun
  <2>2. toks \o <<Closing(arr)>> = <<Opening(arr), Closing(arr)>>
    BY <2>1, PairConcat
  <2>3. 2 <= RefTokens
    BY <2>1
  <2> QED
    BY <1>1, <2>2, <2>3, EmptyDerived DEF Opening, Closing, Built
<1>2. CASE Held(arr, toks, vals, d - 1)
  <2>1. PICK t \in Seq(Token) : /\ t # <<>> /\ Derives(Items(arr), t, vals, d - 1)
                                /\ toks = <<Opening(arr)>> \o t
    BY <1>2 DEF Held
  <2>2. Len(toks) = 1 + Len(t) /\ Len(t) \in Nat
    BY <2>1, TokenSeqs, ConcatProperties, LenProperties
  <2>3. Len(t) + 2 <= RefTokens
    BY <2>2, RefTokensNat
  <2> QED
    BY <2>1, <2>3, BracketsDerived
<1> QED
  BY <1>1, <1>2

\* The comma after items.
LEMMA CommaAdded ==
    ASSUME NEW arr \in BOOLEAN, NEW toks, NEW vals, NEW d, Held(arr, toks, vals, d)
    PROVE  Begun(arr, toks \o <<"comma">>, vals, d)
BY DEF Held, Begun

-----------------------------------------------------------------------------
(* The document read so far, divided among the open containers.            *)

\* The part of s from a to b.
SameUntil(s, t, b) == b <= Len(s) /\ b <= Len(t) /\ \A i \in 1 .. b : s[i] = t[i]

LEMMA SameParts ==
    ASSUME NEW S, NEW s \in Seq(S), NEW t \in Seq(S), NEW a \in Nat, NEW b \in Nat,
           SameUntil(s, t, b)
    PROVE  SubSeq(s, a + 1, b) = SubSeq(t, a + 1, b)
<1>0. b <= Len(s) /\ b <= Len(t) /\ \A i \in 1 .. b : s[i] = t[i]
  BY DEF SameUntil
<1>1. \A i \in a + 1 .. b : s[i] \in S /\ t[i] \in S /\ s[i] = t[i]
  <2> SUFFICES ASSUME NEW i \in a + 1 .. b PROVE s[i] \in S /\ t[i] \in S /\ s[i] = t[i]
    OBVIOUS
  <2>1. i \in 1 .. b /\ i \in 1 .. Len(s) /\ i \in 1 .. Len(t)
    BY <1>0, LenProperties
  <2> QED
    BY <1>0, <2>1, ElementOfSeq
<1> DEFINE u == SubSeq(s, a + 1, b)
           v == SubSeq(t, a + 1, b)
<1>2. /\ u \in Seq(S) /\ Len(u) = IF a + 1 <= b THEN b - (a + 1) + 1 ELSE 0
      /\ \A i \in 1 .. b - (a + 1) + 1 : u[i] = s[a + 1 + i - 1]
  BY <1>1, SubSeqProperties
<1>3. /\ v \in Seq(S) /\ Len(v) = IF a + 1 <= b THEN b - (a + 1) + 1 ELSE 0
      /\ \A i \in 1 .. b - (a + 1) + 1 : v[i] = t[a + 1 + i - 1]
  BY <1>1, SubSeqProperties
<1> HIDE DEF u, v
<1>4. Len(u) = Len(v)
  BY <1>2, <1>3
<1>5. \A i \in 1 .. Len(u) : u[i] = v[i]
  <2> SUFFICES ASSUME NEW i \in 1 .. Len(u) PROVE u[i] = v[i]
    OBVIOUS
  <2>1. i \in 1 .. b - (a + 1) + 1 /\ a + 1 + i - 1 \in a + 1 .. b
    BY <1>2
  <2> QED
    BY <1>1, <1>2, <1>3, <2>1
<1>6. u = v
  BY <1>2, <1>3, <1>4, <1>5, SeqEqual
<1> QED
  BY <1>6 DEF u, v

\* One more at the end.
LEMMA PartAppend ==
    ASSUME NEW S, NEW s \in Seq(S), NEW x \in S, NEW a \in 0 .. Len(s)
    PROVE  SubSeq(Append(s, x), a + 1, Len(s) + 1) = SubSeq(s, a + 1, Len(s)) \o <<x>>
<1> DEFINE t == Append(s, x)
<1>0. Len(s) \in Nat /\ a \in Nat
  BY LenProperties
<1>1. /\ t \in Seq(S) /\ Len(t) = Len(s) + 1 /\ t[Len(s) + 1] = x
      /\ \A i \in 1 .. Len(s) : t[i] = s[i]
  BY AppendProperties
<1> HIDE DEF t
<1>2. SubSeq(t, a + 1, Len(s)) = SubSeq(s, a + 1, Len(s))
  <2>1. SameUntil(t, s, Len(s))
    BY <1>0, <1>1 DEF SameUntil
  <2> QED
    BY <1>0, <1>1, <2>1, SameParts
<1>3. a + 1 \in 1 .. Len(t) + 1 /\ Len(s) \in a + 1 - 1 .. Len(t) /\ Len(s) + 1 \in Len(s) .. Len(t)
  BY <1>0, <1>1
<1>4. SubSeq(t, a + 1, Len(s)) \o SubSeq(t, Len(s) + 1, Len(s) + 1) = SubSeq(t, a + 1, Len(s) + 1)
  <2> DEFINE m == a + 1
             k == Len(s)
             n == Len(s) + 1
  <2>1. m \in 1 .. Len(t) + 1 /\ k \in m - 1 .. Len(t) /\ n \in k .. Len(t)
    BY <1>3
  <2> HIDE DEF m, k, n
  <2>2. SubSeq(t, m, k) \o SubSeq(t, k + 1, n) = SubSeq(t, m, n)
    BY <1>1, <2>1, ConcatAdjacentSubSeq
  <2> QED
    BY <2>2 DEF m, k, n
<1>5. SubSeq(t, Len(s) + 1, Len(s) + 1) = <<x>>
  <2> DEFINE n == Len(s) + 1
  <2>1. n \in 1 .. Len(t) /\ n \in n .. Len(t) /\ n \in Int /\ n + 1 \in Int /\ n < n + 1
    BY <1>0, <1>1
  <2>2. t[n] = x
    BY <1>1
  <2> HIDE DEF n
  <2>3. SubSeq(t, n, n) = <<t[n]>> \o SubSeq(t, n + 1, n)
    BY <1>1, <2>1, SubSeqRecursiveFirst
  <2>4. SubSeq(t, n + 1, n) = <<>>
    BY <2>1, SubSeqEmpty
  <2>5. <<x>> \in Seq(S)
    OBVIOUS
  <2>6. <<x>> \o <<>> = <<x>>
    BY <2>5, ConcatEmptySeq
  <2> QED
    BY <2>2, <2>3, <2>4, <2>6 DEF n
<1> QED
  BY <1>2, <1>4, <1>5 DEF t

\* The text and the objects of the i-th of the containers c, which began at the
\* positions p of s.
TextOf(c, s, p, i)    == SubSeq(s, p[i] + 1, IF i = Len(c) THEN Len(s) ELSE p[i + 1])
ObjectsOf(c, o, i) == SubSeq(o, c[i].start + 1, FrameEnd(c, o, i))

\* s is the text of the open containers, one after the other; each but the
\* innermost waits for the value that the next one will be.
Divides(c, s, o, p, l) ==
    /\ c \in Seq(Container) /\ Len(c) \in 1 .. DecodeMaxRecursion
    /\ s \in Seq(Token) /\ IsSeq(o)
    /\ p \in [1 .. Len(c) -> Nat] /\ p[1] = 0
    /\ \A i \in 1 .. Len(c) : p[i] <= Len(s) /\ c[i].start <= Len(o)
    /\ \A i \in 1 .. Len(c) - 1 : p[i] <= p[i + 1]
    /\ \A i \in 1 .. Len(c) - 1 :
          Waits(c[i].arr, TextOf(c, s, p, i), ObjectsOf(c, o, i), DecodeMaxRecursion - i)
    /\ Phase(l, TextOf(c, s, p, Len(c)), ObjectsOf(c, o, Len(c)), DecodeMaxRecursion - Len(c))

\* What the first n of the containers c and e have read is the same.
SameUpTo(n, c, s, o, p, e, t, q, r) ==
    \A i \in 1 .. n : /\ r[i] = p[i] /\ e[i].arr = c[i].arr /\ e[i].start = c[i].start
                      /\ p[i] <= Len(s) /\ p[i] <= Len(t)
                      /\ c[i].start <= Len(o) /\ c[i].start <= Len(q)
                      /\ \A j \in 1 .. p[i] : s[j] = t[j]
                      /\ \A j \in 1 .. c[i].start : o[j] = q[j]

Unmoved(n, c, s, o, p, e, t, q, r) ==
    \A i \in 1 .. n - 1 : TextOf(e, t, r, i) = TextOf(c, s, p, i) /\ ObjectsOf(e, q, i) = ObjectsOf(c, o, i)

\* The containers below the n-th are as they were.
LEMMA SuspendedKept ==
    ASSUME NEW S, NEW c \in Seq(Container), NEW s \in Seq(Token), NEW o \in Seq(S), NEW p \in [1 .. Len(c) -> Nat],
           NEW e \in Seq(Container), NEW t \in Seq(Token), NEW q \in Seq(S), NEW r \in [1 .. Len(e) -> Nat],
           NEW n \in Nat, n <= Len(c), n <= Len(e),
           SameUpTo(n, c, s, o, p, e, t, q, r)
    PROVE  Unmoved(n, c, s, o, p, e, t, q, r)
<1> SUFFICES ASSUME NEW i \in 1 .. n - 1
             PROVE  TextOf(e, t, r, i) = TextOf(c, s, p, i) /\ ObjectsOf(e, q, i) = ObjectsOf(c, o, i)
  BY DEF Unmoved
<1>0. \A k \in 1 .. n : /\ r[k] = p[k] /\ e[k].arr = c[k].arr /\ e[k].start = c[k].start
                        /\ p[k] <= Len(s) /\ p[k] <= Len(t)
                        /\ c[k].start <= Len(o) /\ c[k].start <= Len(q)
                        /\ \A j \in 1 .. p[k] : s[j] = t[j]
                        /\ \A j \in 1 .. c[k].start : o[j] = q[j]
  BY DEF SameUpTo
<1>1. i \in 1 .. n /\ i + 1 \in 1 .. n /\ i # Len(c) /\ i # Len(e)
  BY LenProperties
<1>2. p[i] \in Nat /\ p[i + 1] \in Nat /\ c[i].start \in Nat /\ c[i + 1].start \in Nat
  <2>1. i \in 1 .. Len(c) /\ i + 1 \in 1 .. Len(c)
    BY <1>1, LenProperties
  <2> QED
    BY <2>1, ElementOfSeq, SlotsNat
<1>3. SubSeq(t, p[i] + 1, p[i + 1]) = SubSeq(s, p[i] + 1, p[i + 1])
  <2> DEFINE a == p[i]
             b == p[i + 1]
  <2>1. a \in Nat /\ b \in Nat /\ SameUntil(t, s, b)
    BY <1>0, <1>1, <1>2 DEF SameUntil
  <2> HIDE DEF a, b
  <2>2. SubSeq(t, a + 1, b) = SubSeq(s, a + 1, b)
    BY <2>1, SameParts, ZenonT(30)
  <2> QED
    BY <2>2 DEF a, b
<1>4. SubSeq(q, c[i].start + 1, c[i + 1].start) = SubSeq(o, c[i].start + 1, c[i + 1].start)
  <2> DEFINE a == c[i].start
             b == c[i + 1].start
  <2>1. a \in Nat /\ b \in Nat /\ SameUntil(q, o, b)
    BY <1>0, <1>1, <1>2 DEF SameUntil
  <2> HIDE DEF a, b
  <2>2. SubSeq(q, a + 1, b) = SubSeq(o, a + 1, b)
    BY <2>1, SameParts, ZenonT(30)
  <2> QED
    BY <2>2 DEF a, b
<1> QED
  BY <1>0, <1>1, <1>3, <1>4 DEF TextOf, ObjectsOf, FrameEnd

\* What Divides says of the innermost container.
LEMMA Innermost ==
    ASSUME NEW c, NEW s, NEW o, NEW p, NEW l, Divides(c, s, o, p, l)
    PROVE  /\ c \in Seq(Container) /\ Len(c) \in 1 .. DecodeMaxRecursion /\ Len(c) \in 1 .. Len(c)
           /\ s \in Seq(Token) /\ IsSeq(o) /\ Len(s) \in Nat /\ Len(o) \in Nat
           /\ p \in [1 .. Len(c) -> Nat] /\ p[Len(c)] \in 0 .. Len(s)
           /\ c[Len(c)].start \in 0 .. Len(o)
           /\ TextOf(c, s, p, Len(c)) = SubSeq(s, p[Len(c)] + 1, Len(s))
           /\ ObjectsOf(c, o, Len(c)) = SubSeq(o, c[Len(c)].start + 1, Len(o))
           /\ Phase(l, SubSeq(s, p[Len(c)] + 1, Len(s)), SubSeq(o, c[Len(c)].start + 1, Len(o)),
                    DecodeMaxRecursion - Len(c))
           /\ DecodeMaxRecursion - Len(c) \in Depths
<1>1. /\ c \in Seq(Container) /\ Len(c) \in 1 .. DecodeMaxRecursion
      /\ s \in Seq(Token) /\ IsSeq(o)
      /\ p \in [1 .. Len(c) -> Nat]
      /\ \A i \in 1 .. Len(c) : p[i] <= Len(s) /\ c[i].start <= Len(o)
  BY DEF Divides
<1>2. Len(c) \in 1 .. Len(c) /\ Len(s) \in Nat /\ Len(o) \in Nat
  BY <1>1, LenProperties DEF IsSeq
<1>3. p[Len(c)] \in 0 .. Len(s)
  BY <1>1, <1>2
<1>4. c[Len(c)].start \in 0 .. Len(o)
  <2>1. c[Len(c)].start \in Nat
    BY <1>1, <1>2, ElementOfSeq, SlotsNat
  <2> QED
    BY <1>1, <1>2, <2>1
<1>5. /\ TextOf(c, s, p, Len(c)) = SubSeq(s, p[Len(c)] + 1, Len(s))
      /\ ObjectsOf(c, o, Len(c)) = SubSeq(o, c[Len(c)].start + 1, Len(o))
  BY DEF TextOf, ObjectsOf, FrameEnd
<1>6. DecodeMaxRecursion - Len(c) \in Depths
  BY <1>1, RecursionAssumption DEF Depths
<1> QED
  BY <1>1, <1>2, <1>3, <1>4, <1>5, <1>6 DEF Divides

\* A token that the innermost container reads, and at most one object with it.
LEMMA DividesRead ==
    ASSUME NEW c, NEW s, NEW o, NEW p, NEW l, Divides(c, s, o, p, l), NEW t \in Token,
           NEW e \in Seq(Container), Len(e) = Len(c),
           \A i \in 1 .. Len(c) : e[i].arr = c[i].arr /\ e[i].start = c[i].start,
           NEW q, NEW x, NEW m, IsSeq(q), Len(q) >= Len(o), Len(q) \in Nat,
           \A i \in 1 .. Len(o) : q[i] = o[i],
           Phase(m, SubSeq(s, p[Len(c)] + 1, Len(s)) \o <<t>>,
                 SubSeq(q, c[Len(c)].start + 1, Len(q)), DecodeMaxRecursion - Len(c))
    PROVE  Divides(e, Append(s, t), q, p, m)
<1> DEFINE u == Append(s, t)
           n == Len(c)
<1>1. /\ c \in Seq(Container) /\ n \in 1 .. DecodeMaxRecursion /\ n \in 1 .. n
      /\ s \in Seq(Token) /\ IsSeq(o) /\ Len(s) \in Nat /\ Len(o) \in Nat
      /\ p \in [1 .. n -> Nat] /\ p[n] \in 0 .. Len(s)
  BY Innermost
<1>2. /\ u \in Seq(Token) /\ Len(u) = Len(s) + 1 /\ \A j \in 1 .. Len(s) : u[j] = s[j]
  BY <1>1, AppendProperties
<1>3. PICK S : o \in Seq(S) /\ q \in Seq(S)
  <2>1. PICK T, W : o \in Seq(T) /\ q \in Seq(W)
    BY <1>1 DEF IsSeq
  <2>2. o \in Seq(T \cup W) /\ q \in Seq(T \cup W)
    BY <2>1, SeqMonotonic
  <2> QED
    BY <2>2
<1>4. /\ p[1] = 0 /\ \A i \in 1 .. n - 1 : p[i] <= p[i + 1]
      /\ \A i \in 1 .. n : p[i] <= Len(s) /\ c[i].start <= Len(o)
      /\ \A i \in 1 .. n - 1 :
          Waits(c[i].arr, TextOf(c, s, p, i), ObjectsOf(c, o, i), DecodeMaxRecursion - i)
  BY DEF Divides
<1>5. SubSeq(u, p[n] + 1, Len(u)) = SubSeq(s, p[n] + 1, Len(s)) \o <<t>>
  BY <1>1, <1>2, PartAppend
<1> HIDE DEF u
<1>6. \A i \in 1 .. n : p[i] \in Nat /\ c[i].start \in Nat
  <2> TAKE i \in 1 .. n
  <2>1. c[i].start \in Nat
    BY <1>1, ElementOfSeq, SlotsNat
  <2> QED
    BY <1>1, <2>1
<1>7. \A i \in 1 .. n : p[i] <= Len(u) /\ c[i].start <= Len(q)
  <2> TAKE i \in 1 .. n
  <2>1. \A a, b, k \in Nat : a <= b /\ b <= k => a <= k
    OBVIOUS
  <2>2. Len(u) \in Nat /\ Len(s) <= Len(u)
    BY <1>1, <1>2
  <2> QED
    BY <1>1, <1>4, <1>6, <2>1, <2>2
<1>8. SameUpTo(n, c, s, o, p, e, u, q, p)
  <2> SUFFICES ASSUME NEW i \in 1 .. n
               PROVE  /\ p[i] = p[i] /\ e[i].arr = c[i].arr /\ e[i].start = c[i].start
                      /\ p[i] <= Len(s) /\ p[i] <= Len(u)
                      /\ c[i].start <= Len(o) /\ c[i].start <= Len(q)
                      /\ \A j \in 1 .. p[i] : s[j] = u[j]
                      /\ \A j \in 1 .. c[i].start : o[j] = q[j]
    BY DEF SameUpTo
  <2>1. \A j \in 1 .. p[i] : j \in 1 .. Len(s)
    BY <1>1, <1>4, <1>6
  <2>2. \A j \in 1 .. c[i].start : j \in 1 .. Len(o)
    BY <1>1, <1>4, <1>6
  <2> QED
    BY <1>2, <1>4, <1>7, <2>1, <2>2
<1>9. \A i \in 1 .. n - 1 : TextOf(e, u, p, i) = TextOf(c, s, p, i) /\ ObjectsOf(e, q, i) = ObjectsOf(c, o, i)
  <2> SUFFICES Unmoved(n, c, s, o, p, e, u, q, p)
    BY DEF Unmoved
  <2>1. n \in Nat /\ n <= Len(c) /\ n <= Len(e) /\ p \in [1 .. Len(e) -> Nat]
        /\ p \in [1 .. Len(c) -> Nat] /\ c \in Seq(Container) /\ s \in Seq(Token)
    BY <1>1
  <2> HIDE DEF n
  <2> QED
    BY <1>2, <1>3, <1>8, <2>1, SuspendedKept
<1>10. \A i \in 1 .. n - 1 :
          Waits(e[i].arr, TextOf(e, u, p, i), ObjectsOf(e, q, i), DecodeMaxRecursion - i)
  <2> TAKE i \in 1 .. n - 1
  <2>1. i \in 1 .. n
    BY <1>1
  <2> QED
    BY <1>4, <1>9, <2>1
<1>11. /\ TextOf(e, u, p, n) = SubSeq(s, p[n] + 1, Len(s)) \o <<t>>
       /\ ObjectsOf(e, q, n) = SubSeq(q, c[n].start + 1, Len(q))
  BY <1>1, <1>5 DEF TextOf, ObjectsOf, FrameEnd
<1>12. Phase(m, TextOf(e, u, p, n), ObjectsOf(e, q, n), DecodeMaxRecursion - n)
  BY <1>11
<1>13. Divides(e, u, q, p, m)
  BY <1>1, <1>2, <1>4, <1>7, <1>10, <1>12 DEF Divides
<1> QED
  BY <1>13 DEF u

\* Where the containers began, once one more is opened.
BeganAfterOpen(c, s, p) == [i \in 1 .. Len(c) + 1 |-> IF i <= Len(c) THEN p[i] ELSE Len(s)]

LEMMA TextAppend ==
    ASSUME NEW s \in Seq(Token), NEW t \in Token
    PROVE  /\ Append(s, t) \in Seq(Token) /\ Len(Append(s, t)) = Len(s) + 1 /\ Len(s) \in Nat
           /\ \A j \in 1 .. Len(s) : Append(s, t)[j] = s[j]
           /\ SameUntil(Append(s, t), s, Len(s))
<1>1. /\ Append(s, t) \in Seq(Token) /\ Len(Append(s, t)) = Len(s) + 1 /\ Len(s) \in Nat
      /\ \A j \in 1 .. Len(s) : Append(s, t)[j] = s[j]
  BY AppendProperties, LenProperties
<1> QED
  BY <1>1 DEF SameUntil

LEMMA SameUntilLess ==
    ASSUME NEW s, NEW t, NEW a \in Nat, NEW b \in Nat, a <= b, SameUntil(s, t, b), Len(s) \in Nat, Len(t) \in Nat
    PROVE  SameUntil(s, t, a)
BY DEF SameUntil

\* A container that is opened where a value is awaited.
LEMMA DividesOpen ==
    ASSUME NEW c, NEW s, NEW o, NEW p, NEW l \in ValueLabels, Divides(c, s, o, p, l),
           c[Len(c)].arr = (l = "arr_val_begin"), Len(c) < DecodeMaxRecursion, NEW arr \in BOOLEAN
    PROVE  Divides(Append(c, [arr |-> arr, len |-> 0, start |-> Len(o)]), Append(s, Opening(arr)), o,
                   BeganAfterOpen(c, s, p), IF arr THEN "arr_val_begin" ELSE "obj_key_begin")
<1> DEFINE u == Append(s, Opening(arr))
           n == Len(c)
           x == [arr |-> arr, len |-> 0, start |-> Len(o)]
           e == Append(c, x)
           r == BeganAfterOpen(c, s, p)
           m == IF arr THEN "arr_val_begin" ELSE "obj_key_begin"
<1>1. /\ c \in Seq(Container) /\ n \in 1 .. DecodeMaxRecursion /\ n \in 1 .. n
      /\ s \in Seq(Token) /\ IsSeq(o) /\ Len(s) \in Nat /\ Len(o) \in Nat
      /\ p \in [1 .. n -> Nat] /\ p[n] \in 0 .. Len(s) /\ c[n].start \in 0 .. Len(o)
      /\ DecodeMaxRecursion - n \in Depths
  BY Innermost
<1>2. /\ u \in Seq(Token) /\ Len(u) = Len(s) + 1 /\ \A j \in 1 .. Len(s) : u[j] = s[j]
      /\ SameUntil(u, s, Len(s))
  <2>1. Opening(arr) \in Token
    BY DEF Opening, Token, Punct
  <2> QED
    BY <1>1, <2>1, TextAppend
<1>3. /\ e \in Seq(Container) /\ Len(e) = n + 1 /\ \A i \in 1 .. n : e[i] = c[i]
      /\ e[n + 1].start = Len(o) /\ e[n + 1].arr = arr
  <2>1. x \in Container /\ x.start = Len(o) /\ x.arr = arr
    BY <1>1 DEF Container
  <2> HIDE DEF x
  <2> QED
    BY <1>1, <2>1, AppendProperties
<1>4. /\ r \in [1 .. n + 1 -> Nat] /\ r[n + 1] = Len(s) /\ \A i \in 1 .. n : r[i] = p[i]
  BY <1>1 DEF BeganAfterOpen
<1>5. /\ p[1] = 0 /\ \A i \in 1 .. n - 1 : p[i] <= p[i + 1]
      /\ \A i \in 1 .. n : p[i] <= Len(s) /\ c[i].start <= Len(o)
      /\ \A i \in 1 .. n - 1 :
          Waits(c[i].arr, TextOf(c, s, p, i), ObjectsOf(c, o, i), DecodeMaxRecursion - i)
      /\ Phase(l, TextOf(c, s, p, n), ObjectsOf(c, o, n), DecodeMaxRecursion - n)
  BY DEF Divides
<1>6. SubSeq(u, Len(s) + 1, Len(u)) = <<Opening(arr)>>
  <2>1. Opening(arr) \in Token /\ Len(s) \in 0 .. Len(s)
    BY <1>1 DEF Opening, Token, Punct
  <2>2. SubSeq(u, Len(s) + 1, Len(s) + 1) = SubSeq(s, Len(s) + 1, Len(s)) \o <<Opening(arr)>>
    BY <1>1, <2>1, PartAppend
  <2>3. SubSeq(s, Len(s) + 1, Len(s)) = <<>>
    BY <1>1, SubSeqEmpty
  <2>4. <<>> \o <<Opening(arr)>> = <<Opening(arr)>>
    BY TokenSeqs, ConcatEmptySeq
  <2> QED
    BY <1>2, <2>2, <2>3, <2>4
<1>7. SubSeq(o, Len(o) + 1, Len(o)) = <<>>
  BY <1>1, SubSeqEmpty
<1>8. SubSeq(u, p[n] + 1, Len(s)) = SubSeq(s, p[n] + 1, Len(s))
  <2> DEFINE a == p[n]
             b == Len(s)
  <2>1. a \in Nat /\ b \in Nat /\ SameUntil(u, s, b) /\ u \in Seq(Token) /\ s \in Seq(Token)
    BY <1>1, <1>2
  <2> HIDE DEF a, b, u
  <2>2. SubSeq(u, a + 1, b) = SubSeq(s, a + 1, b)
    BY <2>1, SameParts
  <2> QED
    BY <2>2 DEF a, b
<1> HIDE DEF u, x, e, r
<1>9. \A i \in 1 .. n : p[i] \in Nat /\ c[i].start \in Nat /\ c[i].arr \in BOOLEAN
  <2> TAKE i \in 1 .. n
  <2>1. c[i].start \in Nat /\ c[i].arr \in BOOLEAN
    BY <1>1, ElementOfSeq, SlotsNat
  <2> QED
    BY <1>1, <2>1
<1>10. Unmoved(n, c, s, o, p, e, u, o, r)
  <2>1. SameUpTo(n, c, s, o, p, e, u, o, r)
    <3> SUFFICES ASSUME NEW i \in 1 .. n
                 PROVE  /\ r[i] = p[i] /\ e[i].arr = c[i].arr /\ e[i].start = c[i].start
                        /\ p[i] <= Len(s) /\ p[i] <= Len(u)
                        /\ c[i].start <= Len(o) /\ c[i].start <= Len(o)
                        /\ \A j \in 1 .. p[i] : s[j] = u[j]
                        /\ \A j \in 1 .. c[i].start : o[j] = o[j]
      BY DEF SameUpTo
    <3>1. \A j \in 1 .. p[i] : j \in 1 .. Len(s)
      BY <1>1, <1>5, <1>9
    <3>2. p[i] <= Len(u)
      BY <1>1, <1>2, <1>5, <1>9
    <3> QED
      BY <1>2, <1>3, <1>4, <1>5, <3>1, <3>2
  <2>2. /\ n \in Nat /\ n <= Len(c) /\ n <= Len(e) /\ c \in Seq(Container) /\ s \in Seq(Token)
        /\ p \in [1 .. Len(c) -> Nat] /\ r \in [1 .. Len(e) -> Nat]
    BY <1>1, <1>3, <1>4
  <2>3. PICK S : o \in Seq(S)
    BY <1>1 DEF IsSeq
  <2> HIDE DEF n
  <2> QED
    BY <1>2, <1>3, <2>1, <2>2, <2>3, SuspendedKept
<1>11. ASSUME NEW i \in 1 .. Len(e) - 1
       PROVE  Waits(e[i].arr, TextOf(e, u, r, i), ObjectsOf(e, o, i), DecodeMaxRecursion - i)
  <2>1. i \in 1 .. n
    BY <1>1, <1>3
  <2>2. CASE i # n
    <3>1. i \in 1 .. n - 1
      BY <1>1, <2>1, <2>2
    <3>2. TextOf(e, u, r, i) = TextOf(c, s, p, i) /\ ObjectsOf(e, o, i) = ObjectsOf(c, o, i)
      BY <1>10, <3>1 DEF Unmoved
    <3> QED
      BY <1>3, <1>5, <2>1, <3>1, <3>2
  <2>3. CASE i = n
    <3>1. TextOf(e, u, r, n) = SubSeq(s, p[n] + 1, Len(s))
      <4>1. n # Len(e) /\ r[n + 1] = Len(s) /\ r[n] = p[n]
        BY <1>1, <1>3, <1>4
      <4>2. TextOf(e, u, r, n) = SubSeq(u, p[n] + 1, Len(s))
        BY <4>1 DEF TextOf
      <4> QED
        BY <1>8, <4>2
    <3>2. ObjectsOf(e, o, n) = SubSeq(o, c[n].start + 1, Len(o))
      <4>1. n # Len(e) /\ e[n + 1].start = Len(o) /\ e[n].start = c[n].start
        BY <1>1, <1>3
      <4> QED
        BY <4>1 DEF ObjectsOf, FrameEnd
    <3>3. /\ TextOf(c, s, p, n) = SubSeq(s, p[n] + 1, Len(s))
          /\ ObjectsOf(c, o, n) = SubSeq(o, c[n].start + 1, Len(o))
      BY DEF TextOf, ObjectsOf, FrameEnd
    <3>4. Waits(c[n].arr, TextOf(c, s, p, n), ObjectsOf(c, o, n), DecodeMaxRecursion - n)
      BY <1>5 DEF Phase, Waits, ValueLabels
    <3> QED
      BY <1>1, <1>3, <2>3, <3>1, <3>2, <3>3, <3>4
  <2> QED
    BY <2>2, <2>3
<1>12. Phase(m, TextOf(e, u, r, n + 1), ObjectsOf(e, o, n + 1), DecodeMaxRecursion - (n + 1))
  <2>1. TextOf(e, u, r, n + 1) = <<Opening(arr)>> /\ ObjectsOf(e, o, n + 1) = <<>>
    BY <1>3, <1>4, <1>6, <1>7 DEF TextOf, ObjectsOf, FrameEnd
  <2>2. (m = "arr_val_begin" /\ arr = TRUE) \/ (m = "obj_key_begin" /\ arr = FALSE)
    OBVIOUS
  <2> HIDE DEF m
  <2> QED
    BY <2>1, <2>2 DEF Phase, Begun
<1>13. n + 1 \in 1 .. DecodeMaxRecursion
  BY <1>1, RecursionAssumption
<1>14. ASSUME NEW i \in 1 .. Len(e) PROVE r[i] <= Len(u) /\ e[i].start <= Len(o)
  <2>1. CASE i = n + 1
    <3>1. r[i] = Len(s) /\ e[i].start = Len(o)
      BY <1>3, <1>4, <2>1
    <3> QED
      BY <1>1, <1>2, <3>1
  <2>2. CASE i # n + 1
    <3>1. i \in 1 .. n
      BY <1>1, <1>3, <2>2
    <3>2. r[i] = p[i] /\ e[i].start = c[i].start
      BY <1>3, <1>4, <3>1
    <3>3. p[i] \in Nat /\ p[i] <= Len(s) /\ c[i].start <= Len(o)
      BY <1>5, <1>9, <3>1
    <3>4. p[i] <= Len(u)
      BY <1>1, <1>2, <3>3
    <3> QED
      BY <3>2, <3>3, <3>4
  <2> QED
    BY <2>1, <2>2
<1>15. ASSUME NEW i \in 1 .. Len(e) - 1 PROVE r[i] <= r[i + 1]
  <2>1. i \in 1 .. n
    BY <1>1, <1>3
  <2>2. CASE i = n
    BY <1>1, <1>4, <2>1, <2>2
  <2>3. CASE i # n
    <3>1. i \in 1 .. n - 1 /\ i + 1 \in 1 .. n
      BY <1>1, <2>1, <2>3
    <3> QED
      BY <1>4, <1>5, <2>1, <3>1
  <2> QED
    BY <2>2, <2>3
<1>16. r[1] = 0
  <2>1. 1 \in 1 .. n
    BY <1>1
  <2> QED
    BY <1>4, <1>5, <2>1
<1> HIDE DEF m
<1>17. Divides(e, u, o, r, m)
  BY <1>1, <1>2, <1>3, <1>4, <1>11, <1>12, <1>13, <1>14, <1>15, <1>16 DEF Divides
<1> QED
  BY <1>17 DEF e, u, r, m, x

\* A part of a text is no longer than the text.
LEMMA PartLength ==
    ASSUME NEW s \in Seq(Token), NEW a \in 0 .. Len(s)
    PROVE  SubSeq(s, a + 1, Len(s)) \in Seq(Token) /\ Len(SubSeq(s, a + 1, Len(s))) <= Len(s)
<1>0. Len(s) \in Nat /\ a \in Nat /\ a <= Len(s)
  BY LenProperties
<1> DEFINE m == a + 1
           n == Len(s)
<1>1. m \in Int /\ n \in Int
  BY <1>0
<1>2. \A i \in m .. n : s[i] \in Token
  BY <1>0, ElementOfSeq
<1> HIDE DEF m, n
<1>3. /\ SubSeq(s, m, n) \in Seq(Token)
      /\ Len(SubSeq(s, m, n)) = IF m <= n THEN n - m + 1 ELSE 0
  BY <1>1, <1>2, SubSeqProperties
<1> QED
  BY <1>0, <1>3 DEF m, n

\* The innermost container becomes a value of the one around it.
LEMMA DividesClose ==
    ASSUME NEW c, NEW s, NEW o, NEW p, NEW l, Divides(c, s, o, p, l), Len(c) > 1, NEW t \in Token,
           \A i \in 1 .. Len(c) : c[i].start <= c[Len(c)].start, NEW v,
           Derives("value", SubSeq(s, p[Len(c)] + 1, Len(s)) \o <<t>>, v, DecodeMaxRecursion - Len(c) + 1),
           Len(s) + 1 <= RefTokens,
           NEW e \in Seq(Container), Len(e) = Len(c) - 1,
           \A i \in 1 .. Len(c) - 1 : e[i].arr = c[i].arr /\ e[i].start = c[i].start,
           NEW q, q = Append(SubSeq(o, 1, c[Len(c)].start), v)
    PROVE  Divides(e, Append(s, t), q, [i \in 1 .. Len(e) |-> p[i]], ValueEnd(c[Len(c) - 1].arr))
<1> DEFINE n == Len(c)
           k == n - 1
           u == Append(s, t)
           r == [i \in 1 .. Len(e) |-> p[i]]
           b == SubSeq(o, 1, c[n].start)
<1>1. /\ c \in Seq(Container) /\ n \in 1 .. DecodeMaxRecursion /\ n \in 1 .. n
      /\ s \in Seq(Token) /\ IsSeq(o) /\ Len(s) \in Nat /\ Len(o) \in Nat
      /\ p \in [1 .. n -> Nat] /\ p[n] \in 0 .. Len(s) /\ c[n].start \in 0 .. Len(o)
  BY Innermost
<1>2. k \in 1 .. n /\ k \in 1 .. n - 1 /\ k + 1 = n /\ k \in 1 .. DecodeMaxRecursion /\ Len(e) = k
      /\ k \in 1 .. k /\ n # k
  <2>1. n \in Int /\ n > 1 /\ n <= DecodeMaxRecursion /\ DecodeMaxRecursion \in Int /\ Len(e) = n - 1
    BY <1>1, RecursionAssumption
  <2> HIDE DEF n
  <2> QED
    BY <2>1
<1>3. /\ u \in Seq(Token) /\ Len(u) = Len(s) + 1 /\ \A j \in 1 .. Len(s) : u[j] = s[j]
      /\ SameUntil(u, s, Len(s))
  BY <1>1, TextAppend
<1>4. PICK S : o \in Seq(S) /\ v \in S
  <2>1. PICK T : o \in Seq(T)
    BY <1>1 DEF IsSeq
  <2>2. o \in Seq(T \cup {v})
    BY <2>1, SeqMonotonic
  <2> QED
    BY <2>2
<1>5. /\ b \in Seq(S) /\ Len(b) = c[n].start /\ \A j \in 1 .. c[n].start : b[j] = o[j]
  <2> DEFINE a == c[n].start
  <2>1. a \in Nat /\ a <= Len(o) /\ a \in Int /\ 1 \in Int
    BY <1>1
  <2>2. \A j \in 1 .. a : o[j] \in S
    BY <1>1, <1>4, <2>1, ElementOfSeq
  <2> HIDE DEF a
  <2>3. /\ SubSeq(o, 1, a) \in Seq(S)
        /\ Len(SubSeq(o, 1, a)) = IF 1 <= a THEN a - 1 + 1 ELSE 0
        /\ \A j \in 1 .. a - 1 + 1 : SubSeq(o, 1, a)[j] = o[1 + j - 1]
    BY <2>1, <2>2, SubSeqProperties
  <2>4. Len(SubSeq(o, 1, a)) = a
    BY <2>1, <2>3
  <2>5. \A j \in 1 .. a : SubSeq(o, 1, a)[j] = o[j]
    BY <2>1, <2>3
  <2> QED
    BY <2>3, <2>4, <2>5 DEF a
<1>6. /\ q \in Seq(S) /\ Len(q) = c[n].start + 1 /\ \A j \in 1 .. c[n].start : q[j] = o[j]
      /\ IsSeq(q)
  <2> HIDE DEF b
  <2>0. b \in Seq(S) /\ v \in S
    BY <1>4, <1>5
  <2>1. q = Append(b, v)
    BY DEF b
  <2>a. /\ Append(b, v) \in Seq(S) /\ Len(Append(b, v)) = Len(b) + 1
        /\ \A j \in 1 .. Len(b) : Append(b, v)[j] = b[j]
    BY <2>0, AppendProperties
  <2>2. q \in Seq(S) /\ Len(q) = Len(b) + 1 /\ \A j \in 1 .. Len(b) : q[j] = b[j]
    BY <2>1, <2>a
  <2> QED
    BY <1>5, <2>2 DEF IsSeq
<1>7. /\ p[1] = 0 /\ \A i \in 1 .. n - 1 : p[i] <= p[i + 1]
      /\ \A i \in 1 .. n : p[i] <= Len(s) /\ c[i].start <= Len(o)
      /\ \A i \in 1 .. n - 1 :
          Waits(c[i].arr, TextOf(c, s, p, i), ObjectsOf(c, o, i), DecodeMaxRecursion - i)
  BY DEF Divides
<1>8. r \in [1 .. Len(e) -> Nat] /\ \A i \in 1 .. k : r[i] = p[i]
  BY <1>1, <1>2
<1>9. \A i \in 1 .. n : p[i] \in Nat /\ c[i].start \in Nat /\ c[i].arr \in BOOLEAN
  <2> TAKE i \in 1 .. n
  <2>1. c[i].start \in Nat /\ c[i].arr \in BOOLEAN
    BY <1>1, ElementOfSeq, SlotsNat
  <2> QED
    BY <1>1, <2>1
<1>10. ASSUME NEW i \in 1 .. k
       PROVE  /\ i \in 1 .. n /\ p[i] <= Len(s) /\ p[i] <= Len(u) /\ c[i].start <= Len(o)
              /\ c[i].start <= c[n].start /\ c[i].start <= Len(q)
  <2>1. i \in 1 .. n
    BY <1>1
  <2>2. c[i].start <= c[n].start /\ p[i] <= Len(s) /\ c[i].start <= Len(o) /\ p[i] \in Nat /\ c[i].start \in Nat
    BY <1>7, <1>9, <2>1
  <2>3. p[i] <= Len(u)
    BY <1>1, <1>3, <2>2
  <2>4. c[i].start <= Len(q)
    BY <1>1, <1>6, <2>2
  <2> QED
    BY <2>1, <2>2, <2>3, <2>4
<1> HIDE DEF u, r, b
<1>11. Unmoved(k, c, s, o, p, e, u, q, r)
  <2>1. SameUpTo(k, c, s, o, p, e, u, q, r)
    <3> SUFFICES ASSUME NEW i \in 1 .. k
                 PROVE  /\ r[i] = p[i] /\ e[i].arr = c[i].arr /\ e[i].start = c[i].start
                        /\ p[i] <= Len(s) /\ p[i] <= Len(u)
                        /\ c[i].start <= Len(o) /\ c[i].start <= Len(q)
                        /\ \A j \in 1 .. p[i] : s[j] = u[j]
                        /\ \A j \in 1 .. c[i].start : o[j] = q[j]
      BY DEF SameUpTo
    <3>1. \A j \in 1 .. p[i] : j \in 1 .. Len(s)
      BY <1>1, <1>9, <1>10
    <3>2. \A j \in 1 .. c[i].start : j \in 1 .. c[n].start
      <4> DEFINE x == c[i].start
                 y == c[n].start
      <4>1. x \in Nat /\ y \in Nat /\ x <= y
        BY <1>1, <1>9, <1>10
      <4> HIDE DEF x, y
      <4>2. \A j \in 1 .. x : j \in 1 .. y
        BY <4>1
      <4> QED
        BY <4>2 DEF x, y
    <3>3. e[i].arr = c[i].arr /\ e[i].start = c[i].start /\ r[i] = p[i]
      BY <1>8
    <3> QED
      BY <1>3, <1>6, <1>10, <3>1, <3>2, <3>3
  <2>2. /\ k \in Nat /\ k <= Len(c) /\ k <= Len(e) /\ c \in Seq(Container) /\ s \in Seq(Token)
        /\ p \in [1 .. Len(c) -> Nat]
    BY <1>1, <1>2
  <2> HIDE DEF n, k
  <2> QED
    BY <1>3, <1>4, <1>6, <1>8, <2>1, <2>2, SuspendedKept
<1> DEFINE toks == TextOf(c, s, p, k)
           vals == ObjectsOf(c, o, k)
           inner == SubSeq(s, p[n] + 1, Len(s)) \o <<t>>
           d == DecodeMaxRecursion - k
<1>12. TextOf(e, u, r, k) = toks \o inner
  <2>1. TextOf(e, u, r, k) = SubSeq(u, p[k] + 1, Len(u))
    BY <1>2, <1>8 DEF TextOf
  <2>2. toks = SubSeq(s, p[k] + 1, p[n])
    BY <1>2 DEF TextOf
  <2>3. inner = SubSeq(u, p[n] + 1, Len(u))
    BY <1>1, <1>3, PartAppend DEF u
  <2>4. SubSeq(u, p[k] + 1, p[n]) = SubSeq(s, p[k] + 1, p[n])
    <3> DEFINE x == p[k]
               y == p[n]
               w == Len(s)
    <3>1. x \in Nat /\ y \in Nat /\ y <= w /\ SameUntil(u, s, w) /\ u \in Seq(Token) /\ s \in Seq(Token)
          /\ Len(s) \in Nat /\ Len(u) \in Nat /\ w \in Nat
      BY <1>1, <1>2, <1>3, <1>9
    <3> HIDE DEF x, y, w
    <3>2. SameUntil(u, s, y) /\ x \in Nat /\ y \in Nat /\ u \in Seq(Token) /\ s \in Seq(Token)
      BY <3>1, SameUntilLess
    <3>3. SubSeq(u, x + 1, y) = SubSeq(s, x + 1, y)
      BY <3>2, SameParts
    <3> QED
      BY <3>3 DEF x, y
  <2>5. SubSeq(u, p[k] + 1, p[n]) \o SubSeq(u, p[n] + 1, Len(u)) = SubSeq(u, p[k] + 1, Len(u))
    <3> DEFINE m == p[k] + 1
               y == p[n]
               w == Len(u)
    <3>1. p[k] <= p[n] /\ p[k] \in Nat /\ p[n] \in Nat /\ p[n] <= Len(s)
      BY <1>1, <1>2, <1>7, <1>9
    <3>2. m \in 1 .. Len(u) + 1 /\ y \in m - 1 .. Len(u) /\ w \in y .. Len(u)
      <4> DEFINE x == p[k]
      <4>1. m = x + 1 /\ x <= y /\ x \in Nat /\ y \in Nat /\ y <= Len(s) /\ w = Len(s) + 1 /\ w = Len(u) /\ Len(s) \in Nat
        BY <1>1, <1>3, <3>1
      <4> HIDE DEF x, y, m, w
      <4> QED
        BY <4>1
    <3> HIDE DEF m, y, w
    <3>3. SubSeq(u, m, y) \o SubSeq(u, y + 1, w) = SubSeq(u, m, w)
      BY <1>3, <3>2, ConcatAdjacentSubSeq
    <3> QED
      BY <3>3 DEF m, y, w
  <2> HIDE DEF inner, toks
  <2> QED
    BY <2>1, <2>2, <2>3, <2>4, <2>5
<1>13. ObjectsOf(e, q, k) = Append(vals, v) /\ IsSeq(vals)
  <2> DEFINE a == c[k].start
             z == c[n].start
  <2>0. a \in Nat /\ z \in Nat /\ a <= z /\ z <= Len(o) /\ a \in 0 .. Len(b)
    <3>1. a \in Nat /\ z \in Nat /\ a <= z /\ z <= Len(o) /\ Len(b) = z
      <4>1. a \in Nat /\ a <= z
        BY <1>2, <1>9, <1>10
      <4>2. z \in Nat /\ z <= Len(o)
        BY <1>1
      <4>3. Len(b) = z
        BY <1>5
      <4> QED
        BY <4>1, <4>2, <4>3
    <3> HIDE DEF a, z
    <3> QED
      BY <3>1
  <2>1. ObjectsOf(e, q, k) = SubSeq(q, a + 1, Len(b) + 1)
    <3>1. e[k].start = c[k].start
      BY <1>2
    <3> QED
      BY <1>2, <1>5, <1>6, <3>1 DEF ObjectsOf, FrameEnd
  <2>2. vals = SubSeq(o, a + 1, z)
    BY <1>2 DEF ObjectsOf, FrameEnd
  <2>3. q = Append(b, v) /\ Len(b) = z
    BY <1>5 DEF b
  <2> HIDE DEF a, z
  <2>4. SubSeq(q, a + 1, Len(b) + 1) = SubSeq(b, a + 1, Len(b)) \o <<v>>
    <3>1. SubSeq(Append(b, v), a + 1, Len(b) + 1) = SubSeq(b, a + 1, Len(b)) \o <<v>>
      BY <1>4, <1>5, <2>0, PartAppend
    <3> QED
      BY <2>3, <3>1
  <2>5. SubSeq(b, a + 1, z) = SubSeq(o, a + 1, z)
    <3>1. SameUntil(b, o, z)
      BY <1>5, <2>0, <2>3 DEF SameUntil, z
    <3> QED
      BY <1>4, <1>5, <2>0, <3>1, SameParts
  <2>6. IsSeq(vals)
    <3>1. SubSeq(o, a + 1, z) \in Seq(S)
      <4>1. \A j \in a + 1 .. z : o[j] \in S
        BY <1>1, <1>4, <2>0, ElementOfSeq
      <4> DEFINE m == a + 1
      <4>2. m \in Int /\ z \in Int
        BY <2>0
      <4> HIDE DEF m
      <4>3. SubSeq(o, m, z) \in Seq(S)
        BY <4>1, <4>2, SubSeqProperties DEF m
      <4> QED
        BY <4>3 DEF m
    <3> QED
      BY <2>2, <3>1 DEF IsSeq
  <2> HIDE DEF vals
  <2>7. Append(vals, v) = vals \o <<v>>
    BY <2>6, AppendConcat
  <2> QED
    BY <2>1, <2>2, <2>3, <2>4, <2>5, <2>6, <2>7
<1>14. d \in Depths /\ Derives("value", inner, v, d)
  <2>1. d = DecodeMaxRecursion - n + 1
    BY <1>1, RecursionAssumption
  <2>2. d \in Depths
    BY <1>2, RecursionAssumption DEF Depths
  <2> HIDE DEF inner
  <2> QED
    BY <2>1, <2>2 DEF inner
<1>15. /\ toks \in Seq(Token) /\ inner \in Seq(Token) /\ inner # <<>>
       /\ Len(toks) + Len(inner) <= RefTokens
  <2>1. toks \in Seq(Token)
    <3>1. toks = SubSeq(s, p[k] + 1, p[n])
      BY <1>2 DEF TextOf
    <3> DEFINE x == p[k] + 1
               y == p[n]
    <3>2. x \in Int /\ y \in Int /\ \A j \in x .. y : s[j] \in Token
      <4>1. p[k] \in Nat /\ p[n] \in Nat /\ p[n] <= Len(s)
        BY <1>1, <1>2, <1>9
      <4>2. \A j \in x .. y : j \in 1 .. Len(s)
        BY <1>1, <4>1
      <4> QED
        BY <1>1, <4>1, <4>2, ElementOfSeq
    <3> HIDE DEF x, y
    <3>3. SubSeq(s, x, y) \in Seq(Token)
      BY <3>2, SubSeqProperties
    <3> QED
      BY <3>1, <3>3 DEF x, y
  <2>2. inner \in Seq(Token) /\ inner # <<>>
    <3> DEFINE a == SubSeq(s, p[n] + 1, Len(s))
    <3>1. a \in Seq(Token)
      BY <1>1, PartLength
    <3> HIDE DEF a
    <3>2. <<t>> \in Seq(Token) /\ Len(<<t>>) = 1
      OBVIOUS
    <3>3. a \o <<t>> \in Seq(Token) /\ Len(a \o <<t>>) = Len(a) + 1 /\ Len(a) \in Nat
      BY <3>1, <3>2, TextConcat
    <3>4. a \o <<t>> # <<>>
      BY <3>3
    <3> QED
      BY <3>3, <3>4 DEF a
  <2> HIDE DEF toks, inner
  <2>3. Len(toks \o inner) = Len(toks) + Len(inner)
    BY <2>1, <2>2, TextConcat
  <2>4. Len(TextOf(e, u, r, k)) <= Len(u)
    <3>1. TextOf(e, u, r, k) = SubSeq(u, p[k] + 1, Len(u))
      BY <1>2, <1>8 DEF TextOf
    <3>2. p[k] \in 0 .. Len(u)
      BY <1>1, <1>2, <1>3, <1>9, <1>10
    <3> QED
      BY <1>3, <3>1, <3>2, PartLength
  <2>5. Len(TextOf(e, u, r, k)) = Len(toks) + Len(inner) /\ Len(toks) \in Nat /\ Len(inner) \in Nat
    BY <1>12, <2>1, <2>2, <2>3, LenProperties
  <2> QED
    BY <1>1, <1>3, <2>1, <2>2, <2>4, <2>5, RefTokensNat
<1>16. Waits(c[k].arr, toks, vals, d) /\ c[k].arr \in BOOLEAN
  BY <1>2, <1>7, <1>9
<1> HIDE DEF toks, inner, vals, d
<1>17. Held(c[k].arr, TextOf(e, u, r, k), ObjectsOf(e, q, k), d)
  BY <1>12, <1>13, <1>14, <1>15, <1>16, ValueAdded
<1>18. Phase(ValueEnd(c[k].arr), TextOf(e, u, r, k), ObjectsOf(e, q, k), d)
  BY <1>16, <1>17 DEF Phase, ValueEnd
<1>19. ASSUME NEW i \in 1 .. k - 1
       PROVE  Waits(e[i].arr, TextOf(e, u, r, i), ObjectsOf(e, q, i), DecodeMaxRecursion - i)
  <2>1. i \in 1 .. n - 1 /\ e[i].arr = c[i].arr
    BY <1>1
  <2>2. TextOf(e, u, r, i) = TextOf(c, s, p, i) /\ ObjectsOf(e, q, i) = ObjectsOf(c, o, i)
    BY <1>11 DEF Unmoved
  <2> QED
    BY <1>7, <2>1, <2>2
<1>20. ASSUME NEW i \in 1 .. k PROVE r[i] <= Len(u) /\ e[i].start <= Len(q)
  <2>1. e[i].start = c[i].start
    OBVIOUS
  <2> QED
    BY <1>8, <1>10, <2>1
<1>21. ASSUME NEW i \in 1 .. k - 1 PROVE r[i] <= r[i + 1]
  <2>1. i \in 1 .. k /\ i + 1 \in 1 .. k /\ i \in 1 .. n - 1
    BY <1>1
  <2> QED
    BY <1>7, <1>8, <2>1
<1>22. r[1] = 0
  <2>1. 1 \in 1 .. k
    BY <1>1
  <2> QED
    BY <1>7, <1>8, <2>1
<1>23. Divides(e, u, q, r, ValueEnd(c[k].arr))
  BY <1>1, <1>2, <1>3, <1>6, <1>8, <1>18, <1>19, <1>20, <1>21, <1>22 DEF Divides, d
<1> QED
  BY <1>23 DEF u, r

-----------------------------------------------------------------------------
(* The reader's result is the value of the document.                       *)

Open == Running \cup {"start", "doc_end", "single_end"}

\* What has been read is the beginning of a document, divided among the containers
\* on the stack; when the last of them is closed, it is one.
ValueInv ==
    /\ pc \in Running => \E p : Divides(ctn, input, objs, p, pc)
    /\ pc \in {"doc_end", "single_end"} =>
         input # <<>> /\ Derives("value", input, objs[1], DecodeMaxRecursion)
    /\ pc \in Open => Len(input) <= MaxTokens
    /\ pc = "start" => input = <<>>
    /\ pc = "done" => \E s \in Seq(Token) : /\ s # <<>> /\ Len(s) <= MaxTokens /\ input = Append(s, Eof)
                                            /\ Derives("value", s, objs[1], DecodeMaxRecursion)

\* A step that fails.
LEMMA FailedValue ==
    ASSUME pc' \in {"cleanup", "failed", "wild"}
    PROVE  ValueInv'
BY DEF ValueInv, Open, Running

\* What a token that is read is added to.
LEMMA TokenRead ==
    ASSUME IInv, ValueInv, pc \in Open, NEW t \in Token, Read(t)
    PROVE  /\ input \in Seq(Token) /\ input' = Append(input, t) /\ Len(input) \in Nat
           /\ Len(input') = Len(input) + 1 /\ Len(input) <= MaxTokens /\ Len(input) + 1 <= RefTokens
           /\ t # Eof => Len(input') <= MaxTokens
<1>1. input \in Seq(Token) /\ input' = Append(input, t) /\ (t = Eof \/ Len(input) < MaxTokens)
  BY DEF IInv, TypeOK, Read
<1>2. Len(input') = Len(input) + 1 /\ Len(input) \in Nat
  BY <1>1, AppendProperties
<1>3. Len(input) <= MaxTokens
  BY DEF ValueInv
<1> QED
  BY <1>1, <1>2, <1>3, RefTokensNat

\* A token read in the innermost container, with an object pushed or not.
LEMMA StepValue ==
    ASSUME IInv, ValueInv, pc \in Running, NEW t \in Token, t # Eof, Read(t), pc' \in Running,
           ctn' \in Seq(Container), Len(ctn') = Len(ctn),
           \A i \in 1 .. Len(ctn) : ctn'[i].arr = ctn[i].arr /\ ctn'[i].start = ctn[i].start,
           IsSeq(objs'), Len(objs') >= Len(objs), Len(objs') \in Nat,
           \A i \in 1 .. Len(objs) : objs'[i] = objs[i],
           NEW p, Divides(ctn, input, objs, p, pc),
           Phase(pc', SubSeq(input, p[Len(ctn)] + 1, Len(input)) \o <<t>>,
                 SubSeq(objs', Top.start + 1, Len(objs')), DecodeMaxRecursion - Len(ctn))
    PROVE  ValueInv'
<1>1. input' = Append(input, t) /\ Len(input') <= MaxTokens
  BY TokenRead DEF Open
<1>2. Divides(ctn', input', objs', p, pc')
  <2>1. Divides(ctn', Append(input, t), objs', p, pc')
    <3> DEFINE m == pc'
               q == objs'
               e == ctn'
    <3>1. /\ e \in Seq(Container) /\ Len(e) = Len(ctn)
          /\ \A i \in 1 .. Len(ctn) : e[i].arr = ctn[i].arr /\ e[i].start = ctn[i].start
          /\ IsSeq(q) /\ Len(q) >= Len(objs) /\ Len(q) \in Nat /\ \A i \in 1 .. Len(objs) : q[i] = objs[i]
          /\ Phase(m, SubSeq(input, p[Len(ctn)] + 1, Len(input)) \o <<t>>,
                   SubSeq(q, ctn[Len(ctn)].start + 1, Len(q)), DecodeMaxRecursion - Len(ctn))
      BY DEF Top
    <3> HIDE DEF m, q, e
    <3>2. Divides(e, Append(input, t), q, p, m)
      BY <3>1, DividesRead
    <3> QED
      BY <3>2 DEF m, q, e
  <2> QED
    BY <1>1, <2>1
<1>3. pc' \notin {"doc_end", "single_end", "start", "done"}
  BY DEF Running
<1> QED
  BY <1>1, <1>2, <1>3 DEF ValueInv

\* Nothing is pushed.
LEMMA MoveValue ==
    ASSUME IInv, ValueInv, pc \in Running, NEW t \in Token, t # Eof, Read(t), pc' \in Running,
           UNCHANGED <<ctn, objs>>,
           \A toks \in Seq(Token) : \A vals, d :
              Phase(pc, toks, vals, d) => Phase(pc', toks \o <<t>>, vals, d)
    PROVE  ValueInv'
<1>1. PICK p : Divides(ctn, input, objs, p, pc)
  BY DEF ValueInv
<1> DEFINE toks == SubSeq(input, p[Len(ctn)] + 1, Len(input))
           vals == SubSeq(objs, Top.start + 1, Len(objs))
           d == DecodeMaxRecursion - Len(ctn)
<1>2. /\ Phase(pc, toks, vals, d) /\ p[Len(ctn)] \in 0 .. Len(input) /\ input \in Seq(Token)
      /\ ctn \in Seq(Container) /\ IsSeq(objs) /\ Len(objs) \in Nat
  BY <1>1, Innermost DEF Top
<1>3. toks \in Seq(Token)
  BY <1>2, PartLength
<1> HIDE DEF toks, vals, d
<1>4. Phase(pc', toks \o <<t>>, vals, d)
  BY <1>2, <1>3
<1>5. Phase(pc', toks \o <<t>>, SubSeq(objs', Top.start + 1, Len(objs')), d)
  BY <1>4 DEF vals
<1> QED
  BY <1>1, <1>2, <1>5, StepValue DEF toks, d

LEMMA SeparatorValue == ASSUME IInv, ValueInv, Separator PROVE ValueInv'
<1>1. CASE pc = "arr_val_end" /\ Read("comma") /\ Goto("arr_val_begin")
  <2>1. \A toks \in Seq(Token) : \A vals, d :
          Phase("arr_val_end", toks, vals, d) => Phase("arr_val_begin", toks \o <<"comma">>, vals, d)
    BY CommaAdded DEF Phase
  <2> QED
    BY <1>1, <2>1, MoveValue DEF Running, Token, Punct, Eof, Goto
<1>2. CASE pc = "obj_val_end" /\ Read("comma") /\ Goto("obj_key_begin")
  <2>1. \A toks \in Seq(Token) : \A vals, d :
          Phase("obj_val_end", toks, vals, d) => Phase("obj_key_begin", toks \o <<"comma">>, vals, d)
    BY CommaAdded DEF Phase
  <2> QED
    BY <1>2, <2>1, MoveValue DEF Running, Token, Punct, Eof, Goto
<1>3. CASE pc = "obj_key_end" /\ Read("colon") /\ Goto("obj_val_begin")
  <2>1. ASSUME NEW toks \in Seq(Token), NEW vals, NEW d, KeyRead(toks, vals, d, <<>>)
        PROVE  KeyRead(toks \o <<"colon">>, vals, d, <<"colon">>)
    <3>1. PICK k \in Keys, t \in Seq(Token) : \E vs :
            /\ IsSeq(vs) /\ Begun(FALSE, t, vs, d)
            /\ toks = t \o <<k>> \o <<>> /\ vals = Append(vs, StrValue(k))
      BY <2>1 DEF KeyRead
    <3>2. <<k>> \in Seq(Token)
      BY TokenSeqs
    <3>3. t \o <<k>> \in Seq(Token)
      BY <3>2, TextConcat
    <3>4. t \o <<k>> \o <<>> = t \o <<k>>
      BY <3>3, ConcatEmptySeq
    <3> QED
      BY <3>1, <3>4 DEF KeyRead
  <2>2. \A toks \in Seq(Token) : \A vals, d :
          Phase("obj_key_end", toks, vals, d) => Phase("obj_val_begin", toks \o <<"colon">>, vals, d)
    BY <2>1 DEF Phase
  <2> QED
    BY <1>3, <2>2, MoveValue DEF Running, Token, Punct, Eof, Goto
<1> QED
  BY <1>1, <1>2, <1>3 DEF Separator

\* An object pushed on the slots of the innermost container.
LEMMA PushValue ==
    ASSUME IInv, ValueInv, pc \in Running, NEW t \in Token, t # Eof, Read(t), pc' \in Running, NEW v,
           objs' = Append(objs, v), ctn' = ctn \/ ctn' = Counted(ctn),
           NEW p, Divides(ctn, input, objs, p, pc),
           Phase(pc', SubSeq(input, p[Len(ctn)] + 1, Len(input)) \o <<t>>,
                 Append(SubSeq(objs, Top.start + 1, Len(objs)), v), DecodeMaxRecursion - Len(ctn))
    PROVE  ValueInv'
<1>1. /\ ctn \in Seq(Container) /\ ctn # <<>>
  BY AtLabel
<1>2. /\ ctn' \in Seq(Container) /\ Len(ctn') = Len(ctn)
      /\ \A i \in 1 .. Len(ctn) : ctn'[i].arr = ctn[i].arr /\ ctn'[i].start = ctn[i].start
  BY <1>1, CountedStack
<1>3. IsSeq(objs) /\ Top.start \in 0 .. Len(objs) /\ Len(objs) \in Nat
  BY Innermost DEF Top
<1>4. PICK S : objs \in Seq(S) /\ v \in S
  <2>1. PICK T : objs \in Seq(T)
    BY <1>3 DEF IsSeq
  <2>2. objs \in Seq(T \cup {v})
    BY <2>1, SeqMonotonic
  <2> QED
    BY <2>2
<1>5. /\ objs' \in Seq(S) /\ Len(objs') = Len(objs) + 1 /\ \A i \in 1 .. Len(objs) : objs'[i] = objs[i]
  BY <1>4, AppendProperties
<1>6. SubSeq(objs', Top.start + 1, Len(objs')) = Append(SubSeq(objs, Top.start + 1, Len(objs)), v)
  <2> DEFINE a == Top.start
             x == SubSeq(objs, a + 1, Len(objs))
  <2>1. a \in 0 .. Len(objs)
    BY <1>3
  <2> HIDE DEF a
  <2>2. SubSeq(Append(objs, v), a + 1, Len(objs) + 1) = x \o <<v>>
    BY <1>4, <2>1, PartAppend
  <2>3. IsSeq(x)
    <3>1. \A i \in a + 1 .. Len(objs) : objs[i] \in S
      BY <1>3, <1>4, <2>1, ElementOfSeq
    <3> DEFINE m == a + 1
               n == Len(objs)
    <3>2. m \in Int /\ n \in Int
      BY <1>3, <2>1
    <3> HIDE DEF m, n
    <3>3. SubSeq(objs, m, n) \in Seq(S)
      BY <3>1, <3>2, SubSeqProperties DEF m, n
    <3> QED
      BY <3>3 DEF m, n, IsSeq
  <2> HIDE DEF x
  <2>4. Append(x, v) = x \o <<v>>
    BY <2>3, AppendConcat
  <2> QED
    BY <1>5, <2>2, <2>4 DEF a, x
<1>7. IsSeq(objs') /\ Len(objs') >= Len(objs) /\ Len(objs') \in Nat
  BY <1>3, <1>5 DEF IsSeq
<1> QED
  BY <1>2, <1>5, <1>6, <1>7, StepValue

LEMMA PushedValue ==
    ASSUME NEW below, NEW v, NEW owned, NEW c, NEW next, NEW e, Push(below, v, owned, c, next, e)
    PROVE  pc' = "cleanup" \/ (pc' = next /\ ctn' = c /\ objs' = Append(below, v))
BY DEF Push, Fail

LEMMA ReadValueValue ==
    ASSUME IInv, ValueInv, pc \in ValueLabels, NEW t \in Token, t # Eof, Read(t), NEW v, ValueStep(v),
           \A d \in Depths : Derives("value", <<t>>, v, d)
    PROVE  ValueInv'
<1>1. CASE CreationFails("syntax")
  BY <1>1, FailedValue DEF CreationFails, Fail
<1>2. CASE Push(objs, v, refs + 1, Counted(ctn), ValueEnd(pc = "arr_val_begin"), "syntax")
  <2>1. CASE pc' = "cleanup"
    BY <2>1, FailedValue
  <2>2. CASE pc' = ValueEnd(pc = "arr_val_begin") /\ ctn' = Counted(ctn) /\ objs' = Append(objs, v)
    <3>1. pc \in Running /\ pc' \in Running
      BY <2>2 DEF ValueLabels, Running, ValueEnd
    <3>2. PICK p : Divides(ctn, input, objs, p, pc)
      BY <3>1 DEF ValueInv
    <3> DEFINE toks == SubSeq(input, p[Len(ctn)] + 1, Len(input))
               vals == SubSeq(objs, Top.start + 1, Len(objs))
               d == DecodeMaxRecursion - Len(ctn)
               arr == pc = "arr_val_begin"
    <3>3. /\ Phase(pc, toks, vals, d) /\ p[Len(ctn)] \in 0 .. Len(input) /\ input \in Seq(Token)
          /\ IsSeq(objs) /\ Len(objs) \in Nat /\ d \in Depths /\ Top.start \in 0 .. Len(objs)
      BY <3>2, Innermost DEF Top
    <3>4. toks \in Seq(Token) /\ Len(toks) <= Len(input) /\ Len(toks) \in Nat
      BY <3>3, PartLength, LenProperties
    <3>5. IsSeq(vals)
      <4>1. PICK S : objs \in Seq(S)
        BY <3>3 DEF IsSeq
      <4> DEFINE m == Top.start + 1
                 n == Len(objs)
      <4>2. m \in Int /\ n \in Int /\ \A i \in m .. n : objs[i] \in S
        BY <3>3, <4>1, ElementOfSeq
      <4> HIDE DEF m, n
      <4>3. SubSeq(objs, m, n) \in Seq(S)
        BY <4>2, SubSeqProperties
      <4> QED
        BY <4>3 DEF IsSeq, m, n
    <3> HIDE DEF toks, vals, d
    <3>6. Waits(arr, toks, vals, d)
      BY <3>3 DEF Phase, Waits, ValueLabels
    <3>7. Held(arr, toks \o <<t>>, Append(vals, v), d)
      <4> DEFINE u == <<t>>
      <4>1. u \in Seq(Token) /\ u # <<>> /\ Len(u) = 1 /\ Derives("value", u, v, d)
        BY <3>3
      <4>2. Len(toks) + Len(u) <= RefTokens
        <5>1. Len(input) + 1 <= RefTokens /\ Len(input) \in Nat
          BY <3>1, TokenRead DEF Open
        <5> QED
          BY <3>4, <4>1, <5>1, RefTokensNat
      <4> HIDE DEF u, arr
      <4>3. arr \in BOOLEAN
        BY DEF arr
      <4>4. Held(arr, toks \o u, Append(vals, v), d)
        BY <3>3, <3>4, <3>5, <3>6, <4>1, <4>2, <4>3, ValueAdded
      <4> QED
        BY <4>4 DEF u, arr
    <3>8. Phase(pc', toks \o <<t>>, Append(vals, v), d)
      BY <2>2, <3>7 DEF Phase, ValueEnd
    <3> QED
      BY <2>2, <3>1, <3>2, <3>8, PushValue DEF toks, vals, d
  <2> QED
    BY <1>2, <2>1, <2>2, PushedValue
<1> QED
  BY <1>1, <1>2 DEF ValueStep

LEMMA ReadKeyValue == ASSUME IInv, ValueInv, ReadKey PROVE ValueInv'
<1>1. PICK k \in Keys : /\ Read(k)
                        /\ \/ CreationFails("syntax")
                           \/ Push(objs, StrValue(k), refs + 1, ctn, "obj_key_end", "syntax")
  BY DEF ReadKey
<1>2. CASE CreationFails("syntax")
  BY <1>2, FailedValue DEF CreationFails, Fail
<1>3. CASE Push(objs, StrValue(k), refs + 1, ctn, "obj_key_end", "syntax")
  <2>1. CASE pc' = "cleanup"
    BY <2>1, FailedValue
  <2>2. CASE pc' = "obj_key_end" /\ ctn' = ctn /\ objs' = Append(objs, StrValue(k))
    <3>1. pc = "obj_key_begin" /\ pc \in Running /\ pc' \in Running /\ k \in Token /\ k # Eof
      BY <2>2, KeysAssumption DEF ReadKey, Running, Token
    <3>2. PICK p : Divides(ctn, input, objs, p, pc)
      BY <3>1 DEF ValueInv
    <3> DEFINE toks == SubSeq(input, p[Len(ctn)] + 1, Len(input))
               vals == SubSeq(objs, Top.start + 1, Len(objs))
               d == DecodeMaxRecursion - Len(ctn)
    <3>3. /\ Phase(pc, toks, vals, d) /\ p[Len(ctn)] \in 0 .. Len(input) /\ input \in Seq(Token)
          /\ IsSeq(objs) /\ Len(objs) \in Nat /\ d \in Depths /\ Top.start \in 0 .. Len(objs)
      BY <3>2, Innermost DEF Top
    <3>4. toks \in Seq(Token)
      BY <3>3, PartLength
    <3>5. IsSeq(vals)
      <4>1. PICK S : objs \in Seq(S)
        BY <3>3 DEF IsSeq
      <4> DEFINE m == Top.start + 1
                 n == Len(objs)
      <4>2. m \in Int /\ n \in Int /\ \A i \in m .. n : objs[i] \in S
        BY <3>3, <4>1, ElementOfSeq
      <4> HIDE DEF m, n
      <4>3. SubSeq(objs, m, n) \in Seq(S)
        BY <4>2, SubSeqProperties
      <4> QED
        BY <4>3 DEF IsSeq, m, n
    <3> HIDE DEF toks, vals, d
    <3>6. Begun(FALSE, toks, vals, d)
      BY <3>1, <3>3 DEF Phase
    <3>7. toks \o <<k>> = toks \o <<k>> \o <<>>
      <4>1. <<k>> \in Seq(Token)
        BY TokenSeqs
      <4>2. toks \o <<k>> \in Seq(Token)
        BY <3>4, <4>1, TextConcat
      <4> QED
        BY <4>2, ConcatEmptySeq
    <3>8. KeyRead(toks \o <<k>>, Append(vals, StrValue(k)), d, <<>>)
      BY <3>4, <3>5, <3>6, <3>7 DEF KeyRead
    <3>9. Phase(pc', toks \o <<k>>, Append(vals, StrValue(k)), d)
      BY <2>2, <3>8 DEF Phase
    <3> QED
      BY <1>1, <2>2, <3>1, <3>2, <3>9, PushValue DEF toks, vals, d
  <2> QED
    BY <1>3, <2>1, <2>2, PushedValue
<1> QED
  BY <1>1, <1>2, <1>3

LEMMA ReadItemValue == ASSUME IInv, ValueInv, ReadScalar \/ ReadString PROVE ValueInv'
<1>1. CASE ReadScalar
  <2>1. \A d \in Depths : Derives("value", <<Scalar>>, ScalarValue, d)
    BY SingleDerived
  <2>2. Scalar \in Token /\ Scalar # Eof
    BY DEF Token, Scalar, Eof
  <2> QED
    BY <1>1, <2>1, <2>2, ReadValueValue DEF ReadScalar
<1>2. CASE ReadString
  <2>1. PICK k \in Keys : pc \in ValueLabels /\ Read(k) /\ ValueStep(StrValue(k))
    BY <1>2 DEF ReadString
  <2>2. \A d \in Depths : Derives("value", <<k>>, StrValue(k), d)
    BY SingleDerived
  <2>3. k \in Token /\ k # Eof
    BY KeysAssumption DEF Token
  <2> QED
    BY <2>1, <2>2, <2>3, ReadValueValue
<1> QED
  BY <1>1, <1>2

LEMMA OpenContainerValue == ASSUME IInv, ValueInv, OpenContainer PROVE ValueInv'
<1> PICK t \in {"arr_open", "obj_open"} :
      /\ Read(t)
      /\ \/ /\ CtnHasRoom /\ ctn' = Append(ctn, Opened(t)) /\ objs' = objs
            /\ pc' = IF t = "arr_open" THEN "arr_val_begin" ELSE "obj_key_begin"
         \/ ~CtnHasRoom /\ Reject("depth")
  BY DEF OpenContainer
<1>1. pc \in ValueLabels /\ pc \in Running /\ t \in Token /\ t # Eof /\ t = Opening(t = "arr_open")
  BY DEF OpenContainer, ValueLabels, Running, Token, Punct, Eof, Opening
<1>2. CASE Reject("depth")
  BY <1>2, FailedValue DEF Reject, Fail
<1>3. CASE /\ CtnHasRoom /\ ctn' = Append(ctn, Opened(t)) /\ objs' = objs
           /\ pc' = IF t = "arr_open" THEN "arr_val_begin" ELSE "obj_key_begin"
  <2>1. PICK p : Divides(ctn, input, objs, p, pc)
    BY <1>1 DEF ValueInv
  <2> DEFINE arr == t = "arr_open"
  <2>2. arr \in BOOLEAN /\ Len(ctn) < DecodeMaxRecursion
    BY <1>3 DEF CtnHasRoom
  <2>3. ctn[Len(ctn)].arr = (pc = "arr_val_begin")
    <3>1. Top.arr \in BOOLEAN
      BY <1>1, AtLabel, SlotsNat
    <3> QED
      BY <1>1, <3>1 DEF IInv, LabelInv, Top, ValueLabels
  <2>4. Divides(Append(ctn, [arr |-> arr, len |-> 0, start |-> Len(objs)]), Append(input, Opening(arr)),
                objs, BeganAfterOpen(ctn, input, p), IF arr THEN "arr_val_begin" ELSE "obj_key_begin")
    <3> HIDE DEF arr
    <3> QED
      BY <1>1, <2>1, <2>2, <2>3, DividesOpen
  <2>5. input' = Append(input, t) /\ Len(input') <= MaxTokens
    BY <1>1, TokenRead DEF Open
  <2>6. Divides(ctn', input', objs', BeganAfterOpen(ctn, input, p), pc')
    BY <1>1, <1>3, <2>4, <2>5 DEF Opened
  <2>7. pc' \in {"arr_val_begin", "obj_key_begin"}
    BY <1>3
  <2> QED
    BY <2>5, <2>6, <2>7 DEF ValueInv, Running
<1> QED
  BY <1>2, <1>3

LEMMA OpenRootValue == ASSUME IInv, ValueInv, OpenRoot PROVE ValueInv'
<1> PICK t \in {"arr_open", "obj_open"} :
      /\ Read(t)
      /\ \/ /\ ctn' = <<Opened(t)>> /\ objs' = objs
            /\ pc' = IF t = "arr_open" THEN "arr_val_begin" ELSE "obj_key_begin"
         \/ CreationFails("memory")
  BY DEF OpenRoot
<1>1. pc = "start" /\ t \in Token /\ t # Eof /\ t = Opening(t = "arr_open") /\ objs = <<>> /\ input = <<>>
  BY DEF OpenRoot, Token, Punct, Eof, Opening, ValueInv, IInv, LabelInv
<1>2. CASE CreationFails("memory")
  BY <1>2, FailedValue DEF CreationFails, Fail
<1>3. CASE /\ ctn' = <<Opened(t)>> /\ objs' = objs
           /\ pc' = IF t = "arr_open" THEN "arr_val_begin" ELSE "obj_key_begin"
  <2> DEFINE arr == t = "arr_open"
             x == [arr |-> arr, len |-> 0, start |-> 0]
             c == <<x>>
             s == <<t>>
             p == [i \in 1 .. 1 |-> 0]
  <2>1. input' = s /\ Len(input') <= MaxTokens /\ ctn' = c
    BY <1>1, <1>3, TokenRead DEF Open, Opened
  <2>2. c \in Seq(Container) /\ Len(c) = 1 /\ c[1] = x /\ x.start = 0 /\ x.arr = arr
    <3>1. x \in Container
      BY DEF Container
    <3> QED
      BY <3>1
  <2>3. s \in Seq(Token) /\ Len(s) = 1
    BY <1>1
  <2>4. SubSeq(s, 1, 1) = s
    BY <2>3, SubSeqFull
  <2>5. Begun(arr, s, <<>>, DecodeMaxRecursion - 1)
    BY <1>1 DEF Begun
  <2>6. TextOf(c, s, p, 1) = s /\ ObjectsOf(c, <<>>, 1) = <<>>
    <3>1. p[1] = 0
      OBVIOUS
    <3>2. SubSeq(<<>>, 1, 0) = <<>>
      BY SubSeqEmpty
    <3> HIDE DEF p, c, s
    <3> QED
      BY <2>2, <2>3, <2>4, <3>1, <3>2 DEF TextOf, ObjectsOf, FrameEnd
  <2>7. Phase(pc', s, <<>>, DecodeMaxRecursion - 1)
    BY <1>3, <2>5 DEF Phase
  <2>8. p \in [1 .. 1 -> Nat] /\ p[1] = 0
    OBVIOUS
  <2>9. 1 \in 1 .. DecodeMaxRecursion
    BY RecursionAssumption
  <2>10. IsSeq(<<>>) /\ Len(<<>>) = 0
    BY EmptySeq DEF IsSeq
  <2>a. objs' = <<>>
    BY <1>1, <1>3
  <2> HIDE DEF p, c, s, x
  <2>11. Divides(c, s, <<>>, p, pc')
    <3> DEFINE o == <<>>
    <3>1. IsSeq(o) /\ Len(o) = 0
      BY <2>10
    <3>2. \A i \in 1 .. Len(c) : p[i] <= Len(s) /\ c[i].start <= Len(o)
      <4>1. \A i \in 1 .. Len(c) : i = 1
        BY <2>2
      <4> QED
        BY <2>2, <2>3, <2>8, <3>1, <4>1
    <3>3. 1 .. Len(c) - 1 = {}
      BY <2>2
    <3>4. Phase(pc', TextOf(c, s, p, Len(c)), ObjectsOf(c, o, Len(c)), DecodeMaxRecursion - Len(c))
      BY <2>2, <2>6, <2>7
    <3> HIDE DEF o
    <3>5. Divides(c, s, o, p, pc')
      BY <2>2, <2>3, <2>8, <2>9, <3>1, <3>2, <3>3, <3>4 DEF Divides
    <3> QED
      BY <3>5 DEF o
  <2>12. pc' \in {"arr_val_begin", "obj_key_begin"}
    BY <1>3
  <2> QED
    BY <2>1, <2>a, <2>11, <2>12 DEF ValueInv, Running
<1> QED
  BY <1>2, <1>3

LEMMA RootValue == ASSUME IInv, ValueInv, RootScalar \/ RootString PROVE ValueInv'
<1>1. ASSUME NEW t \in Token, t # Eof, Read(t), NEW v, SingleValue(v), pc = "start",
             Derives("value", <<t>>, v, DecodeMaxRecursion)
      PROVE  ValueInv'
  <2>1. input' = <<t>> /\ Len(input') <= MaxTokens
    BY <1>1, TokenRead DEF Open, ValueInv
  <2>2. objs'[1] = v /\ pc' = "single_end"
    BY <1>1 DEF SingleValue
  <2> QED
    BY <1>1, <2>1, <2>2 DEF ValueInv, Running
<1>2. DecodeMaxRecursion \in Depths
  BY RecursionAssumption DEF Depths
<1>3. CASE RootScalar
  <2>1. Derives("value", <<Scalar>>, ScalarValue, DecodeMaxRecursion)
    BY <1>2, SingleDerived
  <2>2. Scalar \in Token /\ Scalar # Eof
    BY DEF Token, Scalar, Eof
  <2> QED
    BY <1>1, <1>3, <2>1, <2>2, FailedValue DEF RootScalar, CreationFails, Fail
<1>4. CASE RootString
  <2>1. PICK k \in Keys : /\ pc = "start" /\ Read(k)
                          /\ SingleValue(StrValue(k)) \/ pc' \in {"cleanup", "wild"}
    BY <1>4 DEF RootString, CreationFails, Fail
  <2>2. Derives("value", <<k>>, StrValue(k), DecodeMaxRecursion)
    BY <1>2, SingleDerived
  <2>3. k \in Token /\ k # Eof
    BY KeysAssumption DEF Token
  <2> QED
    BY <1>1, <2>1, <2>2, <2>3, FailedValue
<1> QED
  BY <1>3, <1>4

\* The slots of the innermost container, when no key waits in it.
LEMMA SlotsOfTop ==
    ASSUME IInv, pc \in Running, KeyPending = 0
    PROVE  /\ Remaining = SubSeq(objs, 1, Top.start)
           /\ Collected = SubSeq(objs, Top.start + 1, Len(objs))
           /\ Top.len = 0 => Collected = <<>>
<1> DEFINE a == Top.start
           k == Slots(Top)
           n == Len(objs)
<1>1. n = a + k /\ a \in Nat /\ k \in Nat /\ n \in Nat
  <2>1. IsLayout(ctn, Len(objs), 0) /\ Top \in Container /\ Len(objs) \in Nat
    BY AtLabel
  <2> QED
    BY <2>1, SlotsNat DEF IsLayout, Top
<1>2. Remaining = SubSeq(objs, 1, n - k) /\ Collected = SubSeq(objs, n - k + 1, n)
  BY DEF Remaining, Below, Collected
<1>3. Top.len = 0 => k = 0
  BY DEF Slots
<1> HIDE DEF a, k, n
<1>4. n - k = a
  BY <1>1
<1>5. ASSUME k = 0 PROVE SubSeq(objs, a + 1, n) = <<>>
  <2> DEFINE m == a + 1
  <2>1. m \in Int /\ n \in Int /\ n < m
    BY <1>1, <1>5
  <2>2. PICK S : objs \in Seq(S)
    BY DEF IInv, ObjsStack
  <2> HIDE DEF m
  <2>3. SubSeq(objs, m, n) = <<>>
    BY <2>1, <2>2, SubSeqEmpty
  <2> QED
    BY <2>3 DEF m
<1>6. Remaining = SubSeq(objs, 1, a) /\ Collected = SubSeq(objs, a + 1, n)
  BY <1>2, <1>4
<1> QED
  BY <1>3, <1>5, <1>6 DEF a, n

\* A container that is closed.
LEMMA ClosedValue ==
    ASSUME IInv, KeysInv, ValueInv, NEW arr \in BOOLEAN,
           pc \in IF arr THEN {"arr_val_begin", "arr_val_end"} ELSE {"obj_key_begin", "obj_val_end"},
           pc = ValueEnd(arr) \/ MayCloseEmpty, Read(Closing(arr)),
           objs' = Append(Remaining, Built(arr, Collected)), ctn' = CtnAfterClose, pc' = AfterClose
    PROVE  ValueInv'
<1>1. pc \in Running /\ KeyPending = 0
  BY DEF Running, KeyPending
<1>2. PICK p : Divides(ctn, input, objs, p, pc)
  BY <1>1 DEF ValueInv
<1> DEFINE n == Len(ctn)
           d == DecodeMaxRecursion - n + 1
           t == Closing(arr)
           toks == SubSeq(input, p[n] + 1, Len(input))
           vals == SubSeq(objs, Top.start + 1, Len(objs))
           v == Built(arr, Collected)
<1>3. /\ ctn \in Seq(Container) /\ n \in 1 .. DecodeMaxRecursion /\ n \in 1 .. n
      /\ input \in Seq(Token) /\ p[n] \in 0 .. Len(input) /\ Len(input) \in Nat
      /\ Phase(pc, toks, vals, DecodeMaxRecursion - n)
      /\ Top.start \in 0 .. Len(objs)
  BY <1>2, Innermost DEF Top
<1>a. (n = 1 \/ n > 1) /\ (n > 1 => n # 1)
  <2>1. n \in Nat /\ n >= 1
    BY <1>1, AtLabel
  <2> HIDE DEF n
  <2> QED
    BY <2>1
<1>4. /\ Remaining = SubSeq(objs, 1, Top.start) /\ Collected = vals
      /\ Top.len = 0 => vals = <<>>
  BY <1>1, SlotsOfTop
<1>5. t \in Token /\ t # Eof
  BY DEF Closing, Token, Punct, Eof
<1>6. /\ toks \in Seq(Token) /\ Len(toks) <= Len(input) /\ Len(toks) \in Nat
  BY <1>3, PartLength, LenProperties
<1>7. /\ input' = Append(input, t) /\ Len(input') = Len(input) + 1 /\ Len(input') <= MaxTokens
      /\ Len(input) + 1 <= RefTokens
  BY <1>1, <1>5, TokenRead DEF Open
<1>8. d - 1 = DecodeMaxRecursion - n /\ d \in Depths /\ d >= 1
  BY <1>3, RecursionAssumption DEF Depths
<1>9. Len(toks) + 1 <= RefTokens
  BY <1>3, <1>6, <1>7, RefTokensNat
<1> HIDE DEF toks, vals, t
<1>10. Held(arr, toks, vals, d - 1) \/ (Begun(arr, toks, vals, d - 1) /\ vals = <<>>)
  <2> HIDE DEF d
  <2>1. Phase(pc, toks, vals, d - 1)
    BY <1>3, <1>8
  <2>2. CASE pc = ValueEnd(arr)
    BY <2>1, <2>2 DEF ValueEnd, Phase
  <2>3. CASE pc # ValueEnd(arr)
    <3>1. vals = <<>>
      BY <1>4, <2>3 DEF MayCloseEmpty
    <3>2. Begun(arr, toks, vals, d - 1)
      BY <2>1, <2>3 DEF ValueEnd, Phase
    <3> QED
      BY <3>1, <3>2
  <2> QED
    BY <2>2, <2>3
<1>11. Derives("value", toks \o <<t>>, v, d)
  <2>1. Derives("value", toks \o <<Closing(arr)>>, Built(arr, vals), d)
    <3> HIDE DEF d
    <3> QED
      BY <1>6, <1>8, <1>9, <1>10, ContainerClosed
  <2> QED
    BY <1>4, <2>1 DEF t
<1> HIDE DEF v
<1>12. CASE n = 1
  <2>1. pc' = "doc_end" /\ ctn' = <<>> /\ d = DecodeMaxRecursion
    BY <1>3, <1>12, RecursionAssumption DEF AfterClose, CtnAfterClose
  <2>2. p[1] = 0
    BY <1>2 DEF Divides
  <2>3. toks = input
    <3>1. toks = SubSeq(input, 1, Len(input))
      BY <1>12, <2>2 DEF toks
    <3> QED
      BY <1>3, <3>1, SubSeqFull
  <2>4. input' = toks \o <<t>> /\ input' # <<>>
    BY <1>3, <1>5, <1>7, <2>3, AppendIsConcat, AppendProperties
  <2>5. Top.start = 0
    BY <1>1, <1>12, AtLabel DEF IsLayout, Top
  <2>6. objs'[1] = v
    <3>1. Remaining = <<>>
      BY <1>4, <2>5, SubSeqEmpty
    <3> QED
      BY <3>1 DEF v
  <2>7. Derives("value", input', objs'[1], DecodeMaxRecursion)
    BY <1>11, <2>1, <2>4, <2>6
  <2> QED
    BY <1>7, <2>1, <2>4, <2>7 DEF ValueInv, Running
<1>13. CASE n > 1
  <2> DEFINE e == CtnAfterClose
             q == Append(Remaining, v)
             r == [i \in 1 .. Len(e) |-> p[i]]
  <2>1. e = Counted(Below(ctn, 1)) /\ AfterClose = ValueEnd(ctn[n - 1].arr)
    <3>1. Len(ctn) # 1
      BY <1>13, <1>a
    <3> QED
      BY <3>1 DEF CtnAfterClose, AfterClose
  <2>2. /\ e \in Seq(Container) /\ Len(e) = Len(ctn) - 1
        /\ \A i \in 1 .. Len(ctn) - 1 : e[i].arr = ctn[i].arr /\ e[i].start = ctn[i].start
    <3> DEFINE b == Below(ctn, 1)
    <3>1. /\ b \in Seq(Container) /\ Len(b) = Len(ctn) - 1
          /\ \A i \in 1 .. Len(ctn) - 1 : b[i] = ctn[i]
      BY <1>3, BelowStack
    <3> HIDE DEF b
    <3>2. b # <<>>
      BY <1>3, <1>13, <3>1
    <3>3. Counted(b) \in Seq(Container) /\ Len(Counted(b)) = Len(b)
          /\ \A i \in 1 .. Len(b) : Counted(b)[i].arr = b[i].arr /\ Counted(b)[i].start = b[i].start
      BY <3>1, <3>2, CountedStack
    <3> QED
      BY <2>1, <3>1, <3>3 DEF b
  <2>3. \A i \in 1 .. Len(ctn) : ctn[i].start <= ctn[Len(ctn)].start
    BY <1>1, <1>3 DEF KeysInv, KeysIn
  <2>4. q = Append(SubSeq(objs, 1, ctn[Len(ctn)].start), v)
    BY <1>4 DEF Top
  <2>5. Derives("value", SubSeq(input, p[Len(ctn)] + 1, Len(input)) \o <<t>>, v, DecodeMaxRecursion - Len(ctn) + 1)
    BY <1>11 DEF toks
  <2>6. Len(ctn) > 1 /\ Len(input) + 1 <= RefTokens
    BY <1>7, <1>13
  <2> HIDE DEF e, q
  <2>7. Divides(e, Append(input, t), q, [i \in 1 .. Len(e) |-> p[i]], ValueEnd(ctn[Len(ctn) - 1].arr))
    BY <1>2, <1>5, <2>2, <2>3, <2>4, <2>5, <2>6, DividesClose
  <2>8. ctn' = e /\ objs' = q /\ pc' = ValueEnd(ctn[Len(ctn) - 1].arr)
    BY <2>1 DEF e, q, v
  <2>9. pc' \in {"arr_val_end", "obj_val_end"}
    BY <2>8 DEF ValueEnd
  <2>10. Divides(ctn', input', objs', r, pc')
    BY <1>7, <2>7, <2>8
  <2> HIDE DEF r
  <2> QED
    <3>1. \E w : Divides(ctn', input', objs', w, pc')
      BY <2>10
    <3> QED
      BY <1>7, <2>9, <3>1 DEF ValueInv, Running
<1> QED
  BY <1>a, <1>12, <1>13

LEMMA CloseValue == ASSUME IInv, KeysInv, ValueInv, CloseArray \/ CloseObject PROVE ValueInv'
<1>1. CASE CloseArray
  <2>1. pc' = "cleanup" \/ (/\ pc = ValueEnd(TRUE) \/ MayCloseEmpty
                            /\ objs' = Append(Remaining, Built(TRUE, Collected))
                            /\ ctn' = CtnAfterClose /\ pc' = AfterClose)
    BY <1>1, PushedValue DEF CloseArray, EndArray, CreationFails, HookFails, PushContainer, Reject, Fail,
         ValueEnd, Built, Array, WithHook
  <2>2. pc \in {"arr_val_begin", "arr_val_end"} /\ Read(Closing(TRUE))
    BY <1>1 DEF CloseArray, Closing
  <2> QED
    BY <2>1, <2>2, ClosedValue, FailedValue
<1>2. CASE CloseObject
  <2>1. pc' = "cleanup" \/ (/\ pc = ValueEnd(FALSE) \/ MayCloseEmpty
                            /\ objs' = Append(Remaining, Built(FALSE, Collected))
                            /\ ctn' = CtnAfterClose /\ pc' = AfterClose)
    BY <1>2, PushedValue DEF CloseObject, EndObject, CreationFails, HookFails, PushContainer, Reject, Fail,
         ValueEnd, Built, Object, WithHook
  <2>2. pc \in {"obj_key_begin", "obj_val_end"} /\ Read(Closing(FALSE))
    BY <1>2 DEF CloseObject, Closing
  <2> QED
    BY <2>1, <2>2, ClosedValue, FailedValue
<1> QED
  BY <1>1, <1>2

LEMMA DocEndValue == ASSUME IInv, ValueInv, DocEnd PROVE ValueInv'
<1>1. PICK t \in Token : /\ Read(t)
                         /\ \/ t # Eof /\ Reject("syntax")
                            \/ t = Eof /\ pc' = "done" /\ UNCHANGED objs
  BY DEF DocEnd
<1>2. CASE Reject("syntax")
  BY <1>2, FailedValue DEF Reject, Fail
<1>3. CASE t = Eof /\ pc' = "done" /\ UNCHANGED objs
  <2>1. pc \in {"doc_end", "single_end"}
    BY DEF DocEnd
  <2>2. input # <<>> /\ Derives("value", input, objs[1], DecodeMaxRecursion) /\ Len(input) <= MaxTokens
    BY <2>1 DEF ValueInv, Open
  <2>3. input \in Seq(Token) /\ input' = Append(input, Eof)
    BY <1>1, <1>3 DEF IInv, TypeOK, Read
  <2> QED
    BY <1>3, <2>2, <2>3 DEF ValueInv, Open, Running
<1> QED
  BY <1>1, <1>2, <1>3

LEMMA OtherValue ==
    ASSUME ValueInv, NoDocument \/ Unexpected \/ FailedCleanup \/ UNCHANGED vars
    PROVE  ValueInv'
<1>1. CASE NoDocument \/ Unexpected \/ FailedCleanup
  BY <1>1, FailedValue DEF NoDocument, Unexpected, FailedCleanup, Reject, CreationFails, Fail
<1>2. CASE UNCHANGED vars
  BY <1>2 DEF vars, ValueInv
<1> QED
  BY <1>1, <1>2

LEMMA InitValue == Init => ValueInv
<1> SUFFICES ASSUME Init PROVE ValueInv
  OBVIOUS
<1>1. pc = "start" /\ input = <<>>
  BY DEF Init
<1> QED
  BY <1>1, TokensAssumption DEF ValueInv, Running

\* A document that the reader finishes is one of the grammar, and its result is the
\* value the grammar gives it: whatever the keys, the lengths, the nesting, the hooks
\* and the way the object stack grew on the way.
THEOREM ResultGiven == Spec => []ResultIsTheValue
<1>1. Init => KeysInv /\ ValueInv
  BY InitValue DEF Init, KeysInv, Running
<1>2. IInv /\ KeysInv /\ [Next]_vars => KeysInv'
  BY ReadKeys, OpenKeys, CloseKeys, OtherKeys DEF Next, Returned
<1>3. IInv /\ KeysInv /\ ValueInv /\ [Next]_vars => ValueInv'
  BY OpenRootValue, RootValue, ReadItemValue, ReadKeyValue, OpenContainerValue, CloseValue,
     SeparatorValue, DocEndValue, OtherValue DEF Next, Returned
<1>4. ValueInv => ResultIsTheValue
  <2> SUFFICES ASSUME ValueInv, pc = "done" PROVE <<input, objs[1]>> \in DocResults
    BY DEF ResultIsTheValue
  <2>1. PICK s \in Seq(Token) : /\ s # <<>> /\ Len(s) <= MaxTokens /\ input = Append(s, Eof)
                                /\ Derives("value", s, objs[1], DecodeMaxRecursion)
    BY DEF ValueInv
  <2> DEFINE x == Sentence(s, objs[1])
  <2>2. x \in Values(Len(s), DecodeMaxRecursion)
    BY <2>1 DEF Derives, Values
  <2>3. Len(s) \in 1 .. MaxTokens
    BY <2>1, EmptySeq, LenProperties, TokensAssumption
  <2>4. x.toks = s /\ x.val = objs[1]
    BY DEF Sentence
  <2>5. input = s \o <<Eof>>
    BY <2>1, AppendIsConcat DEF Token
  <2> HIDE DEF x
  <2>6. x \in Docs
    BY <2>2, <2>3, Zenon DEF Docs
  <2>7. <<input, objs[1]>> = <<x.toks \o <<Eof>>, x.val>>
    BY <2>4, <2>5
  <2> QED
    BY <2>6, <2>7, Zenon DEF DocResults
<1> QED
  BY <1>1, <1>2, <1>3, <1>4, InductiveInvariant, PTL DEF Spec

-----------------------------------------------------------------------------
(* The labels as an automaton with a stack of the kinds of the open        *)
(* containers: what every sentence of the grammar makes it do.             *)

\* The automaton at label l inside containers of these kinds; fresh, when the
\* innermost holds nothing yet.
Conf(l, fresh, arrs) == [at |-> l, fresh |-> fresh, arrs |-> arrs]

Stuck == Conf("stuck", FALSE, <<>>)

AfterValue(arrs) == Conf(IF arrs = <<>> THEN "doc_end" ELSE ValueEnd(arrs[Len(arrs)]), FALSE, arrs)

BeginLabel(arr) == IF arr THEN "arr_val_begin" ELSE "obj_key_begin"

\* The label may see the bracket that closes a container of this kind.
Closable(c, arr) == c.at = ValueEnd(arr) \/ (c.at = BeginLabel(arr) /\ c.fresh)

AwaitsValue == ValueLabels \cup {"start"}

\* What a token does.
Moved(c, t) ==
    CASE c.at \in AwaitsValue /\ t = "arr_open" -> Conf("arr_val_begin", TRUE, Append(c.arrs, TRUE))
      [] c.at \in AwaitsValue /\ t = "obj_open" -> Conf("obj_key_begin", TRUE, Append(c.arrs, FALSE))
      [] c.at \in AwaitsValue /\ t \in {Scalar} \cup Keys -> AfterValue(c.arrs)
      [] c.at = "obj_key_begin" /\ t \in Keys -> Conf("obj_key_end", FALSE, c.arrs)
      [] c.at = "obj_key_end" /\ t = "colon" -> Conf("obj_val_begin", FALSE, c.arrs)
      [] c.at = "arr_val_end" /\ t = "comma" -> Conf("arr_val_begin", FALSE, c.arrs)
      [] c.at = "obj_val_end" /\ t = "comma" -> Conf("obj_key_begin", FALSE, c.arrs)
      [] Closable(c, TRUE) /\ t = "arr_close" -> AfterValue(Below(c.arrs, 1))
      [] Closable(c, FALSE) /\ t = "obj_close" -> AfterValue(Below(c.arrs, 1))
      [] c.at = "doc_end" /\ t = Eof -> Conf("done", FALSE, c.arrs)
      [] OTHER -> Stuck

\* No token is another one.
LEMMA TokensApart ==
    /\ \A k \in Keys : k \notin {"arr_open", "arr_close", "obj_open", "obj_close", "comma", "colon",
                                 Scalar, Bad, Eof}
    /\ Scalar \notin {"arr_open", "arr_close", "obj_open", "obj_close", "comma", "colon", Bad, Eof}
    /\ Eof \notin {"arr_open", "arr_close", "obj_open", "obj_close", "comma", "colon", Bad}
    /\ Bad \notin {"arr_open", "arr_close", "obj_open", "obj_close", "comma", "colon"}
BY KeysAssumption DEF Punct, Scalar, Bad, Eof

LEMMA MovedOpen ==
    ASSUME NEW c, c.at \in AwaitsValue, NEW arr \in BOOLEAN
    PROVE  Moved(c, Opening(arr)) = Conf(BeginLabel(arr), TRUE, Append(c.arrs, arr))
<1>1. CASE arr
  BY <1>1, TokensApart DEF Moved, Opening, BeginLabel, AwaitsValue, ValueLabels
<1>2. CASE ~arr
  BY <1>2, TokensApart DEF Moved, Opening, BeginLabel, AwaitsValue, ValueLabels
<1> QED
  BY <1>1, <1>2

LEMMA MovedItem ==
    ASSUME NEW c, c.at \in AwaitsValue, NEW t \in {Scalar} \cup Keys
    PROVE  Moved(c, t) = AfterValue(c.arrs)
<1>1. t \notin {"arr_open", "obj_open", "colon", "comma", "arr_close", "obj_close", Eof}
  BY TokensApart
<1> QED
  BY <1>1 DEF Moved, AwaitsValue, ValueLabels

LEMMA MovedKey ==
    ASSUME NEW c, c.at = "obj_key_begin", NEW k \in Keys
    PROVE  Moved(c, k) = Conf("obj_key_end", FALSE, c.arrs)
BY TokensApart DEF Moved, AwaitsValue, ValueLabels

LEMMA MovedColon ==
    ASSUME NEW c, c.at = "obj_key_end"
    PROVE  Moved(c, "colon") = Conf("obj_val_begin", FALSE, c.arrs)
BY TokensApart DEF Moved, AwaitsValue, ValueLabels

LEMMA MovedComma ==
    ASSUME NEW c, NEW arr \in BOOLEAN, c.at = ValueEnd(arr)
    PROVE  Moved(c, "comma") = Conf(BeginLabel(arr), FALSE, c.arrs)
BY TokensApart DEF Moved, AwaitsValue, ValueLabels, ValueEnd, BeginLabel

LEMMA MovedClose ==
    ASSUME NEW c, NEW arr \in BOOLEAN, Closable(c, arr)
    PROVE  Moved(c, Closing(arr)) = AfterValue(Below(c.arrs, 1))
<1>1. CASE arr
  BY <1>1, TokensApart DEF Moved, AwaitsValue, ValueLabels, ValueEnd, BeginLabel, Closing, Closable
<1>2. CASE ~arr
  BY <1>2, TokensApart DEF Moved, AwaitsValue, ValueLabels, ValueEnd, BeginLabel, Closing, Closable
<1> QED
  BY <1>1, <1>2

LEMMA MovedEnd ==
    ASSUME NEW c, c.at = "doc_end"
    PROVE  Moved(c, Eof) = Conf("done", FALSE, c.arrs)
BY TokensApart DEF Moved, AwaitsValue, ValueLabels, Closable, ValueEnd, BeginLabel

\* No label but that of a value sees a value.
LEMMA NotStuck ==
    /\ \A l, fresh, arrs : Conf(l, fresh, arrs).at = l /\ Conf(l, fresh, arrs).fresh = fresh
                           /\ Conf(l, fresh, arrs).arrs = arrs
    /\ \A arrs : AfterValue(arrs).at \in {"doc_end", "arr_val_end", "obj_val_end"}
                 /\ AfterValue(arrs).arrs = arrs /\ AfterValue(arrs).fresh = FALSE
    /\ Stuck.at = "stuck"
BY DEF Conf, AfterValue, ValueEnd, Stuck

\* The sequence f of configurations is what the tokens of s do from c on.
Follow(f, c, s) ==
    f[0] = c /\ \A i \in 1 .. Len(s) : f[i] = Moved(f[i - 1], s[i]) /\ f[i].at # "stuck"

Path(c, s, e) == \E f : Follow(f, c, s) /\ f[Len(s)] = e

LEMMA PathStep ==
    ASSUME NEW c, NEW t, Moved(c, t).at # "stuck"
    PROVE  Path(c, <<t>>, Moved(c, t))
<1> DEFINE f == [i \in 0 .. 1 |-> IF i = 0 THEN c ELSE Moved(c, t)]
<1>1. f[0] = c /\ f[1] = Moved(c, t)
  OBVIOUS
<1>2. Len(<<t>>) = 1 /\ <<t>>[1] = t
  OBVIOUS
<1> HIDE DEF f
<1>3. \A i \in 1 .. 1 : i = 1 /\ i - 1 = 0
  OBVIOUS
<1>4. Follow(f, c, <<t>>)
  BY <1>1, <1>2, <1>3 DEF Follow
<1> QED
  BY <1>1, <1>2, <1>4 DEF Path

LEMMA PathConcat ==
    ASSUME NEW c, NEW e, NEW g, NEW s \in Seq(Token), NEW t \in Seq(Token), Path(c, s, e), Path(e, t, g)
    PROVE  Path(c, s \o t, g)
<1>1. PICK f : Follow(f, c, s) /\ f[Len(s)] = e
  BY DEF Path
<1>2. PICK h : Follow(h, e, t) /\ h[Len(t)] = g
  BY DEF Path
<1> DEFINE m == Len(s)
           n == Len(t)
           r == [i \in 0 .. m + n |-> IF i <= m THEN f[i] ELSE h[i - m]]
           u == s \o t
<1>3. /\ m \in Nat /\ n \in Nat /\ Len(u) = m + n
      /\ \A i \in 1 .. m : u[i] = s[i]
      /\ \A i \in m + 1 .. m + n : u[i] = t[i - m]
  BY LenProperties, ConcatProperties
<1>4. /\ \A i \in 0 .. m : r[i] = f[i]
      /\ \A i \in m + 1 .. m + n : r[i] = h[i - m]
  BY <1>3
<1>5. f[m] = e /\ h[0] = e /\ h[n] = g
  BY <1>1, <1>2 DEF Follow
<1>6. /\ f[0] = c /\ \A i \in 1 .. m : f[i] = Moved(f[i - 1], s[i]) /\ f[i].at # "stuck"
      /\ \A i \in 1 .. n : h[i] = Moved(h[i - 1], t[i]) /\ h[i].at # "stuck"
  BY <1>1, <1>2 DEF Follow
<1> HIDE DEF m, n, r, u
<1>7. ASSUME NEW i \in 1 .. m + n
      PROVE  r[i] = Moved(r[i - 1], u[i]) /\ r[i].at # "stuck"
  <2>1. CASE i <= m
    <3>1. i \in 1 .. m /\ i \in 0 .. m /\ i - 1 \in 0 .. m
      BY <1>3, <2>1
    <3> QED
      BY <1>3, <1>4, <1>6, <3>1
  <2>2. CASE i > m
    <3> DEFINE j == i - m
    <3>1. j \in 1 .. n /\ i \in m + 1 .. m + n
      BY <1>3, <2>2
    <3>2. r[i] = h[j] /\ u[i] = t[j]
      BY <1>3, <1>4, <3>1
    <3>3. r[i - 1] = h[j - 1]
      <4>1. CASE j = 1
        <5>1. i - 1 = m /\ m \in 0 .. m /\ j - 1 = 0
          BY <1>3, <4>1
        <5> HIDE DEF j
        <5> QED
          BY <1>4, <1>5, <5>1
      <4>2. CASE j # 1
        <5>1. i - 1 \in m + 1 .. m + n /\ (i - 1) - m = j - 1
          BY <1>3, <3>1, <4>2
        <5> HIDE DEF j
        <5> QED
          BY <1>4, <5>1
      <4> QED
        BY <4>1, <4>2
    <3> HIDE DEF j
    <3> QED
      BY <1>6, <3>1, <3>2, <3>3
  <2> QED
    BY <1>3, <2>1, <2>2
<1>8. r[0] = c
  <2>1. 0 \in 0 .. m
    BY <1>3
  <2> QED
    BY <1>4, <1>6, <2>1
<1>9. r[m + n] = g
  <2>1. CASE n = 0
    <3>1. m + n = m /\ m \in 0 .. m
      BY <1>3, <2>1
    <3> QED
      BY <1>4, <1>5, <2>1, <3>1
  <2>2. CASE n # 0
    <3>1. m + n \in m + 1 .. m + n /\ (m + n) - m = n
      BY <1>3, <2>2
    <3> QED
      BY <1>4, <1>5, <3>1
  <2> QED
    BY <2>1, <2>2
<1>10. Follow(r, c, u)
  BY <1>3, <1>7, <1>8 DEF Follow
<1> QED
  BY <1>3, <1>9, <1>10 DEF Path, u

\* A sentence of the category may come next.
Fits(kind, c) ==
    /\ c.arrs \in Seq(BOOLEAN)
    /\ kind = "value" => c.at \in AwaitsValue
    /\ kind # "value" => \E arr \in BOOLEAN : /\ kind = Items(arr) /\ c.at = BeginLabel(arr)
                                              /\ c.arrs # <<>> /\ c.arrs[Len(c.arrs)] = arr

\* Wherever it may, it leads to the end of a value.
Drives(kind, toks) ==
    toks \in Seq(Token) /\ \A c : Fits(kind, c) => Path(c, toks, AfterValue(c.arrs))

LEMMA DrivesSingle == \A t \in {Scalar} \cup Keys : Drives("value", <<t>>)
<1> TAKE t \in {Scalar} \cup Keys
<1>1. <<t>> \in Seq(Token)
  BY DEF Token
<1>2. ASSUME NEW c, Fits("value", c) PROVE Path(c, <<t>>, AfterValue(c.arrs))
  <2>1. Moved(c, t) = AfterValue(c.arrs)
    BY <1>2, MovedItem DEF Fits
  <2> QED
    BY <2>1, NotStuck, PathStep
<1> QED
  BY <1>1, <1>2 DEF Drives

\* The kinds of the containers around one that is opened and closed.
LEMMA KindsAround ==
    ASSUME NEW arrs \in Seq(BOOLEAN), NEW arr \in BOOLEAN
    PROVE  /\ Append(arrs, arr) \in Seq(BOOLEAN) /\ Append(arrs, arr) # <<>>
           /\ Append(arrs, arr)[Len(Append(arrs, arr))] = arr
           /\ Below(Append(arrs, arr), 1) = arrs
<1> DEFINE a == Append(arrs, arr)
           b == Below(a, 1)
<1>1. /\ a \in Seq(BOOLEAN) /\ Len(a) = Len(arrs) + 1 /\ a[Len(arrs) + 1] = arr
      /\ \A i \in 1 .. Len(arrs) : a[i] = arrs[i]
      /\ Len(arrs) \in Nat
  BY AppendProperties, LenProperties
<1> HIDE DEF a
<1>2. b \in Seq(BOOLEAN) /\ Len(b) = Len(a) - 1 /\ \A i \in 1 .. Len(a) - 1 : b[i] = a[i]
  <2>1. a \in Seq(BOOLEAN) /\ 1 \in Nat /\ 1 <= Len(a)
    BY <1>1
  <2> QED
    BY <2>1, BelowStack
<1> HIDE DEF b
<1>3. Len(b) = Len(arrs) /\ \A i \in 1 .. Len(arrs) : b[i] = arrs[i]
  BY <1>1, <1>2
<1>4. b = arrs
  BY <1>2, <1>3, SeqEqual
<1>5. a # <<>>
  BY <1>1, EmptySeq
<1> QED
  BY <1>1, <1>4, <1>5 DEF a, b

LEMMA DrivesEmpty == \A arr \in BOOLEAN : Drives("value", <<Opening(arr), Closing(arr)>>)
<1> TAKE arr \in BOOLEAN
<1> DEFINE o == <<Opening(arr)>>
           x == <<Closing(arr)>>
<1>1. o \in Seq(Token) /\ x \in Seq(Token) /\ o \o x = <<Opening(arr), Closing(arr)>>
  BY TokenSeqs, PairConcat
<1>2. ASSUME NEW c, Fits("value", c) PROVE Path(c, o \o x, AfterValue(c.arrs))
  <2> DEFINE e == Conf(BeginLabel(arr), TRUE, Append(c.arrs, arr))
  <2>1. Moved(c, Opening(arr)) = e
    BY <1>2, MovedOpen DEF Fits
  <2>2. e.at = BeginLabel(arr) /\ e.fresh /\ e.arrs = Append(c.arrs, arr) /\ e.at # "stuck"
    BY DEF Conf, BeginLabel
  <2>3. Path(c, o, e)
    BY <2>1, <2>2, PathStep
  <2> HIDE DEF e
  <2>4. Moved(e, Closing(arr)) = AfterValue(Below(e.arrs, 1))
    BY <2>2, MovedClose DEF Closable
  <2>5. Below(e.arrs, 1) = c.arrs
    BY <1>2, <2>2, KindsAround DEF Fits
  <2>6. Moved(e, Closing(arr)).at # "stuck"
    BY <2>4, NotStuck
  <2>7. Path(e, x, AfterValue(c.arrs))
    BY <2>4, <2>5, <2>6, PathStep
  <2> HIDE DEF o, x
  <2> QED
    BY <1>1, <2>3, <2>7, PathConcat
<1>3. o \o x \in Seq(Token)
  <2> HIDE DEF o, x
  <2> QED
    BY <1>1, TextConcat
<1> QED
  BY <1>1, <1>2, <1>3 DEF Drives

LEMMA DrivesBrackets ==
    ASSUME NEW arr \in BOOLEAN, NEW s, Drives(Items(arr), s)
    PROVE  Drives("value", <<Opening(arr)>> \o s \o <<Closing(arr)>>)
<1> DEFINE o == <<Opening(arr)>>
           x == <<Closing(arr)>>
<1>1. o \in Seq(Token) /\ x \in Seq(Token) /\ s \in Seq(Token)
  BY TokenSeqs DEF Drives
<1>2. ASSUME NEW c, Fits("value", c) PROVE Path(c, (o \o s) \o x, AfterValue(c.arrs))
  <2> DEFINE e == Conf(BeginLabel(arr), TRUE, Append(c.arrs, arr))
             g == AfterValue(Append(c.arrs, arr))
  <2>1. Moved(c, Opening(arr)) = e
    BY <1>2, MovedOpen DEF Fits
  <2>2. e.at = BeginLabel(arr) /\ e.arrs = Append(c.arrs, arr) /\ e.at # "stuck"
    BY DEF Conf, BeginLabel
  <2>3. Path(c, o, e)
    BY <2>1, <2>2, PathStep
  <2>a. /\ Append(c.arrs, arr) \in Seq(BOOLEAN) /\ Append(c.arrs, arr) # <<>>
        /\ Append(c.arrs, arr)[Len(Append(c.arrs, arr))] = arr
        /\ Below(Append(c.arrs, arr), 1) = c.arrs
    BY <1>2, KindsAround DEF Fits
  <2> HIDE DEF e
  <2>4. Fits(Items(arr), e)
    BY <2>2, <2>a DEF Fits, Items
  <2>5. Path(e, s, g)
    BY <2>2, <2>4 DEF Drives
  <2>6. Closable(g, arr) /\ g.arrs = Append(c.arrs, arr)
    BY <2>a, NotStuck DEF AfterValue, Conf, Closable
  <2> HIDE DEF g
  <2>7. Moved(g, Closing(arr)) = AfterValue(c.arrs)
    BY <2>6, <2>a, MovedClose
  <2>8. Path(g, x, AfterValue(c.arrs))
    BY <2>7, NotStuck, PathStep
  <2> HIDE DEF o, x
  <2>9. Path(c, o \o s, g) /\ o \o s \in Seq(Token)
    BY <1>1, <2>3, <2>5, PathConcat, TextConcat
  <2> QED
    BY <1>1, <2>8, <2>9, PathConcat
<1>3. (o \o s) \o x \in Seq(Token)
  <2> HIDE DEF o, x
  <2> QED
    BY <1>1, TextConcat
<1> QED
  BY <1>2, <1>3 DEF Drives

\* An element is a value; a member, one after its key.
LEMMA DrivesElement == ASSUME NEW s, Drives("value", s) PROVE Drives("elements", s)
<1>1. ASSUME NEW c, Fits("elements", c) PROVE Fits("value", c)
  BY <1>1 DEF Fits, Items, BeginLabel, AwaitsValue, ValueLabels
<1> QED
  BY <1>1 DEF Drives

LEMMA DrivesMember ==
    ASSUME NEW s, Drives("value", s), NEW k \in Keys
    PROVE  Drives("members", <<k, "colon">> \o s)
<1> DEFINE a == <<k>>
           b == <<"colon">>
<1>1. a \in Seq(Token) /\ b \in Seq(Token) /\ s \in Seq(Token) /\ a \o b = <<k, "colon">>
  BY TokenSeqs, PairConcat DEF Drives, Token, Punct
<1>2. ASSUME NEW c, Fits("members", c) PROVE Path(c, (a \o b) \o s, AfterValue(c.arrs))
  <2> DEFINE e == Conf("obj_key_end", FALSE, c.arrs)
             g == Conf("obj_val_begin", FALSE, c.arrs)
  <2>1. c.at = "obj_key_begin" /\ c.arrs \in Seq(BOOLEAN)
    BY <1>2 DEF Fits, Items, BeginLabel
  <2>2. Moved(c, k) = e
    BY <2>1, MovedKey
  <2>3. e.at = "obj_key_end" /\ e.arrs = c.arrs /\ g.at = "obj_val_begin" /\ g.arrs = c.arrs
    BY DEF Conf
  <2>4. Moved(e, "colon") = g
    BY <2>3, MovedColon
  <2> HIDE DEF e, g
  <2>5. Path(c, a, e) /\ Path(e, b, g)
    BY <2>2, <2>3, <2>4, PathStep
  <2>6. Fits("value", g)
    BY <2>1, <2>3 DEF Fits, AwaitsValue, ValueLabels
  <2>7. Path(g, s, AfterValue(c.arrs))
    BY <2>3, <2>6 DEF Drives
  <2> HIDE DEF a, b
  <2>8. Path(c, a \o b, g) /\ a \o b \in Seq(Token)
    BY <1>1, <2>5, PathConcat, TextConcat
  <2> QED
    BY <1>1, <2>7, <2>8, PathConcat
<1>3. (a \o b) \o s \in Seq(Token)
  <2> HIDE DEF a, b
  <2> QED
    BY <1>1, TextConcat
<1> QED
  BY <1>1, <1>2, <1>3 DEF Drives

LEMMA DrivesListed ==
    ASSUME NEW arr \in BOOLEAN, NEW s, NEW u, Drives(Items(arr), s), Drives(Items(arr), u)
    PROVE  Drives(Items(arr), s \o <<"comma">> \o u)
<1> DEFINE x == <<"comma">>
<1>1. x \in Seq(Token) /\ s \in Seq(Token) /\ u \in Seq(Token)
  BY TokenSeqs DEF Drives
<1>2. ASSUME NEW c, Fits(Items(arr), c) PROVE Path(c, (s \o x) \o u, AfterValue(c.arrs))
  <2> DEFINE e == AfterValue(c.arrs)
             g == Conf(BeginLabel(arr), FALSE, c.arrs)
  <2>1. c.arrs \in Seq(BOOLEAN) /\ c.arrs # <<>> /\ c.arrs[Len(c.arrs)] = arr
    BY <1>2 DEF Fits, Items
  <2>2. e.at = ValueEnd(arr) /\ e.arrs = c.arrs
    BY <2>1 DEF AfterValue, Conf
  <2>3. Path(c, s, e)
    BY <1>2 DEF Drives
  <2>4. g.at = BeginLabel(arr) /\ g.arrs = c.arrs /\ g.at # "stuck"
    BY DEF Conf, BeginLabel
  <2> HIDE DEF e
  <2>5. Moved(e, "comma") = g
    BY <2>2, MovedComma
  <2> HIDE DEF g
  <2>6. Path(e, x, g)
    BY <2>4, <2>5, PathStep
  <2>7. Fits(Items(arr), g)
    BY <2>1, <2>4 DEF Fits, Items
  <2>8. Path(g, u, AfterValue(c.arrs))
    BY <2>4, <2>7 DEF Drives
  <2> HIDE DEF x
  <2>9. Path(c, s \o x, g) /\ s \o x \in Seq(Token)
    BY <1>1, <2>3, <2>6, PathConcat, TextConcat
  <2> QED
    BY <1>1, <2>8, <2>9, PathConcat
<1>3. (s \o x) \o u \in Seq(Token)
  <2> HIDE DEF x
  <2> QED
    BY <1>1, TextConcat
<1> QED
  BY <1>2, <1>3 DEF Drives

\* What every sentence of at most n tokens does.
AllDrive(n) ==
    \A m \in 1 .. RefTokens, d \in Depths : m <= n =>
        \A kind \in {"value", "elements", "members"} : \A x \in Grammar[<<kind, m, d>>] : Drives(kind, x.toks)

LEMMA ValuesDrive ==
    ASSUME NEW n \in 1 .. RefTokens, NEW d \in Depths, AllDrive(n - 1)
    PROVE  \A x \in ValueRule(Grammar, n, d) : Drives("value", x.toks)
<1> TAKE x \in ValueRule(Grammar, n, d)
<1>1. ASSUME n >= 3, d >= 1, NEW arr \in BOOLEAN, NEW e \in Grammar[<<Items(arr), n - 2, d - 1>>]
      PROVE  Drives("value", <<Opening(arr)>> \o e.toks \o <<Closing(arr)>>)
  <2>1. n - 2 \in 1 .. RefTokens /\ d - 1 \in Depths /\ n - 2 <= n - 1
    BY <1>1, RefTokensNat, RecursionAssumption DEF Depths
  <2>2. Drives(Items(arr), e.toks)
    BY <1>1, <2>1 DEF AllDrive, Items
  <2> QED
    BY <2>2, DrivesBrackets
<1>2. CASE n = 1 /\ x \in {Sentence(<<Scalar>>, ScalarValue)} \cup {Sentence(<<k>>, StrValue(k)) : k \in Keys}
  BY <1>2, DrivesSingle DEF Sentence
<1>3. CASE x \in {Sentence(<<"arr_open", "arr_close">>, Array(<<>>)),
                  Sentence(<<"obj_open", "obj_close">>, Object(<<>>))}
  <2>1. Drives("value", <<"arr_open", "arr_close">>) /\ Drives("value", <<"obj_open", "obj_close">>)
    BY DrivesEmpty DEF Opening, Closing
  <2> QED
    BY <1>3, <2>1 DEF Sentence
<1>4. CASE /\ n >= 3 /\ d >= 1
           /\ x \in {Sentence(<<"arr_open">> \o e.toks \o <<"arr_close">>, Array(e.val)) :
                        e \in Grammar[<<"elements", n - 2, d - 1>>]}
  <2>1. PICK e \in Grammar[<<"elements", n - 2, d - 1>>] :
          x = Sentence(<<"arr_open">> \o e.toks \o <<"arr_close">>, Array(e.val))
    BY <1>4
  <2>2. Drives("value", <<"arr_open">> \o e.toks \o <<"arr_close">>)
    BY <1>1, <1>4, <2>1 DEF Opening, Closing, Items
  <2> QED
    BY <2>1, <2>2 DEF Sentence
<1>5. CASE /\ n >= 3 /\ d >= 1
           /\ x \in {Sentence(<<"obj_open">> \o m.toks \o <<"obj_close">>, Object(m.val)) :
                        m \in Grammar[<<"members", n - 2, d - 1>>]}
  <2>1. PICK m \in Grammar[<<"members", n - 2, d - 1>>] :
          x = Sentence(<<"obj_open">> \o m.toks \o <<"obj_close">>, Object(m.val))
    BY <1>5
  <2>2. Drives("value", <<"obj_open">> \o m.toks \o <<"obj_close">>)
    BY <1>1, <1>5, <2>1 DEF Opening, Closing, Items
  <2> QED
    BY <2>1, <2>2 DEF Sentence
<1> QED
  BY <1>2, <1>3, <1>4, <1>5, Zenon DEF ValueRule

\* An item of values that drive.
LEMMA ItemsDrive ==
    ASSUME NEW values, \A v \in values : Drives("value", v.toks)
    PROVE  /\ \A x \in AsElements(values) : Drives("elements", x.toks)
           /\ \A x \in AsMembers(values) : Drives("members", x.toks)
<1>1. ASSUME NEW x \in AsElements(values) PROVE Drives("elements", x.toks)
  <2>1. PICK v \in values : x = Sentence(v.toks, <<v.val>>)
    BY DEF AsElements
  <2> QED
    BY <2>1, DrivesElement DEF Sentence
<1>2. ASSUME NEW x \in AsMembers(values) PROVE Drives("members", x.toks)
  <2>1. PICK k \in Keys : x \in AsMember(k, values)
    BY DEF AsMembers
  <2>2. PICK v \in values : x = Sentence(<<k, "colon">> \o v.toks, <<StrValue(k), v.val>>)
    BY <2>1 DEF AsMember
  <2>3. Drives("members", <<k, "colon">> \o v.toks)
    BY DrivesMember
  <2> QED
    BY <2>2, <2>3 DEF Sentence
<1> QED
  BY <1>1, <1>2

\* A list and one more item.
LEMMA ListsDrive ==
    ASSUME NEW arr \in BOOLEAN, NEW firsts, NEW lasts,
           \A f \in firsts : Drives(Items(arr), f.toks), \A l \in lasts : Drives(Items(arr), l.toks)
    PROVE  \A x \in Listed(firsts, lasts) : Drives(Items(arr), x.toks)
<1> TAKE x \in Listed(firsts, lasts)
<1>1. PICK f \in firsts, l \in lasts : x = Sentence(f.toks \o <<"comma">> \o l.toks, f.val \o l.val)
  BY DEF Listed
<1>2. Drives(Items(arr), f.toks \o <<"comma">> \o l.toks)
  BY DrivesListed
<1> QED
  BY <1>1, <1>2 DEF Sentence

LEMMA NextDrive ==
    ASSUME NEW n \in 1 .. RefTokens, NEW d \in Depths, AllDrive(n - 1)
    PROVE  /\ \A x \in ElementsRule(Grammar, n, d) : Drives("elements", x.toks)
           /\ \A x \in MembersRule(Grammar, n, d) : Drives("members", x.toks)
<1>0. ASSUME NEW kind \in {"value", "elements", "members"}, NEW i \in Int, 1 <= i, i < n,
             NEW x \in Grammar[<<kind, i, d>>]
      PROVE  Drives(kind, x.toks)
  <2>1. i \in 1 .. RefTokens /\ i <= n - 1
    BY <1>0, RefTokensNat
  <2> QED
    BY <1>0, <2>1 DEF AllDrive
<1>1. ASSUME NEW x \in ElementsRule(Grammar, n, d) PROVE Drives("elements", x.toks)
  <2>1. CASE x \in AsElements(ValueRule(Grammar, n, d))
    BY <2>1, ValuesDrive, ItemsDrive
  <2>2. CASE \E i \in 1 .. n - 2 : x \in Listed(Grammar[<<"elements", i, d>>], AsElements(Grammar[<<"value", n - i - 1, d>>]))
    <3>1. PICK i \in 1 .. n - 2 : x \in Listed(Grammar[<<"elements", i, d>>], AsElements(Grammar[<<"value", n - i - 1, d>>]))
      BY <2>2
    <3> DEFINE j == n - i - 1
    <3>2. i \in Int /\ 1 <= i /\ i < n /\ j \in Int /\ 1 <= j /\ j < n
      OBVIOUS
    <3> HIDE DEF j
    <3>3. \A f \in Grammar[<<"elements", i, d>>] : Drives("elements", f.toks)
      BY <1>0, <3>2
    <3>4. \A v \in Grammar[<<"value", j, d>>] : Drives("value", v.toks)
      BY <1>0, <3>2
    <3>5. \A l \in AsElements(Grammar[<<"value", j, d>>]) : Drives("elements", l.toks)
      BY <3>4, ItemsDrive
    <3>6. Items(TRUE) = "elements"
      BY DEF Items
    <3>7. \A y \in Listed(Grammar[<<"elements", i, d>>], AsElements(Grammar[<<"value", j, d>>])) : Drives(Items(TRUE), y.toks)
      BY <3>3, <3>5, <3>6, ListsDrive
    <3> QED
      BY <3>1, <3>6, <3>7 DEF j
  <2> QED
    BY <1>1, <2>1, <2>2, Zenon DEF ElementsRule
<1>2. ASSUME NEW x \in MembersRule(Grammar, n, d) PROVE Drives("members", x.toks)
  <2>1. CASE n >= 3 /\ x \in AsMembers(Grammar[<<"value", n - 2, d>>])
    <3> DEFINE j == n - 2
    <3>1. j \in Int /\ 1 <= j /\ j < n
      BY <2>1
    <3> HIDE DEF j
    <3>2. \A v \in Grammar[<<"value", j, d>>] : Drives("value", v.toks)
      BY <1>0, <3>1
    <3>3. \A l \in AsMembers(Grammar[<<"value", j, d>>]) : Drives("members", l.toks)
      BY <3>2, ItemsDrive
    <3> QED
      BY <2>1, <3>3 DEF j
  <2>2. CASE \E i \in 1 .. n - 4 : x \in Listed(Grammar[<<"members", i, d>>], AsMembers(Grammar[<<"value", n - i - 3, d>>]))
    <3>1. PICK i \in 1 .. n - 4 : x \in Listed(Grammar[<<"members", i, d>>], AsMembers(Grammar[<<"value", n - i - 3, d>>]))
      BY <2>2
    <3> DEFINE j == n - i - 3
    <3>2. i \in Int /\ 1 <= i /\ i < n /\ j \in Int /\ 1 <= j /\ j < n
      OBVIOUS
    <3> HIDE DEF j
    <3>3. \A f \in Grammar[<<"members", i, d>>] : Drives("members", f.toks)
      BY <1>0, <3>2
    <3>4. \A v \in Grammar[<<"value", j, d>>] : Drives("value", v.toks)
      BY <1>0, <3>2
    <3>5. \A l \in AsMembers(Grammar[<<"value", j, d>>]) : Drives("members", l.toks)
      BY <3>4, ItemsDrive
    <3>6. Items(FALSE) = "members"
      BY DEF Items
    <3>7. \A y \in Listed(Grammar[<<"members", i, d>>], AsMembers(Grammar[<<"value", j, d>>])) : Drives(Items(FALSE), y.toks)
      BY <3>3, <3>5, <3>6, ListsDrive
    <3> QED
      BY <3>1, <3>6, <3>7 DEF j
  <2> QED
    BY <1>2, <2>1, <2>2, Zenon DEF MembersRule
<1> QED
  BY <1>1, <1>2

\* Every value of the grammar leads from its first token to its end.
LEMMA SentencesDrive ==
    ASSUME NEW n \in 1 .. RefTokens, NEW d \in Depths, NEW x \in Grammar[<<"value", n, d>>]
    PROVE  Drives("value", x.toks)
<1> DEFINE G == {m \in Nat : AllDrive(m)}
<1>1. 0 \in G
  BY DEF AllDrive
<1>2. ASSUME NEW m \in Nat, m \in G PROVE m + 1 \in G
  <2> SUFFICES ASSUME NEW i \in 1 .. RefTokens, NEW e \in Depths, i <= m + 1,
                      NEW kind \in {"value", "elements", "members"}, NEW y \in Grammar[<<kind, i, e>>]
               PROVE  Drives(kind, y.toks)
    BY DEF AllDrive
  <2>1. AllDrive(m)
    BY <1>2
  <2>2. CASE i <= m
    BY <2>1, <2>2 DEF AllDrive
  <2>3. CASE i = m + 1
    <3>1. AllDrive(i - 1)
      <4>1. i - 1 = m
        BY <2>3
      <4> QED
        BY <2>1, <4>1
    <3>2. CASE kind = "value"
      <4>1. y \in ValueRule(Grammar, i, e)
        BY <3>2, ByRule
      <4> QED
        BY <3>1, <3>2, <4>1, ValuesDrive
    <3>3. CASE kind = "elements"
      <4>1. y \in ElementsRule(Grammar, i, e)
        BY <3>3, ByRule
      <4> QED
        BY <3>1, <3>3, <4>1, NextDrive
    <3>4. CASE kind = "members"
      <4>1. y \in MembersRule(Grammar, i, e)
        BY <3>4, ByRule
      <4> QED
        BY <3>1, <3>4, <4>1, NextDrive
    <3> QED
      BY <3>2, <3>3, <3>4
  <2> QED
    BY <2>2, <2>3
<1> HIDE DEF G
<1>3. \A m \in Nat : m \in G
  BY <1>1, <1>2, SetInduction
<1>4. AllDrive(n)
  BY <1>3 DEF G
<1>5. n <= n
  OBVIOUS
<1> QED
  BY <1>4, <1>5 DEF AllDrive

-----------------------------------------------------------------------------
(* The reader goes where the automaton goes.                               *)

\* The document s is read from its beginning to its end through the configurations f.
Run(f, s) == s \in Seq(Token) /\ Follow(f, Conf("start", FALSE, <<>>), s)

Begins(s, t) == Len(s) <= Len(t) /\ \A i \in 1 .. Len(s) : s[i] = t[i]

\* Whatever document begins with s, c is where it is after that; none begins so.
OnRun(s, c) == \A t, f : Run(f, t) /\ Begins(s, t) => c = f[Len(s)]
OffRun(s)   == \A t, f : Run(f, t) => ~Begins(s, t)

LEMMA RunStep ==
    ASSUME NEW s \in Seq(Token), NEW t \in Token, NEW c, OnRun(s, c)
    PROVE  /\ OnRun(Append(s, t), Moved(c, t))
           /\ Moved(c, t).at = "stuck" => OffRun(Append(s, t))
<1> DEFINE u == Append(s, t)
           n == Len(s)
<1>1. /\ u \in Seq(Token) /\ Len(u) = n + 1 /\ n \in Nat /\ u[n + 1] = t
      /\ \A i \in 1 .. n : u[i] = s[i]
  BY AppendProperties, LenProperties
<1> HIDE DEF u, n
<1>2. ASSUME NEW w, NEW f, Run(f, w), Begins(u, w)
      PROVE  f[Len(u)] = Moved(c, t) /\ f[Len(u)].at # "stuck"
  <2>1. Len(u) <= Len(w) /\ \A i \in 1 .. Len(u) : u[i] = w[i]
    BY <1>2 DEF Begins
  <2>2. Len(w) \in Nat
    BY <1>2, LenProperties DEF Run
  <2>3. n + 1 \in 1 .. Len(u) /\ n + 1 \in 1 .. Len(w) /\ n <= Len(w) /\ \A i \in 1 .. n : i \in 1 .. Len(u)
    BY <1>1, <2>1, <2>2
  <2>4. Begins(s, w)
    BY <1>1, <2>1, <2>3 DEF Begins, n
  <2>5. c = f[n]
    BY <1>2, <2>4 DEF OnRun, n
  <2>6. f[n + 1] = Moved(f[n], w[n + 1]) /\ f[n + 1].at # "stuck"
    <3>1. \A i \in 1 .. Len(w) : f[i] = Moved(f[i - 1], w[i]) /\ f[i].at # "stuck"
      BY <1>2 DEF Run, Follow
    <3> DEFINE k == n + 1
    <3>2. k \in 1 .. Len(w) /\ k - 1 = n
      BY <1>1, <2>3
    <3> HIDE DEF k
    <3>3. f[k] = Moved(f[n], w[k]) /\ f[k].at # "stuck"
      BY <3>1, <3>2
    <3> QED
      BY <3>3 DEF k
  <2>7. w[n + 1] = t
    BY <1>1, <2>1, <2>3
  <2> QED
    BY <1>1, <2>5, <2>6, <2>7
<1> QED
  BY <1>2, Zenon DEF OnRun, OffRun, u

\* The kinds of the containers c.
Kinds(c) == [i \in 1 .. Len(c) |-> c[i].arr]

LEMMA KindsSeq ==
    ASSUME NEW c \in Seq(Container)
    PROVE  /\ Kinds(c) \in Seq(BOOLEAN) /\ Len(Kinds(c)) = Len(c) /\ Len(c) \in Nat
           /\ \A i \in 1 .. Len(c) : Kinds(c)[i] = c[i].arr
<1>1. Len(c) \in Nat /\ \A i \in 1 .. Len(c) : c[i].arr \in BOOLEAN
  BY LenProperties, ElementOfSeq, SlotsNat
<1> DEFINE n == Len(c)
<1> HIDE DEF n
<1>2. [i \in 1 .. n |-> c[i].arr] \in Seq(BOOLEAN) /\ Len([i \in 1 .. n |-> c[i].arr]) = n
  BY <1>1, IsASeq DEF n
<1>3. \A i \in 1 .. n : [j \in 1 .. n |-> c[j].arr][i] = c[i].arr
  OBVIOUS
<1> QED
  BY <1>1, <1>2, <1>3 DEF Kinds, n

LEMMA KindsOf ==
    ASSUME NEW c \in Seq(Container), NEW e \in Seq(Container), Len(e) = Len(c),
           \A i \in 1 .. Len(c) : e[i].arr = c[i].arr
    PROVE  Kinds(e) = Kinds(c)
BY DEF Kinds

LEMMA KindsOpened ==
    ASSUME NEW c \in Seq(Container), NEW x \in Container
    PROVE  Kinds(Append(c, x)) = Append(Kinds(c), x.arr)
<1> DEFINE e == Append(c, x)
           k == Kinds(c)
           a == Append(k, x.arr)
           n == Len(c)
<1>1. /\ e \in Seq(Container) /\ Len(e) = n + 1 /\ e[n + 1] = x /\ n \in Nat
      /\ \A i \in 1 .. n : e[i] = c[i]
  BY AppendProperties, LenProperties
<1>2. k \in Seq(BOOLEAN) /\ Len(k) = n /\ \A i \in 1 .. n : k[i] = c[i].arr
  BY KindsSeq
<1>a. x.arr \in BOOLEAN
  BY SlotsNat
<1> HIDE DEF e, k
<1>3. /\ a \in Seq(BOOLEAN) /\ Len(a) = n + 1 /\ a[n + 1] = x.arr
      /\ \A i \in 1 .. n : a[i] = k[i]
  BY <1>2, <1>a, AppendProperties
<1> HIDE DEF a, n
<1>4. Kinds(e) \in Seq(BOOLEAN) /\ Len(Kinds(e)) = n + 1 /\ \A i \in 1 .. n + 1 : Kinds(e)[i] = e[i].arr
  BY <1>1, KindsSeq
<1>5. \A i \in 1 .. n + 1 : Kinds(e)[i] = a[i]
  <2> TAKE i \in 1 .. n + 1
  <2>1. i \in 1 .. n \/ i = n + 1
    BY <1>1
  <2> QED
    BY <1>1, <1>2, <1>3, <1>4, <2>1
<1>6. Kinds(e) = a
  BY <1>3, <1>4, <1>5, SeqEqual
<1> QED
  BY <1>6 DEF e, a, k

LEMMA KindsClosed ==
    ASSUME NEW c \in Seq(Container), c # <<>>
    PROVE  /\ Kinds(Below(c, 1)) = Below(Kinds(c), 1)
           /\ Below(c, 1) \in Seq(Container) /\ Len(Below(c, 1)) = Len(c) - 1
           /\ Len(c) \in Nat /\ Len(c) >= 1
<1> DEFINE e == Below(c, 1)
           k == Kinds(c)
           a == Below(k, 1)
           n == Len(c) - 1
<1>0. Len(c) \in Nat /\ 1 <= Len(c) /\ n \in Nat
  BY LenProperties, EmptySeq
<1>1. e \in Seq(Container) /\ Len(e) = n /\ \A i \in 1 .. n : e[i] = c[i]
  BY <1>0, BelowStack
<1>2. k \in Seq(BOOLEAN) /\ Len(k) = Len(c) /\ \A i \in 1 .. Len(c) : k[i] = c[i].arr
  BY KindsSeq
<1> HIDE DEF e, k
<1>3. a \in Seq(BOOLEAN) /\ Len(a) = n /\ \A i \in 1 .. n : a[i] = k[i]
  <2>1. 1 \in Nat /\ 1 <= Len(k)
    BY <1>0, <1>2
  <2>2. a \in Seq(BOOLEAN) /\ Len(a) = Len(k) - 1 /\ \A i \in 1 .. Len(k) - 1 : a[i] = k[i]
    BY <1>2, <2>1, BelowStack
  <2> QED
    BY <1>2, <2>2
<1> HIDE DEF a
<1>4. Kinds(e) \in Seq(BOOLEAN) /\ Len(Kinds(e)) = n /\ \A i \in 1 .. n : Kinds(e)[i] = e[i].arr
  BY <1>1, KindsSeq
<1>5. \A i \in 1 .. n : Kinds(e)[i] = a[i]
  <2> TAKE i \in 1 .. n
  <2>1. i \in 1 .. Len(c)
    BY <1>0
  <2> QED
    BY <1>1, <1>2, <1>3, <1>4, <2>1
<1>6. Kinds(e) = a
  BY <1>3, <1>4, <1>5, SeqEqual
<1> QED
  BY <1>0, <1>1, <1>6 DEF e, a, k

\* Tokens that no label has a branch for.
LEMMA MovedRefused ==
    ASSUME NEW c, NEW t \in Token
    PROVE  /\ c.at = "start" /\ t \in {Eof, Bad, "arr_close", "obj_close", "comma", "colon"} => Moved(c, t) = Stuck
           /\ c.at \in Running /\ t \notin Accepted(c.at) => Moved(c, t) = Stuck
           /\ c.at = "doc_end" /\ t # Eof => Moved(c, t) = Stuck
<1>1. ASSUME c.at = "start", t \in {Eof, Bad, "arr_close", "obj_close", "comma", "colon"} PROVE Moved(c, t) = Stuck
  <2>1. t \notin {Scalar, "arr_open", "obj_open"} \cup Keys
    BY <1>1, TokensApart
  <2> QED
    BY <1>1, <2>1 DEF Moved, Closable, ValueEnd, BeginLabel
<1>2. ASSUME c.at = "doc_end", t # Eof PROVE Moved(c, t) = Stuck
  BY <1>2 DEF Moved, Closable, ValueEnd, BeginLabel, AwaitsValue, ValueLabels
<1>3. ASSUME c.at \in Running, t \notin Accepted(c.at) PROVE Moved(c, t) = Stuck
  <2>1. CASE c.at = "arr_val_begin"
    BY <1>3, <2>1 DEF Moved, Closable, ValueEnd, BeginLabel, AwaitsValue, ValueLabels, Accepted
  <2>2. CASE c.at = "obj_val_begin"
    BY <1>3, <2>2 DEF Moved, Closable, ValueEnd, BeginLabel, AwaitsValue, ValueLabels, Accepted
  <2>3. CASE c.at = "obj_key_begin"
    BY <1>3, <2>3 DEF Moved, Closable, ValueEnd, BeginLabel, AwaitsValue, ValueLabels, Accepted
  <2>4. CASE c.at = "arr_val_end"
    BY <1>3, <2>4 DEF Moved, Closable, ValueEnd, BeginLabel, AwaitsValue, ValueLabels, Accepted
  <2>5. CASE c.at = "obj_val_end"
    BY <1>3, <2>5 DEF Moved, Closable, ValueEnd, BeginLabel, AwaitsValue, ValueLabels, Accepted
  <2>6. CASE c.at = "obj_key_end"
    BY <1>3, <2>6 DEF Moved, Closable, ValueEnd, BeginLabel, AwaitsValue, ValueLabels, Accepted
  <2> QED
    BY <1>3, <2>1, <2>2, <2>3, <2>4, <2>5, <2>6 DEF Running
<1> QED
  BY <1>1, <1>2, <1>3

LEMMA MovedTooSoon ==
    ASSUME NEW c, NEW arr \in BOOLEAN, c.at = BeginLabel(arr), ~c.fresh
    PROVE  Moved(c, Closing(arr)) = Stuck
<1>1. CASE arr
  BY <1>1, TokensApart DEF Moved, Closable, Closing, ValueEnd, BeginLabel, AwaitsValue, ValueLabels
<1>2. CASE ~arr
  BY <1>2, TokensApart DEF Moved, Closable, Closing, ValueEnd, BeginLabel, AwaitsValue, ValueLabels
<1> QED
  BY <1>1, <1>2

\* Where the reader is.
Label == IF pc = "single_end" THEN "doc_end" ELSE pc
Fresh == pc \in {"arr_val_begin", "obj_key_begin"} /\ Top.len = 0
Config == Conf(Label, Fresh, Kinds(ctn))

SyntaxInv ==
    /\ pc \in Open => OnRun(input, Config)
    /\ err = "syntax" /\ ~oom => OffRun(input)

LEMMA ConfigParts == Config.at = Label /\ Config.fresh = Fresh /\ Config.arrs = Kinds(ctn)
BY DEF Config, Conf

LEMMA GoesOn ==
    ASSUME IInv, SyntaxInv, pc \in Open, NEW t \in Token, Read(t), Config' = Moved(Config, t), err' # "syntax"
    PROVE  SyntaxInv'
<1>1. input \in Seq(Token) /\ input' = Append(input, t)
  BY DEF IInv, TypeOK, Read
<1>2. OnRun(input, Config)
  BY DEF SyntaxInv
<1> HIDE DEF Config
<1>3. OnRun(input', Config')
  BY <1>1, <1>2, RunStep
<1> QED
  BY <1>3 DEF SyntaxInv

LEMMA Refused ==
    ASSUME IInv, SyntaxInv, pc \in Open, NEW t \in Token, Read(t), Moved(Config, t) = Stuck, pc' \notin Open
    PROVE  SyntaxInv'
<1>1. input \in Seq(Token) /\ input' = Append(input, t)
  BY DEF IInv, TypeOK, Read
<1>2. OnRun(input, Config)
  BY DEF SyntaxInv
<1>3. OffRun(input')
  BY <1>1, <1>2, RunStep, NotStuck
<1> QED
  BY <1>3 DEF SyntaxInv

LEMMA FailedSyntax ==
    ASSUME pc' \notin Open, err' # "syntax" \/ oom'
    PROVE  SyntaxInv'
BY DEF SyntaxInv

\* An open container's kind.
LEMMA KindOfTop ==
    ASSUME IInv, pc \in Running
    PROVE  /\ Kinds(ctn) \in Seq(BOOLEAN) /\ Kinds(ctn) # <<>>
           /\ Kinds(ctn)[Len(Kinds(ctn))] = Top.arr /\ Top.arr \in BOOLEAN
           /\ ctn \in Seq(Container) /\ ctn # <<>>
<1>1. ctn \in Seq(Container) /\ ctn # <<>> /\ Len(ctn) \in Nat /\ Len(ctn) >= 1 /\ Top \in Container
  BY AtLabel
<1>2. /\ Kinds(ctn) \in Seq(BOOLEAN) /\ Len(Kinds(ctn)) = Len(ctn)
      /\ \A i \in 1 .. Len(ctn) : Kinds(ctn)[i] = ctn[i].arr
  BY <1>1, KindsSeq
<1>3. Len(ctn) \in 1 .. Len(ctn)
  BY <1>1
<1> DEFINE k == Kinds(ctn)
<1>4. k # <<>>
  <2> HIDE DEF k
  <2>1. Len(k) >= 1
    BY <1>1, <1>2 DEF k
  <2> QED
    BY <2>1
<1> QED
  BY <1>1, <1>2, <1>3, <1>4, SlotsNat DEF Top

\* A value that is pushed where one is awaited.
LEMMA ReadValueSyntax ==
    ASSUME IInv, ErrInv, SyntaxInv, pc \in ValueLabels, NEW t \in {Scalar} \cup Keys, Read(t), NEW v, ValueStep(v)
    PROVE  SyntaxInv'
<1>1. pc \in Running /\ pc \in Open /\ err = "none" /\ t \in Token
  BY DEF ValueLabels, Running, Open, ErrInv, Token
<1>2. (pc' = "cleanup" /\ oom') \/ (/\ pc' = ValueEnd(pc = "arr_val_begin") /\ ctn' = Counted(ctn) /\ err' = err)
  BY DEF ValueStep, CreationFails, Push, Fail
<1>3. CASE pc' = "cleanup" /\ oom'
  BY <1>3, FailedSyntax DEF Open, Running
<1>4. CASE pc' = ValueEnd(pc = "arr_val_begin") /\ ctn' = Counted(ctn) /\ err' = err
  <2>1. Kinds(ctn') = Kinds(ctn)
    <3>1. /\ ctn' \in Seq(Container) /\ Len(ctn') = Len(ctn) /\ ctn \in Seq(Container)
          /\ \A i \in 1 .. Len(ctn) : ctn'[i].arr = ctn[i].arr
      BY <1>1, <1>4, KindOfTop, CountedStack
    <3> QED
      BY <3>1, KindsOf
  <2>2. Top.arr = (pc = "arr_val_begin")
    BY <1>1, KindOfTop DEF IInv, LabelInv, ValueLabels
  <2>3. Moved(Config, t) = AfterValue(Kinds(ctn))
    <3>1. Config.at \in AwaitsValue
      BY ConfigParts DEF Label, AwaitsValue, ValueLabels
    <3> QED
      BY <3>1, MovedItem, ConfigParts
  <2>4. AfterValue(Kinds(ctn)) = Conf(ValueEnd(pc = "arr_val_begin"), FALSE, Kinds(ctn))
    BY <1>1, <2>2, KindOfTop DEF AfterValue
  <2>5. Config' = Conf(pc', FALSE, Kinds(ctn'))
    BY <1>4 DEF Config, Label, Fresh, ValueEnd
  <2>6. Config' = Moved(Config, t)
    BY <1>4, <2>1, <2>3, <2>4, <2>5
  <2> QED
    BY <1>1, <1>4, <2>6, GoesOn
<1> QED
  BY <1>2, <1>3, <1>4

LEMMA ReadKeySyntax == ASSUME IInv, ErrInv, SyntaxInv, ReadKey PROVE SyntaxInv'
<1>1. PICK k \in Keys : /\ Read(k)
                        /\ \/ CreationFails("syntax")
                           \/ Push(objs, StrValue(k), refs + 1, ctn, "obj_key_end", "syntax")
  BY DEF ReadKey
<1>2. pc = "obj_key_begin" /\ pc \in Open /\ err = "none" /\ k \in Token
  BY DEF ReadKey, Running, Open, ErrInv, Token
<1>3. (pc' = "cleanup" /\ oom') \/ (pc' = "obj_key_end" /\ ctn' = ctn /\ err' = err)
  BY <1>1 DEF CreationFails, Push, Fail
<1>4. CASE pc' = "obj_key_end" /\ ctn' = ctn /\ err' = err
  <2>1. Config.at = "obj_key_begin"
    BY <1>2, ConfigParts DEF Label
  <2>2. Moved(Config, k) = Conf("obj_key_end", FALSE, Kinds(ctn))
    BY <2>1, MovedKey, ConfigParts
  <2>3. Config' = Conf("obj_key_end", FALSE, Kinds(ctn'))
    BY <1>4 DEF Config, Label, Fresh
  <2> QED
    BY <1>1, <1>2, <1>4, <2>2, <2>3, GoesOn
<1> QED
  BY <1>3, <1>4, FailedSyntax DEF Open, Running

LEMMA ReadItemSyntax == ASSUME IInv, ErrInv, SyntaxInv, ReadScalar \/ ReadString PROVE SyntaxInv'
BY ReadValueSyntax DEF ReadScalar, ReadString

LEMMA OpenContainerSyntax == ASSUME IInv, ErrInv, SyntaxInv, OpenContainer PROVE SyntaxInv'
<1> PICK t \in {"arr_open", "obj_open"} :
      /\ Read(t)
      /\ \/ /\ ctn' = Append(ctn, Opened(t)) /\ err' = err
            /\ pc' = IF t = "arr_open" THEN "arr_val_begin" ELSE "obj_key_begin"
         \/ Reject("depth")
  BY DEF OpenContainer
<1> DEFINE arr == t = "arr_open"
           x == Opened(t)
<1>1. pc \in ValueLabels /\ pc \in Running /\ pc \in Open /\ err = "none" /\ t \in Token /\ t = Opening(arr)
  BY DEF OpenContainer, ValueLabels, Running, Open, ErrInv, Token, Punct, Opening
<1>2. CASE Reject("depth")
  BY <1>2, FailedSyntax DEF Reject, Fail, Open, Running
<1>3. CASE ctn' = Append(ctn, Opened(t)) /\ err' = err /\ pc' = BeginLabel(arr)
  <2>1. x \in Container /\ x.arr = arr /\ x.len = 0 /\ arr \in BOOLEAN
    BY <1>1, AtLabel DEF Opened, Container
  <2>2. ctn \in Seq(Container)
    BY <1>1, KindOfTop
  <2> HIDE DEF x
  <2>3. Kinds(ctn') = Append(Kinds(ctn), arr)
    BY <1>3, <2>1, <2>2, KindsOpened DEF x
  <2>4. Top'.len = 0
    <3>1. Len(ctn') = Len(ctn) + 1 /\ ctn'[Len(ctn) + 1] = x
      BY <1>3, <2>2, AppendStack DEF x
    <3>2. ctn'[Len(ctn')] = x
      BY <3>1
    <3> QED
      BY <2>1, <3>2 DEF Top
  <2> HIDE DEF arr
  <2>5. Moved(Config, Opening(arr)) = Conf(BeginLabel(arr), TRUE, Append(Kinds(ctn), arr))
    <3>1. Config.at \in AwaitsValue
      BY <1>1, ConfigParts DEF Label, AwaitsValue, ValueLabels
    <3> QED
      BY <2>1, <3>1, MovedOpen, ConfigParts
  <2>6. Config' = Conf(BeginLabel(arr), TRUE, Kinds(ctn'))
    <3>1. pc' \in {"arr_val_begin", "obj_key_begin"}
      BY <1>3 DEF BeginLabel
    <3>2. Fresh' = TRUE /\ Label' = pc'
      BY <2>4, <3>1 DEF Fresh, Label
    <3> QED
      BY <1>3, <3>2 DEF Config
  <2> QED
    BY <1>1, <1>3, <2>3, <2>5, <2>6, GoesOn
<1> QED
  BY <1>2, <1>3 DEF BeginLabel

\* A document begins outside of all containers.
LEMMA AtStartSyntax ==
    ASSUME IInv, ErrInv, SyntaxInv, pc = "start"
    PROVE  /\ pc \in Open /\ err = "none" /\ ctn = <<>> /\ Kinds(ctn) = <<>>
           /\ Config.at = "start" /\ Config.arrs = <<>> /\ Config.at \in AwaitsValue
<1>1. pc \in Open /\ err = "none" /\ ctn = <<>>
  BY DEF Open, ErrInv, IInv, LabelInv
<1>2. Kinds(<<>>) = <<>>
  BY DEF Kinds
<1>3. Config.at = "start"
  BY ConfigParts DEF Label
<1> QED
  BY <1>1, <1>2, <1>3, ConfigParts DEF AwaitsValue

LEMMA OpenRootSyntax == ASSUME IInv, ErrInv, SyntaxInv, OpenRoot PROVE SyntaxInv'
<1> PICK t \in {"arr_open", "obj_open"} :
      /\ Read(t)
      /\ \/ /\ ctn' = <<Opened(t)>> /\ err' = err
            /\ pc' = IF t = "arr_open" THEN "arr_val_begin" ELSE "obj_key_begin"
         \/ CreationFails("memory")
  BY DEF OpenRoot
<1> DEFINE arr == t = "arr_open"
           x == Opened(t)
<1>1. /\ pc \in Open /\ err = "none" /\ ctn = <<>> /\ Kinds(ctn) = <<>>
      /\ Config.at \in AwaitsValue /\ Config.arrs = <<>> /\ t \in Token /\ t = Opening(arr)
  BY AtStartSyntax DEF OpenRoot, Token, Punct, Opening
<1>2. CASE CreationFails("memory")
  BY <1>2, FailedSyntax DEF CreationFails, Fail, Open, Running
<1>3. CASE ctn' = <<Opened(t)>> /\ err' = err /\ pc' = BeginLabel(arr)
  <2>1. x \in Container /\ x.arr = arr /\ x.len = 0 /\ arr \in BOOLEAN
    <3>1. Len(objs) \in Nat
      BY LenProperties DEF IInv, ObjsStack
    <3> QED
      BY <3>1 DEF Opened, Container
  <2> HIDE DEF x
  <2>2. Kinds(ctn') = <<arr>>
    <3>1. ctn' = <<x>>
      BY <1>3 DEF x
    <3>2. Kinds(<<x>>) = <<arr>>
      BY <2>1 DEF Kinds
    <3> QED
      BY <3>1, <3>2
  <2>3. Top'.len = 0
    <3>1. Len(ctn') = 1 /\ ctn'[1] = x
      BY <1>3 DEF x
    <3>2. ctn'[Len(ctn')] = x
      BY <3>1
    <3> QED
      BY <2>1, <3>2 DEF Top
  <2> HIDE DEF arr
  <2>4. Moved(Config, Opening(arr)) = Conf(BeginLabel(arr), TRUE, <<arr>>)
    <3>1. Append(<<>>, arr) = <<arr>>
      OBVIOUS
    <3> QED
      BY <1>1, <2>1, <3>1, MovedOpen
  <2>5. Config' = Conf(BeginLabel(arr), TRUE, Kinds(ctn'))
    <3>1. pc' \in {"arr_val_begin", "obj_key_begin"}
      BY <1>3 DEF BeginLabel
    <3>2. Fresh' = TRUE /\ Label' = pc'
      BY <2>3, <3>1 DEF Fresh, Label
    <3> QED
      BY <1>3, <3>2 DEF Config
  <2> QED
    BY <1>1, <1>3, <2>2, <2>4, <2>5, GoesOn
<1> QED
  BY <1>2, <1>3 DEF BeginLabel

LEMMA RootSyntax == ASSUME IInv, ErrInv, SyntaxInv, RootScalar \/ RootString PROVE SyntaxInv'
<1>1. PICK t \in {Scalar} \cup Keys :
        /\ pc = "start" /\ Read(t)
        /\ \/ pc' = "single_end" /\ ctn' = ctn /\ err' = err
           \/ pc' = "cleanup" /\ oom'
           \/ pc' = "wild" /\ err' = err
  BY DEF RootScalar, RootString, SingleValue, CreationFails, Fail
<1>2. /\ pc \in Open /\ err = "none" /\ Kinds(ctn) = <<>>
      /\ Config.at \in AwaitsValue /\ Config.arrs = <<>> /\ t \in Token
  BY <1>1, AtStartSyntax DEF Token
<1>3. CASE pc' = "single_end" /\ ctn' = ctn /\ err' = err
  <2>1. Moved(Config, t) = AfterValue(<<>>)
    BY <1>2, MovedItem
  <2>2. AfterValue(<<>>) = Conf("doc_end", FALSE, <<>>)
    BY DEF AfterValue
  <2>3. Config' = Conf("doc_end", FALSE, Kinds(ctn'))
    BY <1>3 DEF Config, Label, Fresh
  <2> QED
    BY <1>1, <1>2, <1>3, <2>1, <2>2, <2>3, GoesOn
<1> QED
  BY <1>1, <1>2, <1>3, FailedSyntax DEF Open, Running

\* A container that is closed.
LEMMA ClosedSyntax ==
    ASSUME IInv, ErrInv, SyntaxInv, NEW arr \in BOOLEAN,
           pc \in IF arr THEN {"arr_val_begin", "arr_val_end"} ELSE {"obj_key_begin", "obj_val_end"},
           pc = ValueEnd(arr) \/ MayCloseEmpty, Read(Closing(arr)),
           ctn' = CtnAfterClose, pc' = AfterClose, err' = err
    PROVE  SyntaxInv'
<1>1. pc \in Running /\ KeyPending = 0 /\ pc \in Open /\ err = "none" /\ Closing(arr) \in Token
  BY DEF Running, KeyPending, Open, ErrInv, Closing, Token, Punct
<1>2. ctn \in Seq(Container) /\ ctn # <<>>
  BY <1>1, KindOfTop
<1> DEFINE b == Below(ctn, 1)
<1>3. /\ Kinds(b) = Below(Kinds(ctn), 1) /\ b \in Seq(Container) /\ Len(b) = Len(ctn) - 1
      /\ Len(ctn) \in Nat /\ Len(ctn) >= 1
  BY <1>2, KindsClosed
<1>4. Moved(Config, Closing(arr)) = AfterValue(Kinds(b))
  <2>1. Closable(Config, arr)
    BY ConfigParts DEF Closable, Label, Fresh, ValueEnd, BeginLabel, MayCloseEmpty
  <2> QED
    BY <1>3, <2>1, MovedClose, ConfigParts
<1>5. Config' = AfterValue(Kinds(b))
  <2>1. CASE Len(ctn) = 1
    <3>1. ctn' = <<>> /\ pc' = "doc_end"
      BY <2>1 DEF CtnAfterClose, AfterClose
    <3>2. Kinds(b) = <<>> /\ Kinds(<<>>) = <<>>
      <4>1. Len(b) = 0
        BY <1>3, <2>1
      <4> HIDE DEF b
      <4> QED
        BY <4>1 DEF Kinds
    <3> HIDE DEF b
    <3>3. AfterValue(Kinds(b)) = Conf("doc_end", FALSE, <<>>)
      BY <3>2 DEF AfterValue
    <3> QED
      BY <3>1, <3>2, <3>3 DEF Config, Label, Fresh
  <2>2. CASE Len(ctn) # 1
    <3>1. ctn' = Counted(b) /\ pc' = ValueEnd(ctn[Len(ctn) - 1].arr)
      BY <2>2 DEF CtnAfterClose, AfterClose
    <3>2. Len(b) \in 1 .. Len(b) /\ b # <<>> /\ b[Len(b)] = ctn[Len(ctn) - 1]
      <4>1. \A i \in 1 .. Len(ctn) - 1 : b[i] = ctn[i]
        <5>1. 1 \in Nat /\ 1 <= Len(ctn)
          BY <1>3
        <5> QED
          BY <1>2, <5>1, BelowStack
      <4> HIDE DEF b
      <4>2. Len(b) \in 1 .. Len(b) /\ Len(ctn) - 1 \in 1 .. Len(ctn) - 1
        BY <1>3, <2>2
      <4> QED
        BY <1>3, <4>1, <4>2
    <3> HIDE DEF b
    <3>3. Kinds(ctn') = Kinds(b)
      <4>1. /\ ctn' \in Seq(Container) /\ Len(ctn') = Len(b)
            /\ \A i \in 1 .. Len(b) : ctn'[i].arr = b[i].arr
        BY <1>3, <3>1, <3>2, CountedStack
      <4> QED
        BY <1>3, <4>1, KindsOf
    <3>4. Kinds(b) # <<>> /\ Kinds(b)[Len(Kinds(b))] = b[Len(b)].arr
      <4>1. /\ Kinds(b) \in Seq(BOOLEAN) /\ Len(Kinds(b)) = Len(b)
            /\ \A i \in 1 .. Len(b) : Kinds(b)[i] = b[i].arr
        BY <1>3, KindsSeq
      <4> DEFINE k == Kinds(b)
      <4>2. Len(k) # 0 /\ k[Len(k)] = b[Len(b)].arr
        BY <3>2, <4>1
      <4> HIDE DEF k
      <4>3. k # <<>>
        BY <4>2
      <4> QED
        BY <4>2, <4>3 DEF k
    <3>5. AfterValue(Kinds(b)) = Conf(pc', FALSE, Kinds(b))
      BY <3>1, <3>2, <3>4 DEF AfterValue
    <3> QED
      BY <3>1, <3>3, <3>5 DEF Config, Label, Fresh, ValueEnd
  <2> QED
    BY <2>1, <2>2
<1> HIDE DEF b
<1> QED
  BY <1>1, <1>4, <1>5, GoesOn

LEMMA CloseSyntax == ASSUME IInv, ErrInv, SyntaxInv, CloseArray \/ CloseObject PROVE SyntaxInv'
<1>1. ASSUME NEW arr \in BOOLEAN, pc = BeginLabel(arr), ~MayCloseEmpty, Read(Closing(arr)), Reject("syntax")
      PROVE  SyntaxInv'
  <2>1. Config.at = BeginLabel(arr) /\ ~Config.fresh
    BY <1>1, ConfigParts DEF Label, Fresh, MayCloseEmpty, BeginLabel
  <2>2. Moved(Config, Closing(arr)) = Stuck
    BY <1>1, <2>1, MovedTooSoon
  <2>3. pc \in Open /\ Closing(arr) \in Token /\ pc' \notin Open
    BY <1>1 DEF BeginLabel, Open, Running, Closing, Token, Punct, Reject, Fail
  <2> QED
    BY <1>1, <2>2, <2>3, Refused
<1>2. err = "none" \/ pc \notin Running
  BY DEF ErrInv, Running
<1>3. CASE CloseArray
  <2>1. \/ pc' = "cleanup" /\ (err' # "syntax" \/ oom')
        \/ pc = BeginLabel(TRUE) /\ ~MayCloseEmpty /\ Reject("syntax")
        \/ /\ pc = ValueEnd(TRUE) \/ MayCloseEmpty
           /\ ctn' = CtnAfterClose /\ pc' = AfterClose /\ err' = err
    BY <1>3 DEF CloseArray, EndArray, CreationFails, HookFails, PushContainer, Push, Reject, Fail,
         ValueEnd, BeginLabel
  <2>2. pc \in {"arr_val_begin", "arr_val_end"} /\ Read(Closing(TRUE))
    BY <1>3 DEF CloseArray, Closing
  <2> QED
    BY <1>1, <2>1, <2>2, ClosedSyntax, FailedSyntax DEF Open, Running
<1>4. CASE CloseObject
  <2>1. \/ pc' = "cleanup" /\ (err' # "syntax" \/ oom')
        \/ pc = BeginLabel(FALSE) /\ ~MayCloseEmpty /\ Reject("syntax")
        \/ /\ pc = ValueEnd(FALSE) \/ MayCloseEmpty
           /\ ctn' = CtnAfterClose /\ pc' = AfterClose /\ err' = err
    BY <1>4 DEF CloseObject, EndObject, CreationFails, HookFails, PushContainer, Push, Reject, Fail,
         ValueEnd, BeginLabel
  <2>2. pc \in {"obj_key_begin", "obj_val_end"} /\ Read(Closing(FALSE))
    BY <1>4 DEF CloseObject, Closing
  <2> QED
    BY <1>1, <2>1, <2>2, ClosedSyntax, FailedSyntax DEF Open, Running
<1> QED
  BY <1>3, <1>4

\* A container is not empty after one of its values.
LEMMA FilledTop ==
    ASSUME IInv, ValueInv, NEW arr \in BOOLEAN, pc = ValueEnd(arr)
    PROVE  Top.len # 0
<1>1. pc \in Running /\ KeyPending = 0
  BY DEF ValueEnd, Running, KeyPending
<1>2. PICK p : Divides(ctn, input, objs, p, pc)
  BY <1>1 DEF ValueInv
<1> DEFINE a == ctn[Len(ctn)].start
           toks == SubSeq(input, p[Len(ctn)] + 1, Len(input))
           vals == SubSeq(objs, a + 1, Len(objs))
           d == DecodeMaxRecursion - Len(ctn)
<1>3. Phase(pc, toks, vals, d)
  BY <1>2, Innermost
<1>4. Collected = vals /\ (Top.len = 0 => Collected = <<>>)
  BY <1>1, SlotsOfTop DEF Top
<1> HIDE DEF toks, vals, d
<1>5. vals # <<>>
  BY <1>3 DEF Phase, ValueEnd, Held
<1> QED
  BY <1>4, <1>5

LEMMA SeparatorSyntax == ASSUME IInv, ErrInv, ValueInv, SyntaxInv, Separator PROVE SyntaxInv'
<1>1. pc \in Open /\ err = "none" /\ err' = err /\ ctn' = ctn /\ Config.at = pc /\ Top' = Top
  BY ConfigParts DEF Separator, Goto, Open, Running, ErrInv, Label, Top
<1>2. ASSUME NEW arr \in BOOLEAN, pc = ValueEnd(arr), Read("comma"), pc' = BeginLabel(arr)
      PROVE  SyntaxInv'
  <2>1. Top'.len # 0
    BY <1>1, <1>2, FilledTop
  <2>2. Config' = Conf(BeginLabel(arr), FALSE, Kinds(ctn))
    <3>1. Fresh' = FALSE /\ Label' = pc'
      BY <1>2, <2>1 DEF Fresh, Label, BeginLabel
    <3> QED
      BY <1>1, <1>2, <3>1 DEF Config
  <2>3. Moved(Config, "comma") = Conf(BeginLabel(arr), FALSE, Kinds(ctn))
    BY <1>1, <1>2, MovedComma, ConfigParts
  <2>4. "comma" \in Token
    BY DEF Token, Punct
  <2> QED
    BY <1>1, <1>2, <2>2, <2>3, <2>4, GoesOn
<1>3. ASSUME pc = "obj_key_end", Read("colon"), pc' = "obj_val_begin" PROVE SyntaxInv'
  <2>1. Config' = Conf("obj_val_begin", FALSE, Kinds(ctn))
    BY <1>1, <1>3 DEF Config, Label, Fresh
  <2>2. Moved(Config, "colon") = Conf("obj_val_begin", FALSE, Kinds(ctn))
    BY <1>1, <1>3, MovedColon, ConfigParts
  <2>3. "colon" \in Token
    BY DEF Token, Punct
  <2> QED
    BY <1>1, <1>3, <2>1, <2>2, <2>3, GoesOn
<1>4. \/ pc = ValueEnd(TRUE) /\ Read("comma") /\ pc' = BeginLabel(TRUE)
      \/ pc = ValueEnd(FALSE) /\ Read("comma") /\ pc' = BeginLabel(FALSE)
      \/ pc = "obj_key_end" /\ Read("colon") /\ pc' = "obj_val_begin"
  BY DEF Separator, Goto, ValueEnd, BeginLabel
<1> QED
  BY <1>2, <1>3, <1>4

LEMMA OtherSyntax ==
    ASSUME IInv, ErrInv, SyntaxInv,
           NoDocument \/ Unexpected \/ DocEnd \/ FailedCleanup \/ UNCHANGED vars
    PROVE  SyntaxInv'
<1>1. CASE NoDocument
  <2>1. PICK t \in {Eof, Bad, "arr_close", "obj_close", "comma", "colon"} : Read(t)
    BY <1>1 DEF NoDocument
  <2>2. pc \in Open /\ Config.at = "start" /\ t \in Token
    BY <1>1, AtStartSyntax DEF NoDocument, Token, Punct
  <2>3. Moved(Config, t) = Stuck
    BY <2>1, <2>2, MovedRefused
  <2>4. pc' \notin Open
    BY <1>1 DEF NoDocument, Reject, CreationFails, Fail, Open, Running
  <2> QED
    BY <2>1, <2>2, <2>3, <2>4, Refused
<1>2. CASE Unexpected
  <2>1. PICK t \in Token \ Accepted(pc) : Read(t) /\ Reject("syntax")
    BY <1>2 DEF Unexpected
  <2>2. pc \in Running /\ pc \in Open /\ Config.at = pc /\ t \in Token
    BY <1>2, <2>1, ConfigParts DEF Unexpected, Open, Label, Running
  <2>3. Moved(Config, t) = Stuck
    BY <2>1, <2>2, MovedRefused
  <2>4. pc' \notin Open
    BY <2>1 DEF Reject, Fail, Open, Running
  <2> QED
    BY <2>1, <2>2, <2>3, <2>4, Refused
<1>3. CASE DocEnd
  <2>1. PICK t \in Token : /\ Read(t)
                           /\ (t # Eof /\ Reject("syntax")) \/ (pc' = "done" /\ err' = err)
    BY <1>3 DEF DocEnd
  <2>2. pc \in Open /\ err = "none" /\ Config.at = "doc_end"
    BY <1>3, ConfigParts DEF DocEnd, Open, ErrInv, Label
  <2>3. CASE t # Eof /\ Reject("syntax")
    <3>1. Moved(Config, t) = Stuck
      BY <2>2, <2>3, MovedRefused
    <3>2. pc' \notin Open
      BY <2>3 DEF Reject, Fail, Open, Running
    <3> QED
      BY <2>1, <2>2, <3>1, <3>2, Refused
  <2> QED
    BY <2>1, <2>2, <2>3, FailedSyntax DEF Open, Running
<1>4. CASE FailedCleanup
  <2>1. input' = input /\ err' = err /\ oom' = oom /\ pc' \notin Open
    BY <1>4 DEF FailedCleanup, Open, Running
  <2> QED
    BY <2>1 DEF SyntaxInv
<1>5. CASE UNCHANGED vars
  BY <1>5 DEF vars, SyntaxInv, Config, Label, Fresh, Kinds, Top
<1> QED
  BY <1>1, <1>2, <1>3, <1>4, <1>5

LEMMA InitSyntax == Init => SyntaxInv
<1> SUFFICES ASSUME Init PROVE SyntaxInv
  OBVIOUS
<1>1. pc = "start" /\ input = <<>> /\ ctn = <<>> /\ err = "none" /\ Len(input) = 0
  BY DEF Init
<1>2. Config = Conf("start", FALSE, <<>>)
  <2>1. Kinds(ctn) = <<>>
    BY <1>1 DEF Kinds
  <2>2. Label = "start" /\ Fresh = FALSE
    BY <1>1 DEF Label, Fresh
  <2> QED
    BY <2>1, <2>2 DEF Config
<1>3. OnRun(input, Config)
  BY <1>1, <1>2 DEF OnRun, Run, Follow
<1> QED
  BY <1>1, <1>3 DEF SyntaxInv

\* The labels read every document of the grammar to its end.
LEMMA DocumentsRun ==
    ASSUME NEW n \in 1 .. RefTokens, NEW x \in Values(n, DecodeMaxRecursion)
    PROVE  \E f : Run(f, x.toks \o <<Eof>>)
<1> DEFINE c == Conf("start", FALSE, <<>>)
           e == AfterValue(<<>>)
           g == Moved(e, Eof)
           s == x.toks
           t == <<Eof>>
<1>1. Drives("value", s)
  <2>1. DecodeMaxRecursion \in Depths
    BY RecursionAssumption DEF Depths
  <2> QED
    BY <2>1, SentencesDrive DEF Values
<1>2. Fits("value", c) /\ c.arrs = <<>>
  BY DEF Fits, Conf, AwaitsValue
<1>3. s \in Seq(Token) /\ t \in Seq(Token)
  BY <1>1 DEF Drives, Token
<1>4. e.at = "doc_end"
  BY DEF AfterValue, Conf
<1>5. g.at # "stuck"
  <2> HIDE DEF e
  <2>1. Moved(e, Eof) = Conf("done", FALSE, e.arrs)
    BY <1>4, MovedEnd
  <2>2. Conf("done", FALSE, e.arrs).at = "done"
    BY DEF Conf
  <2> QED
    BY <2>1, <2>2
<1> HIDE DEF c, s
<1>6. Path(c, s, e)
  BY <1>1, <1>2 DEF Drives
<1> HIDE DEF e
<1>7. Path(e, t, g)
  BY <1>5, PathStep
<1> HIDE DEF g, t
<1>8. Path(c, s \o t, g) /\ s \o t \in Seq(Token)
  BY <1>3, <1>6, <1>7, PathConcat, TextConcat
<1>9. \E f : Follow(f, c, s \o t)
  BY <1>8 DEF Path
<1> QED
  BY <1>8, <1>9 DEF Run, c, s, t

LEMMA PrefixBegins ==
    ASSUME NEW t \in Seq(Token), NEW m \in Nat, m <= Len(t)
    PROVE  Begins(SubSeq(t, 1, m), t)
<1> DEFINE s == SubSeq(t, 1, m)
<1>1. Len(t) \in Nat
  BY LenProperties
<1>2. Len(s) = m /\ \A i \in 1 .. m : s[i] = t[i]
  <2>1. Len(s) = IF 1 <= m THEN m - 1 + 1 ELSE 0
    BY <1>1, SubSeqProperties
  <2>2. \A i \in 1 .. m : s[i] = t[i]
    BY <1>1, SubSeqProperties
  <2> QED
    BY <2>1, <2>2
<1> HIDE DEF s
<1> QED
  BY <1>2 DEF Begins, s

LEMMA NoDocumentGoesOn == SyntaxInv => RejectsOnlyErrors
<1> SUFFICES ASSUME SyntaxInv, err = "syntax", ~oom, input \in ViablePrefixes PROVE FALSE
  BY DEF RejectsOnlyErrors
<1>1. OffRun(input)
  BY DEF SyntaxInv
<1> DEFINE T == {d.toks \o <<Eof>> : d \in UNION {Values(n, DecodeMaxRecursion) : n \in 1 .. RefTokens}}
           P(t) == {SubSeq(t, 1, n) : n \in {m \in 0 .. MaxTokens + 1 : m <= Len(t)}}
<1>2. input \in UNION {P(t) : t \in T}
  BY DEF ViablePrefixes
<1> HIDE DEF T, P
<1>3. PICK t \in T : input \in P(t)
  BY <1>2
<1>4. PICK x \in UNION {Values(n, DecodeMaxRecursion) : n \in 1 .. RefTokens} : t = x.toks \o <<Eof>>
  BY DEF T
<1>5. PICK n \in 1 .. RefTokens : x \in Values(n, DecodeMaxRecursion)
  BY <1>4
<1>6. PICK m \in {i \in 0 .. MaxTokens + 1 : i <= Len(t)} : input = SubSeq(t, 1, m)
  BY <1>3 DEF P
<1>7. PICK f : Run(f, t)
  BY <1>4, <1>5, DocumentsRun
<1>8. t \in Seq(Token) /\ m \in Nat /\ m <= Len(t)
  BY <1>6, <1>7, TokensAssumption DEF Run
<1>9. Begins(input, t)
  BY <1>6, <1>8, PrefixBegins
<1> QED
  BY <1>1, <1>7, <1>9 DEF OffRun

\* The reader refuses a document for its syntax only at a token with which no document
\* of the grammar goes on, unless an allocation failed: no document of the grammar is
\* refused, at any label, after any history of the two stacks, and the position in the
\* message is that of the first error.
THEOREM SyntaxErrorsExact == Spec => []RejectsOnlyErrors
<1>1. Init => ErrInv /\ KeysInv /\ ValueInv /\ SyntaxInv
  BY InitValue, InitSyntax DEF Init, KeysInv, Running, ErrInv
<1>2. IInv /\ KeysInv /\ [Next]_vars => KeysInv'
  BY ReadKeys, OpenKeys, CloseKeys, OtherKeys DEF Next, Returned
<1>3. IInv /\ KeysInv /\ ValueInv /\ [Next]_vars => ValueInv'
  BY OpenRootValue, RootValue, ReadItemValue, ReadKeyValue, OpenContainerValue, CloseValue,
     SeparatorValue, DocEndValue, OtherValue DEF Next, Returned
<1>4. IInv /\ ErrInv /\ ValueInv /\ SyntaxInv /\ [Next]_vars => SyntaxInv'
  BY OpenRootSyntax, RootSyntax, ReadItemSyntax, ReadKeySyntax, OpenContainerSyntax, CloseSyntax,
     SeparatorSyntax, OtherSyntax DEF Next, Returned
<1>5. IInv /\ ErrInv /\ [Next]_vars => ErrInv'
  BY NextErr
<1> QED
  BY <1>1, <1>2, <1>3, <1>4, <1>5, NoDocumentGoesOn, InductiveInvariant, PTL DEF Spec

=============================================================================
