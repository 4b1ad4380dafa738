----------------------- MODULE DecoderContextsProofs -----------------------
(***************************************************************************)
(* The context lists and the calls that use them, for any number of        *)
(* threads and nodes, any depth of nesting and any depth limit.            *)
(*                                                                         *)
(* The invariant the proof needs says whose list each node is in, which    *)
(* the C code does not record: `own', a function from nodes to threads     *)
(* under which the level of a node tells it from the others of its thread  *)
(* (ListsKept).  It replaces the sequence of the list: the node of a level *)
(* is unique, the one before it has the level below, and only the current  *)
(* node and the one behind it have none behind them.  CallsKept,           *)
(* DepthKept and HeldKept tie the calls to the lists.                      *)
(***************************************************************************)
EXTENDS DecoderContexts, FiniteSetTheorems, TLAPS

\* A node of the list of the thread own[n]: how its level and its links go
\* with those of the nodes beside it and with the current node.
NodeKept(own, n) ==
    LET here == cur[own[n]]
        prev == nodes[n].prev
        next == nodes[n].next
    IN  /\ own[n] \in Threads /\ here # Nil
        /\ nodes[n].level <= nodes[here].level + 1
        /\ nodes[n].level < HookMaxRecursion
        /\ prev = Nil <=> nodes[n].level = 0
        /\ prev # Nil => /\ prev \in live /\ own[prev] = own[n]
                         /\ nodes[prev].next = n
                         /\ nodes[n].level = nodes[prev].level + 1
        /\ next # Nil => next \in live /\ own[next] = own[n] /\ nodes[next].prev = n
        /\ nodes[n].level < nodes[here].level => next # Nil
        /\ ~gil /\ n = here => next = Nil

\* The lists of all threads; own[n] is of no interest for a free node.
ListsKept(own) ==
    /\ \A t \in Threads : cur[t] # Nil => cur[t] \in live /\ own[cur[t]] = t
    /\ \A m, n \in live : own[m] = own[n] /\ nodes[m].level = nodes[n].level => m = n
    /\ \A n \in live : NodeKept(own, n)

\* A call has _DefaultDecoderCtx exactly if it does not use the list; only a
\* call with hooks is in a hook, and every call but the innermost is.
CallsKept ==
    \A t \in Threads : \A i \in 1 .. Len(calls[t]) :
        /\ calls[t][i].ctx = DefaultCtx <=> ~UsesList(calls[t][i].hooked)
        /\ calls[t][i].at = "hook" => calls[t][i].hooked
        /\ i < Len(calls[t]) => calls[t][i].at = "hook"

\* LevelCountsCalls without its first conjunct, which follows.
DepthKept ==
    \A t \in Threads :
        LET k == Cardinality(ListCalls(t))
        IN  IF cur[t] = Nil THEN k = 0
            ELSE k = nodes[cur[t]].level + 1 \/ (~gil /\ k = nodes[cur[t]].level)

\* In the free-threaded build the calls of a thread hold the nodes up to the
\* current one, in order, and each wrote last to its own.
HeldKept(own) ==
    \A t \in Threads : \A i \in 1 .. Len(calls[t]) :
        LET c == calls[t][i].ctx
        IN  /\ c \in live /\ own[c] = t /\ cur[t] # Nil
            /\ nodes[c].level = nodes[cur[t]].level - Len(calls[t]) + i
            /\ writer[c] = <<t, i>>

IInv(own) ==
    /\ TypeOK
    /\ own \in [Nodes -> Threads \cup {Nil}]
    /\ ListsKept(own)
    /\ CallsKept
    /\ DefaultExclusive
    /\ DepthKept
    /\ ~gil => HeldKept(own)

Inductive == \E own \in [Nodes -> Threads \cup {Nil}] : IInv(own)

-----------------------------------------------------------------------------
(* What the operators on calls do. *)

\* Enter appends a call and writes its context.
LEMMA EnterAppends ==
    ASSUME TypeOK, NEW t \in Threads, NEW c \in Contexts, NEW hooked \in BOOLEAN,
           MayCall(t), Enter(t, c, hooked)
    PROVE  /\ calls' \in [Threads -> Seq(Call)]
           /\ \A u \in Threads \ {t} : calls'[u] = calls[u]
           /\ Len(calls'[t]) = Len(calls[t]) + 1 /\ Len(calls'[t]) <= MaxDepth
           /\ calls'[t][Len(calls[t]) + 1] = [ctx |-> c, hooked |-> hooked, at |-> "decoding"]
           /\ \A i \in 1 .. Len(calls[t]) : calls'[t][i] = calls[t][i]
           /\ writer' \in [Contexts -> CallIds \cup {NoCall}]
           /\ writer'[c] = <<t, Len(calls[t]) + 1>>
           /\ \A d \in Contexts \ {c} : writer'[d] = writer[d]
  <1> DEFINE call == [ctx |-> c, hooked |-> hooked, at |-> "decoding"]
  <1>1. call \in Call
    BY DEF Call
  <1>2. calls[t] \in Seq(Call) /\ Len(calls[t]) + 1 \in 1 .. MaxDepth
    BY ThreadsAssumption DEF TypeOK, MayCall
  <1>3. calls' = [calls EXCEPT ![t] = Append(calls[t], call)]
    BY DEF Enter
  <1> HIDE DEF call
  <1>4. calls' \in [Threads -> Seq(Call)] /\ calls'[t] = Append(calls[t], call)
    BY <1>1, <1>2, <1>3 DEF TypeOK
  <1>5. /\ Len(calls'[t]) = Len(calls[t]) + 1
        /\ calls'[t][Len(calls[t]) + 1] = call
        /\ \A i \in 1 .. Len(calls[t]) : calls'[t][i] = calls[t][i]
    BY <1>1, <1>2, <1>4
  <1>6. \A u \in Threads \ {t} : calls'[u] = calls[u]
    BY <1>3 DEF TypeOK
  <1>7. /\ writer' \in [Contexts -> CallIds \cup {NoCall}]
        /\ writer'[c] = <<t, Len(calls[t]) + 1>>
        /\ \A d \in Contexts \ {c} : writer'[d] = writer[d]
    BY <1>2 DEF TypeOK, Enter, CallIds
  <1> QED
    BY <1>2, <1>4, <1>5, <1>6, <1>7 DEF MayCall, call

\* Returned drops the innermost call and forgets what it wrote.
LEMMA ReturnedDrops ==
    ASSUME TypeOK, NEW t \in Threads, calls[t] # <<>>, Returned(t)
    PROVE  /\ calls' \in [Threads -> Seq(Call)]
           /\ \A u \in Threads \ {t} : calls'[u] = calls[u]
           /\ Len(calls[t]) \in Nat \ {0} /\ Len(calls'[t]) = Len(calls[t]) - 1
           /\ Innermost(t) \in Call
           /\ \A i \in 1 .. Len(calls[t]) - 1 : calls'[t][i] = calls[t][i]
           /\ writer' \in [Contexts -> CallIds \cup {NoCall}]
           /\ \A d \in Contexts \ {Innermost(t).ctx} : writer'[d] = writer[d]
  <1>1. calls[t] \in Seq(Call) /\ Len(calls[t]) \in Nat \ {0}
    BY DEF TypeOK
  <1>2. Innermost(t) \in Call
    BY <1>1 DEF Innermost
  <1>3. calls' = [calls EXCEPT ![t] = SubSeq(calls[t], 1, Len(calls[t]) - 1)]
    BY DEF Returned
  <1>4. /\ SubSeq(calls[t], 1, Len(calls[t]) - 1) \in Seq(Call)
        /\ Len(SubSeq(calls[t], 1, Len(calls[t]) - 1)) = Len(calls[t]) - 1
        /\ \A i \in 1 .. Len(calls[t]) - 1 :
                SubSeq(calls[t], 1, Len(calls[t]) - 1)[i] = calls[t][i]
    BY <1>1
  <1>5. /\ calls' \in [Threads -> Seq(Call)]
        /\ calls'[t] = SubSeq(calls[t], 1, Len(calls[t]) - 1)
        /\ \A u \in Threads \ {t} : calls'[u] = calls[u]
    BY <1>3, <1>4 DEF TypeOK
  <1>6. /\ writer' \in [Contexts -> CallIds \cup {NoCall}]
        /\ \A d \in Contexts \ {Innermost(t).ctx} : writer'[d] = writer[d]
    BY <1>2 DEF TypeOK, Returned, Call
  <1> QED
    BY <1>1, <1>2, <1>4, <1>5, <1>6

\* One more call in the list, one less, or the same ones.
LEMMA ListCallsCount ==
    ASSUME TypeOK, NEW t \in Threads
    PROVE  IsFiniteSet(ListCalls(t)) /\ Cardinality(ListCalls(t)) \in Nat
  <1>1. Len(calls[t]) \in Nat
    BY DEF TypeOK
  <1>2. IsFiniteSet(1 .. Len(calls[t]))
    BY <1>1, FS_Interval
  <1>3. IsFiniteSet(ListCalls(t))
    BY <1>2, FS_Subset DEF ListCalls
  <1> QED
    BY <1>3, FS_CardinalityType

LEMMA EnterCounts ==
    ASSUME TypeOK, UNCHANGED gil, NEW t \in Threads, NEW c \in Contexts,
           NEW hooked \in BOOLEAN, MayCall(t), Enter(t, c, hooked)
    PROVE  /\ \A u \in Threads \ {t} : ListCalls(u)' = ListCalls(u)
           /\ Cardinality(ListCalls(t)') = Cardinality(ListCalls(t))
                                           + (IF UsesList(hooked) THEN 1 ELSE 0)
  <1>0. /\ \A u \in Threads \ {t} : calls'[u] = calls[u]
        /\ Len(calls'[t]) = Len(calls[t]) + 1
        /\ calls'[t][Len(calls[t]) + 1] = [ctx |-> c, hooked |-> hooked, at |-> "decoding"]
        /\ \A i \in 1 .. Len(calls[t]) : calls'[t][i] = calls[t][i]
    BY EnterAppends
  <1>01. Len(calls[t]) \in Nat
    BY DEF TypeOK
  <1>1. \A u \in Threads \ {t} : ListCalls(u)' = ListCalls(u)
    BY <1>0, <1>01 DEF ListCalls, UsesList
  <1>2. ListCalls(t)' = ListCalls(t) \cup (IF UsesList(hooked) THEN {Len(calls[t]) + 1} ELSE {})
    BY <1>0, <1>01 DEF ListCalls, UsesList
  <1>3. Len(calls[t]) + 1 \notin ListCalls(t)
    BY <1>0, <1>01 DEF ListCalls
  <1>4. IsFiniteSet(ListCalls(t)) /\ Cardinality(ListCalls(t)) \in Nat
    BY ListCallsCount
  <1>5. Cardinality(ListCalls(t) \cup {Len(calls[t]) + 1}) = Cardinality(ListCalls(t)) + 1
    BY <1>3, <1>4, FS_AddElement
  <1>6. CASE UsesList(hooked)
    BY <1>1, <1>2, <1>5, <1>6
  <1>7. CASE ~UsesList(hooked)
    <2>1. Cardinality(ListCalls(t)') = Cardinality(ListCalls(t))
      BY <1>2, <1>7
    <2>2. Cardinality(ListCalls(t)) = Cardinality(ListCalls(t)) + 0
      BY <1>4
    <2> QED
      BY <1>1, <1>7, <2>1, <2>2
  <1> QED
    BY <1>6, <1>7

LEMMA ReturnedCounts ==
    ASSUME TypeOK, UNCHANGED gil, NEW t \in Threads, calls[t] # <<>>, Returned(t)
    PROVE  /\ \A u \in Threads \ {t} : ListCalls(u)' = ListCalls(u)
           /\ Cardinality(ListCalls(t)') = Cardinality(ListCalls(t))
                                           - (IF UsesList(Innermost(t).hooked) THEN 1 ELSE 0)
  <1>0. /\ \A u \in Threads \ {t} : calls'[u] = calls[u]
        /\ Len(calls'[t]) = Len(calls[t]) - 1 /\ Len(calls[t]) \in Nat \ {0}
        /\ \A i \in 1 .. Len(calls[t]) - 1 : calls'[t][i] = calls[t][i]
    BY ReturnedDrops
  <1>1. \A u \in Threads \ {t} : ListCalls(u)' = ListCalls(u)
    BY <1>0 DEF ListCalls, UsesList
  <1>2. ListCalls(t)' = ListCalls(t) \ {Len(calls[t])}
    <2>1. 1 .. Len(calls'[t]) = (1 .. Len(calls[t])) \ {Len(calls[t])}
      BY <1>0
    <2>2. \A i \in 1 .. Len(calls'[t]) : calls'[t][i] = calls[t][i]
      BY <1>0
    <2>3. \A h : UsesList(h)' = UsesList(h)
      BY DEF UsesList
    <2>4. ListCalls(t)' = {i \in 1 .. Len(calls'[t]) : UsesList(calls[t][i].hooked)}
      BY <2>2, <2>3 DEF ListCalls
    <2> QED
      BY <2>1, <2>4 DEF ListCalls
  <1>3. Len(calls[t]) \in ListCalls(t) <=> UsesList(Innermost(t).hooked)
    BY <1>0 DEF ListCalls, Innermost
  <1>4. IsFiniteSet(ListCalls(t)) /\ Cardinality(ListCalls(t)) \in Nat
    BY ListCallsCount
  <1>5. CASE UsesList(Innermost(t).hooked)
    <2>1. Cardinality(ListCalls(t) \ {Len(calls[t])}) = Cardinality(ListCalls(t)) - 1
      BY <1>3, <1>4, <1>5, FS_RemoveElement
    <2> QED
      BY <1>1, <1>2, <1>5, <2>1
  <1>6. CASE ~UsesList(Innermost(t).hooked)
    <2>1. ListCalls(t) \ {Len(calls[t])} = ListCalls(t)
      BY <1>3, <1>6
    <2>2. Cardinality(ListCalls(t)') = Cardinality(ListCalls(t))
      BY <1>2, <2>1
    <2>3. Cardinality(ListCalls(t)) = Cardinality(ListCalls(t)) - 0
      BY <1>4
    <2> QED
      BY <1>1, <1>6, <2>2, <2>3
  <1> QED
    BY <1>5, <1>6

-----------------------------------------------------------------------------
LEMMA InitInductive == Init => Inductive
  <1> SUFFICES ASSUME Init PROVE Inductive
    OBVIOUS
  <1>1. /\ gil \in Builds /\ live = {} /\ \A t \in Threads : cur[t] = Nil /\ calls[t] = <<>>
        /\ \A t \in Threads : Len(calls[t]) = 0
    BY DEF Init, live
  <1>2. TypeOK
    BY <1>1, ThreadsAssumption DEF Init, TypeOK
  <1>3. \A t \in Threads : Cardinality(ListCalls(t)) = 0
    <2>1. \A t \in Threads : ListCalls(t) = {}
      BY <1>1 DEF ListCalls
    <2> QED
      BY <2>1, FS_EmptySet
  <1>4. CallsKept /\ DefaultExclusive
    BY <1>1 DEF CallsKept, DefaultExclusive
  <1>5. DepthKept
    BY <1>1, <1>3 DEF DepthKept
  <1>6. ASSUME NEW own \in [Nodes -> Threads \cup {Nil}] PROVE IInv(own)
    BY <1>1, <1>2, <1>4, <1>5 DEF IInv, ListsKept, HeldKept
  <1>7. [n \in Nodes |-> Nil] \in [Nodes -> Threads \cup {Nil}]
    OBVIOUS
  <1> QED
    BY <1>6, <1>7 DEF Inductive

-----------------------------------------------------------------------------
(* What the steps do to the lists. *)

\* The current node moves to the node behind it.
LEMMA NextKeepsLists ==
    ASSUME TypeOK, UNCHANGED <<gil, nodes>>, NEW own, ListsKept(own), NEW t \in Threads,
           gil, cur[t] # Nil, nodes[cur[t]].next # Nil,
           cur' = [cur EXCEPT ![t] = nodes[cur[t]].next]
    PROVE  /\ ListsKept(own)'
           /\ cur'[t] \in live /\ nodes[cur'[t]].level = nodes[cur[t]].level + 1
  <1>1. /\ cur'[t] = nodes[cur[t]].next /\ \A u \in Threads \ {t} : cur'[u] = cur[u]
        /\ live' = live
    BY DEF TypeOK, live
  <1>0. cur[t] \in live /\ own[cur[t]] = t /\ NodeKept(own, cur[t])
    BY DEF ListsKept
  <1>2. /\ cur[t] \in live /\ own[cur[t]] = t /\ NodeKept(own, cur[t])
        /\ cur'[t] \in live /\ own[cur'[t]] = t /\ cur'[t] # Nil
        /\ nodes[cur'[t]].prev = cur[t]
    BY <1>0, <1>1 DEF NodeKept
  <1>3. nodes[cur'[t]].level = nodes[cur[t]].level + 1
    BY <1>2 DEF ListsKept, NodeKept
  <1>4. \A n \in live : nodes[n].level \in Nat
    BY DEF TypeOK, Node
  <1>5. ASSUME NEW n \in live PROVE NodeKept(own, n)'
    <2>1. NodeKept(own, n)
      BY DEF ListsKept
    <2>2. CASE own[n] # t
      BY <1>1, <2>1, <2>2 DEF NodeKept
    <2>3. CASE own[n] = t
      <3>1. nodes[n].level = nodes[cur[t]].level => n = cur[t]
        BY <1>2, <2>3 DEF ListsKept
      <3>2. nodes[n].level <= nodes[cur[t]].level => nodes[n].next # Nil
        BY <1>2, <1>4, <2>1, <2>3, <3>1 DEF NodeKept
      <3> QED
        BY <1>1, <1>2, <1>3, <1>4, <2>1, <2>3, <3>2 DEF NodeKept
    <2> QED
      BY <2>2, <2>3
  <1>6. ListsKept(own)'
    BY <1>1, <1>2, <1>5 DEF ListsKept
  <1> QED
    BY <1>2, <1>3, <1>6

\* A node of t's list is at most as deep as the current one, if that has no next.
LEMMA EndOfList ==
    ASSUME TypeOK, NEW own, ListsKept(own), NEW t \in Threads, NEW m \in live, own[m] = t
    PROVE  /\ cur[t] # Nil /\ cur[t] \in live /\ own[cur[t]] = t
           /\ \/ nodes[m].level < nodes[cur[t]].level
              \/ m = cur[t]
              \/ nodes[m].level = nodes[cur[t]].level + 1 /\ m = nodes[cur[t]].next
  <1>1. NodeKept(own, m) /\ cur[t] # Nil /\ cur[t] \in live /\ own[cur[t]] = t
    BY DEF ListsKept, NodeKept
  <1>2. nodes[m].level \in Nat /\ nodes[cur[t]].level \in Nat
    BY <1>1 DEF TypeOK, Node
  <1>3. nodes[m].level = nodes[cur[t]].level => m = cur[t]
    BY <1>1 DEF ListsKept
  <1>4. ASSUME nodes[m].level = nodes[cur[t]].level + 1 PROVE m = nodes[cur[t]].next
    <2>1. /\ nodes[m].prev \in live /\ own[nodes[m].prev] = t
          /\ nodes[nodes[m].prev].next = m
          /\ nodes[m].level = nodes[nodes[m].prev].level + 1
      BY <1>1, <1>2, <1>4 DEF NodeKept
    <2>2. nodes[nodes[m].prev].level \in Nat
      BY <2>1 DEF TypeOK, Node
    <2>3. nodes[nodes[m].prev].level = nodes[cur[t]].level
      BY <1>2, <1>4, <2>1, <2>2
    <2>4. nodes[m].prev = cur[t]
      BY <1>1, <2>1, <2>3 DEF ListsKept
    <2> QED
      BY <2>1, <2>4
  <1>5. nodes[m].level <= nodes[cur[t]].level + 1
    BY <1>1 DEF NodeKept
  <1> QED
    BY <1>1, <1>2, <1>3, <1>4, <1>5

\* A node is added to t's list as its first, or behind the current one.
LEMMA NewNodeKeepsLists ==
    ASSUME TypeOK, UNCHANGED gil, NEW own \in [Nodes -> Threads \cup {Nil}], ListsKept(own),
           NEW t \in Threads, NEW n \in Nodes \ live, NEW level \in Nat,
           level < HookMaxRecursion,
           \/ cur[t] = Nil /\ level = 0
           \/ cur[t] # Nil /\ nodes[cur[t]].next = Nil /\ level = nodes[cur[t]].level + 1,
           live' = live \cup {n},
           nodes'[n] = [level |-> level, prev |-> cur[t], next |-> Nil],
           \A m \in live : /\ nodes'[m].level = nodes[m].level
                           /\ nodes'[m].prev = nodes[m].prev
                           /\ nodes'[m].next = IF m = cur[t] THEN n ELSE nodes[m].next,
           cur' = [cur EXCEPT ![t] = n]
    PROVE  ListsKept([own EXCEPT ![n] = t])'
  <1> DEFINE o == [own EXCEPT ![n] = t]
  <1>1. cur'[t] = n /\ \A u \in Threads \ {t} : cur'[u] = cur[u]
    BY DEF TypeOK
  <1>2. /\ live \subseteq Nodes /\ n \notin live /\ n # Nil /\ Nil \notin live
        /\ nodes'[n].level = level /\ nodes'[n].prev = cur[t] /\ nodes'[n].next = Nil
    BY NodesAssumption DEF TypeOK
  <1>3. \A m \in live : nodes[m].level \in Nat
    BY DEF TypeOK, Node
  <1>4. o[n] = t /\ \A m \in live : o[m] = own[m]
    BY <1>2
  <1>5. \A m \in live : own[m] = t => /\ cur[t] # Nil /\ cur[t] \in live /\ own[cur[t]] = t
                                      /\ nodes[m].level < level
                                      /\ m = cur[t] \/ nodes[m].level < nodes[cur[t]].level
    BY <1>2, <1>3, EndOfList
  <1> HIDE DEF o
  <1>6. ASSUME NEW u \in Threads, cur'[u] # Nil PROVE cur'[u] \in live' /\ o[cur'[u]] = u
    BY <1>1, <1>2, <1>4, <1>6 DEF ListsKept
  <1>7. ASSUME NEW m \in live', NEW k \in live',
               o[m] = o[k], nodes'[m].level = nodes'[k].level
        PROVE  m = k
    BY <1>2, <1>3, <1>4, <1>5, <1>7 DEF ListsKept
  <1>8. cur[t] # Nil => cur[t] \in live /\ own[cur[t]] = t
    BY DEF ListsKept
  <1>9. ASSUME NEW m \in live, own[m] # t PROVE NodeKept(o, m)'
    <2>1. NodeKept(own, m)
      BY DEF ListsKept
    <2>2. /\ own[m] \in Threads \ {t} /\ cur'[own[m]] = cur[own[m]] /\ cur[own[m]] # Nil
          /\ cur[own[m]] \in live /\ own[cur[own[m]]] = own[m]
      BY <1>1, <1>9, <2>1 DEF NodeKept, ListsKept
    <2>3. m # cur[t] /\ (nodes[m].prev # Nil => nodes[m].prev # cur[t])
      BY <1>2, <1>8, <1>9, <2>1 DEF NodeKept
    <2> QED
      BY <1>2, <1>3, <1>4, <2>1, <2>2, <2>3 DEF NodeKept
  <1>10. ASSUME NEW m \in live, own[m] = t PROVE NodeKept(o, m)'
    <2>1. NodeKept(own, m) /\ cur[t] # Nil /\ cur[t] \in live /\ own[cur[t]] = t
      BY <1>5, <1>10 DEF ListsKept
    <2>2. nodes[m].level < level /\ level = nodes[cur[t]].level + 1 /\ nodes[cur[t]].next = Nil
      BY <1>5, <1>10, <2>1
    <2>3. m = cur[t] \/ (m # cur[t] /\ nodes[m].level < nodes[cur[t]].level /\ nodes[m].next # Nil)
      BY <1>5, <1>10, <2>1 DEF NodeKept
    <2>4. nodes[m].prev # Nil => nodes[m].prev # cur[t]
      BY <1>2, <2>1, <2>2 DEF NodeKept
    <2> QED
      BY <1>1, <1>2, <1>3, <1>4, <1>10, <2>1, <2>2, <2>3, <2>4 DEF NodeKept
  <1>11. NodeKept(o, n)'
    BY <1>1, <1>2, <1>3, <1>4, <1>8 DEF NodeKept
  <1>12. ListsKept(o)'
    BY <1>6, <1>7, <1>9, <1>10, <1>11 DEF ListsKept
  <1> QED
    BY <1>12 DEF o

\* t's list is cut behind the node `last', and the current node is then that one
\* or, under the GIL, the one before it.
LEMMA CutKeepsLists ==
    ASSUME TypeOK, UNCHANGED gil, NEW own, ListsKept(own), NEW t \in Threads,
           NEW last \in live, own[last] = t, NEW here \in live, own[here] = t,
           here = last \/ (gil /\ nodes[last].level = nodes[here].level + 1),
           live' = {m \in live : own[m] = t => nodes[m].level <= nodes[last].level},
           \A m \in live' : /\ nodes'[m].level = nodes[m].level
                            /\ nodes'[m].prev = nodes[m].prev
                            /\ nodes'[m].next = IF m = last THEN Nil ELSE nodes[m].next,
           cur'[t] = here, \A u \in Threads \ {t} : cur'[u] = cur[u]
    PROVE  ListsKept(own)'
  <1>1. cur'[t] = here /\ \A u \in Threads \ {t} : cur'[u] = cur[u]
    OBVIOUS
  <1>2. \A m \in live : nodes[m].level \in Nat /\ m # Nil
    BY NodesAssumption DEF TypeOK, Node
  <1>3. live' \subseteq live /\ last \in live' /\ here \in live'
    BY <1>2
  <1>4. ASSUME NEW m \in live', own[m] # t PROVE NodeKept(own, m)'
    <2>1. NodeKept(own, m)
      BY <1>3 DEF ListsKept
    <2>2. /\ own[m] \in Threads \ {t} /\ cur'[own[m]] = cur[own[m]] /\ cur[own[m]] # Nil
          /\ cur[own[m]] \in live' /\ own[cur[own[m]]] = own[m]
      BY <1>1, <1>4, <2>1 DEF NodeKept, ListsKept
    <2>3. m # last /\ (nodes[m].prev # Nil => nodes[m].prev # last /\ nodes[m].prev \in live')
      BY <1>4, <2>1 DEF NodeKept
    <2>4. nodes[m].next # Nil => nodes[m].next \in live'
      BY <1>4, <2>1 DEF NodeKept
    <2> QED
      BY <1>3, <2>1, <2>2, <2>3, <2>4 DEF NodeKept
  <1>5. ASSUME NEW m \in live', own[m] = t PROVE NodeKept(own, m)'
    <2>1. NodeKept(own, m) /\ m \in live /\ nodes[m].level <= nodes[last].level
      BY <1>3, <1>5 DEF ListsKept
    <2>2. nodes[m].level = nodes[last].level => m = last
      BY <1>3, <1>5 DEF ListsKept
    <2>3. /\ nodes[last].level <= nodes[here].level + 1
          /\ m = here => m = last \/ gil
      BY <1>2
    <2>4. nodes[m].prev # Nil => /\ nodes[m].prev \in live' /\ nodes[m].prev # last
                                 /\ nodes'[nodes[m].prev].next = m
      <3> SUFFICES ASSUME nodes[m].prev # Nil
                   PROVE  /\ nodes[m].prev \in live' /\ nodes[m].prev # last
                          /\ nodes'[nodes[m].prev].next = m
        OBVIOUS
      <3>1. /\ nodes[m].prev \in live /\ own[nodes[m].prev] = t
            /\ nodes[nodes[m].prev].next = m
            /\ nodes[m].level = nodes[nodes[m].prev].level + 1
        BY <1>5, <2>1 DEF NodeKept
      <3>2. nodes[nodes[m].prev].level < nodes[last].level
        BY <1>2, <2>1, <3>1
      <3>3. nodes[m].prev # last /\ nodes[m].prev \in live'
        BY <1>2, <3>1, <3>2
      <3> QED
        BY <3>1, <3>3
    <2>5. m # last => nodes[m].level < nodes[last].level
      BY <1>2, <2>1, <2>2
    <2>6. m # last /\ nodes[m].next # Nil => /\ nodes[m].next \in live' /\ own[nodes[m].next] = t
                                             /\ nodes'[nodes[m].next].prev = m
      <3> SUFFICES ASSUME m # last, nodes[m].next # Nil
                   PROVE  /\ nodes[m].next \in live' /\ own[nodes[m].next] = t
                          /\ nodes'[nodes[m].next].prev = m
        OBVIOUS
      <3>1. /\ nodes[m].next \in live /\ own[nodes[m].next] = t
            /\ nodes[nodes[m].next].prev = m
        BY <1>5, <2>1 DEF NodeKept
      <3>2. nodes[nodes[m].next].level = nodes[m].level + 1
        BY <1>2, <2>1, <3>1 DEF ListsKept, NodeKept
      <3>3. nodes[m].next \in live'
        BY <1>2, <2>1, <2>5, <3>1, <3>2
      <3> QED
        BY <3>1, <3>3
    <2>7. nodes[m].level < nodes[last].level => nodes[m].next # Nil
      <3> SUFFICES ASSUME nodes[m].level < nodes[last].level PROVE nodes[m].next # Nil
        OBVIOUS
      <3>1. /\ cur[t] # Nil /\ cur[t] \in live /\ nodes[last].level <= nodes[cur[t]].level + 1
            /\ own[cur[t]] = t
        BY DEF ListsKept, NodeKept
      <3>2. CASE nodes[m].level < nodes[cur[t]].level
        BY <1>5, <2>1, <3>2 DEF NodeKept
      <3>3. CASE nodes[m].level = nodes[cur[t]].level
        <4>1. nodes[last].level = nodes[cur[t]].level + 1
          BY <1>2, <2>1, <3>1, <3>3
        <4>2. last = nodes[cur[t]].next
          BY <1>2, <3>1, <4>1, EndOfList
        <4>3. m = cur[t]
          BY <1>5, <2>1, <3>1, <3>3 DEF ListsKept
        <4> QED
          BY <1>2, <4>2, <4>3
      <3> QED
        BY <1>2, <2>1, <3>1, <3>2, <3>3
    <2>8. m # last /\ nodes[m].level < nodes[here].level => nodes[m].next # Nil
      BY <2>5, <2>7
    <2>9. nodes[last].level >= nodes[here].level
      BY <1>2
    <2> QED
      BY <1>1, <1>2, <1>3, <1>5, <2>1, <2>3, <2>4, <2>6, <2>8, <2>9 DEF NodeKept
  <1>6. ASSUME NEW u \in Threads, cur'[u] # Nil PROVE cur'[u] \in live' /\ own[cur'[u]] = u
    BY <1>1, <1>3, <1>6 DEF ListsKept
  <1>7. ASSUME NEW m \in live', NEW k \in live', own[m] = own[k],
               nodes'[m].level = nodes'[k].level
        PROVE  m = k
    BY <1>3, <1>7 DEF ListsKept
  <1> QED
    BY <1>4, <1>5, <1>6, <1>7 DEF ListsKept

\* t's list is freed.
LEMMA EmptyKeepsLists ==
    ASSUME TypeOK, UNCHANGED gil, NEW own, ListsKept(own), NEW t \in Threads,
           live' = {m \in live : own[m] # t},
           \A m \in live' : nodes'[m] = nodes[m],
           cur' = [cur EXCEPT ![t] = Nil]
    PROVE  ListsKept(own)'
  <1>1. cur'[t] = Nil /\ \A u \in Threads \ {t} : cur'[u] = cur[u]
    BY NodesAssumption DEF TypeOK
  <1>2. ASSUME NEW m \in live' PROVE NodeKept(own, m)'
    <2>1. NodeKept(own, m)
      BY DEF ListsKept
    <2>2. /\ own[m] \in Threads \ {t} /\ cur'[own[m]] = cur[own[m]] /\ cur[own[m]] # Nil
          /\ cur[own[m]] \in live' /\ own[cur[own[m]]] = own[m]
      BY <1>1, <2>1 DEF NodeKept, ListsKept
    <2>3. /\ nodes[m].prev # Nil => nodes[m].prev \in live'
          /\ nodes[m].next # Nil => nodes[m].next \in live'
      BY <2>1 DEF NodeKept
    <2> QED
      BY <2>1, <2>2, <2>3 DEF NodeKept
  <1>3. ASSUME NEW u \in Threads, cur'[u] # Nil PROVE cur'[u] \in live' /\ own[cur'[u]] = u
    BY <1>1, <1>3 DEF ListsKept
  <1>4. ASSUME NEW m \in live', NEW k \in live', own[m] = own[k],
               nodes'[m].level = nodes'[k].level
        PROVE  m = k
    BY <1>4 DEF ListsKept
  <1> QED
    BY <1>2, <1>3, <1>4 DEF ListsKept

\* What Freed(gone, last) is.
FreedTo(gone, last) ==
    /\ live' = live \ gone /\ nodes' \in [live' -> Node] /\ live' \subseteq Nodes
    /\ \A m \in live' : /\ nodes'[m].level = nodes[m].level
                        /\ nodes'[m].prev = nodes[m].prev
                        /\ nodes'[m].next = IF m \in last THEN Nil ELSE nodes[m].next
                        /\ m \notin last => nodes'[m] = nodes[m]

LEMMA FreedFields ==
    ASSUME TypeOK, NEW gone, NEW last, nodes' = Freed(gone, last)
    PROVE  FreedTo(gone, last)
  <1>1. live' = live \ gone /\ live' \subseteq Nodes
    BY DEF live, Freed, TypeOK
  <1>2. \A m \in live' : nodes'[m] = IF m \in last THEN [nodes[m] EXCEPT !.next = Nil] ELSE nodes[m]
    BY <1>1 DEF Freed
  <1>3. \A m \in live' : nodes[m] \in Node
    BY <1>1 DEF TypeOK
  <1>4. \A m \in live' : nodes'[m] \in Node
    BY <1>2, <1>3 DEF Node
  <1>5. nodes' \in [live' -> Node]
    BY <1>1, <1>4 DEF Freed
  <1> QED
    BY <1>1, <1>2, <1>3, <1>5 DEF Node, FreedTo

\* The nodes of t's list that are deeper than the current one: its successor.
LEMMA SuccessorIsDeeper ==
    ASSUME TypeOK, NEW own, ListsKept(own), NEW t \in Threads, cur[t] # Nil
    PROVE  /\ cur[t] \in live /\ own[cur[t]] = t /\ NodeKept(own, cur[t])
           /\ Successor(cur[t]) = {m \in live : own[m] = t /\ nodes[m].level > nodes[cur[t]].level}
           /\ {cur[t]} = {m \in live : own[m] = t /\ nodes[m].level = nodes[cur[t]].level}
  <1>1. cur[t] \in live /\ own[cur[t]] = t /\ NodeKept(own, cur[t])
    BY DEF ListsKept
  <1>2. \A m \in live : nodes[m].level \in Nat
    BY DEF TypeOK, Node
  <1>3. ASSUME nodes[cur[t]].next # Nil
        PROVE  /\ nodes[cur[t]].next \in live /\ own[nodes[cur[t]].next] = t
               /\ nodes[nodes[cur[t]].next].level = nodes[cur[t]].level + 1
    BY <1>1, <1>3 DEF NodeKept, ListsKept
  <1>4. \A m \in live : own[m] = t /\ nodes[m].level > nodes[cur[t]].level
                        => m = nodes[cur[t]].next /\ m # Nil
    BY <1>1, <1>2, EndOfList, NodesAssumption DEF TypeOK
  <1>5. ASSUME NEW m PROVE m \in Successor(cur[t]) <=>
                           m \in live /\ own[m] = t /\ nodes[m].level > nodes[cur[t]].level
    BY <1>1, <1>2, <1>3, <1>4 DEF Successor
  <1>6. \A m \in live : own[m] = t /\ nodes[m].level = nodes[cur[t]].level => m = cur[t]
    BY <1>1 DEF ListsKept
  <1> QED
    BY <1>1, <1>5, <1>6

\* The return of a call takes one level off t's list, or leaves the head that
\* the free-threaded build keeps.
LEMMA ReturnKeepsLists ==
    ASSUME TypeOK, UNCHANGED gil, NEW own, ListsKept(own), NEW t \in Threads, cur[t] # Nil,
           ReturnGIL(t) \/ ReturnFT(t)
    PROVE  /\ ListsKept(own)'
           /\ nodes' \in [live' -> Node] /\ live' \subseteq Nodes
           /\ cur' = [cur EXCEPT ![t] = cur'[t]] /\ cur'[t] \in Nodes \cup {Nil}
           /\ \A m \in live : own[m] # t => m \in live'
           /\ \A m \in live' : m \in live /\ nodes'[m].level = nodes[m].level
           /\ IF nodes[cur[t]].level = 0
              THEN IF gil THEN cur'[t] = Nil ELSE cur'[t] = cur[t] /\ cur[t] \in live'
              ELSE /\ cur'[t] = nodes[cur[t]].prev /\ cur'[t] # Nil /\ cur'[t] \in live'
                   /\ nodes[cur'[t]].level = nodes[cur[t]].level - 1
           /\ ~gil => \A m \in live : m # cur[t] => m \in live'
  <1> DEFINE used == cur[t]
             back == nodes[used].prev
  <1>1. /\ used \in live /\ own[used] = t /\ NodeKept(own, used)
        /\ Successor(used) = {m \in live : own[m] = t /\ nodes[m].level > nodes[used].level}
        /\ {used} = {m \in live : own[m] = t /\ nodes[m].level = nodes[used].level}
    BY SuccessorIsDeeper
  <1>2. \A m \in live : nodes[m].level \in Nat /\ m # Nil
    BY NodesAssumption DEF TypeOK, Node
  <1>3. /\ back = Nil <=> nodes[used].level = 0
        /\ back # Nil => /\ back \in live /\ own[back] = t /\ back # used
                         /\ nodes[used].level = nodes[back].level + 1
    BY <1>1, <1>2 DEF NodeKept
  <1>4. back \in Nodes \cup {Nil}
    BY <1>1 DEF TypeOK, Node
  <1>5. CASE gil /\ back = Nil
    <2>1. nodes' = Freed(Successor(used) \cup {used}, {used}) /\ cur' = [cur EXCEPT ![t] = Nil]
      BY <1>5 DEF ReturnGIL, ReturnFT
    <2>2. FreedTo(Successor(used) \cup {used}, {used})
      BY <2>1, FreedFields
    <2>3. live' = {m \in live : own[m] # t}
      BY <1>1, <1>2, <1>3, <1>5, <2>2 DEF FreedTo
    <2>4. \A m \in live' : nodes'[m] = nodes[m]
      BY <1>1, <2>1, <2>3, <2>2 DEF FreedTo
    <2>5. ListsKept(own)'
      BY <2>1, <2>3, <2>4, EmptyKeepsLists
    <2> QED
      BY <1>3, <1>5, <2>1, <2>3, <2>4, <2>5, <2>2 DEF TypeOK, FreedTo
  <1>6. CASE gil /\ back # Nil
    <2>1. nodes' = Freed(Successor(used), {used}) /\ cur' = [cur EXCEPT ![t] = back]
      BY <1>6 DEF ReturnGIL, ReturnFT
    <2>2. FreedTo(Successor(used), {used})
      BY <2>1, FreedFields
    <2>3. live' = {m \in live : own[m] = t => nodes[m].level <= nodes[used].level}
      BY <1>1, <1>2, <2>2 DEF FreedTo
    <2>4. \A m \in live' : /\ nodes'[m].level = nodes[m].level
                           /\ nodes'[m].prev = nodes[m].prev
                           /\ nodes'[m].next = IF m = used THEN Nil ELSE nodes[m].next
      BY <2>2 DEF FreedTo
    <2>5. ListsKept(own)'
      <3>1. cur'[t] = back /\ \A u \in Threads \ {t} : cur'[u] = cur[u]
        BY <1>4, <2>1 DEF TypeOK
      <3> QED
        BY <1>1, <1>3, <1>6, <2>3, <2>4, <3>1, CutKeepsLists
    <2>6. cur'[t] = back /\ cur' = [cur EXCEPT ![t] = cur'[t]]
      BY <2>1 DEF TypeOK
    <2>7. back \in live' /\ nodes[back].level = nodes[used].level - 1 /\ nodes[used].level # 0
      BY <1>2, <1>3, <1>6, <2>3
    <2>8. \A m \in live : own[m] # t => m \in live'
      BY <2>3
    <2>9. \A m \in live' : m \in live
      BY <2>3
    <2> QED
      BY <1>4, <1>6, <2>2, <2>5, <2>6, <2>7, <2>8, <2>9 DEF FreedTo
  <1>7. CASE ~gil /\ back = Nil
    <2>1. nodes' = Freed(Successor(used), {used}) /\ cur' = [cur EXCEPT ![t] = used]
      BY <1>7 DEF ReturnGIL, ReturnFT, TypeOK
    <2>2. FreedTo(Successor(used), {used})
      BY <2>1, FreedFields
    <2>3. live' = {m \in live : own[m] = t => nodes[m].level <= nodes[used].level}
      BY <1>1, <1>2, <2>2 DEF FreedTo
    <2>4. \A m \in live' : /\ nodes'[m].level = nodes[m].level
                           /\ nodes'[m].prev = nodes[m].prev
                           /\ nodes'[m].next = IF m = used THEN Nil ELSE nodes[m].next
      BY <2>2 DEF FreedTo
    <2>5. ListsKept(own)'
      <3>1. cur'[t] = used /\ \A u \in Threads \ {t} : cur'[u] = cur[u]
        BY <2>1 DEF TypeOK
      <3> QED
        BY <1>1, <2>3, <2>4, <3>1, CutKeepsLists
    <2>6. \A m \in live : m # used => m \in live'
      BY <1>1, <1>7, <2>2 DEF Successor, NodeKept, FreedTo
    <2>7. cur'[t] = used /\ cur' = [cur EXCEPT ![t] = cur'[t]]
      BY <2>1 DEF TypeOK
    <2>8. used \in live' /\ nodes[used].level = 0 /\ used \in Nodes
      BY <1>1, <1>2, <1>3, <1>7, <2>3 DEF TypeOK
    <2>9. /\ \A m \in live : own[m] # t => m \in live'
          /\ \A m \in live' : m \in live
      BY <2>3
    <2> QED
      BY <1>7, <2>2, <2>5, <2>6, <2>7, <2>8, <2>9 DEF FreedTo
  <1>8. CASE ~gil /\ back # Nil
    <2>1. /\ nodes' = Freed(Successor(used) \cup {used}, {back})
          /\ cur' = [cur EXCEPT ![t] = back]
      BY <1>8 DEF ReturnGIL, ReturnFT
    <2>2. FreedTo(Successor(used) \cup {used}, {back})
      BY <2>1, FreedFields
    <2>3. live' = {m \in live : own[m] = t => nodes[m].level <= nodes[back].level}
      BY <1>1, <1>2, <1>3, <1>8, <2>2 DEF FreedTo
    <2>4. \A m \in live' : /\ nodes'[m].level = nodes[m].level
                           /\ nodes'[m].prev = nodes[m].prev
                           /\ nodes'[m].next = IF m = back THEN Nil ELSE nodes[m].next
      BY <2>2 DEF FreedTo
    <2>5. ListsKept(own)'
      <3>1. cur'[t] = back /\ \A u \in Threads \ {t} : cur'[u] = cur[u]
        BY <1>4, <2>1 DEF TypeOK
      <3> QED
        BY <1>3, <1>8, <2>3, <2>4, <3>1, CutKeepsLists
    <2>6. \A m \in live : m # used => m \in live'
      BY <1>1, <1>8, <2>2 DEF Successor, NodeKept, FreedTo
    <2>7. cur'[t] = back /\ cur' = [cur EXCEPT ![t] = cur'[t]]
      BY <2>1 DEF TypeOK
    <2>8. back \in live' /\ nodes[back].level = nodes[used].level - 1 /\ nodes[used].level # 0
      BY <1>2, <1>3, <1>8, <2>3
    <2>9. /\ \A m \in live : own[m] # t => m \in live'
          /\ \A m \in live' : m \in live
      BY <2>3
    <2> QED
      BY <1>4, <1>8, <2>2, <2>5, <2>6, <2>7, <2>8, <2>9 DEF FreedTo
  <1> QED
    BY <1>5, <1>6, <1>7, <1>8

-----------------------------------------------------------------------------
(* The actions. *)

\* A call that begins has the right kind of context, and _DefaultDecoderCtx
\* only if no other call has it: a call without hooks is decoding until it
\* returns, and no two calls decode at a time under the GIL.
LEMMA EnterKeepsCalls ==
    ASSUME NEW own, IInv(own), UNCHANGED gil, NEW t \in Threads, NEW c \in Contexts,
           NEW hooked \in BOOLEAN, MayCall(t), Enter(t, c, hooked),
           c = DefaultCtx <=> ~UsesList(hooked)
    PROVE  CallsKept' /\ DefaultExclusive'
  <1>1. TypeOK /\ CallsKept /\ DefaultExclusive
    BY DEF IInv
  <1>2. /\ \A u \in Threads \ {t} : calls'[u] = calls[u]
        /\ Len(calls'[t]) = Len(calls[t]) + 1
        /\ calls'[t][Len(calls[t]) + 1] = [ctx |-> c, hooked |-> hooked, at |-> "decoding"]
        /\ \A i \in 1 .. Len(calls[t]) : calls'[t][i] = calls[t][i]
        /\ writer'[c] = <<t, Len(calls[t]) + 1>>
        /\ \A d \in Contexts \ {c} : writer'[d] = writer[d]
    BY <1>1, EnterAppends
  <1>3. \A u \in Threads : Len(calls[u]) \in Nat /\ (calls[u] = <<>> => Len(calls[u]) = 0)
    BY <1>1 DEF TypeOK
  <1>4. Len(calls[t]) # 0 => calls[t][Len(calls[t])].at = "hook"
    BY <1>3 DEF MayCall, At, Innermost
  <1>5. ASSUME NEW u \in Threads, NEW i \in 1 .. Len(calls'[u])
        PROVE  /\ calls'[u][i].ctx = DefaultCtx <=> ~UsesList(calls'[u][i].hooked)
               /\ calls'[u][i].at = "hook" => calls'[u][i].hooked
               /\ i < Len(calls'[u]) => calls'[u][i].at = "hook"
    <2>1. CASE u # t
      BY <1>1, <1>2, <2>1 DEF CallsKept
    <2>2. CASE u = t /\ i = Len(calls[t]) + 1
      BY <1>2, <1>3, <2>2
    <2>3. CASE u = t /\ i \in 1 .. Len(calls[t])
      <3>1. calls'[u][i] = calls[t][i]
        BY <1>2, <2>3
      <3>2. calls[t][i].at = "hook"
        BY <1>1, <1>3, <1>4, <2>3 DEF CallsKept
      <3> QED
        BY <1>1, <2>3, <3>1, <3>2 DEF CallsKept
    <2> QED
      BY <1>2, <1>3, <2>1, <2>2, <2>3
  <1>6. CallsKept'
    BY <1>5 DEF CallsKept, UsesList
  <1>7. ASSUME c = DefaultCtx, NEW u \in Threads, NEW i \in 1 .. Len(calls[u]),
               calls[u][i].ctx = DefaultCtx
        PROVE  FALSE
    <2>1. ~UsesList(calls[u][i].hooked) /\ gil
      BY <1>1, <1>7 DEF CallsKept, UsesList
    <2>2. calls[u][i].at # "hook"
      BY <1>1, <1>7, <2>1 DEF CallsKept, UsesList
    <2>3. i = Len(calls[u]) /\ calls[u] # <<>>
      BY <1>1, <1>3, <1>7, <2>2 DEF CallsKept
    <2>4. calls[u][i].at = "decoding"
      <3>1. calls[u][i] \in Call
        BY <1>1, <1>3 DEF TypeOK
      <3> QED
        BY <2>2, <3>1 DEF Call
    <2>5. At(u, "decoding")
      BY <2>3, <2>4 DEF At, Innermost
    <2>6. u # t
      BY <2>3, <2>4, <1>3, <1>4
    <2> QED
      BY <2>1, <2>5, <2>6 DEF MayCall, MayRun
  <1>8. DefaultExclusive'
    <2> SUFFICES ASSUME NEW u \in Threads, NEW i \in 1 .. Len(calls'[u]),
                        calls'[u][i].ctx = DefaultCtx
                 PROVE  writer'[DefaultCtx] = <<u, i>>
      BY DEF DefaultExclusive
    <2>1. CASE u = t /\ i = Len(calls[t]) + 1
      BY <1>2, <2>1
    <2>2. CASE ~(u = t /\ i = Len(calls[t]) + 1)
      <3>1. i \in 1 .. Len(calls[u]) /\ calls'[u][i] = calls[u][i]
        BY <1>2, <1>3, <2>2
      <3>2. c # DefaultCtx
        BY <1>7, <3>1
      <3>3. DefaultCtx \in Contexts
        BY DEF Contexts
      <3> QED
        BY <1>1, <1>2, <3>1, <3>2, <3>3 DEF DefaultExclusive
    <2> QED
      BY <2>1, <2>2
  <1> QED
    BY <1>6, <1>8

LEMMA EnterDefaultKeeps ==
    ASSUME NEW own, IInv(own), UNCHANGED gil, NEW t \in Threads, EnterDefault(t)
    PROVE  IInv(own)'
  <1>1. PICK hooked \in BOOLEAN : ~UsesList(hooked) /\ Enter(t, DefaultCtx, hooked)
    BY DEF EnterDefault
  <1>2. MayCall(t) /\ UNCHANGED <<cur, nodes, gil>> /\ gil /\ TypeOK /\ DefaultCtx \in Contexts
    BY <1>1 DEF EnterDefault, UsesList, IInv, Contexts
  <1>3. TypeOK'
    <2>1. /\ calls' \in [Threads -> Seq(Call)]
          /\ \A u \in Threads \ {t} : calls'[u] = calls[u]
          /\ Len(calls'[t]) <= MaxDepth
          /\ writer' \in [Contexts -> CallIds \cup {NoCall}]
      BY <1>1, <1>2, EnterAppends
    <2> QED
      BY <1>2, <2>1 DEF TypeOK, live
  <1>4. CallsKept' /\ DefaultExclusive'
    BY <1>1, <1>2, EnterKeepsCalls
  <1>5. ListsKept(own)'
    BY <1>2 DEF IInv, ListsKept, NodeKept, live
  <1>6. DepthKept'
    <2>1. \A u \in Threads : Cardinality(ListCalls(u)') = Cardinality(ListCalls(u))
      <3>1. /\ \A u \in Threads \ {t} : ListCalls(u)' = ListCalls(u)
            /\ Cardinality(ListCalls(t)') = Cardinality(ListCalls(t)) + 0
        BY <1>1, <1>2, EnterCounts
      <3> QED
        BY <1>2, <3>1, ListCallsCount
    <2> QED
      BY <1>2, <2>1 DEF IInv, DepthKept
  <1> QED
    BY <1>2, <1>3, <1>4, <1>5, <1>6 DEF IInv

\* A call that begins in a new node.
LEMMA EnterNewKeeps ==
    ASSUME NEW own, IInv(own), UNCHANGED gil, NEW t \in Threads, NEW n \in Nodes \ live,
           NEW level \in Nat, NEW hooked \in BOOLEAN, UsesList(hooked),
           MayCall(t), Enter(t, n, hooked),
           level < HookMaxRecursion,
           \/ cur[t] = Nil /\ level = 0
           \/ cur[t] # Nil /\ nodes[cur[t]].next = Nil /\ level = nodes[cur[t]].level + 1,
           nodes' \in [live' -> Node],
           live' = live \cup {n},
           nodes'[n] = [level |-> level, prev |-> cur[t], next |-> Nil],
           \A m \in live : /\ nodes'[m].level = nodes[m].level
                           /\ nodes'[m].prev = nodes[m].prev
                           /\ nodes'[m].next = IF m = cur[t] THEN n ELSE nodes[m].next,
           cur' = [cur EXCEPT ![t] = n]
    PROVE  IInv([own EXCEPT ![n] = t])'
  <1> DEFINE o == [own EXCEPT ![n] = t]
  <1>1. /\ TypeOK /\ own \in [Nodes -> Threads \cup {Nil}] /\ ListsKept(own)
        /\ n \in Contexts /\ n # DefaultCtx /\ n # Nil /\ live \subseteq Nodes
    BY NodesAssumption DEF IInv, TypeOK, Contexts
  <1>2. /\ calls' \in [Threads -> Seq(Call)]
        /\ \A u \in Threads \ {t} : calls'[u] = calls[u]
        /\ Len(calls'[t]) = Len(calls[t]) + 1 /\ Len(calls'[t]) <= MaxDepth
        /\ calls'[t][Len(calls[t]) + 1] = [ctx |-> n, hooked |-> hooked, at |-> "decoding"]
        /\ \A i \in 1 .. Len(calls[t]) : calls'[t][i] = calls[t][i]
        /\ writer' \in [Contexts -> CallIds \cup {NoCall}]
        /\ writer'[n] = <<t, Len(calls[t]) + 1>>
        /\ \A d \in Contexts \ {n} : writer'[d] = writer[d]
    BY <1>1, EnterAppends
  <1>3. cur'[t] = n /\ (\A u \in Threads \ {t} : cur'[u] = cur[u]) /\ cur' \in [Threads -> Nodes \cup {Nil}]
    BY <1>1 DEF TypeOK
  <1>4. o \in [Nodes -> Threads \cup {Nil}] /\ o[n] = t /\ \A m \in live : o[m] = own[m]
    BY <1>1
  <1>5. TypeOK'
    BY <1>1, <1>2, <1>3 DEF TypeOK
  <1>6. ListsKept(o)'
    BY <1>1, NewNodeKeepsLists
  <1>7. CallsKept' /\ DefaultExclusive'
    BY <1>1, EnterKeepsCalls
  <1>8. DepthKept'
    <2>1. /\ \A u \in Threads \ {t} : ListCalls(u)' = ListCalls(u)
          /\ Cardinality(ListCalls(t)') = Cardinality(ListCalls(t)) + 1
      BY <1>1, EnterCounts
    <2>2. \A u \in Threads : cur[u] # Nil => cur[u] \in live
      BY <1>1 DEF ListsKept
    <2>3. ASSUME NEW u \in Threads
          PROVE  IF cur'[u] = Nil THEN Cardinality(ListCalls(u)') = 0
                 ELSE \/ Cardinality(ListCalls(u)') = nodes'[cur'[u]].level + 1
                      \/ ~gil /\ Cardinality(ListCalls(u)') = nodes'[cur'[u]].level
      <3>1. CASE u # t
        BY <1>3, <2>1, <2>2, <3>1 DEF IInv, DepthKept
      <3>2. CASE u = t
        <4>1. /\ cur[t] = Nil => Cardinality(ListCalls(t)) = 0
              /\ cur[t] # Nil => \/ Cardinality(ListCalls(t)) = nodes[cur[t]].level + 1
                                 \/ ~gil /\ Cardinality(ListCalls(t)) = nodes[cur[t]].level
          BY DEF IInv, DepthKept
        <4>2. nodes'[cur'[t]].level = level /\ cur'[t] # Nil
          BY <1>1, <1>3
        <4> QED
          BY <2>1, <3>2, <4>1, <4>2
      <3> QED
        BY <3>1, <3>2
    <2> QED
      BY <2>3 DEF DepthKept
  <1> HIDE DEF o
  <1>9. ASSUME ~gil PROVE HeldKept(o)'
    <2>1. HeldKept(own)
      BY <1>9 DEF IInv
    <2> SUFFICES ASSUME NEW u \in Threads, NEW i \in 1 .. Len(calls'[u])
                 PROVE  /\ calls'[u][i].ctx \in live' /\ o[calls'[u][i].ctx] = u /\ cur'[u] # Nil
                        /\ nodes'[calls'[u][i].ctx].level = nodes'[cur'[u]].level - Len(calls'[u]) + i
                        /\ writer'[calls'[u][i].ctx] = <<u, i>>
      BY DEF HeldKept
    <2>2. Len(calls[t]) \in Nat /\ live \subseteq Contexts \ {n}
      BY <1>1 DEF TypeOK, Contexts
    <2>3. CASE u = t /\ i = Len(calls[t]) + 1
      <3>1. calls'[u][i].ctx = n /\ nodes'[n].level = level
        BY <1>2, <2>3
      <3>2. nodes'[n].level = nodes'[cur'[u]].level - Len(calls'[u]) + i
        BY <1>2, <1>3, <2>2, <2>3, <3>1
      <3> QED
        BY <1>1, <1>2, <1>3, <1>4, <2>2, <2>3, <3>1, <3>2
    <2>4. CASE ~(u = t /\ i = Len(calls[t]) + 1)
      <3>1. i \in 1 .. Len(calls[u]) /\ calls'[u][i] = calls[u][i]
        BY <1>2, <2>2, <2>4
      <3>2. /\ calls[u][i].ctx \in live /\ own[calls[u][i].ctx] = u /\ cur[u] # Nil
            /\ nodes[calls[u][i].ctx].level = nodes[cur[u]].level - Len(calls[u]) + i
            /\ writer[calls[u][i].ctx] = <<u, i>>
        BY <2>1, <3>1 DEF HeldKept
      <3>3. cur[u] \in live
        BY <1>1, <3>2 DEF ListsKept
      <3>4. nodes'[calls[u][i].ctx].level = nodes'[cur'[u]].level - Len(calls'[u]) + i
        <4>1. CASE u # t
          BY <1>2, <1>3, <3>2, <3>3, <4>1
        <4>2. CASE u = t
          <5>1. nodes[cur[t]].level \in Nat
            BY <1>1, <3>3, <4>2 DEF TypeOK, Node
          <5>2. nodes'[cur'[t]].level = nodes[cur[t]].level + 1
            BY <1>3, <3>2, <4>2
          <5>3. Len(calls'[t]) = Len(calls[t]) + 1
            BY <1>2
          <5>4. nodes'[cur'[t]].level - Len(calls'[t]) + i = nodes[cur[t]].level - Len(calls[t]) + i
            BY <2>2, <3>1, <4>2, <5>1, <5>2, <5>3
          <5>5. nodes'[calls[u][i].ctx].level = nodes[calls[u][i].ctx].level
            BY <3>2
          <5> QED
            BY <3>2, <4>2, <5>4, <5>5
        <4> QED
          BY <4>1, <4>2
      <3>5. writer'[calls[u][i].ctx] = <<u, i>>
        BY <1>2, <2>2, <3>2
      <3>6. cur'[u] # Nil
        BY <1>1, <1>3, <3>2
      <3>7. calls[u][i].ctx \in live' /\ o[calls[u][i].ctx] = u
        BY <1>4, <3>2
      <3> QED
        BY <3>1, <3>4, <3>5, <3>6, <3>7
    <2> QED
      BY <2>3, <2>4
  <1> QED
    BY <1>4, <1>5, <1>6, <1>7, <1>8, <1>9 DEF IInv, o

LEMMA EnterNewInductive ==
    ASSUME NEW own, IInv(own), UNCHANGED gil, NEW t \in Threads,
           EnterFirst(t) \/ EnterGrow(t)
    PROVE  Inductive'
  <1>1. TypeOK /\ own \in [Nodes -> Threads \cup {Nil}] /\ ListsKept(own) /\ MayCall(t)
    BY DEF IInv, EnterFirst, EnterGrow
  <1>2. CASE EnterFirst(t)
    <2>1. PICK hooked \in BOOLEAN, n \in Nodes \ live :
            /\ UsesList(hooked)
            /\ nodes' = [m \in live \cup {n} |->
                            IF m = n THEN [level |-> 0, prev |-> Nil, next |-> Nil] ELSE nodes[m]]
            /\ cur' = [cur EXCEPT ![t] = n]
            /\ Enter(t, n, hooked)
      BY <1>2 DEF EnterFirst
    <2>2. cur[t] = Nil /\ \A m \in live : m # cur[t]
      BY <1>1, <1>2, NodesAssumption DEF EnterFirst, TypeOK
    <2>3. live' = live \cup {n} /\ nodes'[n] = [level |-> 0, prev |-> cur[t], next |-> Nil]
      BY <2>1, <2>2 DEF live
    <2>4. \A m \in live : /\ nodes'[m].level = nodes[m].level
                          /\ nodes'[m].prev = nodes[m].prev
                          /\ nodes'[m].next = IF m = cur[t] THEN n ELSE nodes[m].next
      <3>1. \A m \in live : nodes'[m] = nodes[m]
        BY <2>1
      <3> QED
        BY <2>2, <3>1
    <2>5. nodes' \in [live' -> Node]
      BY <1>1, <2>1 DEF live, TypeOK, Node
    <2>6. IInv([own EXCEPT ![n] = t])'
      <3>1. 0 \in Nat /\ 0 < HookMaxRecursion
        BY ThreadsAssumption
      <3> QED
        BY <1>1, <2>1, <2>2, <2>3, <2>4, <2>5, <3>1, EnterNewKeeps
    <2>7. [own EXCEPT ![n] = t] \in [Nodes -> Threads \cup {Nil}]
      BY <1>1
    <2> QED
      BY <2>6, <2>7 DEF Inductive
  <1>3. CASE EnterGrow(t)
    <2> DEFINE level == nodes[cur[t]].level + 1
    <2>1. PICK hooked \in BOOLEAN, n \in Nodes \ live :
            /\ UsesList(hooked)
            /\ nodes' = [m \in live \cup {n} |->
                IF m = n THEN [level |-> level, prev |-> cur[t], next |-> Nil]
                ELSE IF m = cur[t] THEN [nodes[m] EXCEPT !.next = n]
                ELSE nodes[m]]
            /\ cur' = [cur EXCEPT ![t] = n]
            /\ Enter(t, n, hooked)
      BY <1>3 DEF EnterGrow
    <2>2. /\ cur[t] # Nil /\ cur[t] \in live /\ nodes[cur[t]].next = Nil
          /\ level \in Nat /\ level < HookMaxRecursion
      BY <1>1, <1>3 DEF EnterGrow, LevelAllowed, ListsKept, TypeOK, Node
    <2> HIDE DEF level
    <2>3. live' = live \cup {n} /\ nodes'[n] = [level |-> level, prev |-> cur[t], next |-> Nil]
      BY <2>1 DEF live
    <2>4. \A m \in live : /\ nodes[m] \in Node
                          /\ nodes'[m] = IF m = cur[t] THEN [nodes[m] EXCEPT !.next = n] ELSE nodes[m]
      BY <1>1, <2>1 DEF TypeOK
    <2>5. \A m \in live : /\ nodes'[m].level = nodes[m].level
                          /\ nodes'[m].prev = nodes[m].prev
                          /\ nodes'[m].next = IF m = cur[t] THEN n ELSE nodes[m].next
      BY <2>4 DEF Node
    <2>6. \A m \in live : nodes'[m] \in Node
      BY <2>4 DEF Node
    <2>7. nodes' \in [live' -> Node]
      <3>1. nodes'[n] \in Node
        BY <1>1, <2>2, <2>3 DEF Node, TypeOK
      <3> QED
        BY <2>1, <2>3, <2>6, <3>1
    <2>8. IInv([own EXCEPT ![n] = t])'
      BY <1>1, <2>1, <2>2, <2>3, <2>5, <2>7, EnterNewKeeps DEF level
    <2>9. [own EXCEPT ![n] = t] \in [Nodes -> Threads \cup {Nil}]
      BY <1>1
    <2> QED
      BY <2>8, <2>9 DEF Inductive
  <1> QED
    BY <1>2, <1>3

LEMMA EnterNextKeeps ==
    ASSUME NEW own, IInv(own), UNCHANGED gil, NEW t \in Threads, EnterNext(t)
    PROVE  IInv(own)'
  <1>1. /\ TypeOK /\ own \in [Nodes -> Threads \cup {Nil}] /\ ListsKept(own) /\ MayCall(t)
        /\ cur[t] # Nil /\ nodes[cur[t]].next # Nil /\ UNCHANGED <<gil, nodes>>
        /\ live' = live
    BY DEF IInv, EnterNext, live
  <1>2. PICK hooked \in BOOLEAN : /\ UsesList(hooked)
                                  /\ cur' = [cur EXCEPT ![t] = nodes[cur[t]].next]
                                  /\ Enter(t, cur[t], hooked)
    BY DEF EnterNext, ContextForNext
  <1>3. cur[t] \in live /\ cur[t] \in Contexts /\ cur[t] # DefaultCtx /\ NodeKept(own, cur[t]) /\ own[cur[t]] = t
    BY <1>1, NodesAssumption DEF ListsKept, TypeOK, Contexts
  <1>4. gil
    BY <1>1, <1>3 DEF NodeKept
  <1>5. /\ ListsKept(own)'
        /\ cur'[t] \in live /\ nodes[cur'[t]].level = nodes[cur[t]].level + 1
    BY <1>1, <1>2, <1>4, NextKeepsLists
  <1>6. TypeOK'
    <2>1. /\ calls' \in [Threads -> Seq(Call)]
          /\ \A u \in Threads \ {t} : calls'[u] = calls[u]
          /\ Len(calls'[t]) <= MaxDepth
          /\ writer' \in [Contexts -> CallIds \cup {NoCall}]
      BY <1>1, <1>2, <1>3, EnterAppends
    <2>2. nodes[cur[t]].next \in Nodes
      BY <1>1, <1>3 DEF TypeOK, Node
    <2>3. cur' \in [Threads -> Nodes \cup {Nil}]
      BY <1>1, <1>2, <2>2 DEF TypeOK
    <2> QED
      BY <1>1, <2>1, <2>3 DEF TypeOK
  <1>7. CallsKept' /\ DefaultExclusive'
    BY <1>1, <1>2, <1>3, EnterKeepsCalls
  <1>8. DepthKept'
    <2>1. /\ \A u \in Threads \ {t} : ListCalls(u)' = ListCalls(u)
          /\ Cardinality(ListCalls(t)') = Cardinality(ListCalls(t)) + 1
      BY <1>1, <1>2, <1>3, EnterCounts
    <2>2. \A u \in Threads \ {t} : cur'[u] = cur[u]
      BY <1>1, <1>2 DEF TypeOK
    <2>3. Cardinality(ListCalls(t)) = nodes[cur[t]].level + 1
      BY <1>1, <1>4 DEF IInv, DepthKept
    <2>4. Cardinality(ListCalls(t)') = nodes'[cur'[t]].level + 1 /\ cur'[t] # Nil
      BY <1>1, <1>2, <1>5, <2>1, <2>3 DEF TypeOK
    <2> QED
      BY <1>1, <2>1, <2>2, <2>4 DEF IInv, DepthKept
  <1> QED
    BY <1>1, <1>4, <1>5, <1>6, <1>7, <1>8 DEF IInv

\* A call goes to a hook or comes back from one.
LEMMA HookKeeps ==
    ASSUME NEW own, IInv(own), UNCHANGED gil, NEW t \in Threads,
           CallHook(t) \/ HookReturns(t)
    PROVE  IInv(own)'
  <1>1. /\ TypeOK /\ CallsKept /\ DefaultExclusive /\ ListsKept(own)
        /\ calls[t] # <<>> /\ UNCHANGED <<gil, cur, nodes>> /\ live' = live
    BY DEF IInv, CallHook, HookReturns, At, live
  <1> DEFINE n == Len(calls[t])
  <1>2. n \in Nat \ {0} /\ n <= MaxDepth /\ calls[t] \in Seq(Call) /\ calls[t][n] \in Call
    BY <1>1 DEF TypeOK
  <1>3. PICK at \in {"decoding", "hook"} :
            /\ calls' = [calls EXCEPT ![t][n].at = at]
            /\ at = "hook" => calls[t][n].hooked
    BY DEF CallHook, HookReturns, Innermost
  <1>4. /\ calls' \in [Threads -> Seq(Call)]
        /\ \A u \in Threads \ {t} : calls'[u] = calls[u]
        /\ Len(calls'[t]) = n
        /\ \A i \in 1 .. n - 1 : calls'[t][i] = calls[t][i]
        /\ calls'[t][n].ctx = calls[t][n].ctx /\ calls'[t][n].hooked = calls[t][n].hooked
        /\ calls'[t][n].at = at
    <2>1. [calls[t][n] EXCEPT !.at = at] \in Call
      BY <1>2 DEF Call
    <2>2. calls'[t] = [calls[t] EXCEPT ![n] = [calls[t][n] EXCEPT !.at = at]]
      BY <1>1, <1>3 DEF TypeOK
    <2>3. calls'[t] \in Seq(Call) /\ Len(calls'[t]) = n
      BY <1>2, <2>1, <2>2
    <2>4. \A u \in Threads \ {t} : calls'[u] = calls[u]
      BY <1>1, <1>3 DEF TypeOK
    <2>5. calls' \in [Threads -> Seq(Call)]
      BY <1>1, <1>3, <2>3, <2>4 DEF TypeOK
    <2>6. calls'[t][n] = [calls[t][n] EXCEPT !.at = at]
      BY <1>2, <2>2
    <2>7. \A i \in 1 .. n - 1 : calls'[t][i] = calls[t][i]
      BY <1>2, <2>2
    <2> QED
      BY <1>2, <2>3, <2>4, <2>5, <2>6, <2>7 DEF Call
  <1>5. /\ writer' \in [Contexts -> CallIds \cup {NoCall}]
        /\ \A c \in Contexts : \/ writer'[c] = writer[c]
                               \/ /\ c = calls[t][n].ctx /\ calls[t][n].hooked
                                  /\ writer'[c] = <<t, n>>
    <2>1. CASE CallHook(t)
      BY <1>1, <2>1 DEF CallHook, TypeOK
    <2>2. CASE HookReturns(t)
      <3>1. writer' = [writer EXCEPT ![calls[t][n].ctx] = <<t, n>>]
        BY <2>2 DEF HookReturns, Innermost
      <3>2. <<t, n>> \in CallIds
        BY <1>2, ThreadsAssumption DEF CallIds
      <3>3. calls[t][n].hooked
        BY <1>1, <1>2, <2>2 DEF HookReturns, At, Innermost, CallsKept
      <3> QED
        BY <1>1, <3>1, <3>2, <3>3 DEF TypeOK
    <2> QED
      BY <2>1, <2>2
  <1>6. \A u \in Threads : /\ Len(calls'[u]) = Len(calls[u])
                           /\ \A i \in 1 .. Len(calls[u]) : /\ calls'[u][i].ctx = calls[u][i].ctx
                                                            /\ calls'[u][i].hooked = calls[u][i].hooked
                                                            /\ ~(u = t /\ i = n) => calls'[u][i] = calls[u][i]
    BY <1>2, <1>4
  <1>7. TypeOK'
    BY <1>1, <1>4, <1>5, <1>6 DEF TypeOK
  <1>8. CallsKept'
    BY <1>1, <1>2, <1>3, <1>4, <1>6 DEF CallsKept, UsesList
  <1> HIDE DEF n
  <1>9. DefaultExclusive'
    <2> SUFFICES ASSUME NEW u \in Threads, NEW i \in 1 .. Len(calls'[u]),
                        calls'[u][i].ctx = DefaultCtx
                 PROVE  writer'[DefaultCtx] = <<u, i>>
      BY DEF DefaultExclusive
    <2>1. writer[DefaultCtx] = <<u, i>> /\ DefaultCtx \in Contexts
      BY <1>1, <1>6 DEF DefaultExclusive, Contexts
    <2>2. calls[t][n].hooked => calls[t][n].ctx # DefaultCtx
      BY <1>1, <1>2 DEF CallsKept, UsesList, n
    <2> QED
      BY <1>5, <2>1, <2>2
  <1>10. ListsKept(own)'
    BY <1>1 DEF ListsKept, NodeKept
  <1>11. DepthKept'
    <2>1. \A u \in Threads : ListCalls(u)' = ListCalls(u)
      BY <1>1, <1>6 DEF ListCalls, UsesList
    <2> QED
      BY <1>1, <2>1 DEF IInv, DepthKept
  <1>12. ASSUME ~gil PROVE HeldKept(own)'
    <2> SUFFICES ASSUME NEW u \in Threads, NEW i \in 1 .. Len(calls'[u])
                 PROVE  /\ calls'[u][i].ctx \in live' /\ own[calls'[u][i].ctx] = u /\ cur'[u] # Nil
                        /\ nodes'[calls'[u][i].ctx].level = nodes'[cur'[u]].level - Len(calls'[u]) + i
                        /\ writer'[calls'[u][i].ctx] = <<u, i>>
      BY DEF HeldKept
    <2>1. i \in 1 .. Len(calls[u]) /\ calls'[u][i].ctx = calls[u][i].ctx
      BY <1>6
    <2>2. /\ calls[u][i].ctx \in live /\ own[calls[u][i].ctx] = u /\ cur[u] # Nil
          /\ nodes[calls[u][i].ctx].level = nodes[cur[u]].level - Len(calls[u]) + i
          /\ writer[calls[u][i].ctx] = <<u, i>>
      BY <1>12, <2>1 DEF IInv, HeldKept
    <2>3. ASSUME calls[u][i].ctx = calls[t][n].ctx PROVE writer[calls[u][i].ctx] = <<t, n>>
      BY <1>2, <1>12, <2>3 DEF IInv, HeldKept, n
    <2>4. calls[u][i].ctx \in Contexts
      BY <1>1, <2>2 DEF TypeOK, Contexts
    <2>5. writer'[calls[u][i].ctx] = <<u, i>>
      BY <1>5, <2>2, <2>3, <2>4
    <2> QED
      BY <1>1, <1>6, <2>1, <2>2, <2>5
  <1> QED
    BY <1>7, <1>8, <1>9, <1>10, <1>11, <1>12 DEF IInv

\* What a call that returns leaves of the calls.
LEMMA ReturnedKeepsCalls ==
    ASSUME NEW own, IInv(own), UNCHANGED gil, NEW t \in Threads, calls[t] # <<>>, Returned(t)
    PROVE  CallsKept' /\ DefaultExclusive'
  <1>1. TypeOK /\ CallsKept /\ DefaultExclusive
    BY DEF IInv
  <1>2. /\ \A u \in Threads \ {t} : calls'[u] = calls[u]
        /\ Len(calls[t]) \in Nat \ {0} /\ Len(calls'[t]) = Len(calls[t]) - 1
        /\ \A i \in 1 .. Len(calls[t]) - 1 : calls'[t][i] = calls[t][i]
        /\ \A d \in Contexts \ {Innermost(t).ctx} : writer'[d] = writer[d]
    BY <1>1, ReturnedDrops
  <1>3. \A u \in Threads : Len(calls[u]) \in Nat
    BY <1>1 DEF TypeOK
  <1>4. \A u \in Threads : \A i \in 1 .. Len(calls'[u]) :
            /\ i \in 1 .. Len(calls[u]) /\ calls'[u][i] = calls[u][i]
            /\ i < Len(calls'[u]) => i < Len(calls[u])
            /\ ~(u = t /\ i = Len(calls[t]))
    BY <1>2, <1>3
  <1>5. CallsKept'
    BY <1>1, <1>4 DEF CallsKept, UsesList
  <1>6. DefaultExclusive'
    <2> SUFFICES ASSUME NEW u \in Threads, NEW i \in 1 .. Len(calls'[u]),
                        calls'[u][i].ctx = DefaultCtx
                 PROVE  writer'[DefaultCtx] = <<u, i>>
      BY DEF DefaultExclusive
    <2>1. writer[DefaultCtx] = <<u, i>> /\ DefaultCtx \in Contexts
      BY <1>1, <1>4 DEF DefaultExclusive, Contexts
    <2>2. Innermost(t).ctx = DefaultCtx => writer[DefaultCtx] = <<t, Len(calls[t])>>
      BY <1>1, <1>2 DEF DefaultExclusive, Innermost
    <2> QED
      BY <1>2, <1>4, <2>1, <2>2
  <1> QED
    BY <1>5, <1>6

LEMMA ReturnDefaultKeeps ==
    ASSUME NEW own, IInv(own), UNCHANGED gil, NEW t \in Threads, ReturnDefault(t)
    PROVE  IInv(own)'
  <1>1. /\ TypeOK /\ ListsKept(own) /\ calls[t] # <<>> /\ Returned(t)
        /\ ~UsesList(Innermost(t).hooked) /\ gil
        /\ UNCHANGED <<gil, cur, nodes>> /\ live' = live
    BY DEF IInv, ReturnDefault, At, UsesList, live
  <1>2. /\ calls' \in [Threads -> Seq(Call)]
        /\ \A u \in Threads \ {t} : calls'[u] = calls[u]
        /\ Len(calls[t]) \in Nat \ {0} /\ Len(calls'[t]) = Len(calls[t]) - 1
        /\ writer' \in [Contexts -> CallIds \cup {NoCall}]
    BY <1>1, ReturnedDrops
  <1>3. TypeOK'
    <2>1. \A u \in Threads : Len(calls'[u]) <= MaxDepth
      BY <1>1, <1>2, ThreadsAssumption DEF TypeOK
    <2> QED
      BY <1>1, <1>2, <2>1 DEF TypeOK
  <1>4. CallsKept' /\ DefaultExclusive'
    BY <1>1, ReturnedKeepsCalls
  <1>5. ListsKept(own)'
    BY <1>1 DEF ListsKept, NodeKept
  <1>6. DepthKept'
    <2>1. /\ \A u \in Threads \ {t} : ListCalls(u)' = ListCalls(u)
          /\ Cardinality(ListCalls(t)') = Cardinality(ListCalls(t)) - 0
      BY <1>1, ReturnedCounts
    <2>2. \A u \in Threads : Cardinality(ListCalls(u)') = Cardinality(ListCalls(u))
      BY <1>1, <2>1, ListCallsCount
    <2> QED
      BY <1>1, <2>2 DEF IInv, DepthKept
  <1> QED
    BY <1>1, <1>3, <1>4, <1>5, <1>6 DEF IInv

LEMMA ReturnListKeeps ==
    ASSUME NEW own, IInv(own), UNCHANGED gil, NEW t \in Threads, ReturnGIL(t) \/ ReturnFT(t)
    PROVE  IInv(own)'
  <1>1. /\ TypeOK /\ ListsKept(own) /\ calls[t] # <<>> /\ Returned(t)
        /\ UsesList(Innermost(t).hooked)
    BY DEF IInv, ReturnGIL, ReturnFT, At
  <1>2. /\ calls' \in [Threads -> Seq(Call)]
        /\ \A u \in Threads \ {t} : calls'[u] = calls[u]
        /\ Len(calls[t]) \in Nat \ {0} /\ Len(calls'[t]) = Len(calls[t]) - 1
        /\ \A i \in 1 .. Len(calls[t]) - 1 : calls'[t][i] = calls[t][i]
        /\ writer' \in [Contexts -> CallIds \cup {NoCall}]
        /\ \A d \in Contexts \ {Innermost(t).ctx} : writer'[d] = writer[d]
    BY <1>1, ReturnedDrops
  <1>3. /\ \A u \in Threads \ {t} : ListCalls(u)' = ListCalls(u)
        /\ Cardinality(ListCalls(t)') = Cardinality(ListCalls(t)) - 1
        /\ Cardinality(ListCalls(t)) \in Nat /\ Cardinality(ListCalls(t)) # 0
    <2>1. /\ \A u \in Threads \ {t} : ListCalls(u)' = ListCalls(u)
          /\ Cardinality(ListCalls(t)') = Cardinality(ListCalls(t)) - 1
      BY <1>1, ReturnedCounts
    <2>2. Len(calls[t]) \in ListCalls(t)
      BY <1>1, <1>2 DEF ListCalls, Innermost
    <2>3. IsFiniteSet(ListCalls(t)) /\ Cardinality(ListCalls(t)) \in Nat
      BY <1>1, ListCallsCount
    <2>4. Cardinality(ListCalls(t)) # 0
      BY <2>2, <2>3, FS_EmptySet
    <2> QED
      BY <2>1, <2>3, <2>4
  <1>4. cur[t] # Nil
    BY <1>3 DEF IInv, DepthKept
  <1>5. /\ ListsKept(own)'
        /\ nodes' \in [live' -> Node] /\ live' \subseteq Nodes
        /\ cur' = [cur EXCEPT ![t] = cur'[t]] /\ cur'[t] \in Nodes \cup {Nil}
        /\ \A m \in live : own[m] # t => m \in live'
        /\ \A m \in live' : m \in live /\ nodes'[m].level = nodes[m].level
        /\ IF nodes[cur[t]].level = 0
           THEN IF gil THEN cur'[t] = Nil ELSE cur'[t] = cur[t] /\ cur[t] \in live'
           ELSE /\ cur'[t] = nodes[cur[t]].prev /\ cur'[t] # Nil /\ cur'[t] \in live'
                /\ nodes[cur'[t]].level = nodes[cur[t]].level - 1
        /\ ~gil => \A m \in live : m # cur[t] => m \in live'
    BY <1>1, <1>4, ReturnKeepsLists
  <1>6. cur' \in [Threads -> Nodes \cup {Nil}] /\ \A u \in Threads \ {t} : cur'[u] = cur[u]
    BY <1>1, <1>5 DEF TypeOK
  <1>7. TypeOK'
    <2>1. \A u \in Threads : Len(calls'[u]) <= MaxDepth
      BY <1>1, <1>2, ThreadsAssumption DEF TypeOK
    <2> QED
      BY <1>1, <1>2, <1>5, <1>6, <2>1 DEF TypeOK
  <1>8. CallsKept' /\ DefaultExclusive'
    BY <1>1, ReturnedKeepsCalls
  <1>9. cur[t] \in live /\ own[cur[t]] = t /\ nodes[cur[t]].level \in Nat
    BY <1>1, <1>4 DEF ListsKept, TypeOK, Node
  <1>10. DepthKept'
    <2>1. ASSUME NEW u \in Threads
          PROVE  IF cur'[u] = Nil THEN Cardinality(ListCalls(u)') = 0
                 ELSE \/ Cardinality(ListCalls(u)') = nodes'[cur'[u]].level + 1
                      \/ ~gil /\ Cardinality(ListCalls(u)') = nodes'[cur'[u]].level
      <3>1. CASE u # t
        <4>1. cur[u] # Nil => cur[u] \in live' /\ nodes'[cur[u]].level = nodes[cur[u]].level
          BY <1>1, <1>5, <3>1 DEF ListsKept
        <4> QED
          BY <1>3, <1>6, <3>1, <4>1 DEF IInv, DepthKept
      <3>2. CASE u = t
        <4>1. \/ Cardinality(ListCalls(t)) = nodes[cur[t]].level + 1
              \/ ~gil /\ Cardinality(ListCalls(t)) = nodes[cur[t]].level
          BY <1>4 DEF IInv, DepthKept
        <4>2. CASE nodes[cur[t]].level = 0 /\ gil
          BY <1>3, <1>5, <3>2, <4>1, <4>2
        <4>3. CASE nodes[cur[t]].level = 0 /\ ~gil
          BY <1>3, <1>4, <1>5, <3>2, <4>1, <4>3
        <4>4. CASE nodes[cur[t]].level # 0
          <5>1. nodes'[cur'[t]].level = nodes[cur[t]].level - 1 /\ cur'[t] # Nil
            BY <1>5, <4>4
          <5> QED
            BY <1>3, <1>9, <3>2, <4>1, <5>1
        <4> QED
          BY <4>2, <4>3, <4>4
      <3> QED
        BY <3>1, <3>2
    <2> QED
      BY <2>1 DEF DepthKept
  <1>11. ASSUME ~gil PROVE HeldKept(own)'
    <2>1. HeldKept(own)
      BY <1>11 DEF IInv
    <2>2. /\ Innermost(t).ctx = cur[t]
          /\ nodes[cur[t]].level >= Len(calls[t]) - 1
      <3>0. Len(calls[t]) \in 1 .. Len(calls[t])
        BY <1>2
      <3>1. /\ Innermost(t).ctx \in live /\ own[Innermost(t).ctx] = t
            /\ nodes[Innermost(t).ctx].level = nodes[cur[t]].level - Len(calls[t]) + Len(calls[t])
        BY <3>0, <2>1 DEF HeldKept, Innermost
      <3>2. nodes[Innermost(t).ctx].level = nodes[cur[t]].level
        BY <1>2, <1>9, <3>1
      <3>3. /\ calls[t][1].ctx \in live
            /\ nodes[calls[t][1].ctx].level = nodes[cur[t]].level - Len(calls[t]) + 1
        BY <1>2, <2>1 DEF HeldKept
      <3>4. nodes[calls[t][1].ctx].level \in Nat
        BY <1>1, <3>3 DEF TypeOK, Node
      <3>5. nodes[cur[t]].level >= Len(calls[t]) - 1
        BY <1>2, <1>9, <3>3, <3>4
      <3>6. Innermost(t).ctx = cur[t]
        BY <1>1, <1>9, <3>1, <3>2 DEF ListsKept
      <3> QED
        BY <3>5, <3>6
    <2> SUFFICES ASSUME NEW u \in Threads, NEW i \in 1 .. Len(calls'[u])
                 PROVE  /\ calls'[u][i].ctx \in live' /\ own[calls'[u][i].ctx] = u /\ cur'[u] # Nil
                        /\ nodes'[calls'[u][i].ctx].level = nodes'[cur'[u]].level - Len(calls'[u]) + i
                        /\ writer'[calls'[u][i].ctx] = <<u, i>>
      BY DEF HeldKept
    <2> DEFINE c == calls[u][i].ctx
    <2>3. /\ i \in 1 .. Len(calls[u]) /\ calls'[u][i] = calls[u][i]
          /\ u = t => i < Len(calls[t]) /\ Len(calls'[t]) = Len(calls[t]) - 1
          /\ Len(calls[u]) \in Nat
      <3>1. Len(calls[u]) \in Nat
        BY <1>1 DEF TypeOK
      <3>2. CASE u = t
        BY <1>2, <3>1, <3>2
      <3>3. CASE u # t
        BY <1>2, <3>1, <3>3
      <3> QED
        BY <3>1, <3>2, <3>3
    <2>4. /\ c \in live /\ own[c] = u /\ cur[u] # Nil
          /\ nodes[c].level = nodes[cur[u]].level - Len(calls[u]) + i
          /\ writer[c] = <<u, i>>
      BY <2>1, <2>3 DEF HeldKept
    <2> HIDE DEF c
    <2>5. c # cur[t]
      <3>1. c = cur[t] => writer[c] = <<t, Len(calls[t])>>
        <4>1. Len(calls[t]) \in 1 .. Len(calls[t])
          BY <1>2
        <4>2. writer[Innermost(t).ctx] = <<t, Len(calls[t])>>
          BY <2>1, <4>1 DEF HeldKept, Innermost
        <4> QED
          BY <2>2, <4>2
      <3> QED
        BY <2>3, <2>4, <3>1
    <2>6. c \in live' /\ nodes'[c].level = nodes[c].level
      BY <1>5, <1>11, <2>4, <2>5
    <2>7. writer'[c] = <<u, i>>
      BY <1>1, <1>2, <2>2, <2>4, <2>5 DEF TypeOK, Contexts
    <2>8. cur'[u] # Nil /\ nodes'[cur'[u]].level - Len(calls'[u]) + i = nodes[cur[u]].level - Len(calls[u]) + i
      <3>1. CASE u # t
        <4>1. cur'[u] = cur[u] /\ calls'[u] = calls[u]
          BY <1>2, <1>6, <3>1
        <4>2. cur[u] \in live /\ own[cur[u]] = u
          BY <1>1, <2>4 DEF ListsKept
        <4>3. nodes'[cur[u]].level = nodes[cur[u]].level
          BY <1>5, <3>1, <4>2
        <4> QED
          BY <2>4, <4>1, <4>3
      <3>2. CASE u = t
        <4>1. nodes[cur[t]].level # 0
          BY <1>2, <1>9, <2>2, <2>3, <3>2
        <4>2. nodes'[cur'[t]].level = nodes[cur[t]].level - 1 /\ cur'[t] # Nil
          BY <1>5, <4>1
        <4>3. nodes[cur[t]].level - 1 - (Len(calls[t]) - 1) + i = nodes[cur[t]].level - Len(calls[t]) + i
          <5>1. i \in Int /\ Len(calls[t]) \in Int /\ nodes[cur[t]].level \in Int
            BY <1>2, <1>9, <2>3
          <5>2. \A k, l, m \in Int : k - 1 - (l - 1) + m = k - l + m
            OBVIOUS
          <5> QED
            BY <5>1, <5>2
        <4>4. Len(calls'[t]) = Len(calls[t]) - 1
          BY <1>2
        <4>5. nodes'[cur'[t]].level - Len(calls'[t]) + i = nodes[cur[t]].level - 1 - (Len(calls[t]) - 1) + i
          BY <4>2, <4>4
        <4> QED
          BY <3>2, <4>2, <4>3, <4>5
      <3> QED
        BY <3>1, <3>2
    <2> QED
      BY <2>3, <2>4, <2>6, <2>7, <2>8 DEF c
  <1> QED
    BY <1>5, <1>7, <1>8, <1>10, <1>11 DEF IInv

LEMMA ThreadExitKeeps ==
    ASSUME NEW own, IInv(own), UNCHANGED gil, NEW t \in Threads, ThreadExit(t)
    PROVE  IInv(own)'
  <1>1. /\ TypeOK /\ ListsKept(own) /\ calls[t] = <<>> /\ UNCHANGED <<gil, calls, writer>>
        /\ cur' = [cur EXCEPT ![t] = Nil]
    BY DEF IInv, ThreadExit
  <1> DEFINE gone == IF gil \/ cur[t] = Nil THEN {} ELSE {cur[t]} \cup Successor(cur[t])
  <1>2. FreedTo(gone, {})
    BY <1>1, FreedFields DEF ThreadExit
  <1>3. Len(calls[t]) = 0 /\ Cardinality(ListCalls(t)) = 0
    <2>1. ListCalls(t) = {}
      BY <1>1 DEF ListCalls
    <2> QED
      BY <1>1, <2>1, FS_EmptySet
  <1>4. cur[t] # Nil => cur[t] \in live /\ nodes[cur[t]].level = 0 /\ ~gil
    <2>1. cur[t] # Nil => cur[t] \in live /\ nodes[cur[t]].level \in Nat
      BY <1>1 DEF ListsKept, TypeOK, Node
    <2> QED
      BY <1>3, <2>1 DEF IInv, DepthKept
  <1>5. \A m \in live : nodes[m].level \in Nat
    BY <1>1 DEF TypeOK, Node
  <1>6. \A m \in live : m \in gone <=> own[m] = t
    <2>1. CASE cur[t] = Nil
      BY <1>1, <2>1 DEF ListsKept, NodeKept
    <2>2. CASE cur[t] # Nil
      <3>1. /\ Successor(cur[t]) = {m \in live : own[m] = t /\ nodes[m].level > nodes[cur[t]].level}
            /\ {cur[t]} = {m \in live : own[m] = t /\ nodes[m].level = nodes[cur[t]].level}
        BY <1>1, <2>2, SuccessorIsDeeper
      <3>2. gone = {cur[t]} \cup Successor(cur[t])
        BY <1>4, <2>2
      <3> HIDE DEF gone
      <3> QED
        BY <1>4, <1>5, <2>2, <3>1, <3>2
    <2> QED
      BY <2>1, <2>2
  <1> HIDE DEF gone
  <1>7. live' = {m \in live : own[m] # t} /\ \A m \in live' : nodes'[m] = nodes[m]
    BY <1>2, <1>6 DEF FreedTo
  <1>8. ListsKept(own)'
    BY <1>1, <1>7, EmptyKeepsLists
  <1>9. /\ cur' \in [Threads -> Nodes \cup {Nil}] /\ cur'[t] = Nil
        /\ \A u \in Threads \ {t} : cur'[u] = cur[u]
    BY <1>1 DEF TypeOK
  <1>10. TypeOK'
    BY <1>1, <1>2, <1>9 DEF TypeOK, FreedTo
  <1>11. CallsKept' /\ DefaultExclusive'
    BY <1>1 DEF IInv, CallsKept, DefaultExclusive, UsesList
  <1>12. \A u \in Threads \ {t} : cur[u] # Nil => cur[u] \in live' /\ nodes'[cur[u]] = nodes[cur[u]]
    BY <1>1, <1>7 DEF ListsKept
  <1>13. DepthKept'
    <2>1. \A u \in Threads : ListCalls(u)' = ListCalls(u)
      BY <1>1 DEF ListCalls, UsesList
    <2> QED
      BY <1>1, <1>3, <1>9, <1>12, <2>1 DEF IInv, DepthKept
  <1>14. ASSUME ~gil PROVE HeldKept(own)'
    <2> SUFFICES ASSUME NEW u \in Threads, NEW i \in 1 .. Len(calls[u])
                 PROVE  /\ calls[u][i].ctx \in live' /\ own[calls[u][i].ctx] = u /\ cur'[u] # Nil
                        /\ nodes'[calls[u][i].ctx].level = nodes'[cur'[u]].level - Len(calls[u]) + i
                        /\ writer[calls[u][i].ctx] = <<u, i>>
      <3>1. calls' = calls /\ writer' = writer
        BY <1>1
      <3> QED
        BY <3>1 DEF HeldKept
    <2>1. u # t
      BY <1>3
    <2>2. /\ calls[u][i].ctx \in live /\ own[calls[u][i].ctx] = u /\ cur[u] # Nil
          /\ nodes[calls[u][i].ctx].level = nodes[cur[u]].level - Len(calls[u]) + i
          /\ writer[calls[u][i].ctx] = <<u, i>>
      BY <1>14 DEF IInv, HeldKept
    <2> QED
      BY <1>7, <1>9, <1>12, <2>1, <2>2
  <1> QED
    BY <1>1, <1>8, <1>10, <1>11, <1>13, <1>14 DEF IInv

-----------------------------------------------------------------------------
(* The invariant is inductive. *)

LEMMA NextInductive == Inductive /\ [Next]_vars => Inductive'
  <1> SUFFICES ASSUME Inductive, [Next]_vars PROVE Inductive'
    OBVIOUS
  <1>1. PICK own \in [Nodes -> Threads \cup {Nil}] : IInv(own)
    BY DEF Inductive
  <1>2. IInv(own)' => Inductive'
    BY DEF Inductive
  <1>3. CASE UNCHANGED vars
    <2>1. live' = live /\ UNCHANGED <<gil, cur, nodes, calls, writer>>
      BY <1>3 DEF vars, live
    <2>2. TypeOK' /\ CallsKept' /\ DefaultExclusive' /\ DepthKept'
      <3>1. \A u \in Threads : ListCalls(u)' = ListCalls(u)
        BY <2>1 DEF ListCalls, UsesList
      <3> QED
        BY <1>1, <2>1, <3>1 DEF IInv, TypeOK, CallsKept, UsesList, DefaultExclusive, DepthKept
    <2>3. ListsKept(own)' /\ (~gil => HeldKept(own)')
      BY <1>1, <2>1 DEF IInv, ListsKept, NodeKept, HeldKept
    <2> QED
      BY <1>1, <1>2, <2>1, <2>2, <2>3 DEF IInv
  <1>4. ASSUME NEW t \in Threads, UNCHANGED gil, EnterDefault(t) PROVE Inductive'
    BY <1>1, <1>2, <1>4, EnterDefaultKeeps
  <1>5. ASSUME NEW t \in Threads, UNCHANGED gil, EnterFirst(t) \/ EnterGrow(t) PROVE Inductive'
    BY <1>1, <1>5, EnterNewInductive
  <1>6. ASSUME NEW t \in Threads, UNCHANGED gil, EnterNext(t) PROVE Inductive'
    BY <1>1, <1>2, <1>6, EnterNextKeeps
  <1>7. ASSUME NEW t \in Threads, UNCHANGED gil, CallHook(t) \/ HookReturns(t) PROVE Inductive'
    BY <1>1, <1>2, <1>7, HookKeeps
  <1>8. ASSUME NEW t \in Threads, UNCHANGED gil, ReturnDefault(t) PROVE Inductive'
    BY <1>1, <1>2, <1>8, ReturnDefaultKeeps
  <1>9. ASSUME NEW t \in Threads, UNCHANGED gil, ReturnGIL(t) \/ ReturnFT(t) PROVE Inductive'
    BY <1>1, <1>2, <1>9, ReturnListKeeps
  <1>10. ASSUME NEW t \in Threads, UNCHANGED gil, ThreadExit(t) PROVE Inductive'
    BY <1>1, <1>2, <1>10, ThreadExitKeeps
  <1> QED
    BY <1>3, <1>4, <1>5, <1>6, <1>7, <1>8, <1>9, <1>10 DEF Next

LEMMA AlwaysInductive == Spec => []Inductive
  BY InitInductive, NextInductive, PTL DEF Spec

-----------------------------------------------------------------------------
(* The invariants. *)

\* The state stays of its type: current nodes, links and contexts are nodes
\* that malloc returned, for any sequence of nested calls.
THEOREM TypeCorrect == Spec => []TypeOK
  <1>1. Inductive => TypeOK
    BY DEF Inductive, IInv
  <1> QED
    BY <1>1, AlwaysInductive, PTL

\* The links of the list agree in both directions and point to allocated nodes:
\* the two asserts of the decoder's entry on old_buffer->next hold.
THEOREM ListsLinked == Spec => []ListOK
  <1>1. Inductive => ListOK
    <2> SUFFICES ASSUME NEW own, IInv(own) PROVE ListOK
      BY DEF Inductive
    <2>1. ASSUME NEW n \in live
          PROVE  /\ nodes[n].prev = Nil => nodes[n].level = 0
                 /\ nodes[n].prev # Nil => /\ nodes[n].prev \in live
                                           /\ nodes[nodes[n].prev].next = n
                                           /\ nodes[n].level = nodes[nodes[n].prev].level + 1
                 /\ nodes[n].next # Nil => /\ nodes[n].next \in live
                                           /\ nodes[nodes[n].next].prev = n
      <3>1. NodeKept(own, n)
        BY DEF IInv, ListsKept
      <3> QED
        BY <3>1 DEF NodeKept
    <2>2. \A t \in Threads : cur[t] # Nil => cur[t] \in live
      BY DEF IInv, ListsKept
    <2> QED
      BY <2>1, <2>2 DEF ListOK
  <1> QED
    BY <1>1, AlwaysInductive, PTL

\* No node of a list is lost or freed twice by the rules of entry, exit and
\* thread end, which differ per build and for the head.
THEOREM NodesKept == Spec => []NoNodeLeak
  <1>1. Inductive => NoNodeLeak
    <2> SUFFICES ASSUME NEW own, IInv(own) PROVE NoNodeLeak
      BY DEF Inductive
    <2>1. TypeOK /\ ListsKept(own)
      BY DEF IInv
    <2>2. \A n \in live : nodes[n].level \in Nat /\ n # Nil
      BY <2>1, NodesAssumption DEF TypeOK, Node
    <2> DEFINE running == {t \in Threads : cur[t] # Nil}
    <2>3. ASSUME NEW t \in running
          PROVE  EndOf(t) \in live /\ nodes[EndOf(t)].next = Nil /\ own[EndOf(t)] = t
      <3>1. cur[t] \in live /\ own[cur[t]] = t /\ NodeKept(own, cur[t])
        BY <2>1 DEF ListsKept
      <3>2. CASE nodes[cur[t]].next = Nil
        BY <3>1, <3>2 DEF EndOf
      <3>3. CASE nodes[cur[t]].next # Nil
        <4> DEFINE e == nodes[cur[t]].next
        <4>1. e \in live /\ own[e] = t /\ nodes[e].prev = cur[t] /\ NodeKept(own, e)
          BY <2>1, <3>1, <3>3 DEF ListsKept, NodeKept
        <4>2. nodes[e].level = nodes[cur[t]].level + 1
          BY <2>2, <3>1, <4>1 DEF NodeKept
        <4>3. ASSUME nodes[e].next # Nil PROVE FALSE
          <5>1. /\ nodes[e].next \in live /\ own[nodes[e].next] = t
                /\ nodes[nodes[e].next].prev = e
            BY <4>1, <4>3 DEF NodeKept
          <5>2. NodeKept(own, nodes[e].next)
            BY <2>1, <5>1, SMTT(30) DEF ListsKept
          <5>3. nodes[nodes[e].next].level = nodes[e].level + 1
            BY <2>2, <4>1, <5>1, <5>2, ZenonT(40) DEF NodeKept
          <5>4. nodes[nodes[e].next].level <= nodes[cur[t]].level + 1
            BY <5>1, <5>2 DEF NodeKept
          <5> QED
            BY <2>2, <3>1, <4>2, <5>3, <5>4
        <4> QED
          BY <3>3, <4>1, <4>3, SMTT(30) DEF EndOf
      <3> QED
        BY <3>2, <3>3
    <2>4. ASSUME NEW n \in live, nodes[n].next = Nil PROVE own[n] \in running /\ n = EndOf(own[n])
      <3>1. NodeKept(own, n) /\ own[n] \in running
        BY <2>1 DEF ListsKept, NodeKept
      <3>2. ~(nodes[n].level < nodes[cur[own[n]]].level)
        BY <2>4, <3>1 DEF NodeKept
      <3>3. \/ n = cur[own[n]]
            \/ nodes[n].level = nodes[cur[own[n]]].level + 1 /\ n = nodes[cur[own[n]]].next
        BY <2>1, <3>1, <3>2, EndOfList
      <3> QED
        BY <2>2, <2>4, <3>1, <3>3 DEF EndOf
    <2> QED
      BY <2>3, <2>4 DEF NoNodeLeak
  <1> QED
    BY <1>1, AlwaysInductive, PTL

\* The level of the current node counts the active calls with a context from
\* the list, which never exceed SSRJSON_OBJECT_HOOK_MAX_RECURSION: the check
\* of the level at the entry is a check of the nesting.
THEOREM LevelsCount == Spec => []LevelCountsCalls
  <1>1. Inductive => LevelCountsCalls
    <2> SUFFICES ASSUME NEW own, IInv(own), NEW t \in Threads
                 PROVE  LET k == Cardinality(ListCalls(t))
                        IN  /\ k <= HookMaxRecursion
                            /\ IF cur[t] = Nil THEN k = 0
                               ELSE k = nodes[cur[t]].level + 1 \/ (~gil /\ k = nodes[cur[t]].level)
      BY DEF Inductive, LevelCountsCalls
    <2>1. IF cur[t] = Nil THEN Cardinality(ListCalls(t)) = 0
          ELSE \/ Cardinality(ListCalls(t)) = nodes[cur[t]].level + 1
               \/ ~gil /\ Cardinality(ListCalls(t)) = nodes[cur[t]].level
      BY DEF IInv, DepthKept
    <2>2. cur[t] # Nil => nodes[cur[t]].level \in Nat /\ nodes[cur[t]].level < HookMaxRecursion
      BY DEF IInv, ListsKept, NodeKept, TypeOK, Node
    <2>3. Cardinality(ListCalls(t)) <= HookMaxRecursion
      BY <2>1, <2>2, ThreadsAssumption
    <2> QED
      BY <2>1, <2>3
  <1> QED
    BY <1>1, AlwaysInductive, PTL

\* At most one active call has _DefaultDecoderCtx, in all threads together: the
\* GIL and the absence of hooks keep the static context safe.
THEOREM DefaultKeptApart == Spec => []DefaultExclusive
  <1>1. Inductive => DefaultExclusive
    BY DEF Inductive, IInv
  <1> QED
    BY <1>1, AlwaysInductive, PTL

\* In the free-threaded build every active call finds what it wrote to its
\* stacks, whatever its hooks decode and whatever other threads do.
THEOREM BuffersKept == Spec => []BuffersIntactFT
  <1>1. Inductive => BuffersIntactFT
    BY DEF Inductive, IInv, HeldKept, BuffersIntactFT, BuffersIntact
  <1> QED
    BY <1>1, AlwaysInductive, PTL

-----------------------------------------------------------------------------
(* The free-threaded build implements the pool of private contexts. *)

LEMMA CallIdParts ==
    \A f \in CallIds : f[1] \in Threads /\ f[2] \in 1 .. MaxDepth /\ f = <<f[1], f[2]>>
  BY DEF CallIds

\* A call that begins in the context c, which no active call holds.
LEMMA EnterBegins ==
    ASSUME NEW own, IInv(own), ~gil, UNCHANGED gil, NEW t \in Threads, NEW c \in Contexts,
           NEW hooked \in BOOLEAN, MayCall(t), Enter(t, c, hooked), c \notin live
    PROVE  Pool!Next
  <1> DEFINE id == <<t, Len(calls[t]) + 1>>
  <1>1. TypeOK /\ HeldKept(own)
    BY DEF IInv
  <1>2. /\ \A u \in Threads \ {t} : calls'[u] = calls[u]
        /\ Len(calls'[t]) = Len(calls[t]) + 1 /\ Len(calls'[t]) <= MaxDepth
        /\ calls'[t][Len(calls[t]) + 1] = [ctx |-> c, hooked |-> hooked, at |-> "decoding"]
        /\ \A i \in 1 .. Len(calls[t]) : calls'[t][i] = calls[t][i]
    BY <1>1, EnterAppends
  <1>3. \A u \in Threads : Len(calls[u]) \in Nat
    BY <1>1 DEF TypeOK
  <1>4. id \in CallIds /\ id \notin Active /\ id[1] = t /\ id[2] = Len(calls[t]) + 1
    BY <1>2, <1>3, ThreadsAssumption DEF CallIds, Active
  <1>5. Active' = Active \cup {id}
    <2>1. ASSUME NEW f \in CallIds
          PROVE  f[2] <= Len(calls'[f[1]]) <=> f[2] <= Len(calls[f[1]]) \/ f = id
      <3>1. f[1] \in Threads /\ f[2] \in 1 .. MaxDepth /\ f = <<f[1], f[2]>>
        BY CallIdParts
      <3>2. CASE f[1] # t
        BY <1>2, <1>4, <3>2, <3>1
      <3>3. CASE f[1] = t
        BY <1>2, <1>3, <1>4, <3>1, <3>3
      <3> QED
        BY <3>2, <3>3
    <2> QED
      BY <1>4, <2>1 DEF Active
  <1>6. \A f \in Active : calls'[f[1]][f[2]] = calls[f[1]][f[2]]
    BY <1>2, <1>3, CallIdParts DEF Active
  <1>7. calls'[id[1]][id[2]].ctx = c
    BY <1>2, <1>4
  <1> HIDE DEF id
  <1>8. DOMAIN Held = Active /\ \A f \in Active : Held[f] = calls[f[1]][f[2]].ctx
    BY DEF Held
  <1>9. Held' = [f \in Active' |-> calls'[f[1]][f[2]].ctx]
    BY DEF Held
  <1>10. Held' = [g \in Active \cup {id} |-> IF g = id THEN c ELSE Held[g]]
    BY <1>4, <1>5, <1>6, <1>7, <1>8, <1>9
  <1>11. \A f \in Active : Held[f] \in live
    BY <1>1, <1>3, <1>8, CallIdParts DEF Active, HeldKept
  <1>12. c \notin Pool!Range(Held)
    BY <1>8, <1>11 DEF Pool!Range
  <1>13. Pool!Begin(id, c)
    BY <1>4, <1>8, <1>10, <1>12 DEF Pool!Begin
  <1> QED
    BY <1>4, <1>13 DEF Pool!Next

\* A call that returns gives its context back.
LEMMA ReturnEnds ==
    ASSUME TypeOK, ~gil, UNCHANGED gil, NEW t \in Threads, calls[t] # <<>>, Returned(t)
    PROVE  Pool!Next
  <1> DEFINE id == <<t, Len(calls[t])>>
  <1>1. /\ \A u \in Threads \ {t} : calls'[u] = calls[u]
        /\ Len(calls[t]) \in Nat \ {0} /\ Len(calls'[t]) = Len(calls[t]) - 1
        /\ \A i \in 1 .. Len(calls[t]) - 1 : calls'[t][i] = calls[t][i]
    BY ReturnedDrops
  <1>2. \A u \in Threads : Len(calls[u]) \in Nat
    BY DEF TypeOK
  <1>3. id \in CallIds /\ id \in Active /\ id[1] = t /\ id[2] = Len(calls[t])
    BY <1>1, ThreadsAssumption DEF CallIds, Active, TypeOK
  <1>4. Active' = Active \ {id}
    <2>1. ASSUME NEW f \in CallIds
          PROVE  f[2] <= Len(calls'[f[1]]) <=> f[2] <= Len(calls[f[1]]) /\ f # id
      <3>1. f[1] \in Threads /\ f[2] \in 1 .. MaxDepth /\ f = <<f[1], f[2]>>
        BY CallIdParts
      <3>2. CASE f[1] # t
        BY <1>1, <1>3, <3>1, <3>2
      <3>3. CASE f[1] = t
        BY <1>1, <1>3, <3>1, <3>3
      <3> QED
        BY <3>2, <3>3
    <2> QED
      BY <2>1 DEF Active
  <1>5. \A f \in Active \ {id} : calls'[f[1]][f[2]] = calls[f[1]][f[2]]
    <2> SUFFICES ASSUME NEW f \in Active \ {id} PROVE calls'[f[1]][f[2]] = calls[f[1]][f[2]]
      OBVIOUS
    <2>1. f[1] \in Threads /\ f[2] \in 1 .. Len(calls[f[1]]) /\ f = <<f[1], f[2]>>
      BY <1>2, CallIdParts DEF Active
    <2>2. CASE f[1] # t
      BY <1>1, <2>1, <2>2
    <2>3. CASE f[1] = t
      BY <1>1, <2>1, <2>3
    <2> QED
      BY <2>2, <2>3
  <1> HIDE DEF id
  <1>6. DOMAIN Held = Active /\ \A f \in Active : Held[f] = calls[f[1]][f[2]].ctx
    BY DEF Held
  <1>7. Held' = [f \in Active' |-> calls'[f[1]][f[2]].ctx]
    BY DEF Held
  <1>8. Held' = [f \in Active \ {id} |-> Held[f]]
    BY <1>4, <1>5, <1>6, <1>7
  <1>9. Pool!End(id)
    BY <1>3, <1>6, <1>8 DEF Pool!End, Pool!Restrict
  <1> QED
    BY <1>3, <1>9 DEF Pool!Next

\* A step that begins and ends no call, and every step of the GIL build.
LEMMA HeldStays ==
    ASSUME TypeOK, UNCHANGED gil,
           gil \/ \A u \in Threads : /\ Len(calls'[u]) = Len(calls[u])
                                     /\ \A i \in 1 .. Len(calls[u]) : calls'[u][i].ctx = calls[u][i].ctx
    PROVE  UNCHANGED Held
  <1>1. CASE gil
    BY <1>1 DEF Held
  <1>2. CASE ~gil
    <2>1. \A u \in Threads : Len(calls[u]) \in Nat
      BY DEF TypeOK
    <2>2. Active' = Active
      BY <1>2, CallIdParts DEF Active
    <2>3. \A f \in Active : calls'[f[1]][f[2]].ctx = calls[f[1]][f[2]].ctx
      BY <1>2, <2>1, CallIdParts DEF Active
    <2> QED
      BY <1>2, <2>2, <2>3 DEF Held
  <1> QED
    BY <1>1, <1>2

LEMMA NextImplementsPool == Inductive /\ [Next]_vars => [Pool!Next]_Held
  <1> SUFFICES ASSUME Inductive, [Next]_vars PROVE [Pool!Next]_Held
    OBVIOUS
  <1>1. PICK own \in [Nodes -> Threads \cup {Nil}] : IInv(own)
    BY DEF Inductive
  <1>2. TypeOK /\ ListsKept(own) /\ CallsKept
    BY <1>1 DEF IInv
  <1>3. CASE UNCHANGED vars \/ (gil /\ UNCHANGED gil)
    BY <1>2, <1>3, HeldStays DEF vars
  <1>4. ASSUME ~gil, UNCHANGED gil, NEW t \in Threads, EnterDefault(t) PROVE FALSE
    BY <1>4 DEF EnterDefault, UsesList
  <1>5. ASSUME ~gil, UNCHANGED gil, NEW t \in Threads, EnterFirst(t) \/ EnterGrow(t)
        PROVE  Pool!Next
    <2>1. PICK hooked \in BOOLEAN, n \in Nodes \ live : Enter(t, n, hooked) /\ MayCall(t)
      BY <1>5 DEF EnterFirst, EnterGrow
    <2> QED
      BY <1>1, <1>5, <2>1, EnterBegins DEF Contexts
  <1>6. ASSUME ~gil, UNCHANGED gil, NEW t \in Threads, EnterNext(t) PROVE FALSE
    <2>1. cur[t] # Nil /\ nodes[cur[t]].next # Nil /\ cur[t] \in live /\ own[cur[t]] = t
      BY <1>2, <1>6 DEF EnterNext, ListsKept
    <2>2. NodeKept(own, cur[t])
      BY <1>2, <2>1 DEF ListsKept
    <2> QED
      BY <1>6, <2>1, <2>2 DEF NodeKept
  <1>7. ASSUME NEW t \in Threads, UNCHANGED gil, CallHook(t) \/ HookReturns(t)
        PROVE  UNCHANGED Held
    <2> DEFINE n == Len(calls[t])
    <2>1. calls[t] # <<>> /\ calls[t] \in Seq(Call) /\ n \in Nat \ {0}
      BY <1>2, <1>7 DEF CallHook, HookReturns, At, TypeOK
    <2>2. PICK at : calls' = [calls EXCEPT ![t][n].at = at]
      BY <1>7 DEF CallHook, HookReturns
    <2>3. calls'[t] = [calls[t] EXCEPT ![n] = [calls[t][n] EXCEPT !.at = at]]
      BY <1>2, <2>2 DEF TypeOK
    <2>4. calls[t][n] \in Call
      BY <2>1
    <2>5. /\ Len(calls'[t]) = n
          /\ \A i \in 1 .. n : calls'[t][i].ctx = calls[t][i].ctx
      BY <2>1, <2>3, <2>4 DEF Call
    <2>6. \A u \in Threads \ {t} : calls'[u] = calls[u]
      BY <1>2, <2>2 DEF TypeOK
    <2> QED
      BY <1>2, <1>7, <2>5, <2>6, HeldStays
  <1>8. ASSUME ~gil, UNCHANGED gil, NEW t \in Threads,
               ReturnDefault(t) \/ ReturnGIL(t) \/ ReturnFT(t)
        PROVE  Pool!Next
    <2>1. calls[t] # <<>> /\ Returned(t)
      BY <1>8 DEF ReturnDefault, ReturnGIL, ReturnFT, At
    <2> QED
      BY <1>2, <1>8, <2>1, ReturnEnds
  <1>9. ASSUME NEW t \in Threads, UNCHANGED gil, ThreadExit(t) PROVE UNCHANGED Held
    <2>1. calls' = calls
      BY <1>9 DEF ThreadExit
    <2> QED
      BY <1>2, <1>9, <2>1, HeldStays
  <1> QED
    BY <1>3, <1>4, <1>5, <1>6, <1>7, <1>8, <1>9 DEF Next

\* The entry and exit of ssrjson_Decode implement the pool in the free-threaded
\* build: a call holds one context, its own, from its beginning to its end.
THEOREM PoolImplemented == Spec => ContextsArePrivate
  <1>1. Init => Pool!Init
    <2> SUFFICES ASSUME Init PROVE Held = <<>>
      BY DEF Pool!Init
    <2>1. Active = {}
      BY CallIdParts DEF Init, Active
    <2> QED
      BY <2>1 DEF Held
  <1>2. QED
    BY <1>1, AlwaysInductive, NextImplementsPool, PTL DEF Spec, ContextsArePrivate, Pool!Spec
=============================================================================
