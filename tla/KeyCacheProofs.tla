--------------------------- MODULE KeyCacheProofs ---------------------------
(***************************************************************************)
(* Whose references to keys there are, and that a key that is found is the *)
(* one that was read, for any keys, threads and hash, in both builds.      *)
(*                                                                         *)
(* RefsBalanced is inductive once it is known which tables there are and   *)
(* that the cache of the GIL build is empty while the module is not there  *)
(* (TablesKept).  A str that is freed has no place left, so no hint tells  *)
(* of it (HintsKept), and an address that is used again is in no slot.     *)
(***************************************************************************)
EXTENDS KeyCache, FiniteSetTheorems, TLAPS

\* The types, and the tables of each build.
TablesKept ==
    /\ gil \in Builds /\ module \in {"none", "ready"}
    /\ DOMAIN tables \subseteq (IF gil THEN {Global} ELSE Threads)
    /\ IsFiniteSet(DOMAIN tables)
    /\ \A c \in DOMAIN tables : DOMAIN tables[c] = Slots
    /\ \A c \in DOMAIN tables, s \in Slots : tables[c][s].key \in Objects \cup {Nil}
    /\ live \subseteq Objects
    /\ \A o \in live : strs[o].key \in Keys /\ strs[o].refs \in Nat
    /\ \A o \in live : strs[o] = [key |-> strs[o].key, refs |-> strs[o].refs]
    /\ held \in [Objects -> 0 .. MaxHeld] /\ lost \in [Objects -> Nat]
    /\ gil => DOMAIN tables = {Global} /\ \A o \in Objects : lost[o] = 0
    /\ gil /\ module = "none" => \A s \in Slots : tables[Global][s].key = Nil

\* The hint of a slot is that of the str it holds.
HintsKept ==
    \A c \in DOMAIN tables, s \in Slots :
        tables[c][s].key \in live => tables[c][s].hint = Hint(strs[tables[c][s].key].key)

KeyInv == TablesKept /\ RefsBalanced /\ HintsKept /\ HitIsTheKey

-----------------------------------------------------------------------------
(* Counting. *)

Total(o) == held[o] + Cardinality(Places(o)) + lost[o]

\* The places of a str are finitely many.
LEMMA PlacesFinite ==
    ASSUME IsFiniteSet(DOMAIN tables), NEW o
    PROVE  IsFiniteSet(Places(o)) /\ Cardinality(Places(o)) \in Nat
<1>1. IsFiniteSet((DOMAIN tables) \X Slots)
  BY SlotsAssumption, FS_Product
<1>2. Places(o) \in SUBSET ((DOMAIN tables) \X Slots)
  BY DEF Places
<1> QED
  BY <1>1, <1>2, FS_Subset, FS_CardinalityType

\* So are those in one table.
LEMMA HoldingFinite ==
    ASSUME NEW c, NEW o
    PROVE  IsFiniteSet(Holding(c, o)) /\ Cardinality(Holding(c, o)) \in Nat
<1>1. Holding(c, o) \in SUBSET Slots
  BY DEF Holding
<1> QED
  BY <1>1, SlotsAssumption, FS_Subset, FS_CardinalityType

\* The places in the tables are those in one of them and those in the others.
LEMMA PlacesSplit ==
    ASSUME IsFiniteSet(DOMAIN tables), NEW c \in DOMAIN tables, NEW o
    PROVE  LET others == {cs \in Places(o) : cs[1] # c}
           IN  /\ IsFiniteSet(others) /\ Cardinality(others) \in Nat
               /\ Cardinality(Places(o)) = Cardinality(Holding(c, o)) + Cardinality(others)
<1> DEFINE others == {cs \in Places(o) : cs[1] # c}
           here == {c} \X Holding(c, o)
<1>1. Places(o) = here \cup others /\ here \cap others = {}
  BY DEF Places, Holding
<1>2. IsFiniteSet(others) /\ Cardinality(others) \in Nat
  <2>1. others \in SUBSET Places(o)
    OBVIOUS
  <2> QED
    BY <2>1, PlacesFinite, FS_Subset, FS_CardinalityType
<1>3. IsFiniteSet(here) /\ Cardinality(here) = Cardinality({c}) * Cardinality(Holding(c, o))
  BY HoldingFinite, FS_Singleton, FS_Product
<1>4. Cardinality(here) = Cardinality(Holding(c, o))
  <2>1. Cardinality({c}) = 1
    BY FS_Singleton
  <2>2. \A n \in Nat : 1 * n = n
    OBVIOUS
  <2> QED
    BY <1>3, <2>1, <2>2, HoldingFinite
<1> HIDE DEF here, others
<1>5. Cardinality(here \cup others) =
          Cardinality(here) + Cardinality(others) - Cardinality(here \cap others)
  BY <1>2, <1>3, FS_Union
<1>6. Cardinality(here \cap others) = 0
  BY <1>1, FS_EmptySet
<1>7. Cardinality(Places(o)) = Cardinality(Holding(c, o)) + Cardinality(others)
  BY <1>1, <1>2, <1>4, <1>5, <1>6, HoldingFinite
<1> QED
  BY <1>2, <1>7 DEF others

\* What is left of the strs when d[o] references to each are given up.
LEMMA ReleasedStrs ==
    ASSUME TablesKept, NEW d, \A o \in live : d[o] \in Nat
    PROVE  /\ \A o \in live : o \in DOMAIN Released(d) <=> strs[o].refs > d[o]
           /\ DOMAIN Released(d) \subseteq live
           /\ \A o \in DOMAIN Released(d) :
                 /\ Released(d)[o] = [key |-> strs[o].key, refs |-> strs[o].refs - d[o]]
                 /\ Released(d)[o].key = strs[o].key
                 /\ Released(d)[o].refs = strs[o].refs - d[o]
                 /\ strs[o].refs - d[o] \in Nat
<1>1. DOMAIN Released(d) = {p \in live : strs[p].refs > d[p]}
  BY DEF Released
<1>2. ASSUME NEW o \in DOMAIN Released(d)
      PROVE  /\ Released(d)[o] = [key |-> strs[o].key, refs |-> strs[o].refs - d[o]]
             /\ strs[o].refs - d[o] \in Nat
  <2>1. o \in live /\ strs[o].refs > d[o] /\ Released(d)[o] = [strs[o] EXCEPT !.refs = @ - d[o]]
    BY <1>1, <1>2 DEF Released
  <2>2. /\ strs[o] = [key |-> strs[o].key, refs |-> strs[o].refs] /\ strs[o].refs \in Nat
        /\ d[o] \in Nat
    BY <2>1 DEF TablesKept
  <2>3. [strs[o] EXCEPT !.refs = @ - d[o]] = [key |-> strs[o].key, refs |-> strs[o].refs - d[o]]
    BY <2>2
  <2> QED
    BY <2>1, <2>2, <2>3
<1> QED
  BY <1>1, <1>2

-----------------------------------------------------------------------------
(* What is known of one str. *)

Balance(o) ==
    IF o \in live
    THEN strs[o].refs > 0 /\ strs[o].refs = Total(o)
    ELSE Places(o) = {} /\ held[o] = 0 /\ lost[o] = 0

LEMMA BalanceIs ==
    ASSUME live \subseteq Objects
    PROVE  RefsBalanced <=> \A o \in Objects : Balance(o)
  BY DEF RefsBalanced, Balance, Total

LEMMA BalanceKept == TablesKept' /\ (\A o \in Objects : Balance(o)') => RefsBalanced'
  BY DEF TablesKept, RefsBalanced, Balance, Total

\* The types of what is counted.
LEMMA Counted ==
    ASSUME TablesKept, NEW o \in Objects
    PROVE  /\ held[o] \in Nat /\ lost[o] \in Nat /\ Total(o) \in Nat
           /\ IsFiniteSet(Places(o)) /\ Cardinality(Places(o)) \in Nat
           /\ o \in live => strs[o].refs \in Nat /\ strs[o].key \in Keys
<1>1. held[o] \in Nat /\ lost[o] \in Nat
  BY DEF TablesKept
<1>2. IsFiniteSet(Places(o)) /\ Cardinality(Places(o)) \in Nat
  BY PlacesFinite DEF TablesKept
<1> QED
  BY <1>1, <1>2 DEF TablesKept, Total

\* d references to a str are given up, and as many that were counted: it is balanced
\* still, or freed when there is none left.
LEMMA GivenUp ==
    ASSUME TablesKept, TablesKept', NEW o \in Objects, o \in live, Balance(o), NEW d \in Int,
           o \in live' <=> strs[o].refs > d,
           o \in live' => strs'[o].refs = strs[o].refs - d,
           Total(o)' = Total(o) - d
    PROVE  Balance(o)'
<1>1. strs[o].refs \in Nat /\ strs[o].refs = Total(o)
  BY Counted DEF Balance
<1>2. /\ held'[o] \in Nat /\ lost'[o] \in Nat /\ Cardinality(Places(o)') \in Nat
      /\ IsFiniteSet(Places(o)')
  <2>1. /\ held'[o] \in Nat /\ lost'[o] \in Nat
    BY DEF TablesKept
  <2>2. IsFiniteSet(DOMAIN tables)'
    BY DEF TablesKept
  <2>3. IsFiniteSet((DOMAIN tables') \X Slots)
    BY <2>2, SlotsAssumption, FS_Product
  <2>4. Places(o)' \in SUBSET ((DOMAIN tables') \X Slots)
    BY DEF Places
  <2> QED
    BY <2>1, <2>3, <2>4, FS_Subset, FS_CardinalityType
<1>3. Total(o)' = held'[o] + Cardinality(Places(o)') + lost'[o]
  BY DEF Total
<1>4. CASE o \in live'
  <2>1. strs'[o].refs > 0 /\ strs'[o].refs = Total(o)'
    BY <1>1, <1>4
  <2> QED
    BY <1>4, <2>1 DEF Balance
<1>5. CASE o \notin live'
  <2>1. held'[o] + Cardinality(Places(o)') + lost'[o] <= 0
    BY <1>1, <1>3, <1>5
  <2>2. held'[o] = 0 /\ Cardinality(Places(o)') = 0 /\ lost'[o] = 0
    BY <1>2, <2>1
  <2>3. Places(o)' = {}
    BY <1>2, <2>2, FS_EmptySet
  <2> QED
    BY <1>5, <2>2, <2>3 DEF Balance
<1> QED
  BY <1>4, <1>5

\* A str that is not there stays away.
LEMMA StaysAway ==
    ASSUME NEW o \in Objects, o \notin live, o \notin live', Balance(o),
           held'[o] = held[o], lost'[o] = lost[o], Places(o)' = {}
    PROVE  Balance(o)'
  BY DEF Balance

-----------------------------------------------------------------------------
(* The actions. *)

\* The hints of slots that were there before, when no str became another one.
LEMMA HintsStay ==
    ASSUME HintsKept,
           \A c \in DOMAIN tables', s \in Slots :
              tables'[c][s].key \in live' =>
                 c \in DOMAIN tables /\ tables'[c][s] = tables[c][s] /\ tables[c][s].key \in live,
           \A o \in live' : o \in live => strs'[o].key = strs[o].key
    PROVE  HintsKept'
<1> SUFFICES ASSUME NEW c \in DOMAIN tables', NEW s \in Slots, tables'[c][s].key \in live'
             PROVE  tables'[c][s].hint = Hint(strs'[tables'[c][s].key].key)
  BY DEF HintsKept, Hint
<1> QED
  BY DEF HintsKept, Hint

LEMMA NothingHit == last' = NothingRead => HitIsTheKey'
  BY DEF NothingRead, HitIsTheKey

LEMMA ExecKept == ASSUME KeyInv, Exec PROVE KeyInv'
<1> USE DEF KeyInv, live
<1>1. /\ module = "none" /\ module' = "ready" /\ last' = NothingRead
      /\ UNCHANGED <<gil, strs, held, lost>>
      /\ tables' = IF gil THEN [c \in {Global} |-> NoKeys] ELSE tables
  BY DEF Exec
<1>2. /\ DOMAIN tables' = DOMAIN tables
      /\ \A c \in DOMAIN tables : DOMAIN tables'[c] = Slots
      /\ \A c \in DOMAIN tables, s \in Slots : tables'[c][s].key = tables[c][s].key
  BY <1>1 DEF TablesKept, NoKeys, Empty
<1>3. TablesKept'
  BY <1>1, <1>2 DEF TablesKept
<1>4. \A o \in Objects : Balance(o)'
  <2> SUFFICES ASSUME NEW o \in Objects PROVE Balance(o)'
    OBVIOUS
  <2>1. Places(o)' = Places(o)
    BY <1>2 DEF Places
  <2>2. Balance(o)
    BY BalanceIs DEF TablesKept
  <2> QED
    BY <1>1, <2>1, <2>2 DEF Balance, Total
<1>5. HintsKept'
  <2>1. ASSUME NEW c \in DOMAIN tables, NEW s \in Slots, tables[c][s].key \in live
        PROVE  ~gil
    BY <1>1, <2>1, ObjectsAssumption DEF TablesKept
  <2> QED
    BY <1>1, <1>2, <2>1, HintsStay
<1> QED
  BY <1>1, <1>3, <1>4, <1>5, BalanceKept, NothingHit

LEMMA MakeTableKept == ASSUME KeyInv, NEW t \in Threads, MakeTable(t) PROVE KeyInv'
<1> USE DEF KeyInv, live
<1>1. /\ ~gil /\ t \notin DOMAIN tables /\ DOMAIN tables' = DOMAIN tables \cup {t}
      /\ \A c \in DOMAIN tables : tables'[c] = tables[c]
      /\ tables'[t] = NoKeys /\ last' = NothingRead /\ UNCHANGED <<gil, module, strs, held, lost>>
  BY DEF MakeTable
<1>2. DOMAIN tables'[t] = Slots /\ \A s \in Slots : tables'[t][s].key = Nil
  BY <1>1 DEF NoKeys, Empty
<1>3. TablesKept'
  <2>1. IsFiniteSet(DOMAIN tables')
    BY <1>1, FS_AddElement DEF TablesKept
  <2> QED
    BY <1>1, <1>2, <2>1 DEF TablesKept
<1>4. \A o \in Objects : Balance(o)'
  <2> SUFFICES ASSUME NEW o \in Objects PROVE Balance(o)'
    OBVIOUS
  <2>1. Places(o)' = Places(o)
    BY <1>1, <1>2, ObjectsAssumption DEF Places
  <2>2. Balance(o)
    BY BalanceIs DEF TablesKept
  <2> QED
    BY <1>1, <2>1, <2>2 DEF Balance, Total
<1>5. HintsKept'
  BY <1>1, <1>2, HintsStay, ObjectsAssumption DEF TablesKept
<1> QED
  BY <1>1, <1>3, <1>4, <1>5, BalanceKept, NothingHit

LEMMA NoPlaces ==
    ASSUME TablesKept, \A c \in DOMAIN tables', s \in Slots : tables'[c][s].key = Nil
    PROVE  \A o \in Objects : Places(o)' = {} /\ Cardinality(Places(o)') = 0
  BY ObjectsAssumption, FS_EmptySet DEF Places

LEMMA ModuleFreeKept == ASSUME KeyInv, ModuleFree PROVE KeyInv'
<1> USE DEF KeyInv, live
<1>1. module' = "none" /\ last' = NothingRead /\ UNCHANGED <<gil, held>>
  BY DEF ModuleFree
<1>2. /\ \A c \in DOMAIN tables' : DOMAIN tables'[c] = Slots
      /\ \A c \in DOMAIN tables', s \in Slots : tables'[c][s].key = Nil
  BY DEF ModuleFree, NoKeys, Empty
<1>3. \A o \in Objects : Places(o)' = {} /\ Cardinality(Places(o)') = 0
  BY <1>2, NoPlaces
<1>4. HintsKept'
  <2>1. live' \subseteq live
    BY ReleasedStrs, HoldingFinite DEF ModuleFree, FreedTable, Released
  <2> QED
    BY <1>2, <2>1, ObjectsAssumption DEF HintsKept, TablesKept
<1>5. CASE gil
  <2> DEFINE d == TableRefs(Global)
  <2>1. /\ strs' = Released(d) /\ lost' = lost /\ DOMAIN tables' = {Global}
        /\ DOMAIN tables = {Global}
    BY <1>5 DEF ModuleFree, FreedTable, TablesKept
  <2>2. \A o \in live : d[o] = Cardinality(Holding(Global, o)) /\ d[o] \in Nat
    BY HoldingFinite DEF TableRefs
  <2> HIDE DEF d
  <2>3. /\ \A o \in live : o \in live' <=> strs[o].refs > d[o]
        /\ live' \subseteq live
        /\ \A o \in live' : /\ strs'[o] = [key |-> strs[o].key, refs |-> strs[o].refs - d[o]]
                            /\ strs'[o].key = strs[o].key
                            /\ strs'[o].refs = strs[o].refs - d[o] /\ strs[o].refs - d[o] \in Nat
    BY <2>1, <2>2, ReleasedStrs
  <2>4. TablesKept'
    BY <1>1, <1>2, <2>1, <2>3, FS_Singleton DEF TablesKept
  <2>5. \A o \in Objects : Balance(o)'
    <3> SUFFICES ASSUME NEW o \in Objects PROVE Balance(o)'
      OBVIOUS
    <3>1. Balance(o)
      BY BalanceIs DEF TablesKept
    <3>2. CASE o \notin live
      BY <1>1, <1>3, <2>1, <2>3, <3>1, <3>2, StaysAway
    <3>3. CASE o \in live
      <4>1. Cardinality(Places(o)) = d[o]
        <5> DEFINE others == {cs \in Places(o) : cs[1] # Global}
        <5>1. others = {}
          BY <2>1 DEF Places
        <5>2. /\ Cardinality(Places(o)) = Cardinality(Holding(Global, o)) + Cardinality(others)
          BY <2>1, PlacesSplit DEF TablesKept
        <5> HIDE DEF others
        <5>3. Cardinality(others) = 0
          BY <5>1, FS_EmptySet
        <5> QED
          BY <2>2, <3>3, <5>2, <5>3
      <4>2. Total(o) = held[o] + d[o] + lost[o] /\ Total(o)' = held[o] + 0 + lost[o]
        BY <1>1, <1>3, <2>1, <4>1 DEF Total
      <4>3. Total(o)' = Total(o) - d[o] /\ d[o] \in Int
        BY <2>2, <3>3, <4>2, Counted
      <4> QED
        BY <2>3, <2>4, <3>1, <3>3, <4>3, GivenUp
    <3> QED
      BY <3>2, <3>3
  <2> QED
    BY <1>1, <1>4, <2>4, <2>5, BalanceKept, NothingHit
<1>6. CASE ~gil
  <2>1. /\ lost' = [o \in Objects |-> lost[o] + Cardinality(Places(o))]
        /\ strs' = strs /\ DOMAIN tables' = {}
    BY <1>6 DEF ModuleFree
  <2>2. \A o \in Objects : lost'[o] = lost[o] + Cardinality(Places(o)) /\ lost'[o] \in Nat
    BY <2>1, Counted
  <2>3. TablesKept'
    BY <1>1, <1>2, <1>6, <2>1, <2>2, FS_EmptySet DEF TablesKept
  <2>4. \A o \in Objects : Balance(o)'
    <3> SUFFICES ASSUME NEW o \in Objects PROVE Balance(o)'
      OBVIOUS
    <3>1. Balance(o)
      BY BalanceIs DEF TablesKept
    <3>2. CASE o \notin live
      <4>1. Places(o) = {}
        BY <3>1, <3>2 DEF Balance
      <4>2. Cardinality(Places(o)) = 0
        BY <4>1, FS_EmptySet
      <4>3. lost'[o] = 0
        BY <2>2, <3>1, <3>2, <4>2 DEF Balance
      <4> QED
        BY <1>1, <1>3, <2>1, <3>1, <3>2, <4>3 DEF Balance
    <3>3. CASE o \in live
      <4>1. Total(o)' = held[o] + 0 + (lost[o] + Cardinality(Places(o)))
        BY <1>1, <1>3, <2>2 DEF Total
      <4>2. Total(o)' = Total(o)
        BY <4>1, Counted DEF Total
      <4> QED
        BY <2>1, <3>1, <3>3, <4>2 DEF Balance
    <3> QED
      BY <3>2, <3>3
  <2> QED
    BY <1>1, <1>4, <2>3, <2>4, BalanceKept, NothingHit
<1> QED
  BY <1>5, <1>6

LEMMA ThreadExitKept == ASSUME KeyInv, NEW t \in Threads, ThreadExit(t) PROVE KeyInv'
<1> USE DEF KeyInv, live
<1> DEFINE d == TableRefs(t)
           others(o) == {cs \in Places(o) : cs[1] # t}
<1>1. /\ ~gil /\ t \in DOMAIN tables /\ last' = NothingRead /\ UNCHANGED <<gil, module, held>>
      /\ DOMAIN tables' = DOMAIN tables \ {t}
      /\ \A c \in DOMAIN tables' : tables'[c] = tables[c]
      /\ \/ strs' = Released(d) /\ lost' = lost
         \/ /\ strs' = strs
            /\ lost' = [o \in Objects |-> lost[o] + Cardinality(Holding(t, o))]
  BY DEF ThreadExit
<1>2. \A o \in live : d[o] = Cardinality(Holding(t, o)) /\ d[o] \in Nat
  BY HoldingFinite DEF TableRefs
<1> HIDE DEF d
<1>3. \A o \in Objects : /\ Places(o)' = others(o)
                         /\ Cardinality(Places(o)) = Cardinality(Holding(t, o)) + Cardinality(Places(o)')
                         /\ Cardinality(Places(o)') \in Nat
  <2> SUFFICES ASSUME NEW o \in Objects
               PROVE  /\ Places(o)' = others(o)
                      /\ Cardinality(Places(o)) = Cardinality(Holding(t, o)) + Cardinality(others(o))
                      /\ Cardinality(others(o)) \in Nat
    OBVIOUS
  <2>1. Places(o)' = others(o)
    BY <1>1 DEF Places
  <2> QED
    BY <1>1, <2>1, PlacesSplit DEF TablesKept
<1> HIDE DEF others
<1>4. IsFiniteSet(DOMAIN tables')
  BY <1>1, FS_RemoveElement DEF TablesKept
<1>5. CASE strs' = Released(d) /\ lost' = lost
  <2>1. /\ \A o \in live : o \in live' <=> strs[o].refs > d[o]
        /\ live' \subseteq live
        /\ \A o \in live' : /\ strs'[o] = [key |-> strs[o].key, refs |-> strs[o].refs - d[o]]
                            /\ strs'[o].key = strs[o].key
                            /\ strs'[o].refs = strs[o].refs - d[o] /\ strs[o].refs - d[o] \in Nat
    BY <1>2, <1>5, ReleasedStrs
  <2>2. TablesKept'
    BY <1>1, <1>4, <1>5, <2>1 DEF TablesKept
  <2>3. \A o \in Objects : Balance(o)'
    <3> SUFFICES ASSUME NEW o \in Objects PROVE Balance(o)'
      OBVIOUS
    <3>1. Balance(o)
      BY BalanceIs DEF TablesKept
    <3>2. CASE o \notin live
      <4>1. Places(o)' = {}
        BY <1>3, <3>1, <3>2 DEF Balance, others
      <4> QED
        BY <1>1, <1>5, <2>1, <3>1, <3>2, <4>1, StaysAway
    <3>3. CASE o \in live
      <4>1. Total(o)' = held[o] + Cardinality(Places(o)') + lost[o]
        BY <1>1, <1>5 DEF Total
      <4>2. Total(o) = held[o] + (d[o] + Cardinality(Places(o)')) + lost[o]
        BY <1>2, <1>3, <3>3 DEF Total
      <4>3. Total(o)' = Total(o) - d[o] /\ d[o] \in Int
        BY <1>2, <1>3, <3>3, <4>1, <4>2, Counted
      <4> QED
        BY <2>1, <2>2, <3>1, <3>3, <4>3, GivenUp
    <3> QED
      BY <3>2, <3>3
  <2>4. HintsKept'
    BY <1>1, <2>1, HintsStay
  <2> QED
    BY <1>1, <2>2, <2>3, <2>4, BalanceKept, NothingHit
<1>6. CASE strs' = strs /\ lost' = [o \in Objects |-> lost[o] + Cardinality(Holding(t, o))]
  <2>1. \A o \in Objects : lost'[o] = lost[o] + Cardinality(Holding(t, o)) /\ lost'[o] \in Nat
    BY <1>6, Counted, HoldingFinite
  <2>2. TablesKept'
    BY <1>1, <1>4, <1>6, <2>1 DEF TablesKept
  <2>3. \A o \in Objects : Balance(o)'
    <3> SUFFICES ASSUME NEW o \in Objects PROVE Balance(o)'
      OBVIOUS
    <3>1. Balance(o)
      BY BalanceIs DEF TablesKept
    <3>2. CASE o \notin live
      <4>1. Places(o)' = {} /\ Holding(t, o) = {}
        <5>1. Places(o) = {}
          BY <3>1, <3>2 DEF Balance
        <5>2. ASSUME NEW s \in Holding(t, o) PROVE <<t, s>> \in Places(o)
          BY <1>1, <5>2 DEF Holding, Places
        <5> QED
          BY <1>3, <5>1, <5>2 DEF others
      <4>2. lost'[o] = 0
        <5>1. Cardinality(Holding(t, o)) = 0
          BY <4>1, FS_EmptySet
        <5> QED
          BY <2>1, <3>1, <3>2, <5>1 DEF Balance
      <4> QED
        BY <1>1, <1>6, <3>1, <3>2, <4>1, <4>2 DEF Balance
    <3>3. CASE o \in live
      <4>1. Total(o)' = held[o] + Cardinality(Places(o)') + (lost[o] + Cardinality(Holding(t, o)))
        BY <1>1, <2>1 DEF Total
      <4>2. Total(o) = held[o] + (Cardinality(Holding(t, o)) + Cardinality(Places(o)')) + lost[o]
        BY <1>3 DEF Total
      <4>3. Total(o)' = Total(o)
        BY <1>3, <4>1, <4>2, Counted, HoldingFinite
      <4> QED
        BY <1>6, <3>1, <3>3, <4>3 DEF Balance
    <3> QED
      BY <3>2, <3>3
  <2>4. HintsKept'
    BY <1>1, <1>6, HintsStay
  <2> QED
    BY <1>1, <2>2, <2>3, <2>4, BalanceKept, NothingHit
<1> QED
  BY <1>1, <1>5, <1>6

LEMMA DropRefKept == ASSUME KeyInv, NEW o \in Objects, DropRef(o) PROVE KeyInv'
<1> USE DEF KeyInv, live
<1> DEFINE d == [p \in live |-> IF p = o THEN 1 ELSE 0]
<1>1. /\ held[o] > 0 /\ held' = [held EXCEPT ![o] = @ - 1] /\ last' = NothingRead
      /\ strs' = Released(d) /\ UNCHANGED <<gil, module, tables, lost>>
  BY DEF DropRef
<1>2. \A p \in live : d[p] = (IF p = o THEN 1 ELSE 0) /\ d[p] \in Nat
  OBVIOUS
<1> HIDE DEF d
<1>3. /\ \A p \in live : p \in live' <=> strs[p].refs > d[p]
      /\ live' \subseteq live
      /\ \A p \in live' : /\ strs'[p] = [key |-> strs[p].key, refs |-> strs[p].refs - d[p]]
                          /\ strs'[p].key = strs[p].key
                          /\ strs'[p].refs = strs[p].refs - d[p] /\ strs[p].refs - d[p] \in Nat
  BY <1>1, <1>2, ReleasedStrs
<1>4. held' \in [Objects -> 0 .. MaxHeld]
  BY <1>1, BoundsAssumption DEF TablesKept
<1>5. TablesKept'
  BY <1>1, <1>3, <1>4 DEF TablesKept
<1>6. \A p \in Objects : Balance(p)'
  <2> SUFFICES ASSUME NEW p \in Objects PROVE Balance(p)'
    OBVIOUS
  <2>1. Balance(p) /\ Places(p)' = Places(p)
    BY <1>1, BalanceIs DEF TablesKept, Places
  <2>2. held'[p] = IF p = o THEN held[p] - 1 ELSE held[p]
    BY <1>1 DEF TablesKept
  <2>3. CASE p \notin live
    <3>1. p # o /\ Places(p)' = {}
      BY <1>1, <2>1, <2>3 DEF Balance
    <3> QED
      BY <1>1, <1>3, <2>1, <2>2, <2>3, <3>1, StaysAway
  <2>4. CASE p \in live
    <3>1. Total(p)' = held'[p] + Cardinality(Places(p)) + lost[p]
      BY <1>1, <2>1 DEF Total
    <3>2. Total(p)' = Total(p) - d[p] /\ d[p] \in Int
      BY <1>2, <2>2, <2>4, <3>1, Counted DEF Total
    <3> QED
      BY <1>3, <1>5, <2>1, <2>4, <3>2, GivenUp
  <2> QED
    BY <2>3, <2>4
<1>7. HintsKept'
  BY <1>1, <1>3, HintsStay
<1> QED
  BY <1>1, <1>5, <1>6, <1>7, BalanceKept, NothingHit

\* Two keys with the same bytes and the same hint are one.
LEMMA SameKey ==
    ASSUME NEW k \in Keys, NEW q \in Keys, Hint(q) = Hint(k), q.bytes = k.bytes
    PROVE  q = k
<1>1. <<Len(q.bytes), q.kind>> = <<Len(k.bytes), k.kind>>
  BY DEF Hint
<1>2. \A x1, x2, y1, y2 : <<x1, x2>> = <<y1, y2>> => x2 = y2
  OBVIOUS
<1>3. q.kind = k.kind
  BY <1>1, <1>2, Zenon
<1>4. /\ q = [kind |-> q.kind, bytes |-> q.bytes]
      /\ k = [kind |-> k.kind, bytes |-> k.bytes]
  BY KeysAssumption
<1> QED
  BY <1>3, <1>4

\* A key that is found: the hint and the bytes of the str that is held are its own,
\* and so is the kind.
LEMMA HitKept ==
    ASSUME KeyInv, NEW t, NEW k \in Keys, TableOf(t) \in DOMAIN tables, Hit(t, k)
    PROVE  KeyInv'
<1> DEFINE c == TableOf(t)
           s == SlotOf[k.bytes]
           o == tables[c][s].key
<1>1. /\ o # Nil /\ tables[c][s].hint = Hint(k) /\ strs[o].key.bytes = k.bytes
      /\ held[o] < MaxHeld
      /\ strs' = [strs EXCEPT ![o].refs = @ + 1] /\ held' = [held EXCEPT ![o] = @ + 1]
      /\ last' = [key |-> k, str |-> o] /\ UNCHANGED <<gil, module, tables, lost>>
  <2>1. IsHit(tables[c][s], k) /\ held[o] < MaxHeld
    BY ZenonT(30) DEF Hit
  <2>2. /\ strs' = [strs EXCEPT ![o].refs = @ + 1] /\ held' = [held EXCEPT ![o] = @ + 1]
        /\ last' = [key |-> k, str |-> o] /\ UNCHANGED <<gil, module, tables, lost>>
    BY ZenonT(30) DEF Hit
  <2> QED
    BY <2>1, <2>2, ZenonT(30) DEF IsHit
<1> USE DEF KeyInv, live
<1>2. c \in DOMAIN tables /\ s \in Slots /\ o \in Objects
  <2>1. c \in DOMAIN tables
    OBVIOUS
  <2>2. s \in Slots
    BY KeysAssumption
  <2>3. tables[c][s].key \in Objects \cup {Nil}
    <3> HIDE DEF c, s
    <3> QED
      BY <2>1, <2>2 DEF TablesKept
  <2> QED
    BY <1>1, <2>1, <2>2, <2>3
<1>3. <<c, s>> \in Places(o)
  BY <1>2 DEF Places
<1>4. o \in live
  BY <1>2, <1>3, BalanceIs, SMTT(30) DEF TablesKept, Balance
<1>5. strs[o].key = k
  <2>1. tables[c][s].hint = Hint(strs[o].key)
    BY <1>2, <1>4 DEF HintsKept
  <2>2. strs[o].key \in Keys
    BY <1>4 DEF TablesKept
  <2>3. Hint(strs[o].key) = Hint(k) /\ strs[o].key.bytes = k.bytes
    BY <1>1, <2>1, ZenonT(30)
  <2> HIDE DEF o
  <2> QED
    BY <2>2, <2>3, SameKey, ZenonT(30)
<1> HIDE DEF c, s, o
<1>6. /\ live' = live /\ held'[o] = held[o] + 1
      /\ \A p \in live : p # o => strs'[p] = strs[p]
      /\ \A p \in Objects : p # o => held'[p] = held[p]
  BY <1>1, <1>2 DEF TablesKept
<1>7. strs'[o] = [key |-> strs[o].key, refs |-> strs[o].refs + 1] /\ strs[o].refs \in Nat
  BY <1>1, <1>4 DEF TablesKept
<1>8. \A p \in live : strs'[p].key = strs[p].key
  BY <1>6, <1>7
<1>9. held' \in [Objects -> 0 .. MaxHeld]
  <2>1. held[o] \in 0 .. MaxHeld /\ held[o] + 1 \in 0 .. MaxHeld
    BY <1>1, <1>2, BoundsAssumption DEF TablesKept
  <2> QED
    BY <1>1, <2>1 DEF TablesKept
<1>10. TablesKept'
  <2>1. \A p \in live : strs'[p].key \in Keys /\ strs'[p].refs \in Nat
    BY <1>4, <1>6, <1>7 DEF TablesKept
  <2>2. \A p \in live : strs'[p] = [key |-> strs'[p].key, refs |-> strs'[p].refs]
    BY <1>4, <1>6, <1>7 DEF TablesKept
  <2> QED
    BY <1>1, <1>6, <1>9, <2>1, <2>2 DEF TablesKept
<1>11. \A p \in Objects : Balance(p)'
  <2> SUFFICES ASSUME NEW p \in Objects PROVE Balance(p)'
    OBVIOUS
  <2>1. Balance(p) /\ Places(p)' = Places(p)
    BY <1>1, BalanceIs DEF TablesKept, Places
  <2>2. CASE p = o
    <3>1. Total(p)' = held[o] + 1 + Cardinality(Places(p)) + lost[o]
      BY <1>1, <1>6, <2>1, <2>2 DEF Total
    <3>2. Total(p)' = Total(p) - (-1)
      BY <2>2, <3>1, Counted DEF Total
    <3>3. strs'[o].refs = strs[o].refs - (-1) /\ strs[o].refs > -1
      BY <1>7
    <3> QED
      BY <1>4, <1>6, <1>10, <2>1, <2>2, <3>2, <3>3, GivenUp
  <2>3. CASE p # o
    BY <1>1, <1>6, <2>1, <2>3 DEF Balance, Total
  <2> QED
    BY <2>2, <2>3
<1>12. HintsKept'
  BY <1>1, <1>6, <1>8, HintsStay
<1>13. HitIsTheKey'
  BY <1>1, <1>4, <1>5, <1>6, <1>7 DEF HitIsTheKey
<1> QED
  BY <1>10, <1>11, <1>12, <1>13, BalanceKept, SMTT(30)

\* A str that has no place is in no slot.
LEMMA NoSlotHolds ==
    ASSUME NEW o, Places(o) = {}
    PROVE  \A c \in DOMAIN tables, s \in Slots : tables[c][s].key # o
<1> SUFFICES ASSUME NEW c \in DOMAIN tables, NEW s \in Slots, tables[c][s].key = o PROVE FALSE
  OBVIOUS
<1>1. <<c, s>> \in Places(o)
  BY DEF Places
<1> QED
  BY <1>1

\* A key that is not found: its str is new, and so in no slot, and the str that makes
\* way for it has one place less.
LEMMA MissKept ==
    ASSUME KeyInv, NEW t, NEW k \in Keys, module = "ready", TableOf(t) \in DOMAIN tables, Miss(t, k)
    PROVE  KeyInv'
<1> USE DEF KeyInv
<1> DEFINE c == TableOf(t)
           s == SlotOf[k.bytes]
           old == tables[c][s].key
           d == [p \in live |-> IF p = old THEN 1 ELSE 0]
           rest == Released(d)
<1>1. PICK o \in Objects \ live :
         /\ strs' = WithNew(rest, o, k, 2)
         /\ tables' = [tables EXCEPT ![c][s] = [key |-> o, hint |-> Hint(k)]]
         /\ held' = [held EXCEPT ![o] = 1]
         /\ last' = [key |-> k, str |-> o]
  BY DEF Miss, Added
<1>2. UNCHANGED <<gil, module, lost>>
  BY DEF Miss
<1>3. c \in DOMAIN tables /\ s \in Slots /\ DOMAIN tables[c] = Slots
  BY KeysAssumption DEF TablesKept
<1>4. \A p \in live : d[p] = (IF p = old THEN 1 ELSE 0) /\ d[p] \in Nat
  OBVIOUS
<1> HIDE DEF d
<1>5. /\ \A p \in live : p \in DOMAIN rest <=> strs[p].refs > d[p]
      /\ DOMAIN rest \subseteq live
      /\ \A p \in DOMAIN rest : /\ rest[p] = [key |-> strs[p].key, refs |-> strs[p].refs - d[p]]
                                /\ rest[p].key = strs[p].key
                                /\ rest[p].refs = strs[p].refs - d[p]
                                /\ strs[p].refs - d[p] \in Nat
  BY <1>4, ReleasedStrs
<1> HIDE DEF rest
<1>6. /\ live' = DOMAIN rest \cup {o} /\ strs'[o] = [key |-> k, refs |-> 2]
      /\ \A p \in DOMAIN rest : strs'[p] = rest[p]
  <2>1. o \notin DOMAIN rest
    BY <1>1, <1>5
  <2>2. /\ DOMAIN WithNew(rest, o, k, 2) = DOMAIN rest \cup {o}
        /\ WithNew(rest, o, k, 2)[o] = [key |-> k, refs |-> 2]
        /\ \A p \in DOMAIN rest : WithNew(rest, o, k, 2)[p] = rest[p]
    BY <2>1 DEF WithNew
  <2> QED
    BY <1>1, <2>2 DEF live
<1>7. /\ DOMAIN tables' = DOMAIN tables
      /\ \A x \in DOMAIN tables : DOMAIN tables'[x] = Slots
      /\ \A x \in DOMAIN tables, y \in Slots : x # c \/ y # s => tables'[x][y] = tables[x][y]
      /\ tables'[c][s] = [key |-> o, hint |-> Hint(k)]
      /\ tables'[c][s].key = o /\ tables'[c][s].hint = Hint(k)
  BY <1>1, <1>3 DEF TablesKept
<1>8. held'[o] = 1 /\ held' \in [Objects -> 0 .. MaxHeld]
      /\ \A p \in Objects : p # o => held'[p] = held[p]
  BY <1>1, BoundsAssumption DEF TablesKept
<1> HIDE DEF c, s, old
<1>9. old \in Objects \cup {Nil} /\ tables[c][s].key = old
  BY <1>3 DEF TablesKept, old
<1>10. Places(o) = {} /\ held[o] = 0 /\ lost[o] = 0 /\ o # old
  <2>1. Balance(o) /\ o \notin live
    BY <1>1, BalanceIs DEF TablesKept
  <2>2. Places(o) = {} /\ held[o] = 0 /\ lost[o] = 0
    BY <2>1 DEF Balance
  <2>3. o = old => <<c, s>> \in Places(o)
    BY <1>3, <1>9 DEF Places
  <2> QED
    BY <2>2, <2>3
<1>11. /\ Places(o)' = {<<c, s>>}
       /\ \A p \in Objects : p # o => Places(p)' = Places(p) \ {<<c, s>>}
       /\ \A p \in Objects : <<c, s>> \in Places(p) <=> p = old
  <2>1. \A x \in DOMAIN tables, y \in Slots : x # c \/ y # s => tables[x][y].key # o
    BY <1>10, NoSlotHolds
  <2> QED
    BY <1>1, <1>3, <1>7, <1>9, <2>1 DEF Places
<1>12. TablesKept'
  <2>1. \A x \in DOMAIN tables, y \in Slots : tables'[x][y].key \in Objects \cup {Nil}
    BY <1>1, <1>7 DEF TablesKept
  <2>2. \A p \in live' : strs'[p].key \in Keys /\ strs'[p].refs \in Nat
    BY <1>5, <1>6 DEF TablesKept
  <2>3. \A p \in live' : strs'[p] = [key |-> strs'[p].key, refs |-> strs'[p].refs]
    BY <1>5, <1>6
  <2>4. live' \subseteq Objects
    BY <1>1, <1>5, <1>6 DEF TablesKept
  <2>5. module # "none"
    OBVIOUS
  <2> QED
    BY <1>2, <1>7, <1>8, <2>1, <2>2, <2>3, <2>4, <2>5 DEF TablesKept
<1>13. \A p \in Objects : Balance(p)'
  <2> SUFFICES ASSUME NEW p \in Objects PROVE Balance(p)'
    OBVIOUS
  <2>1. Balance(p)
    BY BalanceIs DEF TablesKept
  <2>2. CASE p = o
    <3>1. Cardinality(Places(o)') = 1
      BY <1>11, FS_Singleton
    <3>2. Total(o)' = 1 + 1 + 0
      BY <1>2, <1>8, <1>10, <3>1 DEF Total
    <3> QED
      BY <1>6, <2>2, <3>2 DEF Balance, live
  <2>3. CASE p # o /\ p \notin live
    <3>1. Places(p)' = {} /\ p \notin live'
      BY <1>5, <1>6, <1>11, <2>1, <2>3 DEF Balance
    <3> QED
      BY <1>2, <1>8, <2>1, <2>3, <3>1, StaysAway
  <2>4. CASE p # o /\ p \in live
    <3>1. Cardinality(Places(p)') = Cardinality(Places(p)) - d[p]
      <4>1. IsFiniteSet(Places(p)) /\ Cardinality(Places(p)) \in Nat
        BY Counted
      <4>2. CASE p = old
        <5>1. Cardinality(Places(p) \ {<<c, s>>}) = Cardinality(Places(p)) - 1
          BY <1>11, <4>1, <4>2, FS_RemoveElement
        <5> QED
          BY <1>4, <1>11, <2>4, <4>2, <5>1
      <4>3. CASE p # old
        <5>1. Places(p)' = Places(p)
          BY <1>11, <2>4, <4>3
        <5> QED
          BY <1>4, <2>4, <4>1, <4>3, <5>1
      <4> QED
        BY <4>2, <4>3
    <3>2. Total(p)' = held[p] + (Cardinality(Places(p)) - d[p]) + lost[p]
      BY <1>2, <1>8, <2>4, <3>1 DEF Total
    <3>3. Total(p)' = Total(p) - d[p] /\ d[p] \in Int
      BY <1>4, <2>4, <3>2, Counted DEF Total
    <3>4. p \in live' <=> strs[p].refs > d[p]
      BY <1>5, <1>6, <2>4
    <3>5. p \in live' => strs'[p].refs = strs[p].refs - d[p]
      BY <1>5, <1>6, <2>4
    <3> QED
      BY <1>12, <2>1, <2>4, <3>3, <3>4, <3>5, GivenUp
  <2> QED
    BY <2>2, <2>3, <2>4
<1>14. HintsKept'
  <2> SUFFICES ASSUME NEW x \in DOMAIN tables', NEW y \in Slots, tables'[x][y].key \in live'
               PROVE  tables'[x][y].hint = Hint(strs'[tables'[x][y].key].key)
    BY DEF HintsKept, Hint
  <2>1. CASE x = c /\ y = s
    <3>1. strs'[o].key = k
      BY <1>6
    <3> QED
      BY <1>7, <2>1, <3>1
  <2>2. CASE x # c \/ y # s
    <3>1. tables'[x][y] = tables[x][y] /\ x \in DOMAIN tables
      BY <1>7, <2>2
    <3>2. tables[x][y].key # o
      BY <1>10, <3>1, NoSlotHolds
    <3>3. tables[x][y].key \in DOMAIN rest /\ tables[x][y].key \in live
      BY <1>5, <1>6, <3>1, <3>2
    <3>4. strs'[tables[x][y].key].key = strs[tables[x][y].key].key
      BY <1>5, <1>6, <3>3
    <3> QED
      BY <3>1, <3>3, <3>4 DEF HintsKept
  <2> QED
    BY <2>1, <2>2
<1>15. HitIsTheKey'
  BY <1>1, <1>6 DEF HitIsTheKey
<1> QED
  BY <1>12, <1>13, <1>14, <1>15, BalanceKept

\* A key that is not looked for.
LEMMA PastTableKept == ASSUME KeyInv, NEW k \in Keys, PastTable(k) PROVE KeyInv'
<1> USE DEF KeyInv
<1>1. PICK o \in Objects \ live :
         /\ strs' = WithNew(strs, o, k, 1)
         /\ held' = [held EXCEPT ![o] = 1]
         /\ last' = [key |-> k, str |-> o]
  BY DEF PastTable
<1>2. UNCHANGED <<gil, module, tables, lost>>
  BY DEF PastTable
<1>3. /\ live' = live \cup {o} /\ strs'[o] = [key |-> k, refs |-> 1]
      /\ \A p \in live : strs'[p] = strs[p]
  <2>1. /\ DOMAIN WithNew(strs, o, k, 1) = DOMAIN strs \cup {o}
        /\ WithNew(strs, o, k, 1)[o] = [key |-> k, refs |-> 1]
        /\ \A p \in DOMAIN strs : WithNew(strs, o, k, 1)[p] = strs[p]
    BY <1>1 DEF WithNew, live
  <2> QED
    BY <1>1, <2>1 DEF live
<1>4. held'[o] = 1 /\ held' \in [Objects -> 0 .. MaxHeld]
      /\ \A p \in Objects : p # o => held'[p] = held[p]
  BY <1>1, BoundsAssumption DEF TablesKept
<1>5. Places(o) = {} /\ held[o] = 0 /\ lost[o] = 0
  <2>1. Balance(o) /\ o \notin live
    BY <1>1, BalanceIs DEF TablesKept
  <2> QED
    BY <2>1 DEF Balance
<1>6. \A p : Places(p)' = Places(p)
  BY <1>2 DEF Places
<1>7. TablesKept'
  <2>1. \A p \in live' : strs'[p].key \in Keys /\ strs'[p].refs \in Nat
    BY <1>3 DEF TablesKept
  <2>2. \A p \in live' : strs'[p] = [key |-> strs'[p].key, refs |-> strs'[p].refs]
    BY <1>3 DEF TablesKept
  <2> QED
    BY <1>1, <1>2, <1>3, <1>4, <2>1, <2>2 DEF TablesKept
<1>8. \A p \in Objects : Balance(p)'
  <2> SUFFICES ASSUME NEW p \in Objects PROVE Balance(p)'
    OBVIOUS
  <2>1. CASE p = o
    <3>1. Cardinality(Places(o)') = 0
      BY <1>5, <1>6, FS_EmptySet
    <3>2. Total(o)' = 1 + 0 + 0
      BY <1>2, <1>4, <1>5, <3>1 DEF Total
    <3> QED
      BY <1>3, <2>1, <3>2 DEF Balance, live
  <2>2. CASE p # o
    <3>1. Balance(p)
      BY BalanceIs DEF TablesKept
    <3>2. Total(p)' = Total(p)
      BY <1>2, <1>4, <1>6, <2>2 DEF Total
    <3>3. (p \in live' <=> p \in live) /\ (p \in live => strs'[p] = strs[p])
      BY <1>3, <2>2
    <3> QED
      BY <1>2, <1>4, <1>6, <2>2, <3>1, <3>2, <3>3 DEF Balance
  <2> QED
    BY <2>1, <2>2
<1>9. HintsKept'
  <2>1. \A c \in DOMAIN tables, s \in Slots : tables[c][s].key # o
    BY <1>5, NoSlotHolds
  <2>2. \A p \in live : strs'[p].key = strs[p].key
    BY <1>3
  <2> QED
    BY <1>2, <1>3, <2>1, <2>2, HintsStay DEF live
<1>10. HitIsTheKey'
  BY <1>1, <1>3 DEF HitIsTheKey
<1> QED
  BY <1>7, <1>8, <1>9, <1>10, BalanceKept

-----------------------------------------------------------------------------
(* The steps together. *)

LEMMA KeyInvInit == Init => KeyInv
<1> SUFFICES ASSUME Init PROVE KeyInv
  OBVIOUS
<1> USE DEF Init
<1>1. DOMAIN strs = {} /\ live = {}
  BY DEF live
<1>2. /\ DOMAIN tables = (IF gil THEN {Global} ELSE {})
      /\ \A c \in DOMAIN tables : tables[c] = NoKeys
  OBVIOUS
<1>3. \A c \in DOMAIN tables : DOMAIN tables[c] = Slots /\ \A s \in Slots : tables[c][s].key = Nil
  BY <1>2 DEF NoKeys, Empty
<1>4. IsFiniteSet(DOMAIN tables)
  BY <1>2, FS_EmptySet, FS_Singleton
<1>5. TablesKept
  BY <1>1, <1>2, <1>3, <1>4, BoundsAssumption DEF TablesKept
<1>6. RefsBalanced
  BY <1>1, <1>3, ObjectsAssumption DEF RefsBalanced, Places
<1>7. HintsKept
  BY <1>1 DEF HintsKept
<1>8. HitIsTheKey
  BY DEF HitIsTheKey, NothingRead
<1> QED
  BY <1>5, <1>6, <1>7, <1>8 DEF KeyInv

LEMMA KeyInvNext == KeyInv /\ [Next]_vars => KeyInv'
<1> SUFFICES ASSUME KeyInv, [Next]_vars PROVE KeyInv'
  OBVIOUS
<1>1. CASE Exec
  BY <1>1, ExecKept
<1>2. CASE ModuleFree
  BY <1>2, ModuleFreeKept
<1>3. ASSUME NEW t \in Threads, MakeTable(t) PROVE KeyInv'
  BY <1>3, MakeTableKept
<1>4. ASSUME NEW t \in Threads, ThreadExit(t) PROVE KeyInv'
  BY <1>4, ThreadExitKept
<1>5. ASSUME NEW t \in Threads, NEW k \in Keys, ReadKey(t, k) PROVE KeyInv'
  <2>1. module = "ready" /\ TableOf(t) \in DOMAIN tables /\ (Hit(t, k) \/ Miss(t, k) \/ PastTable(k))
    BY <1>5 DEF ReadKey
  <2>2. CASE Hit(t, k)
    BY <2>1, <2>2, HitKept
  <2>3. CASE Miss(t, k)
    BY <2>1, <2>3, MissKept
  <2>4. CASE PastTable(k)
    BY <2>4, PastTableKept
  <2> QED
    BY <2>1, <2>2, <2>3, <2>4
<1>6. ASSUME NEW o \in Objects, DropRef(o) PROVE KeyInv'
  BY <1>6, DropRefKept
<1>7. CASE UNCHANGED vars
  <2>1. /\ gil' = gil /\ module' = module /\ tables' = tables /\ strs' = strs
        /\ held' = held /\ lost' = lost /\ last' = last
    BY <1>7 DEF vars
  <2>2. \A o : Places(o)' = Places(o)
    BY <2>1 DEF Places
  <2>3. TablesKept' /\ HintsKept' /\ HitIsTheKey'
    BY <2>1 DEF KeyInv, TablesKept, HintsKept, HitIsTheKey, live, Hint
  <2>4. RefsBalanced'
    BY <2>1, <2>2 DEF KeyInv, RefsBalanced, live
  <2> QED
    BY <2>3, <2>4 DEF KeyInv
<1> QED
  BY <1>1, <1>2, <1>3, <1>4, <1>5, <1>6, <1>7 DEF Next

LEMMA KeyInvHolds == Spec => []KeyInv
  BY KeyInvInit, KeyInvNext, PTL DEF Spec

-----------------------------------------------------------------------------
\* The tables, strs and counts are always well formed, and a slot only holds a str
\* that has not been freed (get_key_cache reads it without a check).
THEOREM TypeCorrect == Spec => []TypeOK
<1>1. KeyInv => TypeOK
  <2> SUFFICES ASSUME KeyInv PROVE TypeOK
    OBVIOUS
  <2>1. ASSUME NEW c \in DOMAIN tables, NEW s \in Slots PROVE tables[c][s].key \in live \cup {Nil}
    <3>1. tables[c][s].key \in Objects \cup {Nil}
      BY DEF KeyInv, TablesKept
    <3>2. <<c, s>> \in Places(tables[c][s].key)
      BY DEF Places
    <3> QED
      BY <3>1, <3>2 DEF KeyInv, RefsBalanced
  <2> QED
    BY <2>1 DEF KeyInv, TablesKept, TypeOK
<1> QED
  BY <1>1, KeyInvHolds, PTL

\* Every reference to a key's str is the program's, a slot's or one forgotten with the
\* table of a thread, so none is released twice and none is kept too long, in both
\* builds and for any interleaving of threads (add_key_cache, module_free).
THEOREM ReferencesBalance == Spec => []RefsBalanced
<1>1. KeyInv => RefsBalanced
  BY DEF KeyInv
<1> QED
  BY <1>1, KeyInvHolds, PTL

\* A lookup never returns the str of another key, whatever the hash does
\* (get_key_cache compares the hint and the bytes).
THEOREM LookupsExact == Spec => []HitIsTheKey
<1>1. KeyInv => HitIsTheKey
  BY DEF KeyInv
<1> QED
  BY <1>1, KeyInvHolds, PTL

\* In the GIL build the freed module leaves no reference behind (module_free).
THEOREM NothingKept == Spec => []NothingLostGIL
<1>1. KeyInv => NothingLostGIL
  <2> SUFFICES ASSUME KeyInv, gil, module = "none", NEW o \in live
               PROVE  strs[o].refs = held[o]
    BY DEF NothingLostGIL
  <2>1. o \in Objects /\ held[o] \in Nat /\ lost[o] = 0
    BY DEF KeyInv, TablesKept
  <2>2. Places(o) = {}
    BY <2>1, ObjectsAssumption DEF KeyInv, TablesKept, Places
  <2>3. Cardinality(Places(o)) = 0
    BY <2>2, FS_EmptySet
  <2> QED
    BY <2>1, <2>3 DEF KeyInv, RefsBalanced
<1> QED
  BY <1>1, KeyInvHolds, PTL
=============================================================================
