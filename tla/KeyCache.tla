------------------------------ MODULE KeyCache ------------------------------
(***************************************************************************)
(* The cache of object keys, over the life of the module and its threads.  *)
(*                                                                         *)
(* A key of at most 64 bytes is looked up by the hash of its bytes in a    *)
(* table of 512 slots before a str is made of it, and put there after.     *)
(* The slot keeps a reference to the str and a hint, its length and kind.  *)
(* The GIL build has one table, cleared when the module is initialised and *)
(* released when it is freed; the free-threaded build has one in each      *)
(* thread, made by its first loads() and dropped by the destructor of the  *)
(* thread local data, or forgotten when the module is freed and deletes    *)
(* the thread local key.                                                   *)
(*                                                                         *)
(* A key is what the str holds: its kind (0 is ASCII, otherwise the bytes  *)
(* of a character) and the bytes of its characters, so that keys of two    *)
(* kinds may have the same bytes.  Reading one is a single step: no Python *)
(* code runs in it, and a thread's table is its own.                       *)
(***************************************************************************)
EXTENDS Integers, Sequences, FiniteSets

CONSTANTS
    Threads,
    Keys,           \* the keys in documents: [kind, bytes]
    Slots,
    SlotOf,         \* SlotOf[bytes]: REHASHER of the hash
    CacheLimit,     \* 64
    Objects,        \* bound: addresses of strs
    MaxHeld,        \* bound: references to a str the program holds
    Builds,         \* the values of SSRJSON_GIL_ENABLED to look at
    Global,         \* _DecodeKeyCache
    Nil             \* NULL

ASSUME KeysAssumption ==
    \A k \in Keys : /\ k = [kind |-> k.kind, bytes |-> k.bytes]
                    /\ k.kind \in {0, 1, 2, 4} /\ SlotOf[k.bytes] \in Slots
ASSUME SlotsAssumption == IsFiniteSet(Slots)
ASSUME ObjectsAssumption == Nil \notin Objects /\ Global \notin Threads /\ Builds \subseteq BOOLEAN
ASSUME BoundsAssumption == CacheLimit \in Nat /\ MaxHeld \in Nat \ {0}

VARIABLES
    gil,        \* SSRJSON_GIL_ENABLED
    module,     \* "none", or "ready" from the end of ssrjson_exec to module_free
    tables,     \* tables[c]: the slots of a table; the tables there are, its domain
    strs,       \* the strs allocated: the key each holds and its references
    held,       \* held[o]: references to o in dicts and elsewhere in the program
    lost,       \* lost[o]: references from tables that were dropped unreleased
    last        \* the key just read and the str it became

vars == <<gil, module, tables, strs, held, lost, last>>

live == DOMAIN strs
Empty == [key |-> Nil, hint |-> <<0, 0>>]
NoKeys == [s \in Slots |-> Empty]
NothingRead == [key |-> Nil, str |-> Nil]

TypeOK ==
    /\ gil \in Builds /\ module \in {"none", "ready"}
    /\ DOMAIN tables \subseteq (IF gil THEN {Global} ELSE Threads)
    /\ \A c \in DOMAIN tables, s \in Slots : tables[c][s].key \in live \cup {Nil}
    /\ live \subseteq Objects
    /\ \A o \in live : strs[o].key \in Keys /\ strs[o].refs \in Nat
    /\ held \in [Objects -> 0 .. MaxHeld] /\ lost \in [Objects -> Nat]

Init ==
    /\ gil \in Builds
    /\ module = "none"
    /\ tables = (IF gil THEN [c \in {Global} |-> NoKeys] ELSE [c \in {} |-> NoKeys])
    /\ strs = [o \in {} |-> Nil]
    /\ held = [o \in Objects |-> 0] /\ lost = [o \in Objects |-> 0]
    /\ last = NothingRead

-----------------------------------------------------------------------------
\* The slots of table c that hold o.
Holding(c, o) == {s \in Slots : tables[c][s].key = o}

\* The places in tables that hold o.
Places(o) == {cs \in (DOMAIN tables) \X Slots : tables[cs[1]][cs[2]].key = o}

\* The strs after references to them were given up, d[o] to each: those without
\* any are freed.
Released(d) ==
    [o \in {p \in live : strs[p].refs > d[p]} |-> [strs[o] EXCEPT !.refs = @ - d[o]]]

\* Python's references to the strs of a table, when all are given up.
TableRefs(c) == [o \in live |-> Cardinality(Holding(c, o))]

\* The end of ssrjson_exec: in the GIL build the table is zeroed.
Exec ==
    /\ module = "none"
    /\ module' = "ready"
    /\ tables' = IF gil THEN [c \in {Global} |-> NoKeys] ELSE tables
    /\ last' = NothingRead
    /\ UNCHANGED <<gil, strs, held, lost>>

\* Mutant: the table is cleared without its references.
FreedTableMut == strs

FreedTable == Released(TableRefs(Global))

\* module_free: the table of the GIL build is released; those of the threads
\* become unreachable with the key that is deleted, and no destructor runs.
ModuleFree ==
    /\ module = "ready"
    /\ module' = "none"
    /\ last' = NothingRead
    /\ IF gil
       THEN /\ strs' = FreedTable
            /\ tables' = [c \in {Global} |-> NoKeys]
            /\ UNCHANGED lost
       ELSE /\ lost' = [o \in Objects |-> lost[o] + Cardinality(Places(o))]
            /\ tables' = [c \in {} |-> NoKeys]
            /\ UNCHANGED strs
    /\ UNCHANGED <<gil, held>>

\* get_tls_decoder_key_cache in the first loads() of a thread.
MakeTable(t) ==
    /\ ~gil /\ module = "ready" /\ t \notin DOMAIN tables
    /\ tables' = [c \in DOMAIN tables \cup {t} |-> IF c = t THEN NoKeys ELSE tables[c]]
    /\ last' = NothingRead
    /\ UNCHANGED <<gil, module, strs, held, lost>>

\* The thread ends: its table is released if there is still a thread state,
\* and otherwise only freed.
ThreadExit(t) ==
    /\ ~gil /\ t \in DOMAIN tables
    /\ \/ /\ strs' = Released(TableRefs(t))
          /\ UNCHANGED lost
       \/ /\ lost' = [o \in Objects |-> lost[o] + Cardinality(Holding(t, o))]
          /\ UNCHANGED strs
    /\ tables' = [c \in DOMAIN tables \ {t} |-> tables[c]]
    /\ last' = NothingRead
    /\ UNCHANGED <<gil, module, held>>

-----------------------------------------------------------------------------
\* Mutant: the hint has no kind.
HintMut(k) == <<Len(k.bytes), 0>>

\* make_key_hint: the size in bytes and the kind.
Hint(k) == <<Len(k.bytes), k.kind>>

TableOf(t) == IF gil THEN Global ELSE t

\* get_key_cache finds k in this slot.
IsHit(slot, k) ==
    /\ slot.key # Nil
    /\ slot.hint = Hint(k)
    /\ strs[slot.key].key.bytes = k.bytes

\* The key is in the table of the thread: a new reference to its str.
Hit(t, k) ==
    LET o == tables[TableOf(t)][SlotOf[k.bytes]].key IN
    /\ IsHit(tables[TableOf(t)][SlotOf[k.bytes]], k)
    /\ held[o] < MaxHeld
    /\ strs' = [strs EXCEPT ![o].refs = @ + 1]
    /\ held' = [held EXCEPT ![o] = @ + 1]
    /\ last' = [key |-> k, str |-> o]
    /\ UNCHANGED <<gil, module, tables, lost>>

\* A new str for k, to which there are n references, and the others.
WithNew(rest, o, k, n) ==
    [p \in DOMAIN rest \cup {o} |-> IF p = o THEN [key |-> k, refs |-> n] ELSE rest[p]]

\* Mutant: the slot is given the reference of the caller.
AddedMut(c, o, k) == WithNew(strs, o, k, 1)

\* add_key_cache: the slot gives up the str it held, and takes a reference to o.
Added(c, o, k) ==
    LET old == tables[c][SlotOf[k.bytes]].key
    IN  WithNew(Released([p \in live |-> IF p = old THEN 1 ELSE 0]), o, k, 2)

\* The key is not there: a str is made of it and put in its slot.
Miss(t, k) ==
    /\ ~IsHit(tables[TableOf(t)][SlotOf[k.bytes]], k)
    /\ \E o \in Objects \ live :
        /\ strs' = Added(TableOf(t), o, k)
        /\ tables' = [tables EXCEPT ![TableOf(t)][SlotOf[k.bytes]] =
                           [key |-> o, hint |-> Hint(k)]]
        /\ held' = [held EXCEPT ![o] = 1]
        /\ last' = [key |-> k, str |-> o]
    /\ UNCHANGED <<gil, module, lost>>

\* The key is too long, or was read with escapes from a wide document: the
\* table is not looked at.
PastTable(k) ==
    /\ \E o \in Objects \ live :
        /\ strs' = WithNew(strs, o, k, 1)
        /\ held' = [held EXCEPT ![o] = 1]
        /\ last' = [key |-> k, str |-> o]
    /\ UNCHANGED <<gil, module, tables, lost>>

\* A thread reads a key.  It may also fail to allocate the str: nothing changes.
ReadKey(t, k) ==
    /\ module = "ready" /\ TableOf(t) \in DOMAIN tables
    /\ \/ Len(k.bytes) <= CacheLimit /\ (Hit(t, k) \/ Miss(t, k))
       \/ PastTable(k)

\* The program gives up a reference: a dict is freed, the decoder cleans up.
DropRef(o) ==
    /\ held[o] > 0
    /\ held' = [held EXCEPT ![o] = @ - 1]
    /\ strs' = Released([p \in live |-> IF p = o THEN 1 ELSE 0])
    /\ last' = NothingRead
    /\ UNCHANGED <<gil, module, tables, lost>>

Next ==
    \/ Exec
    \/ ModuleFree
    \/ \E t \in Threads : MakeTable(t) \/ ThreadExit(t)
    \/ \E t \in Threads, k \in Keys : ReadKey(t, k)
    \/ \E o \in Objects : DropRef(o)

Spec == Init /\ [][Next]_vars

-----------------------------------------------------------------------------
\* A key that was read is a str of its own characters, whichever of the keys
\* with its hash, its bytes or its length was read before, whatever became of
\* their strs, and whichever thread released them (get_key_cache).
HitIsTheKey == last.str # Nil => last.str \in live /\ strs[last.str].key = last.key

\* Every reference to a str is one the program holds, one of a slot or one that
\* was forgotten with a table: no slot holds a str that was freed, and none is
\* kept when all have gone (add_key_cache, module_free, the destructor).
RefsBalanced ==
    /\ \A o \in Objects : o \notin live => Places(o) = {} /\ held[o] = 0 /\ lost[o] = 0
    /\ \A o \in live : /\ strs[o].refs > 0
                       /\ strs[o].refs = held[o] + Cardinality(Places(o)) + lost[o]

\* Under the GIL nothing is kept alive when the module has gone but what the
\* program holds (module_free).
NothingLostGIL == gil /\ module = "none" => \A o \in live : strs[o].refs = held[o]
=============================================================================
