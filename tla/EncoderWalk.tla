---------------------------- MODULE EncoderWalk ----------------------------
(***************************************************************************)
(* The walk of dumps() over lists, dicts and tuples: ssrjson_dumps_obj and *)
(* the containers of encode_process_val, with other threads running.       *)
(*                                                                         *)
(* In the free-threaded build the walk locks every list and dict it is     *)
(* inside of (PyMutex_Lock on ob_mutex), from outer to inner, and keeps    *)
(* them in a hash set, which is also what finds circular references.       *)
(* Tuples are immutable and not locked.  In the GIL build no other thread  *)
(* runs during a call, there is no set, and a circular reference ends at   *)
(* the depth limit.                                                        *)
(*                                                                         *)
(* A dict is modelled by its values in order, its keys are left out; Leaf  *)
(* stands for every value that is no container.  `out' is the text written *)
(* so far, a token per bracket and value; each value is followed by a      *)
(* comma, and closing a container overwrites the last token.               *)
(*                                                                         *)
(* root and changed are bookkeeping: what dumps() was called on, and       *)
(* whether a container has been changed since then.                        *)
(***************************************************************************)
EXTENDS Integers, Sequences

CONSTANTS
    Encoders,           \* threads that call dumps()
    Lists, Dicts, Tuples,
    Leaf, None,
    Heaps,              \* the contents the containers may start with
    MaxLen,             \* bound: values in a container
    MaxDepth,           \* SSRJSON_ENCODE_MAX_RECURSION
    Builds,             \* the builds: values of SSRJSON_GIL_ENABLED
    SetMayFail,         \* an allocation of the hash set may fail
    Mutations           \* what other threads do: a subset of {"append", "pop"}

Lockable == Lists \cup Dicts
Containers == Lockable \cup Tuples
Values == Containers \cup {Leaf}

ASSUME DepthAssumption == MaxDepth \in Nat \ {0} /\ MaxLen \in Nat
ASSUME BuildAssumption == Builds \subseteq BOOLEAN /\ SetMayFail \in BOOLEAN
ASSUME ObjectsAssumption == /\ Lists \cap Dicts = {} /\ Lockable \cap Tuples = {}
                            /\ Leaf \notin Containers /\ None \notin Encoders \cup Containers
ASSUME HeapsAssumption == Heaps \subseteq [Containers -> Seq(Values)]

VARIABLES
    gil,     \* SSRJSON_GIL_ENABLED
    heap,    \* heap[o]: the values in container o
    owner,   \* owner[o]: the encoder that holds the mutex of o, or None
    pc,
    path,    \* path[e]: the containers e is inside of, outermost first: ctn_stack,
             \* with cur_obj and cur_pos as the last
    size,    \* size[e]: cur_list_size
    pend,    \* pend[e]: the container e is about to lock
    held,    \* held[e]: pyobj_set
    out,     \* out[e]: the text written, up to writer
    err,     \* err[e]: the exception e raised
    root,
    changed

vars == <<gil, heap, owner, pc, path, size, pend, held, out, err, root, changed>>

Ended == {"ok", "error", "wild"}
Text == {"[", "]", "{", "}", ",", "v"}

TypeOK ==
    /\ gil \in Builds
    /\ heap \in [Containers -> Seq(Values)]
    /\ owner \in [Lockable -> Encoders \cup {None}]
    /\ pc \in [Encoders -> {"idle", "lock", "val", "success", "fail"} \cup Ended]
    /\ path \in [Encoders -> Seq([ctn : Containers, pos : Nat])]
    /\ \A e \in Encoders : Len(path[e]) <= MaxDepth
    /\ size \in [Encoders -> Nat]
    /\ pend \in [Encoders -> Lockable \cup {None}]
    /\ held \in [Encoders -> SUBSET Lockable]
    /\ out \in [Encoders -> Seq(Text)]
    /\ err \in [Encoders -> {"none", "circular", "depth", "other"}]
    /\ root \in [Encoders -> Containers \cup {None}]
    /\ changed \in [Encoders -> BOOLEAN]

Init ==
    /\ gil \in Builds
    /\ heap \in Heaps
    /\ owner = [o \in Lockable |-> None]
    /\ pc = [e \in Encoders |-> "idle"]
    /\ path = [e \in Encoders |-> <<>>]
    /\ size = [e \in Encoders |-> 0]
    /\ pend = [e \in Encoders |-> None]
    /\ held = [e \in Encoders |-> {}]
    /\ out = [e \in Encoders |-> <<>>]
    /\ err = [e \in Encoders |-> "none"]
    /\ root = [e \in Encoders |-> None]
    /\ changed = [e \in Encoders |-> FALSE]

-----------------------------------------------------------------------------
Active(e) == pc[e] \notin {"idle"} \cup Ended

\* Under the GIL a call of dumps() runs to its end without another thread.
MayRun(e) == gil => \A f \in Encoders \ {e} : ~Active(f)

Cur(e) == path[e][Len(path[e])]
Below(s) == SubSeq(s, 1, Len(s) - 1)

Begins(o) == IF o \in Dicts THEN "{" ELSE "["
Ends(o)   == IF o \in Dicts THEN "}" ELSE "]"

Write(e, text) == out' = [out EXCEPT ![e] = @ \o text]
Goto(e, label) == pc' = [pc EXCEPT ![e] = label]
Fail(e, why)   == Goto(e, "fail") /\ err' = [err EXCEPT ![e] = why]

\* What the walk locks while it is inside of it.
Locks(o) == ~gil /\ o \in Lockable

\* ctn_size_grow.
TooDeep(p) == Len(p) = MaxDepth

\* The new container becomes the current one.
Enter(e, p, o) ==
    IF TooDeep(p)
    THEN Fail(e, "depth") /\ path' = [path EXCEPT ![e] = p]
    ELSE /\ Goto(e, "val") /\ UNCHANGED err
         /\ path' = [path EXCEPT ![e] = Append(p, [ctn |-> o, pos |-> 0])]

\* Mutant: the object is not put in the set.
PutMut(e, o) == {held}

\* kh_put: when the set cannot grow it is left alone, and the walk goes on.  A
\* new set has room for the first object.
Put(e, o) == {[held EXCEPT ![e] = @ \cup {o}]} \cup
             (IF SetMayFail /\ held[e] # {} THEN {held} ELSE {})

\* The walk meets container o, p being the path without it.  Whether o is
\* empty, and the size the walk will use for a list, is read before o is
\* locked; o is put in the set before it is locked, too.
MeetEmpty(e, p, o) ==
    /\ Len(heap[o]) = 0
    /\ Write(e, <<Begins(o), Ends(o), ",">>)
    /\ Goto(e, IF p = <<>> THEN "success" ELSE "val")
    /\ path' = [path EXCEPT ![e] = p]
    /\ UNCHANGED <<owner, size, pend, held, err>>

Meet(e, p, o) ==
    /\ Len(heap[o]) > 0
    /\ Write(e, <<Begins(o)>>)
    /\ size' = IF o \in Dicts THEN size ELSE [size EXCEPT ![e] = Len(heap[o])]
    /\ IF ~Locks(o)
       THEN Enter(e, p, o) /\ UNCHANGED <<pend, held>>
       ELSE /\ path' = [path EXCEPT ![e] = p]
            /\ IF o \in held[e]
               THEN Fail(e, "circular") /\ UNCHANGED <<pend, held>>
               ELSE /\ held' \in Put(e, o)
                    /\ pend' = [pend EXCEPT ![e] = o]
                    /\ Goto(e, "lock") /\ UNCHANGED err
    /\ UNCHANGED owner

\* `goto fail': the output buffer or what a new call needs cannot be allocated, a
\* key is no str, or a value has no type that dumps() encodes.
GivesUp(e) ==
    /\ Fail(e, "other")
    /\ UNCHANGED <<owner, path, size, pend, held, out>>

Start(e) ==
    /\ pc[e] = "idle" /\ MayRun(e)
    /\ \E o \in Containers :
        /\ root' = [root EXCEPT ![e] = o]
        /\ MeetEmpty(e, <<>>, o) \/ Meet(e, <<>>, o) \/ GivesUp(e)
    /\ UNCHANGED <<heap, changed>>

\* PyMutex_Lock.
Acquire(e) ==
    /\ pc[e] = "lock" /\ owner[pend[e]] = None
    /\ owner' = [owner EXCEPT ![pend[e]] = e]
    /\ pend' = [pend EXCEPT ![e] = None]
    /\ Enter(e, path[e], pend[e])
    /\ UNCHANGED <<heap, size, held, out, root, changed>>

\* dict_pair_begin and arr_val_begin: PyDict_Next looks at the dict, a list is
\* read up to cur_list_size.
AtEnd(e) == LET n == IF Cur(e).ctn \in Dicts THEN Len(heap[Cur(e).ctn]) ELSE size[e]
            IN  Cur(e).pos >= n

Advanced(e) == [path[e] EXCEPT ![Len(path[e])].pos = @ + 1]

Value(e) ==
    /\ pc[e] = "val" /\ ~AtEnd(e)
    /\ IF Cur(e).pos >= Len(heap[Cur(e).ctn])
       THEN \* PyList_GET_ITEM past the end of the list
            Goto(e, "wild") /\ UNCHANGED <<owner, path, size, pend, held, out, err>>
       ELSE LET v == heap[Cur(e).ctn][Cur(e).pos + 1]
            IN  \/ /\ v = Leaf
                   /\ Write(e, <<"v", ",">>)
                   /\ path' = [path EXCEPT ![e] = Advanced(e)]
                   /\ UNCHANGED <<owner, pc, size, pend, held, err>>
                \/ v # Leaf /\ (MeetEmpty(e, Advanced(e), v) \/ Meet(e, Advanced(e), v))
                \/ GivesUp(e)
    /\ UNCHANGED <<heap, root, changed>>

\* Mutant: nothing is unlocked.
UnlockedMut(objs) == owner

Unlocked(objs) == [o \in Lockable |-> IF o \in objs THEN None ELSE owner[o]]

\* Mutants: the comma is not dropped; the object stays in the set; the size of
\* the list that ended is kept.
ClosedMut(text, o) == text \o <<Ends(o), ",">>
WithoutMut(e, o)   == held[e]
ParentSizeMut(e)   == size[e]

Closed(text, o) == Below(text) \o <<Ends(o), ",">>
Without(e, o)   == held[e] \ {o}
ParentSize(e)   == Len(heap[path[e][Len(path[e]) - 1].ctn])

\* The end of a container: back to its parent, whose size is read again.  The
\* outermost stays locked until the text is complete.
Close(e) ==
    /\ pc[e] = "val" /\ AtEnd(e)
    /\ \/ LET o == Cur(e).ctn
          IN  /\ out' = [out EXCEPT ![e] = Closed(@, o)]
              /\ path' = [path EXCEPT ![e] = Below(@)]
              /\ IF Len(path[e]) = 1
                 THEN Goto(e, "success") /\ UNCHANGED <<owner, size, held>>
                 ELSE /\ size' = [size EXCEPT ![e] = ParentSize(e)]
                      /\ held' = [held EXCEPT ![e] = Without(e, o)]
                      /\ owner' = Unlocked({x \in {o} : Locks(x)})
                      /\ UNCHANGED pc
              /\ UNCHANGED <<pend, err>>
       \/ GivesUp(e)
    /\ UNCHANGED <<heap, root, changed>>

\* Mutant: the outermost container stays locked.
TopLockedMut(e) == {}

\* toplevel_locked_obj: the root, if it was locked.
TopLocked(e) == {root[e]} \cap held[e]

\* The last comma is dropped and the result cut to its length; then
\* toplevel_locked_obj is unlocked.
Finish(e) ==
    /\ pc[e] = "success"
    /\ \/ /\ Goto(e, "ok")
          /\ out' = [out EXCEPT ![e] = Below(@)]
          /\ owner' = Unlocked(TopLocked(e))
          /\ held' = [held EXCEPT ![e] = {}]
          /\ UNCHANGED <<path, size, pend, err>>
       \/ GivesUp(e)
    /\ UNCHANGED <<heap, root, changed>>

\* fail: unlock everything in the set.
Unwind(e) ==
    /\ pc[e] = "fail"
    /\ Goto(e, "error")
    /\ owner' = Unlocked(held[e])
    /\ held' = [held EXCEPT ![e] = {}]
    /\ UNCHANGED <<heap, path, size, pend, out, err, root, changed>>

\* Another thread changes a list or dict, holding its mutex for that.
Mutate ==
    /\ gil => \A e \in Encoders : ~Active(e)
    /\ \E o \in Lockable :
        /\ owner[o] = None
        /\ \/ /\ "append" \in Mutations /\ Len(heap[o]) < MaxLen
              /\ heap' = [heap EXCEPT ![o] = Append(@, Leaf)]
           \/ /\ "pop" \in Mutations /\ Len(heap[o]) > 0
              /\ heap' = [heap EXCEPT ![o] = Below(@)]
    /\ changed' = [e \in Encoders |-> pc[e] # "idle"]
    /\ UNCHANGED <<gil, owner, pc, path, size, pend, held, out, err, root>>

Step(e) ==
    /\ Start(e) \/ Acquire(e) \/ Value(e) \/ Close(e) \/ Finish(e) \/ Unwind(e)
    /\ UNCHANGED gil

\* All calls have returned.
Finished == (\A e \in Encoders : pc[e] \in Ended) /\ UNCHANGED vars

Next == (\E e \in Encoders : Step(e)) \/ Mutate \/ Finished

Spec == Init /\ [][Next]_vars

\* A thread that can go on does; PyMutex_Lock returns once the mutex stays free.
FairSpec == Spec /\ \A e \in Encoders : WF_vars(Step(e) /\ pc[e] # "idle")

-----------------------------------------------------------------------------
(* What the walk must keep true. *)

\* The encoders of S all wait, each for a mutex that one of them holds.
WaitInCircle(S) == S # {} /\ \A e \in S : pc[e] = "lock" /\ owner[pend[e]] \in S

\* The mutexes an encoder holds are those in its set, but for the one it is
\* about to lock, and they are the lists and dicts it is inside of: so unwinding
\* unlocks each exactly once, and no call returns with a mutex.
LocksMatchSet ==
    \A e \in Encoders :
        LET mine   == {o \in Lockable : owner[o] = e}
            inside == {o \in Lockable : Locks(o) /\ \E i \in 1 .. Len(path[e]) : path[e][i].ctn = o}
        IN  /\ mine = held[e] \ {pend[e]}
            /\ pc[e] \in {"val", "lock"} => mine = inside
            /\ pc[e] \in {"idle", "ok", "error"} => held[e] = {}

\* The assert `k != kh_end(pyobj_set)' at the end of a list or dict.
CurrentInSet ==
    \A e \in Encoders :
        pc[e] = "val" /\ AtEnd(e) /\ Locks(Cur(e).ctn) => Cur(e).ctn \in held[e]

\* A list is read only below its end, and a dict whose brace was written has a
\* value: the asserts `PyDict_GET_SIZE(cur_obj) != 0' and `cur_list_size != 0',
\* or else closing the dict overwrites its own brace.
SizesHold ==
    \A e \in Encoders :
        /\ pc[e] # "wild"
        /\ pc[e] = "val" => heap[Cur(e).ctn] # <<>>
        /\ pc[e] = "val" /\ AtEnd(e) => out[e][Len(out[e])] = ","
=============================================================================
