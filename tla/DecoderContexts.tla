-------------------------- MODULE DecoderContexts --------------------------
(***************************************************************************)
(* Which buffers a call of loads() works in: the entry and the exit of     *)
(* ssrjson_Decode, and the thread's list of decoder contexts.              *)
(*                                                                         *)
(* A hook may call loads() again, any number of times and with hooks of    *)
(* its own, while the call that runs the hook is suspended with its        *)
(* container stack and object stack in its context.  The GIL build has one *)
(* static context for the calls without hooks, which run no Python code,   *)
(* and takes the contexts of the others from the list; the free-threaded   *)
(* build takes every context from the list.  The list is doubly linked and *)
(* thread local: `cur' is the node of the innermost call.                  *)
(*                                                                         *)
(* A call that is refused (RecursionError at the depth limit, MemoryError, *)
(* a TypeError for the arguments) returns before it changes anything, and  *)
(* is not a step; one whose document is no str or bytes begins and returns *)
(* like any other.  writer is what the C code does not keep: the call that *)
(* last wrote to a context and has not returned.                           *)
(***************************************************************************)
EXTENDS Integers, Sequences, FiniteSets

CONSTANTS
    Threads,
    Nodes,              \* bound: addresses malloc can return for list nodes
    MaxDepth,           \* bound: calls of loads() active in one thread
    Builds,             \* the values of SSRJSON_GIL_ENABLED to look at
    HookMaxRecursion,   \* SSRJSON_OBJECT_HOOK_MAX_RECURSION
    Nil,                \* NULL
    DefaultCtx          \* _DefaultDecoderCtx

ASSUME ThreadsAssumption == MaxDepth \in Nat /\ HookMaxRecursion \in Nat \ {0}
ASSUME BuildAssumption == Builds \subseteq BOOLEAN
ASSUME NodesAssumption == Nil \notin Nodes /\ DefaultCtx \notin Nodes /\ Nil # DefaultCtx

VARIABLES
    gil,    \* SSRJSON_GIL_ENABLED, chosen when the extension is built
    cur,    \* cur[t]: cur_buffer in t's thread local data
    nodes,  \* the nodes that are allocated, with their fields
    calls,  \* calls[t]: the calls of loads() active in t, innermost last
    writer  \* writer[c]: the call that last wrote to context c

vars == <<gil, cur, nodes, calls, writer>>

live == DOMAIN nodes
Contexts == Nodes \cup {DefaultCtx}
NoCall == <<>>
CallIds == Threads \X (1 .. MaxDepth)
Node == [level : Nat, prev : Nodes \cup {Nil}, next : Nodes \cup {Nil}]
Call == [ctx : Contexts, hooked : BOOLEAN, at : {"decoding", "hook"}]

TypeOK ==
    /\ gil \in Builds
    /\ cur \in [Threads -> Nodes \cup {Nil}]
    /\ live \subseteq Nodes /\ nodes \in [live -> Node]
    /\ calls \in [Threads -> Seq(Call)]
    /\ \A t \in Threads : Len(calls[t]) <= MaxDepth
    /\ writer \in [Contexts -> CallIds \cup {NoCall}]

Init ==
    /\ gil \in Builds
    /\ cur = [t \in Threads |-> Nil]
    /\ nodes = [n \in {} |-> Nil]
    /\ calls = [t \in Threads |-> <<>>]
    /\ writer = [c \in Contexts |-> NoCall]

-----------------------------------------------------------------------------
Innermost(t) == calls[t][Len(calls[t])]
At(t, where) == calls[t] # <<>> /\ Innermost(t).at = where

\* Under the GIL the decoder runs from its entry to a hook, or to its end,
\* without another thread running Python or decoding.
MayRun(t) == gil => \A u \in Threads \ {t} : ~At(u, "decoding")

\* Python code, at the top level of the thread or in a hook, may call loads().
MayCall(t) == /\ MayRun(t)
              /\ calls[t] = <<>> \/ At(t, "hook")
              /\ Len(calls[t]) < MaxDepth

\* The call begins to decode: it fills the stacks of its context from the start.
Enter(t, ctx, hooked) ==
    /\ calls' = [calls EXCEPT ![t] = Append(@, [ctx |-> ctx, hooked |-> hooked, at |-> "decoding"])]
    /\ writer' = [writer EXCEPT ![ctx] = <<t, Len(calls[t]) + 1>>]

\* Mutants: hooks are not looked at; the build is not looked at.
UsesListMutHooks(hooked) == ~gil
UsesListMutBuild(hooked) == hooked

UsesList(hooked) == hooked \/ ~gil

EnterDefault(t) ==
    /\ MayCall(t)
    /\ \E hooked \in BOOLEAN : ~UsesList(hooked) /\ Enter(t, DefaultCtx, hooked)
    /\ UNCHANGED <<cur, nodes>>

\* The first context of the thread.
EnterFirst(t) ==
    /\ MayCall(t) /\ cur[t] = Nil
    /\ \E hooked \in BOOLEAN, n \in Nodes \ live :
        /\ UsesList(hooked)
        /\ nodes' = [m \in live \cup {n} |->
                        IF m = n THEN [level |-> 0, prev |-> Nil, next |-> Nil] ELSE nodes[m]]
        /\ cur' = [cur EXCEPT ![t] = n]
        /\ Enter(t, n, hooked)

\* Mutant: follows one link too many.
ContextForNextMut(old) == nodes[nodes[old].next].next

\* `use next': the list goes on to the next node, and the context of the call
\* is ContextForNext.
ContextForNext(old) == old

EnterNext(t) ==
    /\ MayCall(t) /\ cur[t] # Nil /\ nodes[cur[t]].next # Nil
    /\ \E hooked \in BOOLEAN :
        /\ UsesList(hooked)
        /\ cur' = [cur EXCEPT ![t] = nodes[cur[t]].next]
        /\ Enter(t, ContextForNext(cur[t]), hooked)
    /\ UNCHANGED nodes

\* Mutant: off by one.
LevelAllowedMut(l) == l <= HookMaxRecursion

LevelAllowed(l) == l < HookMaxRecursion

EnterGrow(t) ==
    /\ MayCall(t) /\ cur[t] # Nil /\ nodes[cur[t]].next = Nil
    /\ LevelAllowed(nodes[cur[t]].level + 1)
    /\ \E hooked \in BOOLEAN, n \in Nodes \ live :
        /\ UsesList(hooked)
        /\ nodes' = [m \in live \cup {n} |->
                IF m = n THEN [level |-> nodes[cur[t]].level + 1, prev |-> cur[t], next |-> Nil]
                ELSE IF m = cur[t] THEN [nodes[m] EXCEPT !.next = n]
                ELSE nodes[m]]
        /\ cur' = [cur EXCEPT ![t] = n]
        /\ Enter(t, n, hooked)

-----------------------------------------------------------------------------
\* The reader calls a hook; the hook returns or raises, and the reader goes on
\* with the stacks in its context.
CallHook(t) ==
    /\ MayRun(t) /\ At(t, "decoding") /\ Innermost(t).hooked
    /\ calls' = [calls EXCEPT ![t][Len(calls[t])].at = "hook"]
    /\ UNCHANGED <<cur, nodes, writer>>

HookReturns(t) ==
    /\ MayRun(t) /\ At(t, "hook")
    /\ calls' = [calls EXCEPT ![t][Len(calls[t])].at = "decoding"]
    /\ writer' = [writer EXCEPT ![Innermost(t).ctx] = <<t, Len(calls[t])>>]
    /\ UNCHANGED <<cur, nodes>>

Returned(t) ==
    /\ calls' = [calls EXCEPT ![t] = SubSeq(@, 1, Len(@) - 1)]
    /\ writer' = [writer EXCEPT ![Innermost(t).ctx] = NoCall]

\* Mutant: the link to the wrong side.
SuccessorMut(n) == {nodes[n].prev} \ {Nil}

\* The successor of the node of a call that returns is freed: the deepest
\* context is kept for the next nested call, no deeper one.
Successor(n) == {nodes[n].next} \ {Nil}

\* Mutants: dangling links; the nodes are unlinked and not freed.
FreedMutLinks(freed, last) == [n \in live \ freed |-> nodes[n]]
FreedMutLeak(freed, last) ==
    [n \in live |-> IF n \in last THEN [nodes[n] EXCEPT !.next = Nil] ELSE nodes[n]]

\* The list without the nodes `freed', after which the nodes `last' have no next.
Freed(freed, last) ==
    [n \in live \ freed |-> IF n \in last THEN [nodes[n] EXCEPT !.next = Nil] ELSE nodes[n]]

ReturnDefault(t) ==
    /\ MayRun(t) /\ At(t, "decoding") /\ ~UsesList(Innermost(t).hooked)
    /\ Returned(t)
    /\ UNCHANGED <<cur, nodes>>

\* `done:' in the GIL build: the head node is freed, another stays as the next
\* of the node before it.
ReturnGIL(t) ==
    /\ gil /\ MayRun(t) /\ At(t, "decoding") /\ UsesList(Innermost(t).hooked)
    /\ LET used == cur[t]
           back == nodes[used].prev
       IN  /\ nodes' = Freed(Successor(used) \cup (IF back = Nil THEN {used} ELSE {}), {used})
           /\ cur' = [cur EXCEPT ![t] = back]
    /\ Returned(t)

\* `done:' in the free-threaded build: every node but the head is freed, and
\* the head stays the current node of the thread.
ReturnFT(t) ==
    /\ ~gil /\ At(t, "decoding") /\ UsesList(Innermost(t).hooked)
    /\ LET used == cur[t]
           back == nodes[used].prev
       IN  IF back = Nil
           THEN nodes' = Freed(Successor(used), {used}) /\ UNCHANGED cur
           ELSE /\ nodes' = Freed(Successor(used) \cup {used}, {back})
                /\ cur' = [cur EXCEPT ![t] = back]
    /\ Returned(t)

\* The thread ends and its thread local data is destroyed; the GIL build has
\* nothing in the list then.  A later thread may take its place.
ThreadExit(t) ==
    /\ calls[t] = <<>>
    /\ nodes' = Freed(IF gil \/ cur[t] = Nil THEN {} ELSE {cur[t]} \cup Successor(cur[t]), {})
    /\ cur' = [cur EXCEPT ![t] = Nil]
    /\ UNCHANGED <<calls, writer>>

Next ==
    /\ \E t \in Threads :
        \/ EnterDefault(t) \/ EnterFirst(t) \/ EnterNext(t) \/ EnterGrow(t)
        \/ CallHook(t) \/ HookReturns(t)
        \/ ReturnDefault(t) \/ ReturnGIL(t) \/ ReturnFT(t)
        \/ ThreadExit(t)
    /\ UNCHANGED gil

Spec == Init /\ [][Next]_vars

-----------------------------------------------------------------------------
(* What the list must keep true. *)

\* The context of an active call holds what that call wrote, and is allocated:
\* a suspended call finds its container stack and object stack as it left them,
\* whatever its hook decoded.
BuffersIntact ==
    \A t \in Threads : \A i \in 1 .. Len(calls[t]) :
        LET c == calls[t][i].ctx
        IN  writer[c] = <<t, i>> /\ (c = DefaultCtx \/ c \in live)

\* In the free-threaded build it does, for any nesting of hooks.
BuffersIntactFT == ~gil => BuffersIntact

\* Of the calls that use _DefaultDecoderCtx only one is active at a time, in all
\* threads together.
DefaultExclusive ==
    \A t \in Threads : \A i \in 1 .. Len(calls[t]) :
        calls[t][i].ctx = DefaultCtx => writer[DefaultCtx] = <<t, i>>

\* The current nodes and the links of allocated nodes point to allocated nodes,
\* levels count from the head, and both links agree: the asserts
\* `old_buffer->next->level == old_buffer->level + 1' and
\* `old_buffer->next->prev == old_buffer'.
ListOK ==
    /\ \A t \in Threads : cur[t] # Nil => cur[t] \in live
    /\ \A n \in live :
        LET prev == nodes[n].prev
            next == nodes[n].next
        IN  /\ prev = Nil => nodes[n].level = 0
            /\ prev # Nil => /\ prev \in live /\ nodes[prev].next = n
                             /\ nodes[n].level = nodes[prev].level + 1
            /\ next # Nil => next \in live /\ nodes[next].prev = n

\* The calls of t that took their context from the list.
ListCalls(t) == {i \in 1 .. Len(calls[t]) : UsesList(calls[t][i].hooked)}

\* The end of t's list: the current node, or the one kept behind it.
EndOf(t) == IF nodes[cur[t]].next = Nil THEN cur[t] ELSE nodes[cur[t]].next

\* No node is lost: with the links of ListOK, every allocated node leads to one
\* without a successor, and those are the ends of the lists of the threads that
\* have one, each thread its own.
NoNodeLeak ==
    LET running == {t \in Threads : cur[t] # Nil}
    IN  /\ {n \in live : nodes[n].next = Nil} = {EndOf(t) : t \in running}
        /\ \A t, u \in running : EndOf(t) = EndOf(u) => t = u

\* The level of the current node is the number of active calls that use the
\* list, counting from 0 in the GIL build, where an idle thread keeps no node;
\* in the free-threaded build a thread keeps its head node for good and, from
\* its second call on, counts from 1.  The depth limit of hooks rests on it.
LevelCountsCalls ==
    \A t \in Threads :
        LET k == Cardinality(ListCalls(t))
        IN  /\ k <= HookMaxRecursion
            /\ IF cur[t] = Nil THEN k = 0
               ELSE k = nodes[cur[t]].level + 1 \/ (~gil /\ k = nodes[cur[t]].level)

-----------------------------------------------------------------------------
\* The calls that are active.
Active == {f \in CallIds : f[2] <= Len(calls[f[1]])}

\* The contexts they hold, in the free-threaded build.
Held == [f \in {g \in Active : ~gil} |-> calls[f[1]][f[2]].ctx]

Pool == INSTANCE ContextPool WITH held <- Held

\* Every call of loads() holds a context of its own until it returns: the
\* entry and exit of ssrjson_Decode in the free-threaded build implement the pool.
ContextsArePrivate == Pool!Spec
=============================================================================
