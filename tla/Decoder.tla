------------------------------ MODULE Decoder ------------------------------
(***************************************************************************)
(* The document reader of ssrJSON: READ_ROOT_IMPL (one template, expanded  *)
(* for every source width, pretty and minified) and loads_root_single, with *)
(* the helpers they call to build lists and dicts.                         *)
(*                                                                         *)
(* The reader is a goto machine over two stacks.  `ctn' is the container   *)
(* stack: one entry per open array or object with the number of values     *)
(* read so far.  `objs' is the object stack: finished Python objects that  *)
(* their container has not collected yet, an object's keys and values      *)
(* interleaved.  Closing a container pops its objects by the count in      *)
(* `ctn' alone; nothing in the buffers says where a container began.       *)
(*                                                                         *)
(* A token stands for the characters one label of the reader consumes;     *)
(* white space between tokens is consumed without any other effect.  The   *)
(* document is chosen token by token and remembered in `input'.            *)
(*                                                                         *)
(* refs, lost, heap and oom are bookkeeping the C code does not keep: the  *)
(* references this call owns, the ones it dropped without a decref, the    *)
(* malloc'ed buffers it must free, and whether an allocation has failed;   *)
(* so is `start' in a container: where the object stack ended when it was  *)
(* opened.  No guard and no other assignment reads them.                   *)
(***************************************************************************)
EXTENDS Integers, Sequences

CONSTANTS
    Keys,               \* the strings of the documents
    MaxTokens,          \* bound: tokens read before the end of the input
    DecodeMaxRecursion, \* SSRJSON_DECODE_MAX_RECURSION, ctn_end - ctn_start
    ObjBufferInit,      \* SSRJSON_DECODE_OBJ_BUFFER_INIT_SIZE
    ObjectHook,         \* object_hook != NULL
    ArrayHook           \* array_hook != NULL

ASSUME TokensAssumption == MaxTokens \in Nat
ASSUME RecursionAssumption == DecodeMaxRecursion \in Nat \ {0}
ASSUME BufferAssumption == ObjBufferInit \in Nat \ {0}
ASSUME HooksAssumption == ObjectHook \in BOOLEAN /\ ArrayHook \in BOOLEAN

VARIABLES
    pc,     \* the label the reader is at
    ctn,    \* container stack, innermost last
    objs,   \* decode_obj_stack .. decode_obj_writer
    cap,    \* decode_obj_stack_end - decode_obj_stack
    heap,   \* buffers malloc'ed by this call
    refs,   \* references this call owns
    lost,   \* references it owned and let go of without a decref
    err,    \* the exception that is set
    oom,    \* some allocation failed
    input   \* the tokens read so far

vars == <<pc, ctn, objs, cap, heap, refs, lost, err, oom, input>>

-----------------------------------------------------------------------------
(* Tokens and values. *)

\* Scalar is any number, literal, inf or nan; Bad is any text that no label
\* accepts, a malformed string, number or literal included; Eof is the end.
Punct  == {"arr_open", "arr_close", "obj_open", "obj_close", "comma", "colon"}
Scalar == "scalar"
Bad    == "bad"
Eof    == "eof"
Token  == Punct \cup {Scalar, Bad, Eof} \cup Keys

\* A string is no other token.
ASSUME KeysAssumption == Keys \cap (Punct \cup {Scalar, Bad, Eof}) = {}

ScalarValue == [kind |-> "scalar"]
StrValue(k) == [kind |-> "str", s |-> k]
ListValue(items) == [kind |-> "list", items |-> items]

\* A dict built from n pairs laid out key, value, key, value: inserting them
\* in order, a later pair replaces the value of an earlier equal key.
DictValue(pairs) ==
    LET n    == Len(pairs) \div 2
        KeyAt(j) == pairs[2 * j - 1]
        last(k)  == CHOOSE j \in 1 .. n :
                        /\ KeyAt(j) = k
                        /\ \A i \in (j + 1) .. n : KeyAt(i) # k
    IN  [kind |-> "dict",
         map  |-> [k \in {KeyAt(j) : j \in 1 .. n} |-> pairs[2 * last(k)]]]

\* What a user hook made of a value: some new object that depends on it.
Hooked(v) == [kind |-> "hooked", of |-> v]

\* An empty container, opened by t.
Opened(t) == [arr |-> t = "arr_open", len |-> 0, start |-> Len(objs)]

ValueLabels == {"arr_val_begin", "obj_val_begin"}
Running  == {"arr_val_begin", "arr_val_end", "obj_key_begin", "obj_key_end",
             "obj_val_begin", "obj_val_end"}
Labels   == {"start", "doc_end", "single_end", "cleanup", "failed", "done",
             "wild"} \cup Running

TypeOK ==
    /\ pc \in Labels
    /\ ctn \in Seq([arr : BOOLEAN, len : Nat, start : Nat])
    /\ Len(ctn) <= DecodeMaxRecursion
    /\ cap \in Nat
    /\ heap \subseteq {"strbuf", "objstack"}
    /\ refs \in Int /\ lost \in Nat
    /\ err \in {"none", "syntax", "depth", "memory", "hook"}
    /\ oom \in BOOLEAN
    /\ input \in Seq(Token)

Init ==
    /\ pc = "start"
    /\ ctn = <<>> /\ objs = <<>> /\ cap = ObjBufferInit
    /\ heap = {} /\ refs = 0 /\ lost = 0
    /\ err = "none" /\ oom = FALSE
    /\ input = <<>>

-----------------------------------------------------------------------------
(* Helpers of the labels. *)

Top == ctn[Len(ctn)]
Below(s, n) == SubSeq(s, 1, Len(s) - n)

\* The container stack once the value just read is counted in its innermost
\* container.
Counted(c) == [c EXCEPT ![Len(c)].len = @ + 1]

Read(t) ==
    /\ t = Eof \/ Len(input) < MaxTokens
    /\ input' = Append(input, t)

\* return_err: the exception replaces whatever was set, then failed_cleanup.
Fail(e) == pc' = "cleanup" /\ err' = e

ValueEnd(isArr) == IF isArr THEN "arr_val_end" ELSE "obj_val_end"

\* Mutant: the end of the stack is not moved.
GrownMut(c) == c

\* How large the object stack gets when it is full.
Grown(c) == 2 * c

\* _decoder_push_obj on the stack `below' of an object of which the call
\* holds the reference, `owned' being all the references it holds then.  When
\* the stack cannot grow the object is abandoned and `e' is raised.
Push(below, v, owned, ctnThen, next, e) ==
    \/ /\ Len(below) < cap
       /\ objs' = Append(below, v) /\ refs' = owned
       /\ ctn' = ctnThen /\ pc' = next
       /\ UNCHANGED <<cap, heap, lost, err, oom>>
    \/ /\ Len(below) >= cap
       /\ cap' = Grown(cap) /\ heap' = heap \cup {"objstack"}
       /\ objs' = Append(below, v) /\ refs' = owned
       /\ ctn' = ctnThen /\ pc' = next
       /\ UNCHANGED <<lost, err, oom>>
    \/ /\ Len(below) >= cap
       /\ Fail(e)
       /\ objs' = below /\ refs' = owned /\ lost' = lost + 1 /\ oom' = TRUE
       /\ UNCHANGED <<ctn, cap, heap>>

\* A step of the reader that only moves to a label or to a failure.
Goto(next) == /\ pc' = next
              /\ UNCHANGED <<ctn, objs, cap, heap, refs, lost, err, oom>>
Reject(e) == /\ Fail(e)
             /\ UNCHANGED <<ctn, objs, cap, heap, refs, lost, oom>>

\* PyList_New, PyDict_New, PyUnicode_New... returned NULL: nothing was
\* created and the stacks are as they were.
CreationFails(e) == /\ Fail(e)
                    /\ oom' = TRUE
                    /\ UNCHANGED <<ctn, objs, cap, heap, refs, lost>>

-----------------------------------------------------------------------------
(* Closing a container: decode_arr, decode_obj and the pop at arr_end and  *)
(* obj_end, with the count of the parent.                                  *)

\* Mutants: the label of the container that is closed instead of its parent's;
\* the parent does not count it.
AfterCloseMut == IF Len(ctn) = 1 THEN "doc_end" ELSE ValueEnd(Top.arr)
CtnAfterCloseMut == Below(ctn, 1)

AfterClose == IF Len(ctn) = 1 THEN "doc_end" ELSE ValueEnd(ctn[Len(ctn) - 1].arr)
CtnAfterClose == IF Len(ctn) = 1 THEN <<>> ELSE Counted(Below(ctn, 1))

\* How many slots of the object stack a container's values take.
Slots(c) == IF c.arr THEN c.len ELSE 2 * c.len
Collected == SubSeq(objs, Len(objs) - Slots(Top) + 1, Len(objs))
Remaining == Below(objs, Slots(Top))

\* Mutant: the writer is not moved back.
LeftAfterSetItemMut == objs

\* The objects the failing decode_obj leaves on the stack for failed_cleanup:
\* it has dropped every key and value of the dict itself.
LeftAfterSetItem == Remaining

\* The hook raises: the list or dict it was given is dropped.
HookFails == /\ Fail("hook")
             /\ objs' = Remaining /\ refs' = refs - Slots(Top)
             /\ UNCHANGED <<ctn, cap, heap, lost, oom>>

\* Mutant: what the hook returned is not used.
PushContainerMut(v, hook) ==
    Push(Remaining, v, refs - Slots(Top) + 1, CtnAfterClose, AfterClose, "memory")

\* The list or dict takes over the references of what it holds; the call holds
\* the one to it, or to what the hook made of it.
PushContainer(v, hook) ==
    Push(Remaining, IF hook THEN Hooked(v) ELSE v, refs - Slots(Top) + 1,
         CtnAfterClose, AfterClose, "memory")

EndArray ==
    \/ CreationFails("memory")
    \/ ArrayHook /\ HookFails
    \/ PushContainer(ListValue(Collected), ArrayHook)

EndObject ==
    \/ CreationFails("memory")
    \/ /\ Top.len > 0      \* _PyDict_SetItem_KnownHash fails at some pair
       /\ Fail("memory")
       /\ objs' = LeftAfterSetItem /\ refs' = refs - Slots(Top) /\ oom' = TRUE
       /\ UNCHANGED <<ctn, cap, heap, lost>>
    \/ ObjectHook /\ HookFails
    \/ PushContainer(DictValue(Collected), ObjectHook)

-----------------------------------------------------------------------------
(* The root of the document: `decode' and the entry of the two readers.    *)

\* A document that is empty or does not begin like a value.  (Bytes are copied
\* before they are looked at, which may fail for any document.)
NoDocument ==
    /\ pc = "start"
    /\ \E t \in {Eof, Bad, "arr_close", "obj_close", "comma", "colon"} : Read(t)
    /\ Reject("syntax") \/ CreationFails("memory")

\* The string buffer is a part of the decoder context, or malloc'ed when the
\* document is too long for it.
OpenRoot ==
    /\ pc = "start"
    /\ \E t \in {"arr_open", "obj_open"} :
        /\ Read(t)
        /\ \/ /\ heap' \in {heap, heap \cup {"strbuf"}}
              /\ ctn' = <<Opened(t)>>
              /\ pc' = IF t = "arr_open" THEN "arr_val_begin" ELSE "obj_key_begin"
              /\ UNCHANGED <<objs, cap, refs, lost, err, oom>>
           \/ CreationFails("memory")

\* loads_root_single keeps its object in a local, here the only entry of objs.
SingleValue(v) ==
    /\ pc' = "single_end" /\ objs' = <<v>> /\ refs' = refs + 1
    /\ UNCHANGED <<ctn, cap, heap, lost, err, oom>>

RootScalar ==
    /\ pc = "start" /\ Read(Scalar)
    /\ SingleValue(ScalarValue) \/ CreationFails("syntax") \/ CreationFails("memory")

\* The string buffer is freed before the result is looked at.  The readers of str
\* do not look at the result of check_and_reserve_str_buffer: when it fails,
\* decode_str writes through an uninitialized pointer and nothing is claimed of
\* what follows.  The reader of bytes raises MemoryError.
RootString ==
    /\ pc = "start"
    /\ \E k \in Keys :
        /\ Read(k)
        /\ \/ SingleValue(StrValue(k))
           \/ CreationFails("syntax") \/ CreationFails("memory")
           \/ /\ pc' = "wild" /\ oom' = TRUE
              /\ UNCHANGED <<ctn, objs, cap, heap, refs, lost, err>>

-----------------------------------------------------------------------------
(* The labels of READ_ROOT_IMPL, named for the token they see. *)

ValueStep(v) ==
    \/ CreationFails("syntax")
    \/ Push(objs, v, refs + 1, Counted(ctn), ValueEnd(pc = "arr_val_begin"), "syntax")

ReadScalar == pc \in ValueLabels /\ Read(Scalar) /\ ValueStep(ScalarValue)

ReadString ==
    /\ pc \in ValueLabels
    /\ \E k \in Keys : Read(k) /\ ValueStep(StrValue(k))

\* A key is pushed like a value but counted only with its value.
ReadKey ==
    /\ pc = "obj_key_begin"
    /\ \E k \in Keys :
        /\ Read(k)
        /\ \/ CreationFails("syntax")
           \/ Push(objs, StrValue(k), refs + 1, ctn, "obj_key_end", "syntax")

\* Mutants: off by one, either way.
CtnHasRoomMutMore == Len(ctn) <= DecodeMaxRecursion
CtnHasRoomMutLess == Len(ctn) + 1 < DecodeMaxRecursion

\* ctn_grow_check: ++ctn < ctn_end.
CtnHasRoom == Len(ctn) < DecodeMaxRecursion

OpenContainer ==
    /\ pc \in ValueLabels
    /\ \E t \in {"arr_open", "obj_open"} :
        /\ Read(t)
        /\ \/ /\ CtnHasRoom
              /\ ctn' = Append(ctn, Opened(t))
              /\ pc' = IF t = "arr_open" THEN "arr_val_begin" ELSE "obj_key_begin"
              /\ UNCHANGED <<objs, cap, heap, refs, lost, err, oom>>
           \/ ~CtnHasRoom /\ Reject("depth")

\* A bracket right after the opening one closes an empty container; after a
\* comma it is refused.
MayCloseEmpty == Top.len = 0

CloseArray ==
    /\ pc \in {"arr_val_begin", "arr_val_end"} /\ Read("arr_close")
    /\ \/ (pc = "arr_val_end" \/ MayCloseEmpty) /\ EndArray
       \/ pc = "arr_val_begin" /\ ~MayCloseEmpty /\ Reject("syntax")

CloseObject ==
    /\ pc \in {"obj_key_begin", "obj_val_end"} /\ Read("obj_close")
    /\ \/ (pc = "obj_val_end" \/ MayCloseEmpty) /\ EndObject
       \/ pc = "obj_key_begin" /\ ~MayCloseEmpty /\ Reject("syntax")

\* Mutant: the comma of an object leads to a value.
SeparatorMut ==
    \/ pc = "arr_val_end" /\ Read("comma") /\ Goto("arr_val_begin")
    \/ pc = "obj_val_end" /\ Read("comma") /\ Goto("obj_val_begin")
    \/ pc = "obj_key_end" /\ Read("colon") /\ Goto("obj_val_begin")

Separator ==
    \/ pc = "arr_val_end" /\ Read("comma") /\ Goto("arr_val_begin")
    \/ pc = "obj_val_end" /\ Read("comma") /\ Goto("obj_key_begin")
    \/ pc = "obj_key_end" /\ Read("colon") /\ Goto("obj_val_begin")

\* The tokens a label has a branch for.
Accepted(l) ==
    CASE l = "arr_val_begin" -> {"arr_open", "obj_open", "arr_close", Scalar} \cup Keys
      [] l = "obj_val_begin" -> {"arr_open", "obj_open", Scalar} \cup Keys
      [] l = "obj_key_begin" -> {"obj_close"} \cup Keys
      [] l = "arr_val_end"   -> {"comma", "arr_close"}
      [] l = "obj_val_end"   -> {"comma", "obj_close"}
      [] l = "obj_key_end"   -> {"colon"}

Unexpected ==
    /\ pc \in Running
    /\ \E t \in Token \ Accepted(pc) : Read(t) /\ Reject("syntax")

-----------------------------------------------------------------------------
(* The end. *)

\* Which buffers the reader frees, on success and in failed_cleanup alike.
FreeBuffers ==
    heap' = heap \ ({"strbuf"} \cup IF cap > ObjBufferInit THEN {"objstack"} ELSE {})

DocEnd ==
    /\ pc \in {"doc_end", "single_end"}
    /\ \E t \in Token :
        /\ Read(t)
        /\ \/ t # Eof /\ Reject("syntax")
           \/ /\ t = Eof /\ pc' = "done" /\ FreeBuffers
              /\ UNCHANGED <<ctn, objs, cap, refs, lost, err, oom>>

FailedCleanup ==
    /\ pc = "cleanup"
    /\ pc' = "failed" /\ objs' = <<>> /\ refs' = refs - Len(objs)
    /\ FreeBuffers
    /\ UNCHANGED <<ctn, cap, lost, err, oom, input>>

\* The call has returned, or is lost in undefined behaviour.
Returned == pc \in {"done", "failed", "wild"} /\ UNCHANGED vars

Next ==
    \/ NoDocument \/ OpenRoot \/ RootScalar \/ RootString
    \/ ReadScalar \/ ReadString \/ ReadKey \/ OpenContainer
    \/ CloseArray \/ CloseObject \/ Separator \/ Unexpected
    \/ DocEnd \/ FailedCleanup \/ Returned

Spec == Init /\ [][Next]_vars

-----------------------------------------------------------------------------
(* What the reader must keep true. *)

\* A key waits on the object stack for its value.
KeyPending == IF pc \in {"obj_key_end", "obj_val_begin"} THEN 1 ELSE 0

\* The containers of c, outermost first, fill an object stack of n slots, of
\* which the last p hold a key: the values of each lie where it was opened,
\* then, if one of them is still open, the key it will have in an object, and
\* then its own values.
IsLayout(c, n, p) ==
    /\ c # <<>>
    /\ c[1].start = 0
    /\ \A i \in 1 .. Len(c) - 1 :
         c[i + 1].start = c[i].start + Slots(c[i]) + (IF c[i].arr THEN 0 ELSE 1)
    /\ n = c[Len(c)].start + Slots(c[Len(c)]) + p

\* The counts in the container stack account for every slot of the object
\* stack.  So decode_arr and decode_obj, which pop by the count alone, take
\* exactly the values of their container: the assert
\* `list_val_start >= *decode_obj_stack_addr' and, at the end,
\* `decode_obj_writer == decode_obj_stack + 1'.
StackAccount ==
    /\ pc \in Running => IsLayout(ctn, Len(objs), KeyPending)
    /\ pc \in {"doc_end", "single_end", "done"} => Len(objs) = 1

\* The object on top of the stack at obj_key_end and obj_val_begin, and every
\* second slot of an object that is about to be closed, is a string: the assert
\* `PyUnicode_Check(key)' of decode_obj.
KeysAreStrings ==
    /\ KeyPending = 1 => objs[Len(objs)].kind = "str"
    /\ (pc = "obj_val_end" \/ (pc = "obj_key_begin" /\ Top.len > 0)) =>
         \A j \in 1 .. Top.len :
            objs[Len(objs) - 2 * Top.len + 2 * j - 1].kind = "str"

\* Every reference the call owns is a slot of the object stack, but for the one
\* that a failing growth of the stack abandons; failed_cleanup therefore drops
\* each exactly once, and a call that returns keeps only its result and no
\* buffer.  (A caller sees a leak or a double decref otherwise.)
RefsBalanced ==
    /\ refs = Len(objs) + lost
    /\ lost \in {0, 1} /\ (lost = 1 => oom /\ pc \in {"cleanup", "failed"})
    /\ pc \in {"done", "failed"} => heap = {}
    /\ pc = "done" => refs = 1
    /\ pc = "failed" => refs = lost

\* The malloc'ed object stack is recognised by its capacity, on success and
\* after every failure, and nothing is written past its end.
CapacityOK ==
    /\ Len(objs) <= cap
    /\ pc \notin {"done", "failed"} => ("objstack" \in heap <=> cap > ObjBufferInit)
=============================================================================
