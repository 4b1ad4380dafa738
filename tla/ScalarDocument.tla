--------------------------- MODULE ScalarDocument ---------------------------
(***************************************************************************)
(* A document that is one scalar: loads_root_single (_decode_str.inl.h)    *)
(* and loads_root_single_bytes (decode_bytes.h), with the string decoding  *)
(* of StringDecode and the numbers of NumberParse inside.  decode() comes  *)
(* here when the document starts with neither [ nor {.                     *)
(*                                                                         *)
(* The text behind the scalar is white space or something else; of a word  *)
(* (true, false, null, NaN, Infinity) it is known whether it is one.       *)
(***************************************************************************)
EXTENDS StringDecode, NumberParse

CONSTANT Numbers    \* bound: the texts that start with a digit or a minus sign

VARIABLES
    root,       \* "start", "string", "tail", "returned" or "error"
    number,     \* what loads_number returned
    literal,    \* the text it was given, <<>> if there is none
    refs,       \* references to the scalar that are owned
    allocated   \* the string buffer is malloc'ed and not freed

vars == <<svars, root, number, literal, refs, allocated>>

Init ==
    /\ StringInit
    /\ root = "start" /\ number = NumberError /\ literal = <<>>
    /\ refs = 0 /\ allocated = FALSE

\* A digit or a minus sign.
ReadNumber ==
    /\ root = "start"
    /\ literal' \in Numbers
    /\ number' = LoadsNumber(literal')
    /\ IF number'.kind = "error"
       THEN root' = "error" /\ refs' = 0
       ELSE root' = "tail" /\ refs' = 1
    /\ UNCHANGED <<svars, allocated>>

\* PyLong_From... or PyFloat_FromDouble fails.
NumberFails ==
    /\ root = "start"
    /\ root' = "error"
    /\ UNCHANGED <<svars, number, literal, refs, allocated>>

\* t, f, n, or what may be an infinity or a NaN.
ReadWord ==
    /\ root = "start"
    /\ \/ root' = "tail" /\ refs' = 1
       \/ root' = "error" /\ refs' = 0
    /\ UNCHANGED <<svars, number, literal, allocated>>

\* A quote: the buffer is reserved, and allocated if the context's is too small.
ReadString ==
    /\ root = "start"
    /\ StringStart
    /\ root' = IF at' = "failed" THEN "error" ELSE "string"
    /\ allocated' = (capacity' >= 0 /\ BufferBytes > StaticBytes)
    /\ UNCHANGED <<number, literal, refs>>

StringGoesOn ==
    /\ root = "string"
    /\ StringStep
    /\ UNCHANGED <<root, number, literal, refs, allocated>>

\* The string ends, well or with an error or without memory for the str: the
\* buffer is freed first.
StringEnds ==
    /\ root = "string" /\ at \in {"done", "failed"}
    /\ allocated' = FALSE
    /\ \/ at = "done" /\ root' = "tail" /\ refs' = 1
       \/ root' = "error" /\ refs' = 0
    /\ UNCHANGED <<svars, number, literal>>

\* single_end: only white space may follow.  What follows a number is in its
\* text; behind a string or a word there may be anything, if there is room.
GarbageAfterNumber == \E i \in number.next .. Len(literal) : literal[i] # " "

ReturnScalar ==
    /\ root = "tail"
    /\ literal # <<>> => ~GarbageAfterNumber
    /\ root' = "returned"
    /\ UNCHANGED <<svars, number, literal, refs, allocated>>

\* Mutant: the scalar is not released.
ReleasedOnGarbageMut == refs

ReleasedOnGarbage == refs - 1

GarbageFails ==
    /\ root = "tail"
    /\ IF literal # <<>> THEN GarbageAfterNumber ELSE at = "done" => pos < len
    /\ root' = "error"
    /\ refs' = ReleasedOnGarbage
    /\ UNCHANGED <<svars, number, literal, allocated>>

Next ==
    \/ ReadNumber \/ NumberFails \/ ReadWord
    \/ ReadString \/ StringGoesOn \/ StringEnds
    \/ ReturnScalar \/ GarbageFails

Spec == Init /\ [][Next]_vars

-----------------------------------------------------------------------------
\* Every way out of loads_root_single frees the buffer it allocated, returns
\* the one reference it owns, and none when it fails, after the scalar was
\* already made too.
ScalarEndsClean ==
    root \in {"returned", "error"} =>
        ~allocated /\ refs = (IF root = "returned" THEN 1 ELSE 0)
=============================================================================
