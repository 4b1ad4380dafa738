------------------------------ MODULE NdArray ------------------------------
(***************************************************************************)
(* u8_buffer_append_ndarray: a numpy array, written into room that is      *)
(* computed from its shape before the first element is looked at, by a     *)
(* traversal that never checks for room; and the document that is nothing  *)
(* but one array (ssrjson_dumps_single_ndarray).                           *)
(*                                                                         *)
(* An element is known by its place in the array's memory.  Its text has   *)
(* some width, and its writer stores more than that: the shortest and the  *)
(* longest text of every type are tried.  An indent is one token of the    *)
(* width it has.  What a document does around an array that is a value in  *)
(* it is in EncodeBuffer.                                                  *)
(***************************************************************************)
EXTENDS Integers, SequencesExt

CONSTANTS
    Shapes,         \* bound: the shapes of the arrays
    ElementTypes,   \* bound: their types, a subset of NDATypes
    Indents,        \* COMPILE_INDENT_LEVEL: 0, 2 and 4
    BaseDepths      \* bound: depths at which an array is met

\* The longest text of an element: _NdaElemWriteSizeTable.
ElemWriteSize ==
    [f64 |-> 24, f32 |-> 15, f16 |-> 15, i64 |-> 20, i32 |-> 11, i16 |-> 6, i8 |-> 4,
     u64 |-> 20, u32 |-> 10, u16 |-> 5, u8 |-> 3, bool |-> 5]
NDATypes == DOMAIN ElemWriteSize

\* What the writers store whatever they write: ssrjson_dtoa_write_length,
\* ssrjson_ftoa_write_length and _WriteBoolCopyCnt; integers are stored by two
\* digits, so that one digit takes a byte more.
StoreSize(type, width) ==
    CASE type = "f64" -> 34
      [] type \in {"f32", "f16"} -> 21
      [] type = "bool" -> 8
      [] OTHER -> IF width = 1 THEN 2 ELSE width

\* The widths tried of an element: those of 0.0, true and a digit are the least.
ElementWidths(type) ==
    LET shortest == CASE type \in {"f64", "f32", "f16"} -> 3
                      [] type = "bool" -> 4
                      [] OTHER -> 1
    IN  {shortest, ElemWriteSize[type]}

ASSUME ArraysAssumption ==
    /\ Shapes \subseteq Seq(Nat) /\ <<>> \notin Shapes
    /\ ElementTypes \subseteq NDATypes
    /\ Indents \subseteq Nat /\ BaseDepths \subseteq Nat

VARIABLES
    array,      \* what is written: [shape, type, indent, base, inObj, whole]
    at,         \* "none", "begin", "capsule", "traverse", "written", "returned", "failed"
    frames,     \* the stack of the traversal, depth + 1 frames
    text,       \* the tokens written; an element is <<place, width>>
    room,       \* reserve_cnt
    reach,      \* how far behind its start the text was stored
    owned       \* of {"capsule", "buffer"}: a reference and the block owned

arrayVars == <<array, at, frames, text, room, reach, owned>>

-----------------------------------------------------------------------------
Width(token) == CASE token[1] = "indent" -> 1 + array.indent * token[2]
                  [] token[1] = "element" -> token[3]
                  [] OTHER -> 1

Written(tokens) == FoldLeft(LAMBDA n, t : n + Width(t), 0, tokens)

Indent(depth) == IF array.indent = 0 THEN <<>> ELSE <<<<"indent", depth>>>>

\* write_unicode_indent with its newline.
IndentSize(a, depth) == IF a.indent = 0 THEN 0 ELSE depth * a.indent + 1

\* get_1darray_reserve_cnt
Reserve1D(a, depth, length) ==
    IF length = 0 THEN 3
    ELSE (length + 1) * IndentSize(a, depth)
         + length * (ElemWriteSize[a.type] + 1 + a.indent) + 3 - 1

\* get_ndarray_reserve_cnt_internal: of the array from dimension d on.
ReserveND(a) ==
    LET nd == Len(a.shape)
        from[d \in 1 .. nd] ==
            LET length == a.shape[d]
                depth == a.base + d
            IN  IF d = nd THEN Reserve1D(a, depth, length)
                ELSE IF length = 0 THEN 3
                ELSE from[d + 1] * length
                     + IndentSize(a, depth + 1) * (length - 1)
                     + IndentSize(a, depth + 1) + 1
                     + IndentSize(a, depth) + 2 - 1
    IN  from[1]

\* Mutant: nothing for what the writers store behind their text.
PaddingMut == 0

Padding == 10

\* get_ndarray_reserve_cnt
ReserveCount(a) ==
    (IF a.inObj THEN 0 ELSE IndentSize(a, a.base)) + Padding + ReserveND(a)

\* The stride of a dimension, in elements.  NumPy calls an array C-contiguous
\* whatever the stride of a dimension with less than two.
Stride(shape, d) ==
    IF shape[d] < 2 THEN 99
    ELSE FoldLeft(LAMBDA p, n : p * n, 1, SubSeq(shape, d + 1, Len(shape)))

Frame(d, place) == [place |-> place, remaining |-> array.shape[d], stride |-> Stride(array.shape, d)]

-----------------------------------------------------------------------------
\* No array is written: the document has none.
NoArray ==
    /\ array = [shape |-> <<1>>, type |-> "bool", indent |-> 0, base |-> 0, inObj |-> TRUE, whole |-> TRUE]
    /\ at = "none"
    /\ frames = <<>> /\ text = <<>> /\ room = 0 /\ reach = 0 /\ owned = {}

\* An array is met, as the document or in it.
ArrayInit ==
    /\ array \in [shape : Shapes, type : ElementTypes, indent : Indents,
                  base : BaseDepths, inObj : BOOLEAN, whole : BOOLEAN]
    /\ array.whole => array.base = 0 /\ array.inObj
    /\ ~array.whole => array.base > 0
    /\ at = "begin"
    /\ frames = <<>> /\ text = <<>> /\ room = 0 /\ reach = 0
    /\ owned = IF array.whole THEN {"buffer"} ELSE {}

\* __array_struct__ is fetched.  Or it cannot be, and then a document that is the
\* array frees its buffer.
GetCapsule ==
    /\ at = "begin"
    /\ \/ at' = "capsule" /\ owned' = owned \cup {"capsule"}
       \/ at' = "failed" /\ owned' = owned \ {"buffer"}
    /\ UNCHANGED <<array, frames, text, room, reach>>

\* The capsule is not what it should be, the array is not C-contiguous, not of
\* native byte order, of no dimension or of more than 32, or of a type unknown to
\* to_ndatype; or there is no room.
Refuse ==
    /\ at = "capsule"
    /\ at' = "failed" /\ owned' = {}
    /\ UNCHANGED <<array, frames, text, room, reach>>

\* The room is reserved, and the first bracket written.
BeginArray ==
    /\ at = "capsule"
    /\ room' = ReserveCount(array)
    /\ text' = (IF array.inObj THEN <<>> ELSE Indent(array.base)) \o <<<<"[">>>>
    /\ reach' = Written(text')
    /\ frames' = <<Frame(1, 0)>>
    /\ at' = "traverse"
    /\ UNCHANGED <<array, owned>>

Top == frames[Len(frames)]
Depth == array.base + Len(frames) - 1

\* The innermost dimension: all its elements.
WriteRow ==
    /\ at = "traverse" /\ Len(frames) = Len(array.shape) /\ Top.remaining > 0
    /\ \E widths \in [1 .. Top.remaining -> ElementWidths(array.type)] :
        LET before(i) == FlattenSeq([j \in 1 .. i - 1 |->
                             Indent(Depth + 1) \o
                             <<<<"element", Top.place + (j - 1) * Top.stride, widths[j]>>, <<",">>>>])
            start(i) == Written(text) + Written(before(i) \o Indent(Depth + 1))
        IN  /\ text' = text \o before(Top.remaining + 1)
            /\ reach' = Max({reach, Written(text')} \cup
                            {start(i) + StoreSize(array.type, widths[i]) : i \in DOMAIN widths})
    /\ frames' = [frames EXCEPT ![Len(frames)].remaining = 0]
    /\ UNCHANGED <<array, at, room, owned>>

\* Mutant: the same child again.
AfterChildMut(f) == [f EXCEPT !.remaining = @ - 1]

AfterChild(f) == [f EXCEPT !.remaining = @ - 1, !.place = @ + f.stride]

\* An outer dimension: its next child.
Descend ==
    /\ at = "traverse" /\ Len(frames) < Len(array.shape) /\ Top.remaining > 0
    /\ frames' = Append([frames EXCEPT ![Len(frames)] = AfterChild(@)],
                        Frame(Len(frames) + 1, Top.place))
    /\ text' = text \o Indent(Depth + 1) \o <<<<"[">>>>
    /\ reach' = Max({reach, Written(text')})
    /\ UNCHANGED <<array, at, room, owned>>

\* The end of a dimension: the last comma is overwritten, unless it is empty.
CloseDimension ==
    /\ at = "traverse" /\ Top.remaining = 0
    /\ text' = (IF array.shape[Len(frames)] = 0 THEN text ELSE Front(text) \o Indent(Depth))
               \o <<<<"]">>, <<",">>>>
    /\ reach' = Max({reach, Written(text')})
    /\ frames' = Front(frames)
    /\ IF Len(frames) = 1
       THEN at' = "written" /\ owned' = owned \ {"capsule"}
       ELSE UNCHANGED <<at, owned>>
    /\ UNCHANGED <<array, room>>

\* The document goes on; or it is the array without the comma, if the block can be
\* cut to it.
ReturnArray ==
    /\ at = "written"
    /\ \/ at' = "returned" /\ UNCHANGED owned
       \/ array.whole /\ at' = "failed" /\ owned' = owned \ {"buffer"}
    /\ text' = IF array.whole THEN Front(text) ELSE text
    /\ UNCHANGED <<array, frames, room, reach>>

ArrayNext ==
    \/ GetCapsule \/ Refuse \/ BeginArray
    \/ WriteRow \/ Descend \/ CloseDimension
    \/ ReturnArray

-----------------------------------------------------------------------------
\* What was computed from the shape is enough for everything that is stored, the
\* part of a number's vector behind its text included, at every indent and depth
\* and with empty dimensions anywhere: assert(writer <= writer_before_traverse +
\* reserve_cnt) speaks of the text alone.
ArrayFits == reach <= room

\* The text is the array's elements as nested lists, in the order of its indices,
\* and whoever ends owns the block that it returns and nothing else.
ArrayIsTheLists ==
    LET nd == Len(array.shape)
        size(d) == FoldLeft(LAMBDA p, n : p * n, 1, SubSeq(array.shape, d, nd))
        list[d \in 1 .. nd + 1, place \in 0 .. size(1)] ==
            IF d > nd THEN <<<<"element", place>>>>
            ELSE LET n == array.shape[d]
                     items == [i \in 1 .. n |->
                                  (IF i = 1 THEN <<>> ELSE <<<<",">>>>) \o
                                  Indent(array.base + d) \o list[d + 1, place + (i - 1) * size(d + 1)]]
                 IN  <<<<"[">>>> \o FlattenSeq(items)
                     \o (IF n = 0 THEN <<>> ELSE Indent(array.base + d - 1)) \o <<<<"]">>>>
    IN  /\ at = "returned" =>
            /\ [i \in DOMAIN text |-> IF text[i][1] = "element" THEN <<"element", text[i][2]>> ELSE text[i]]
               = (IF array.inObj THEN <<>> ELSE Indent(array.base)) \o list[1, 0]
                 \o (IF array.whole THEN <<>> ELSE <<<<",">>>>)
            /\ owned = IF array.whole THEN {"buffer"} ELSE {}
        /\ at = "failed" => owned = {}
=============================================================================
