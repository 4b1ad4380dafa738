------------------------------ MODULE Appends ------------------------------
(***************************************************************************)
(* The appends of dumps() in every build, and but for strs those of        *)
(* dumps_to_bytes(): one token of a document, written into room that was   *)
(* reserved for it alone.                                                  *)
(*                                                                         *)
(* Every append reserves a number of characters before it writes, and then *)
(* stores more than its text: whole vectors, escapes of 8 characters,      *)
(* numbers that are formatted in a local buffer and widened as they are.   *)
(* The next token overwrites the excess.  EncodeBuffer has the buffer, in  *)
(* which an append writes at most what it reserved; here is why it does.   *)
(*                                                                         *)
(* The document that is nothing but a number or a constant is formatted in *)
(* a local buffer, which is the room that counts.                          *)
(***************************************************************************)
EXTENDS IntegerText, CopyVectors

CONSTANTS
    AppendIndents,  \* COMPILE_INDENT_LEVEL: 0, 2 and 4
    Depths,         \* bound: cur_nested_depth
    AppendedStrs    \* bound: AppendedStrs[isa][kind], strs of the kind: [compact, chars],
                    \* of code points

ASSUME AppendsAssumption ==
    /\ AppendIndents \subseteq Nat /\ Depths \subseteq Nat
    /\ DOMAIN AppendedStrs = Isas

VARIABLES
    append,     \* where a token is written: [state, isa, level, indent, depth, inObj],
                \* the state one of "none", "begun", "written"
    reserved,   \* the characters it reserved
    written,    \* what it stored behind the writer it got
    expected,   \* the text that the token has
    outside     \* a str was loaded from outside of its memory

appendVars == <<append, reserved, written, expected, outside>>

-----------------------------------------------------------------------------
\* get_indent_char_count
IndentCount == IF append.indent = 0 THEN 0 ELSE 1 + append.indent * append.depth

\* write_unicode_indent
IndentText == [i \in 1 .. IndentCount |-> IF i = 1 THEN "newline" ELSE "space"]

\* Characters that are stored, the last ones behind the text.
Stored(text, reach) == Piece(text, Max({Len(text), reach}), TRUE)
Literal(text) == Stored(text, 0)
Comma == Literal(<<",">>)

\* A value that is not in a dict has an indent of its own.
Alone == ~append.inObj

\* A token after its indent, which a value in a dict does not have:
\* unicode_indent_writer, or the one for a key or the end of a container.
WriteToken(room, token, indented) ==
    /\ append' = [append EXCEPT !.state = "written"]
    /\ reserved' = (IF indented THEN IndentCount ELSE 0) + room
    /\ written' = Then(Literal(IF indented THEN IndentText ELSE <<>>), token)

Expect(text, indented) == expected' = (IF indented THEN IndentText ELSE <<>>) \o text

-----------------------------------------------------------------------------
\* The builds whose widest store is 16 bytes of x86.
SseOnly == append.isa \in {"sse2", "sse4"}

\* _WriteBoolCopyCnt
BoolCopyCount == IF SseOnly /\ append.level = 4 THEN 6 ELSE 8

AppendBool ==
    \E text \in {<<"t", "r", "u", "e", ",">>, <<"f", "a", "l", "s", "e", ",">>} :
        /\ WriteToken(BoolCopyCount, Stored(text, BoolCopyCount), Alone)
        /\ Expect(text, Alone)

\* write_unicode_null stores zeros behind its text, as many as one store has.
AppendNull ==
    LET text == <<"n", "u", "l", "l", ",">>
    IN  /\ WriteToken(8, Stored(text, IF SseOnly /\ append.level = 4 THEN 6 ELSE 8), Alone)
        /\ Expect(text, Alone)

AppendEmpty ==
    \E text \in {<<"[", "]", ",">>, <<"{", "}", ",">>} :
        /\ WriteToken(4, Stored(text, IF append.level = 4 THEN 3 ELSE 4), Alone)
        /\ Expect(text, Alone)

AppendBegin ==
    \E text \in {<<"[">>, <<"{">>} : WriteToken(1, Literal(text), Alone) /\ Expect(text, Alone)

\* The end is written over the last comma.
AppendEnd ==
    \E text \in {<<"]", ",">>, <<"}", ",">>} : WriteToken(2, Literal(text), TRUE) /\ Expect(text, TRUE)

-----------------------------------------------------------------------------
\* A number is formatted where it belongs at a width of one byte.  Otherwise it is
\* formatted in a local buffer, the first characters of which are widened.
Widened(text, count) == IF append.level = 1 THEN text ELSE Stored(text.text, count)

\* What xjb64 and xjb32 store, whatever the number (ssrjson_dtoa_write_length,
\* ssrjson_ftoa_write_length), and the widths of their texts: of the shortest and
\* the longest.
FloatStore == [f64 |-> 34, f32 |-> 21]
FloatWidths == [f64 |-> {3, 24}, f32 |-> {3, 15}]
FloatText(type, width) == [i \in 1 .. width |-> <<type, i>>]

\* ssrjson_dtoa_allocate_length, ssrjson_ftoa_allocate_length
FloatRoom == [f64 |-> 64, f32 |-> 24]

AppendFloat ==
    \E type \in {"f64", "f32"} : \E width \in FloatWidths[type] :
        LET text == FloatText(type, width)
            number == Widened(Stored(text, FloatStore[type]), IF type = "f64" THEN 32 ELSE 24)
        IN  /\ WriteToken(FloatRoom[type], Then(number, Comma), Alone)
            /\ Expect(text \o <<",">>, Alone)

\* The digits that u64_to_unicode and the others convert.
Converted == [u64 |-> 32, u32 |-> 16, u16 |-> 8, u8 |-> 4]

\* Mutant: as many as are converted.
IntegerRoomMut(type) == Converted[type]

\* What encode_process_val reserves.
IntegerRoom(type) == IF type = "u8" THEN 5 ELSE Converted[type]

IntegerTypes == {"u64", "u32", "u16", "u8"}

AppendInteger ==
    \E type \in IntegerTypes, negative \in BOOLEAN : \E digits \in IntegerValues(type, negative) :
        /\ WriteToken(IntegerRoom(type),
                  Then(Widened(IntegerText(type, negative, digits), Converted[type]), Comma), Alone)
        /\ Expect((IF negative THEN <<"-">> ELSE <<>>) \o digits \o <<",">>, Alone)

\* t_long_zero
AppendZero ==
    WriteToken(2, Literal(<<0, ",">>), Alone) /\ Expect(<<0, ",">>, Alone)

\* ssrjson_dumps_single_long and the others: a zero byte behind the number ends
\* what is copied to the str.
FormatSingle ==
    \/ \E type \in IntegerTypes, negative \in BOOLEAN : \E digits \in IntegerValues(type, negative) :
        /\ WriteToken(CASE type = "u64" -> 32 [] type = "u32" -> 16 [] OTHER -> 8,
                  Then(IntegerText(type, negative, digits), Literal(<<"end">>)), FALSE)
        /\ Expect((IF negative THEN <<"-">> ELSE <<>>) \o digits \o <<"end">>, FALSE)
    \/ \E type \in {"f64", "f32"} : \E width \in FloatWidths[type] :
        /\ WriteToken(FloatRoom[type],
                  Then(Stored(FloatText(type, width), FloatStore[type]), Literal(<<"end">>)), FALSE)
        /\ Expect(FloatText(type, width) \o <<"end">>, FALSE)

-----------------------------------------------------------------------------
\* What the last vector or escape stores behind the characters.
ExcessInEncoding(kind) == Max({Lanes(append.isa, kind), 8}) - MaxJsonBytes

\* Mutant: what follows the characters is thought to cover the last store.
StrRoomMut(kind, len, after) == 1 + MaxJsonBytes * len + after

\* What u_buf_apd_str_rsv_idt and u_buf_apd_key_rsv_idt reserve after the indent.
StrRoom(kind, len, after) == 1 + MaxJsonBytes * len + Max({after, ExcessInEncoding(kind)})

Quoted(chars) == Then(Literal(<<"quote">>), Then(chars, Literal(<<"quote">>)))

CharactersText(s) ==
    FlattenSeq([i \in 1 .. Len(s) |->
                   IF MustEscape(FALSE, s[i]) THEN EscapeBytes(s[i]) ELSE <<<<s[i], 1>>>>])

\* u_buf_apd_str_impl, u_buf_apd_key_impl, with what follows the str in `after'.
WriteStrToken(kind, s, room, after, indented) ==
    LET copied == CopyStr(append.isa, kind, append.level, s.compact, s.chars)
    IN  /\ WriteToken(room, Then(Quoted(Piece(copied.text, copied.reach, copied.ok)), after), indented)
        /\ outside' = (/\ s.chars # <<>>
                       /\ \/ copied.first < 1 - Before(kind, s.compact)
                          \/ copied.last > Len(s.chars))

AppendString ==
    \E kind \in {k \in Kinds : k <= append.level} : \E s \in AppendedStrs[append.isa][kind] :
        /\ WriteStrToken(kind, s, StrRoom(kind, Len(s.chars), 2), Comma, Alone)
        /\ Expect(<<"quote">> \o CharactersText(s.chars) \o <<"quote", ",">>, Alone)

\* A key is followed by a space, and a zero, if there is an indent.
AppendKey ==
    LET indented == append.indent > 0
        colon == IF indented THEN <<":", " ">> ELSE <<":">>
        behind == Stored(colon, IF indented /\ append.level < 4 THEN 3 ELSE 0)
    IN  \E kind \in {k \in Kinds : k <= append.level} : \E s \in AppendedStrs[append.isa][kind] :
        /\ WriteStrToken(kind, s, StrRoom(kind, Len(s.chars), IF indented THEN 4 ELSE 2), behind, TRUE)
        /\ Expect(<<"quote">> \o CharactersText(s.chars) \o <<"quote">> \o colon, TRUE)

-----------------------------------------------------------------------------
AppendPlaces ==
    [state : {"begun"}, isa : Isas, level : Kinds, indent : AppendIndents, depth : Depths, inObj : BOOLEAN]

NoAppend ==
    /\ append = [state |-> "none", isa |-> "sse2", level |-> 1, indent |-> 0, depth |-> 0, inObj |-> TRUE]
    /\ reserved = 0 /\ written = Nothing /\ expected = <<>> /\ outside = FALSE

AppendInit ==
    /\ append \in AppendPlaces
    /\ reserved = 0 /\ written = Nothing /\ expected = <<>> /\ outside = FALSE

AppendNext ==
    /\ append.state = "begun"
    /\ \/ /\ \/ AppendBool \/ AppendNull \/ AppendEmpty \/ AppendBegin \/ AppendEnd
             \/ AppendFloat \/ AppendInteger \/ AppendZero \/ FormatSingle
          /\ UNCHANGED outside
       \/ AppendString \/ AppendKey

\* No append stores past what it reserved, whatever it stores behind its text: the
\* assumption of EncodeBuffer, which no check in the code repeats
\* (check_unicode_writer_valid looks at the writer alone, in debug builds).  And none
\* loads the last vector of a str from before the str's own memory.
AppendFits == written.reach <= reserved /\ ~outside

\* What it stored before the writer it returns is the token, at every width, by
\* vectors or by characters; the digits of an integer are all there.
AppendIsTheToken == written.text = expected
=============================================================================
