--------------------------- MODULE DecoderGrammar ---------------------------
(***************************************************************************)
(* Decoder against a reference grammar.  Values(n, d) is the set of JSON   *)
(* values of n tokens nested at most d deep, each with the object that     *)
(* json.loads would give it; it is written from the JSON grammar and knows *)
(* nothing of labels or stacks.                                            *)
(***************************************************************************)
EXTENDS Decoder, FiniteSets

\* Room for what can complete a prefix of MaxTokens tokens: the closing
\* brackets, and the rest of one member.
RefTokens == MaxTokens + DecodeMaxRecursion + 3

-----------------------------------------------------------------------------
(* The grammar.  A sentence is a sequence of tokens with what it denotes: the  *)
(* object of a value, the list of the objects of some elements, or of the keys *)
(* and values of some members.                                                 *)

Sentence(toks, val) == [toks |-> toks, val |-> val]

WithHook(hook, v) == IF hook THEN Hooked(v) ELSE v
Array(items)  == WithHook(ArrayHook, ListValue(items))
Object(pairs) == WithHook(ObjectHook, DictValue(pairs))

\* value ::= scalar | string | "[" "]" | "{" "}" | "[" elements "]" | "{" members "}"
ValueRule(g, n, d) ==
    (IF n = 1
     THEN {Sentence(<<Scalar>>, ScalarValue)} \cup {Sentence(<<k>>, StrValue(k)) : k \in Keys}
     ELSE {}) \cup
    (IF n = 2 /\ d >= 1
     THEN {Sentence(<<"arr_open", "arr_close">>, Array(<<>>)),
           Sentence(<<"obj_open", "obj_close">>, Object(<<>>))}
     ELSE {}) \cup
    (IF n >= 3 /\ d >= 1
     THEN {Sentence(<<"arr_open">> \o e.toks \o <<"arr_close">>, Array(e.val)) :
              e \in g[<<"elements", n - 2, d - 1>>]} \cup
          {Sentence(<<"obj_open">> \o m.toks \o <<"obj_close">>, Object(m.val)) :
              m \in g[<<"members", n - 2, d - 1>>]}
     ELSE {})

\* A value as an element, and as a member under any key.
AsElements(values) == {Sentence(v.toks, <<v.val>>) : v \in values}
AsMember(k, values) ==
    {Sentence(<<k, "colon">> \o v.toks, <<StrValue(k), v.val>>) : v \in values}
AsMembers(values) == UNION {AsMember(k, values) : k \in Keys}

Listed(firsts, lasts) ==
    {Sentence(f.toks \o <<"comma">> \o l.toks, f.val \o l.val) : f \in firsts, l \in lasts}

\* elements ::= value | elements "," value
ElementsRule(g, n, d) ==
    AsElements(ValueRule(g, n, d)) \cup
    UNION {Listed(g[<<"elements", i, d>>], AsElements(g[<<"value", n - i - 1, d>>])) : i \in 1 .. n - 2}

\* members ::= string ":" value | members "," string ":" value
MembersRule(g, n, d) ==
    (IF n >= 3 THEN AsMembers(g[<<"value", n - 2, d>>]) ELSE {}) \cup
    UNION {Listed(g[<<"members", i, d>>], AsMembers(g[<<"value", n - i - 3, d>>])) : i \in 1 .. n - 4}

Categories == {"value", "elements", "members"} \X (1 .. RefTokens) \X (0 .. DecodeMaxRecursion)

Rule(g, x) == CASE x[1] = "value"    -> ValueRule(g, x[2], x[3])
                [] x[1] = "elements" -> ElementsRule(g, x[2], x[3])
                [] x[1] = "members"  -> MembersRule(g, x[2], x[3])

\* The sentences of each category.
Grammar[x \in Categories] == Rule(Grammar, x)

Values(n, d) == Grammar[<<"value", n, d>>]

Docs == UNION {Values(n, DecodeMaxRecursion) : n \in 1 .. MaxTokens}

DocResults == {<<d.toks \o <<Eof>>, d.val>> : d \in Docs}

\* The prefixes of documents that have at most MaxTokens tokens and the end.
ViablePrefixes ==
    LET toks == {d.toks \o <<Eof>> : d \in UNION {Values(n, DecodeMaxRecursion) : n \in 1 .. RefTokens}}
    IN  UNION {{SubSeq(t, 1, n) : n \in {m \in 0 .. MaxTokens + 1 : m <= Len(t)}} : t \in toks}

-----------------------------------------------------------------------------
(* What the reader promises. *)

\* A document the reader finishes is a document of the grammar, its result the
\* value the grammar gives it (the last of several equal keys wins, hooks see
\* inner values first); this is what the labels, the counts and the pops of
\* READ_ROOT_IMPL add up to.
ResultIsTheValue == pc = "done" => <<input, objs[1]>> \in DocResults

\* The reader refuses a document for its syntax only at a token no document can
\* go on with, unless an allocation failed; so every document of the grammar
\* is accepted and the position in the message is that of the first error.
RejectsOnlyErrors ==
    err = "syntax" /\ ~oom => input \notin ViablePrefixes

\* How many containers the first n tokens of s leave open.
Opens(s, n)  == {i \in 1 .. n : s[i] \in {"arr_open", "obj_open"}}
Closes(s, n) == {i \in 1 .. n : s[i] \in {"arr_close", "obj_close"}}
OpenAt(s, n) == Cardinality(Opens(s, n)) - Cardinality(Closes(s, n))

\* "max recursion exceeded" is raised at the first container nested deeper than
\* SSRJSON_DECODE_MAX_RECURSION and never for another document.
DepthLimitExact ==
    /\ err = "depth" => OpenAt(input, Len(input)) = DecodeMaxRecursion + 1
    /\ pc = "done" => \A n \in 1 .. Len(input) : OpenAt(input, n) <= DecodeMaxRecursion
=============================================================================
