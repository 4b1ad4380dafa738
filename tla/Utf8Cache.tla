----------------------------- MODULE Utf8Cache -----------------------------
(***************************************************************************)
(* dumps_to_bytes() writing str values, and the UTF-8 that Python keeps in *)
(* a str beside its characters.                                            *)
(*                                                                         *)
(* Threads encode the same strs at the same time.  A call uses the UTF-8   *)
(* of a str if there is one, and if it may (is_write_cache) makes it for a *)
(* str that is not too short: in a buffer of its own, published by a       *)
(* compare-and-swap of the pointer after the length was stored.  Nothing   *)
(* else orders the threads of the free-threaded build; under the GIL the   *)
(* steps of one call are not interrupted.  What a thread writes is in      *)
(* Utf8Text.  A key is written as a value is.                              *)
(***************************************************************************)
EXTENDS Utf8Text

CONSTANTS
    Threads,
    Strs,           \* the strs: objects with characters that do not change
    Values,         \* what a str may be: [kind, ascii, compact, chars]
    Contended,      \* bound: those that two threads encode at a time
    Buffers,        \* bound: addresses of UTF-8 buffers
    CacheAlways,    \* USING_AVX512
    ShortStr,       \* 6: shorter strs are not cached
    Builds,         \* the values of SSRJSON_GIL_ENABLED to look at
    NoBuffer        \* NULL

\* Python gives a str the narrowest kind that holds its characters.
ASSUME ValuesAssumption ==
    /\ Values \subseteq [kind : Kinds, ascii : BOOLEAN, compact : BOOLEAN, chars : Seq(Chars)]
    /\ \A v \in Values : \A i \in 1 .. Len(v.chars) :
            Size(v.chars[i]) <= IF v.ascii THEN 1 ELSE MaxUtf8Bytes[v.kind]
    /\ Contended \subseteq Values
ASSUME StrsAssumption == Strs # {}
ASSUME BuffersAssumption == NoBuffer \notin Buffers
ASSUME SettingsAssumption == CacheAlways \in BOOLEAN /\ ShortStr \in Nat /\ Builds \subseteq BOOLEAN

VARIABLES
    gil,        \* SSRJSON_GIL_ENABLED
    value,      \* value[s]: what s is
    utf8,       \* utf8[s]: the buffer of its UTF-8, or NULL
    utf8Length, \* utf8_length of s
    heap,       \* heap[b]: the bytes of buffer b; the buffers there are, its domain
    pc,         \* where a thread is: before the step of that name below, or at the
                \* end of its str
    str,        \* the str it writes
    mayWrite,   \* is_write_cache
    cache,      \* utf8_cache: the pointer read or made
    length,     \* utf8_length, that of cache
    out         \* what it wrote between the quotes

vars == <<gil, value, utf8, utf8Length, heap, pc, str, mayWrite, cache, length, out>>
local == <<str, mayWrite, cache, length, out>>
shared == <<utf8, utf8Length, heap>>

Ends == {"done", "unencodable", "uncacheable", "nomemory"}
Steps == {"length", "make", "setlength", "swap", "setcache", "copy", "encode"}

Terminator == <<<<"end">>>>

\* Before the first call.
NothingWritten ==
    /\ utf8 = [s \in Strs |-> NoBuffer] /\ utf8Length = [s \in Strs |-> 0]
    /\ heap = [b \in {} |-> <<>>]
    /\ pc = [t \in Threads |-> "idle"]
    /\ str = [t \in Threads |-> CHOOSE s \in Strs : TRUE]
    /\ mayWrite = [t \in Threads |-> FALSE]
    /\ cache = [t \in Threads |-> NoBuffer] /\ length = [t \in Threads |-> 0]
    /\ out = [t \in Threads |-> Nothing]

Init ==
    /\ gil \in Builds
    /\ value \in [Strs -> Values]
    /\ NothingWritten

\* The types, and assert(utf8_cache): a call that writes or publishes UTF-8 has it.
TypeOK ==
    /\ gil \in Builds
    /\ DOMAIN value = Strs
    /\ utf8 \in [Strs -> Buffers \cup {NoBuffer}]
    /\ utf8Length \in [Strs -> Nat]
    /\ DOMAIN heap \subseteq Buffers
    /\ pc \in [Threads -> {"idle"} \cup Steps \cup Ends]
    /\ str \in [Threads -> Strs] /\ mayWrite \in [Threads -> BOOLEAN]
    /\ cache \in [Threads -> Buffers \cup {NoBuffer}] /\ length \in [Threads -> Nat]
    /\ \A t \in Threads : pc[t] \in {"setlength", "swap", "setcache", "copy"} => cache[t] # NoBuffer

-----------------------------------------------------------------------------
\* Under the GIL a call runs from its first step to its last.
MayRun(t) == gil => \A u \in Threads \ {t} : pc[u] \notin Steps

Goto(t, label) == pc' = [pc EXCEPT ![t] = label]
Wrote(t, piece) == out' = [out EXCEPT ![t] = piece]

\* b is a new buffer that holds the bytes u.
Allocated(b, u) == heap' = [c \in DOMAIN heap \cup {b} |-> IF c = b THEN u ELSE heap[c]]
Freed(b) == heap' = [c \in DOMAIN heap \ {b} |-> heap[c]]

\* How a str is written whose UTF-8 has len bytes: vectors are read from it.
UseCache(len) == IF CacheAlways \/ len >= VectorBytes THEN "copy" ELSE "encode"

\* b_buf_apd_str, up to the load of the pointer in get_utf8_cache.
Begin(t, s, write) ==
    /\ pc[t] = "idle" /\ MayRun(t)
    /\ \A u \in Threads \ {t} : pc[u] # "idle" => value[s] \in Contended
    /\ str' = [str EXCEPT ![t] = s]
    /\ mayWrite' = [mayWrite EXCEPT ![t] = write]
    /\ IF value[s].ascii
       THEN /\ Goto(t, "done")
            /\ Wrote(t, EncodeAscii(value[s].compact, value[s].chars))
            /\ UNCHANGED cache
       ELSE /\ Goto(t, "length")
            /\ cache' = [cache EXCEPT ![t] = utf8[s]]
            /\ UNCHANGED out
    /\ UNCHANGED <<gil, value, shared, length>>

\* Mutant: the length tells whether there is UTF-8.
HasCacheMut(t) == utf8Length[str[t]] # 0

\* There was UTF-8 when the pointer was read.
HasCache(t) == cache[t] # NoBuffer

\* A str without UTF-8 is given it.
MakesCache(t) == mayWrite[t] /\ (CacheAlways \/ Len(value[str[t]].chars) >= ShortStr)

\* get_utf8_cache, the length; and the choice of what to do.
ReadLength(t) ==
    /\ pc[t] = "length" /\ MayRun(t)
    /\ length' = [length EXCEPT ![t] = utf8Length[str[t]]]
    /\ Goto(t, IF HasCache(t) THEN UseCache(length'[t])
               ELSE IF MakesCache(t) THEN "make" ELSE "encode")
    /\ UNCHANGED <<gil, value, shared, str, mayWrite, cache, out>>

\* write_cache_impl: the UTF-8 of the str in a buffer cut to it, with a zero
\* behind; or neither malloc nor realloc leaves a buffer, or it is freed when a
\* character cannot be encoded.
MakeCache(t) ==
    LET v == value[str[t]]
        made == Encode(v.kind, TRUE, v.compact, v.chars)
    IN  /\ pc[t] = "make" /\ MayRun(t)
        /\ \/ /\ made.ok
              /\ \E b \in Buffers \ DOMAIN heap :
                    /\ Allocated(b, made.text \o Terminator)
                    /\ cache' = [cache EXCEPT ![t] = b]
              /\ length' = [length EXCEPT ![t] = Len(made.text)]
              /\ Goto(t, IF gil THEN "setcache" ELSE "setlength")
              /\ Wrote(t, made)
           \/ /\ ~made.ok
              /\ Goto(t, "uncacheable") /\ Wrote(t, made)
              /\ UNCHANGED <<heap, cache, length>>
           \/ /\ Goto(t, "nomemory")
              /\ UNCHANGED <<heap, cache, length, out>>
        /\ UNCHANGED <<gil, value, utf8, utf8Length, str, mayWrite>>

\* set_cache under the GIL: pointer and length.
SetCache(t) ==
    /\ pc[t] = "setcache" /\ MayRun(t)
    /\ utf8' = [utf8 EXCEPT ![str[t]] = cache[t]]
    /\ utf8Length' = [utf8Length EXCEPT ![str[t]] = length[t]]
    /\ Goto(t, UseCache(length[t]))
    /\ UNCHANGED <<gil, value, heap, local>>

\* set_cache in the free-threaded build, first the length.
SetLength(t) ==
    /\ pc[t] = "setlength" /\ MayRun(t)
    /\ utf8Length' = [utf8Length EXCEPT ![str[t]] = length[t]]
    /\ Goto(t, "swap")
    /\ UNCHANGED <<gil, value, utf8, heap, local>>

\* Mutant: a plain store where another thread was faster.
LostRaceMut(s) == FALSE

\* The compare-and-swap of the pointer of s fails.
LostRace(s) == utf8[s] # NoBuffer

\* set_cache, the pointer: if the str was given its UTF-8 by another thread, that
\* is used and the own freed.
SwapPointer(t) ==
    /\ pc[t] = "swap" /\ MayRun(t)
    /\ IF LostRace(str[t])
       THEN /\ Freed(cache[t])
            /\ cache' = [cache EXCEPT ![t] = utf8[str[t]]]
            /\ UNCHANGED utf8
       ELSE /\ utf8' = [utf8 EXCEPT ![str[t]] = cache[t]]
            /\ UNCHANGED <<heap, cache>>
    /\ Goto(t, UseCache(length[t]))
    /\ UNCHANGED <<gil, value, utf8Length, str, mayWrite, length, out>>

\* bytes_write_ascii_noinline of the UTF-8 of the str.
CopyCache(t) ==
    /\ pc[t] = "copy" /\ MayRun(t)
    /\ Wrote(t, CopyEscaping(VectorBytes, SubSeq(heap[cache[t]], 1, length[t])))
    /\ Goto(t, "done")
    /\ UNCHANGED <<gil, value, shared, str, mayWrite, cache, length>>

\* no_cache_encode: the characters of the str.
EncodeDirectly(t) ==
    LET v == value[str[t]]
        piece == Encode(v.kind, FALSE, v.compact, v.chars)
    IN  /\ pc[t] = "encode" /\ MayRun(t)
        /\ Wrote(t, piece)
        /\ Goto(t, IF piece.ok THEN "done" ELSE "unencodable")
        /\ UNCHANGED <<gil, value, shared, str, mayWrite, cache, length>>

\* The call goes on after the str, or returns.
Return(t) ==
    /\ pc[t] \in Ends
    /\ Goto(t, "idle") /\ Wrote(t, Nothing)
    /\ cache' = [cache EXCEPT ![t] = NoBuffer] /\ length' = [length EXCEPT ![t] = 0]
    /\ UNCHANGED <<gil, value, shared, str, mayWrite>>

\* The bytes of s as UTF-8.
Utf8(s) == FlattenSeq([i \in 1 .. Len(value[s].chars) |-> Bytes(value[s].chars[i])])
HasSurrogate(s) == \E i \in 1 .. Len(value[s].chars) : value[s].chars[i] = "surrogate"

\* Python itself gives s its UTF-8.
PythonCaches(s) ==
    /\ ~value[s].ascii /\ utf8[s] = NoBuffer /\ ~HasSurrogate(s)
    /\ gil => \A t \in Threads : pc[t] \notin Steps
    /\ \E b \in Buffers \ DOMAIN heap : Allocated(b, Utf8(s) \o Terminator) /\ utf8' = [utf8 EXCEPT ![s] = b]
    /\ utf8Length' = [utf8Length EXCEPT ![s] = Len(Utf8(s))]
    /\ UNCHANGED <<gil, value, pc, local>>

\* The last reference to s goes, and its UTF-8 with it; another str like it takes
\* its place.
StrFreed(s) ==
    /\ utf8[s] # NoBuffer /\ \A t \in Threads : pc[t] \in Steps => str[t] # s
    /\ Freed(utf8[s])
    /\ utf8' = [utf8 EXCEPT ![s] = NoBuffer] /\ utf8Length' = [utf8Length EXCEPT ![s] = 0]
    /\ UNCHANGED <<gil, value, pc, local>>

Next ==
    \/ \E t \in Threads :
        \/ \E s \in Strs, write \in BOOLEAN : Begin(t, s, write)
        \/ ReadLength(t) \/ MakeCache(t) \/ SetCache(t) \/ SetLength(t) \/ SwapPointer(t)
        \/ CopyCache(t) \/ EncodeDirectly(t) \/ Return(t)
    \/ \E s \in Strs : PythonCaches(s) \/ StrFreed(s)

Spec == Init /\ [][Next]_vars

-----------------------------------------------------------------------------
Publishing(t) == pc[t] \in {"setlength", "swap", "setcache"}

\* A buffer belongs to one str or to one call that has not published it yet, and
\* is freed when it loses its owner; what a call is about to read is the UTF-8 of
\* its str, not a buffer that was freed when a race for the pointer was lost
\* (write_cache_impl, get_utf8_cache, set_cache).
BuffersOwned ==
    /\ \A s \in Strs : utf8[s] # NoBuffer => utf8[s] \in DOMAIN heap
    /\ \A t \in Threads : Publishing(t) => cache[t] \in DOMAIN heap
    /\ \A b \in DOMAIN heap : \/ \E s \in Strs : utf8[s] = b
                              \/ \E t \in Threads : Publishing(t) /\ cache[t] = b
    /\ \A s, r \in Strs : utf8[s] = utf8[r] /\ utf8[s] # NoBuffer => s = r
    /\ \A t, u \in Threads : Publishing(t) /\ Publishing(u) /\ cache[t] = cache[u] => t = u
    /\ \A t \in Threads, s \in Strs : Publishing(t) => cache[t] # utf8[s]
    /\ \A t \in Threads : pc[t] = "copy" => cache[t] # NoBuffer /\ cache[t] = utf8[str[t]]

\* What is written is the JSON text of the characters, whether it was made of
\* them, of UTF-8 another thread had made, character by character or by vectors;
\* only a str with a surrogate is refused.  And a pointer that others can see
\* leads to the UTF-8 of the str, terminated, and its length is there already
\* (bytes_write_*, b_buf_apd_nonascii_*, set_cache).
OutputIsTheText ==
    /\ \A s \in Strs : utf8[s] # NoBuffer =>
        heap[utf8[s]] = Utf8(s) \o Terminator /\ utf8Length[s] = Len(Utf8(s))
    /\ \A t \in Threads :
        /\ pc[t] = "done" => LET s == value[str[t]].chars
                             IN  /\ ~HasSurrogate(str[t])
                                 /\ out[t].text = FlattenSeq([i \in 1 .. Len(s) |->
                                       IF s[i] \in DOMAIN Escape THEN Escaped(s[i]) ELSE Bytes(s[i])])
        /\ pc[t] \in {"unencodable", "uncacheable"} => HasSurrogate(str[t])

\* No vector is stored past what was reserved for the str and its quotes, or
\* allocated for its UTF-8, whatever part of the vector belongs to it
\* (__excess_bytes_write_ucs*_trailing).  A key has as much reserved as a value, and
\* more behind its text: a quote, a colon, a space and a zero.
StoresInside ==
    \A t \in Threads :
        LET v == value[str[t]] IN
        /\ pc[t] \in {"done", "unencodable"} =>
            Max({1 + out[t].reach, 1 + Len(out[t].text) + 4}) <= JsonRoom(Len(v.chars))
        /\ pc[t] \in {"setlength", "setcache", "uncacheable"} =>
            out[t].reach <= RawRoom(v.kind, Len(v.chars))
=============================================================================
