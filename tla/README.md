# Verification of ssrJSON in TLA+

ssrJSON is a C extension module for Python that replaces `json`: `loads()`
turns a str or bytes into Python objects, `dumps()` and `dumps_to_bytes()` turn
Python objects into text. The code is a pair of goto machines over explicit
stacks, built several times over for SIMD widths, character widths, and three
threading variants (GIL, free-threaded with locks, free-threaded without).

This directory holds models of the parts whose correctness rests on long
sequences of steps, on failures in the middle of one, or on threads: TLA+
modules written from the source, TLC configurations that check them on small
instances, and theorems about them that TLAPS checks for all instances.
`PROJECT.json` maps every definition to the lines it models.

Paths below are relative to the repository; the implementation is `src/`.

## The system

| component | state | operations | who calls it |
|---|---|---|---|
| Decoder entry and contexts (`decode/decode.c`, `tls.h`) | per thread a doubly linked list of `DecoderBuffers`, `cur_buffer`; a static `_DefaultDecoderCtx` | enter and leave `loads()` | Python, and hooks again |
| Document reader (`decode/str/_decode_str_root.inl.h`, its twin for bytes, `_decode_str.inl.h`, `decode_bytes.h`) | container stack, object stack, malloc'ed buffers, the references it owns | one label per syntactic position | the entry; calls hooks, the string and number readers, `decode_arr`, `decode_obj` |
| Key cache (`decode/decode_shared.h`, `tls.c`) | 512 slots, global or per thread, with a reference to a str each | get, add, drop with the thread or the module | `make_string` for keys |
| String decoding (`decode/str`, `decode/bytes`) | temporary buffer, width so far | copy, escape, widen | the reader |
| Number decoding (`decode/float`) | none | parse | the reader |
| Encoder walk (`encode/_encode_impl.inl.h`, `encode/bytes`) | container stack, current object, position and size; set of locked objects | next value, enter, leave, fail, succeed | Python, on many threads in the free-threaded build |
| Unicode write buffer (`encode/states.h`, `encode_utils.c`, `encode_cvt.h`) | buffer, writer, character width, lengths of the parts written in each width | reserve, promote, widen at the end | the walk |
| Token writers (`encode/_sw_writers.inl.h`, `_sirw_encode_unicode_impl.inl.h`, `encode_shared.h`) | none; they write into reserved room | append a constant, number, str, key, bracket | the walk; `dumps()` of one value |
| UTF-8 encoder and its cache (`encode/bytes/encode_utf8.h`, `non_ascii.h`, `pyutils.h`) | the UTF-8 that CPython keeps in a str, shared by all threads | encode, read, make, publish | the walk of `dumps_to_bytes()` |
| ndarray traversal (`ndarray/`) | stack of frames, the array's capsule | reserve, traverse | both walks; `dumps()` of one array |
| Module, dispatch, arguments (`ssrjson.c`, `multilib.c`) | global options, TLS keys | import, free | Python |
| SIMD layer, float formatting, hashes | none | pure | everything |

Components share little: the contexts give the reader its buffers; the walk
shares the Python objects with every other thread. What is hard:

- **Re-entry.** A hook runs in the middle of a document and may call `loads()`
  again, with hooks again; under the GIL another thread may run meanwhile.
- **Accounting by count.** The reader's object stack has no boundaries between
  containers; a close pops by a count, and a failure drops what is left. Each
  of some thirty exits must agree with each of some twenty pushes.
- **Partial failure.** Every allocation and hook can fail between two moves of
  a reference, with the buffers in the context or malloc'ed.
- **Locks.** The free-threaded `dumps()` locks a tree of objects from outer to
  inner while other threads change them, or encode them from another root.
- **Stale sizes.** Sizes are read before a lock, and one variable holds the
  list size of every level.
- **Vectors.** Loads and stores go in whole vectors past the end of what they
  are about, also for the last few characters; what was reserved must cover it,
  and what is stored in excess must be overwritten or cut off.
- **Sharing a str.** Threads fill the UTF-8 of one str at the same time; the
  length and the pointer are two stores.
- **Life of a cache.** Tables of keys go with their thread or with the module,
  which may be imported again, while dicts hold the keys.
- **Limits.** Recursion limits of the reader, the walk and the hooks, and the
  first growth of a buffer that starts inside the context.

What makes each component correct: a call of `loads()` has its buffers to
itself; the reader accepts JSON and nothing else, returns the value, and leaks
and double-frees nothing; a key, string or number is the one in the text;
nothing is stored outside the room it has; `dumps()` writes the text of its
argument or raises the right error, releases every lock, and does not deadlock
by itself. `PROJECT.json` lists the hazards one by one with their lines.

## Modules

| module | models | checked by | proved in |
|---|---|---|---|
| `Decoder` | the document reader, from the first character to the return | `DecoderGrammar` | `DecoderProofs` |
| `DecoderGrammar` | the JSON grammar with what each sentence denotes, and what the reader promises about it (no state of its own) | itself | `DecoderProofs` |
| `StringDecode` | decoding of one string, five kinds of documents | `MCScalars` | `ScalarDocumentProofs` |
| `NumberParse` | `loads_number` up to the conversion to binary | `MCScalars` | |
| `ScalarDocument` | the document that is one scalar; composes the two above | `MCScalars` | `ScalarDocumentProofs` |
| `StrVectors` | the vectors a string of a str document is read by, in each build, its escapes, and the words | `MCScalars` | |
| `Utf8Blocks` | the UTF-8 of a bytes document, by blocks and byte by byte | `MCScalars` | |
| `LongCopies` | `long_cvt`, `long_back_cvt`, `ssrjson_memcpy`, the copy of a bytes document | `MCScalars` | |
| `Readers` | one scalar, UTF-8 string, str or copy, for a run of them all | `MCScalars` | |
| `KeyCache` | the cache of keys, over the life of module and threads | `MCKeyCache` | `KeyCacheProofs` |
| `DecoderContexts` | entry and exit of `ssrjson_Decode`, the list of contexts, hooks | `MCDecoderContexts` | `DecoderContextsProofs` |
| `ContextPool` | abstract: each active call holds a context of its own | refined by `DecoderContexts` | `DecoderContextsProofs` |
| `EncoderWalk` | `ssrjson_dumps_obj` and the containers of `encode_process_val`, with threads | `MCEncoderWalk` | `EncoderWalkProofs` |
| `EncoderTree` | the containers as a tree: their text, depth and circles, and what the walk promises about them (no state of its own) | `MCEncoderWalk` | `EncoderWalkProofs` |
| `EncodeBuffer` | the buffer of `dumps()`: growth, changes of the character width, widening in place, the cut | `MCEncodeBuffer` | `EncodeBufferProofs` |
| `Utf8Text` | the UTF-8 that is written for a str, by vectors and by characters (no state) | `MCWriters` | `Utf8CacheProofs` |
| `Utf8Cache` | the UTF-8 cached in a str, with threads | `MCWriters` | `Utf8CacheProofs` |
| `NdArray` | the traversal of an array, and what is reserved for it | `MCWriters` | |
| `IntegerText` | the digits of an integer (no state) | `MCWriters` | |
| `LaneMasks` | comparison of vectors, search of masks, loads of less than a vector (no state) | `MCWriters`, `MCScalars` | |
| `CopyVectors` | the copying and escaping of a str by `dumps()`, in each of the five builds (no state) | `MCWriters` | |
| `Appends` | every token of `dumps()`, and what is reserved for it | `MCWriters` | |
| `Utf8Vectors` | the UTF-8 of a str, in each of the five builds | `MCWriters` | |
| `Writers` | one str, array or token, for a run of them all | `MCWriters` | |
| `DataInduction` | no part of the code: induction over naturals, ranks and sequences, and recursive functions | | itself |

### Decoder

A *token* is what one label consumes: a bracket, a comma, a colon, a string
(a member of `Keys`), a scalar, some text no label accepts, or the end. The
document is chosen token by token, so a run covers all documents up to
`MaxTokens` tokens, malformed ones included.

`ctn` is the container stack with the count of each container, `objs` the
object stack (`decode_obj_stack .. decode_obj_writer`), `cap` its capacity,
`pc` the label. Each action is a label seen with a token: `ReadScalar`,
`ReadString` and `ReadKey` push a value (or a key), `OpenContainer` is
`arr_begin`/`obj_begin` with `ctn_grow_check`, `CloseArray`/`CloseObject` are
`arr_end`/`obj_end` with `decode_arr`/`decode_obj` and the count of the parent,
`DocEnd` is `doc_end` and `success`, `FailedCleanup` is `failed_cleanup`.
`Push` is `_decoder_push_obj` with its three outcomes; `CreationFails` is any
constructor that returns NULL. The str and the bytes reader, pretty and
minified, have the same labels and are one module; where they differ (the str
reader of a single string does not look whether its buffer could be allocated)
the model has both outcomes, the undefined one as the state `wild`.

`refs`, `lost`, `heap`, `oom` and the `start` of a container are bookkeeping:
the references owned, those dropped without a decref, the malloc'ed buffers,
whether an allocation has failed, where a container's values begin. No guard
reads them.

### StringDecode, NumberParse, ScalarDocument

`ScalarDocument` is `loads_root_single` and its twin for bytes: it reads a word,
a number or a string, then the white space behind it, and fails on anything else
(`root` is the label). `number` is what `loads_number` returned for `literal`;
`refs` and `allocated` are what the call owns.

`NumberParse` translates the labels of `loads_number` into operators that hand
on the position, the significand, the exponent and whether digits were cut:
`NonZeroFirst`, `IntMore`, `FracMore`, `ExpMore` and so on. The word of 64 bits
and its 19 safe digits are constants.

`StringDecode` has the variables of the C code under their names (`writer`,
`u8size`, `u16size`, `maxvec` ...). `ScanVector` and `ScanQuote` scan, `FirstEscape`
or `FirstWidth` copy what was scanned, `CopyVector`, `CopyRun`, `CopyEscape` and
`Promote` are the loops of the three widths, `CopyQuote` puts the str together
from the parts of the buffer. A character is its class (ASCII, Latin-1, BMP,
beyond) and the document is made up while it is read: a run of one class and
what stops it. `text`, `stored` and `reach` are bookkeeping: the characters that
were read, how wide each was stored, and how far any store went.

### LaneMasks and StrVectors

`LaneMasks` has what the builds do differently with a vector of units: x86 has
no unsigned comparison below AVX-512, and none or a saturated subtraction of 8
and 16 bits (`EscapeMask`); a mask is searched by the sign bits of its bytes or
by all bits (`Found`); of less than a vector the last vector is loaded and
shifted, masked, or split (`ShiftDown`, `HighMask`, `Halves`, `HeadAndTail`).

In `StrVectors` a str document is its code points, behind a header as in memory.
Each step is a load: `ReadLoop4` of four vectors, `ReadLoop` of one,
`ReadTrailing` of what is left; `Stops` is what the first marked unit does, a
quote, an escape (`DecodeEscape`, with the table of hexadecimal digits and the
check that a unit is a byte) or an error. `copying` is the state of
`decode_str_with_escape`, `seen` the largest lane of `maxvec`, from which
`KindOf` tells how wide the str becomes; only lanes in front of the mark may
count. `MatchWord` is `_read_true` and the others, which compare a unit more than
was checked for, `SkipAllSpaces` is `fast_skip_spaces`. `loads` is bookkeeping.
`StringDecode` has the same loops with the room they store to, without the code
points. A document is taken for a compact str: `decode` reads the units behind
the header (`_decode_str.inl.h:194-198`) without looking at `state.compact`, which
the encoder does (`pyutils.h:207-214`); an instance of a subclass of str is not
compact, and not among the inputs here.

### Utf8Blocks

`StringDecode` knows a character by its width; here a document is its bytes.
`DecodeBlocks` is the loop of `decode_bytes_utf8` over the widths,
`DecodeBytesBlock` the loop over blocks of 16 bytes within one, and
`BlockScalar` the bytes that no block takes. `Seq2x8`, `Seq3x4` and `Seq4x4` are
the blocks of characters of one length; `ByTable` (x64 only) those of one and
two bytes, six characters from twelve bytes by the index and the shuffle that
the ends of the characters choose; `BlockHasError` is the check by three tables
of nibbles. After a block is left to the byte loop, that goes on for a budget
which doubles from 32 to 256 bytes and is reset by the next block that is taken.
`stale` is the byte that fills the buffer behind the document's zero: blocks are
loaded across the end, and what is found there must not matter. `loaded` and
`behind` are bookkeeping, the furthest load and store.

### LongCopies

A copy is a sequence of `pieces`, each loaded as a whole and stored before the
next is loaded: `LongCvt` and `LongBackCvt` (head, vectors, tail), `SmallCvt` (a
piece for each bit of the count), `MemcpySimd` and, with `how = "document"`,
`ssrjson_memcpy_prealigned`, which takes for granted that its source is aligned
where its destination is; `AlignOffset` and `RequiredSize` are what makes it so.
A character is known by its index, so that `CopiesAreTheSource` sees one that is
missing, copied twice, or overwritten in place before it was read. The four
vectors that `ssrjson_memcpy` moves at once are declared with the alignment of
four, and only that of one is there; compilers emit accesses of one vector, and
the model says that (`AlignedAll`, `AlignedStore`).

### Readers

`Readers` starts with a scalar document, the bytes of a string, a copy, or a str
in one of the builds, and reads that one. A string of a bytes document is read
by `StringDecode`'s steps, whose characters `Utf8Blocks` makes, and put together
by copies; each begins where the one before ended, so the run looks at them one
at a time.

### KeyCache

`tables[c]` is the table of the GIL build or of a thread, `strs` the strs
allocated with their reference counts, `module` whether the module is there.
`ReadKey` is the making of one key: `Hit`, `Miss` with `Added`, or `PastTable`
for a key too long. `Exec`, `ModuleFree`, `MakeTable` and `ThreadExit` are the
life of the tables, `DropRef` Python code that lets go of a key. The hash is a
function given by the instance, so that keys collide on purpose.

### DecoderContexts

`nodes` is the set of allocated list nodes with their fields, `cur[t]` the
thread's `cur_buffer`, `calls[t]` its active calls of `loads()` with the context
each got. `EnterDefault`, `EnterFirst`, `EnterNext` and `EnterGrow` are the four
branches of the entry, `ReturnDefault`, `ReturnGIL` and `ReturnFT` the exit in
both builds, `CallHook` and `HookReturns` the suspension of a call, `ThreadExit`
the destructor of the thread local data. `writer[c]` is bookkeeping: the call
that last wrote to context `c`. `Held` and `Pool` are the refinement: the context
each active call has, in the pool of `ContextPool`.

### EncoderWalk

`heap` is the content of the lists, dicts and tuples; `owner` their mutexes;
`path[e]` the container stack with positions; `size[e]` is `cur_list_size`;
`held[e]` is `pyobj_set`; `out[e]` the text, a token per bracket and value.
`Start` is the beginning of `ssrjson_dumps_obj`, `Value` a value at
`dict_pair_begin` or `arr_val_begin` (with `MeetEmpty` and `Meet` for containers,
where size and emptiness are read *before* the lock), `Acquire` the return of
`PyMutex_Lock`, `Close` the end of a container, `Finish` and `Unwind` the labels
`success` and `fail`. `Mutate` is another thread that appends or pops under the
object's mutex, as CPython's list and dict methods do. `gil` is the build, chosen
at the start from `Builds`: with the GIL there are no locks and a call runs to
its end. The walk of `dumps_to_bytes()` (`_encode_bytes_impl.inl.h`) has the same
labels, and is the same module.

`EncoderTree` is what the walk is compared with: `Rendered(heap)[n][v]`, the text of a
value by those of the values in it, `Deeper`, a chain of containers longer than the
limit, and `Circular`, the containers that reach a circle, without path, locks or set.

### EncodeBuffer

`mem` is the block byte by byte: which byte of which character of the document,
written with what width, is where, or junk. `head` and `cap` are `u_buf_info`,
`writer` the offset of the writer, `level` is `cur_ucs_type` (which is also the
instance of `ssrjson_dumps_obj` that runs), `info` the three lengths of
`unicode_info`. `AppendStr` is `u_buf_apd_str_wrapped` (and the same for keys)
with `prepare_unicode_write`, which may raise the level; `AppendOther` the numbers,
constants and opening brackets, `Close` the closing ones, which overwrite a
comma; `AppendNdarray` writes bytes and has them widened; `AppendSingle` is the
str that is the whole document. Each reserves a number of characters and writes
up to as many: `MaxSlack` stands for the differences, and what is reserved but
not written becomes junk, as the vector stores make it. That no token stores
more than it reserved is the subject of `Appends`. `Finish` is `success`,
`Widen` one batch of `long_back_cvt`, `Fit` is `resize_to_fit_pyunicode`,
`FreeBuffer` the end of `fail`. `Part(k)` is the
widening of the characters of one level, none if there are none, as the code tests. `text`, `kind` and `blocks` are bookkeeping: the
characters that should be there, their width, and the blocks allocated.
`EncoderWalk` says which token follows which; here any may, but a container
ends after a comma only.

### Utf8Text and Utf8Cache

A character is its class: ASCII, one that is escaped as 2 or as 6, one of two,
three or four bytes, or a surrogate. `Utf8Text` has the text of a str as the code
writes it: `Encode` enters a loop per class (`LoopFor`), which takes the run that
a vector starts with and goes on with another loop; the last vector is
`EncodeTrailing`; a short str that is not compact goes by `EncodeScalar`. The
result is a *piece*: the bytes, and how far the stores of whole vectors went.

In `Utf8Cache`, `utf8[s]` and `utf8Length[s]` are the two fields of the str,
`heap` the buffers, and `pc[t]` the next of the steps between which another
thread may run: `ReadLength` after the pointer, `MakeCache`, `SetLength`,
`SwapPointer` (`SetCache` under the GIL), `CopyCache` or `EncodeDirectly`.
`PythonCaches` and `StrFreed` are CPython's.

### Utf8Vectors

`Utf8Text` says which bytes are written; `Utf8Vectors` how each build finds out
where a run of one class ends: SSE2 without and with SSSE3 (`sse2`, `sse4`),
NEON, AVX2, AVX-512. A character is its code point. The classes of a run are
intervals, and the instruction sets compare differently: x86 has signed
comparisons below AVX-512, so that a code point above 32767 is negative in
UCS-2; some masks are saturated differences, of which any bit may be set, and
such a mask must not be searched by sign bits alone. `AsciiInUcs1` to
`ThreeBytesInUcs4` are the checks of a whole vector, one per loop;
`WholeVectors` the loops that change into each other. The end of a str is less
than a vector: `LastVector` loads the last whole vector of the str, in front of
which may be its header, or another block if it is not compact (`ByCharacters` is
the way out), and `StoreShifted`, `StoreHalves`, `StoreHeadAndTail` say what each
build stores of it; AVX-512 has masked loads (`MaskedLoads`). What is stored is
one record: the bytes, how far the stores reach, and the first and the last unit
that a vector was loaded from. The load that the mask is made of counts on its own
(`Loaded`), for it is made before anything is stored or written alone, and in AVX2
it is 32 bytes where the stores load halves of 16: `ByCharacters` must compare with
a whole vector, although the comment above it (`encode_utf8.h:59`) speaks of 16
bytes, and its mutant, which compares with these, loads in front of the block. A
unit that is written alone is one of the str's.
How a vector of units becomes bytes (`Converted`) is by what it does, its
shuffles are not modelled. A unit of which the code tells the compiler that it
cannot occur makes the output `Undefined`.

### NdArray

`GetCapsule` and `Refuse` are the checks, `BeginArray` computes `room` from the
shape (`ReserveCount`) and enters the traversal; `WriteRow`, `Descend` and
`CloseDimension` are the three cases of the loop over `frames`, `ReturnArray`
the end of the document that is one array. An element is its place in the
array's memory, which the strides lead to, and `text` the tokens with their
widths; `reach` is bookkeeping, the furthest store.

### CopyVectors

The copying of a str into the text of `dumps()` has one loop in each build: a
vector is compared with what JSON escapes (`EscapeMask`, with signed comparisons
or saturated differences as the instruction set has them), stored whole at the
width of the text (`CopyStores`), and left behind up to the first marked lane,
whose entry of `ControlEscapeTable` (8 characters, of which 2 or 6 count) is
stored next. What is less than a vector at the end is loaded as the last vector
of the str and shifted, stored in halves or as head and tail, or loaded with a
mask. The units and outputs are those of `Utf8Vectors`; the load of the last
vector (`CopyLast`) and those of its stores are recorded, and what is in front of a
str that is not compact, or of the header of one that is, counts as outside of it.

### IntegerText, Appends and Writers

`IntegerText` follows `write_u8` to `write_u64`: pairs of digits from a table, cut
off by multiplications, the first without its leading zero. `Appends` has an
action per append of `dumps()` in every build, and those of `dumps_to_bytes()` but
for strs; each sets what it reserves (`reserved`, with the
indent), what it stores (`written`, a piece), and what its text should be
(`expected`, bookkeeping, from the value and not from the writers); a str is
its code points. The
widths of the output are 1, 2 and 4 bytes a character: a number is formatted in
place in the first, and in the others in a local buffer of which a fixed number
of characters is widened. `FormatSingle` is `dumps()` of one number, whose room
is the local buffer.

`Writers` starts with a str, an array, a token or a str in one of the builds,
and does one kind only: a document writes its values one after the other, each
into room of its own.

## Runs

| run | instance | shows |
|---|---|---|
| `decoder` | 2 keys, 7 tokens, depth 2, stack of 2 growing, both hooks, any allocation failing | the reader accepts exactly the documents of a grammar written independently in `DecoderGrammar`, returns the grammar's value (last of equal keys wins, hooks from the inside out), rejects at the first token no document goes on with, and raises the depth error exactly at the limit; stack layout, references and capacity hold throughout |
| `contexts` | 2 threads, 5 nodes, 4 calls deep, hook limit 3, both builds | links, levels and leaks of the list; exclusive use of the default context under the GIL; in the free-threaded build calls never share a context, and refine `ContextPool` |
| `contexts_alias` | 1 thread, GIL | **violation**: a suspended call's buffers are overwritten |
| `scalars` | vectors of 16 bytes; strings of 14, 40 and 90 units, runs of 0, 3 or 16 characters, two escapes or changes of class; a word of 7 bits with two safe digits | ints are ints exactly where they fit, floats are the value or rounded by half a unit and marked; a str has the right length and the narrowest kind, and its parts are read as wide as they were stored; no store leaves the buffer; references and buffers are released. 5,726 strings of UTF-8, valid and malformed, on x64 and NEON: decoded to their characters, or refused, whatever is behind the document. Copies of up to 300 characters between all widths, at 6 alignments and 3 distances in place, vectors of 16, 32 and 64 bytes: what arrives is the source, every piece is aligned as its instruction asks. Strings of a str in 4 builds, 4 kinds, with something that stops the scan at the ends of a vector and of four, as a value and as a key: the characters JSON says and the narrowest kind, whatever is around them, or refused; no load outside the str. Words cut off anywhere, and up to 67 spaces |
| `string_buffer` | vectors of 32 bytes, ASCII | **violation**: the trailing store of AVX2 leaves the buffer |
| `keys` | 2 threads, 3 strs, 4 keys (two of equal bytes, one too long), 2 slots | a key read is itself; references balance through evictions, thread exits and new imports; under the GIL nothing is left behind |
| `encoder` | 2 encoders and a mutator that appends, 4 containers in 3 heaps, depth 3, both builds | locks, text, errors, deadlock, termination |
| `encoder_stale` | as `encoder`, free-threaded, with pop | **violation**: a size read before the lock |
| `encoder_set` | as `encoder`, free-threaded, set allocation may fail | **violation**: an object locked but not in the set |
| `buffer` | headers of 2 and 4 bytes, sizes 8, 16, 32, documents of 7 characters written 1 to 3 at a time | every character stays where its level says; the str returned is the document with the least width; no write outside; the cut shrinks; the block is freed or returned |
| `buffer_int` | as `buffer` | **violation**: a failed reservation for an int goes on with a NULL writer |
| `writers` | vectors of 16 bytes; strs of up to three runs; 2 threads, 3 buffers and 1 str; 12 shapes, 6 element types, indents 0, 2, 4, depths 0 and 2; every token in 5 builds at 3 widths, indents 0 and 4, depth 2; UTF-8 in 5 builds, 3 kinds of str with the limits of every class at, before and behind the ends of vectors | a buffer of UTF-8 has one owner; what is written for a str, an array or a token is its text, and within what was reserved or allocated; a str has the same UTF-8 in every build, and no vector, nor the last one of which the mask is made, is loaded from outside of the str |

**Bounds.** Seven tokens hold a pair of equal keys, two levels, a trailing comma
and an object stack that grows. The limits (recursion 1024, stack 1024,
hooks 32) are replaced by 2 to 4, so that they are reached and exceeded. Four
nested calls exceed the hook limit of 3 and return to every depth; five nodes
are more than can be in use at once, so that a leak is visible. The heaps have a
container met twice, one met through a tuple and through a dict, a list in
itself, and two lists in each other; depth 3 is reached and exceeded. The buffer
has headers of unequal length, as in CPython, is outgrown twice and then at its
limit; seven characters hold a part of each of the four levels, and parts long
enough that widening overlaps what is still to be read.

Strings of 14 units are shorter than a vector, 40 hold two and a rest, 90
outgrow the static buffer, which is 300 bytes here; two stops give every pair of
widenings in every order. Copies have 15 lengths around 16, 32, 64, 128 and 256
bytes. Strings of UTF-8 hold the first and last character of each length, alone
and in turn, and every way to be malformed. Strings of a str have an escape of
each kind, valid and not, or a control character, two units in front of the end
of the first vector, at the end of the fourth, and at once, and ends that are
missing; what follows them decides the kind of the document. Builds of
`StrVectors` are those the decoder has; vectors of four builds and units of
three sizes make 4 to 64 lanes. With a word of 7 bits, integers of two and three
digits lie on both sides of the limits of both signs, and cut digits on both
sides of a half. Three keys that collide give hit, eviction and a hit again, and
two strs of one key at a time. Of a str, runs of one, a vector less one and a
vector more one put every change of loop at every place in a vector; three
buffers are as many as two threads and one str can own at once, when Python
fills the cache while both threads are about to. Of a str in one of the builds,
the characters are the least and greatest of each class, a surrogate and the
escaped ones; runs of a vector, one less and one more, are broken by each of
them. The shapes have an empty dimension first, in the middle and last, and
dimensions of length one. The digits of an integer are right for the least, the
greatest and a mixed number of each length, and the limits of each type. What an
element or a float takes is its shortest or its longest text. `HeaderBytes` is 40,
the header of an ASCII str from Python 3.12 on (`pyutils.h:126`): no compact str
has less in front of its characters. `ssrjson_config.h:163` asserts 16, but AVX2
loads as far as 31 units in front of a str of one.

**Deadlock.** All runs check it but those of `encoder` and `scalars`. In
`encoder` two calls on a circular heap may wait for each other, which the
repository documents (`README.md:403`); `DeadlockNeedsCycle` says that nothing
else may, and `Returns` that every call on a heap without circles ends. In
`scalars` a document is read once.

**Fairness.** Only `Returns` needs it: weak fairness of each encoder's own
steps once its call has begun. The code runs without waiting but for
`PyMutex_Lock`, which parks the thread and hands the mutex over after a bounded
time, so it returns once the mutex stays free; the mutator holds a mutex for one
step. No fairness is assumed of other threads: nobody has to call, or to change
anything.

## Disagreements between the code and what it says

1. **`loads()` in hooks under the GIL** (`contexts_alias`, `decode.c:412`). The
   branch `// use next` advances `cur_buffer` but takes the context of the node
   it leaves. The first nested call with a hook creates a node; when it returns
   the node is kept; the second nested call takes this branch and decodes into
   the buffers of the suspended outer call. With `&old_buffer->next->ctx` in
   place, the run would pass (the definition to change is `ContextForNext`).
2. **Size before lock** (`encoder_stale`, `_encode_impl.inl.h:540, 574`). Emptiness
   and list size are read before `PyMutex_Lock`; a `pop` in between walks an
   empty container or past the end of a list.
3. **A set that cannot grow** (`encoder_set`, `_encode_impl.inl.h:552, 585`).
   `kh_put`'s -1 is taken for success.
4. **A number that finds no room** (`buffer_int`, `_encode_impl.inl.h:486, 499,
   671, 697, 722`). `write_indent_return_if_fail` returns NULL from
   `encode_process_val` without setting `*jump_flag_out`; the caller switches on
   an uninitialized flag, and may write the next value through NULL. The other
   cases set `JumpFlag_Fail`.
5. **A trailing store past the string buffer** (`string_buffer`,
   `_decode_str.inl.h:43-52`). The buffer has four bytes for each character and
   64 behind. The AVX2 loop stores 32 characters of four bytes from the writer
   on, 128 bytes, also when only the closing quote is left to be read. With
   vectors of 16 bytes the same store fits (`scalars`).

## What is proved

TLC checks the runs above; TLAPS checks the theorems below for all values of the
constants that satisfy the named assumptions of the modules. Each theorem about
a state is `Spec => []P`, from an invariant that is inductive: it holds at the
start, every action preserves it (a lemma per action), and it implies `P`.

### The document reader (`DecoderProofs`)

For every set of keys, every document length, recursion limit and initial stack
size and both hooks:

- `TypeCorrect` (`TypeOK`); with it, the container stack never exceeds its limit;
- `StackAccounted` (`StackAccount`);
- `ReferencesBalanced` (`RefsBalanced`);
- `CapacityRespected` (`CapacityOK`);
- `KeysChecked` (`KeysAreStrings`);
- `DepthLimited` (`DepthLimitExact`);
- `ResultGiven` (`ResultIsTheValue`): a finished document is one of the grammar, its
  result the value the grammar gives it;
- `SyntaxErrorsExact` (`RejectsOnlyErrors`): a document is refused for its syntax only
  at a token with which no document of the grammar goes on.

The first four follow from one invariant, `InductiveInvariant`. None of them is
inductive alone. A close must know that the values it pops exist and lie on top:
that is `StackAccount`, stated with the place `start` where each container's
values begin, so that popping one container leaves the layout of the others
(`IsLayout` of the shortened stack). What each label may assume (an open array
at `arr_val_end`, a key waiting at `obj_val_begin`, no container left at
`doc_end`) is `LabelInv`; without it a close could count in a parent of the wrong
kind. References are counted against the length of `objs`, so `RefsBalanced`
needs the layout for the close, and `CapacityOK` for the growth. `KeysAreStrings`
is about the innermost object; when it closes the one around it becomes the
innermost, so the invariant says it of every open object (`KeysIn`: every other
slot from its `start` up to where the next container starts is a string). The
assumptions are those named in `Decoder` (`TokensAssumption`,
`RecursionAssumption`, `BufferAssumption`, `HooksAssumption`);
`BufferAssumption` (the stack's initial size is positive) is needed because the
growth doubles it; `KeysAssumption`, that a string is no other token.

The last three are about the tokens read, `input`. `DepthInv` counts them: the
brackets that are open are the entries of the container stack. The grammar is a
recursive function of the number of tokens, and a recursive definition in TLA+ is a
`CHOOSE`: that there is such a function at all, so that its equation may be used, is
`Recursion` of `DataInduction`, once the rules are shown to look at smaller numbers
only. Then `Derives(kind, tokens, value, depth)` says what the grammar derives.

For `ResultIsTheValue` the invariant (`ValueInv`) divides `input` among the open
containers: there are places `p[i]` at which they began, so that between one and the
next lie the tokens of what the outer one has read so far (`Waits`), behind the last
those of the innermost (`Phase`, one case for each label), and the slots of the object
stack divide in the same way, at the `start` of each container. So a close finds under
it the values that the grammar derives from the tokens since the opening bracket; it
hands on one value, which extends what its parent has read. The object stack's layout
and `KeysIn` are needed for the slots.

For `RejectsOnlyErrors` the labels are taken for an automaton with a stack of the
kinds of the open containers (`Moved`). One half is about the grammar alone:
every sentence, put where its category may begin, drives the automaton to the end of
a value and never gets it stuck (`Drives`, by induction over the number of tokens:
`SentencesDrive`). The other is an invariant (`SyntaxInv`): whatever document begins
with `input`, the automaton is where the reader is (`OnRun`), and once a syntax error
is raised no document begins so (`OffRun`). A bracket that closes an empty container
is told from one behind a comma by the count, so `ValueInv` is needed once more: a
container is not empty after one of its values.

### Contexts (`DecoderContextsProofs`)

For any number of threads and nodes, any depth of calls and limit of hooks, both
builds: `TypeCorrect` (`TypeOK`), `ListsLinked` (`ListOK`), `NodesKept`
(`NoNodeLeak`), `LevelsCount` (`LevelCountsCalls`), `DefaultKeptApart`
(`DefaultExclusive`), `BuffersKept` (`BuffersIntactFT`), and `PoolImplemented`:
in the free-threaded build `Spec` implements `ContextPool`
(`ContextsArePrivate`), entry to `Begin`, exit to `End`, everything else to a
stutter.

The lists are not in the state, only the links of each node. The invariant says
whose list a node is in by a function `own` that it asserts to exist
(`ListsKept`): a thread's nodes have different levels, the one before a node has
the level below, and the last is the current node or the one behind it. A new
node extends `own`, a node that is freed leaves it. `CallsKept` (who uses the
list), `DepthKept` (the current level counts the calls) and `HeldKept` (calls
that use the list have different nodes, without the GIL) tie the calls to it.
`BuffersIntactFT` needs `HeldKept`, and that needs the levels: the context of a
new call is that of a level no active call has. Under the GIL it is false, which
`contexts_alias` shows.

### Key cache (`KeyCacheProofs`)

For any threads, strs, keys, slots and any hash, both builds: `TypeCorrect`
(`TypeOK`), `ReferencesBalance` (`RefsBalanced`), `LookupsExact` (`HitIsTheKey`),
`NothingKept` (`NothingLostGIL`).

`KeyInv` adds to `RefsBalanced` which tables there are in which build and that the
table of the GIL build is empty while the module is not there (`TablesKept`, which
`Exec` needs: it takes the table as it is), and that the hint of an occupied slot is
that of its str (`HintsKept`). Counting is by `Places(o)`, the slots that hold `o`:
each action adds or removes one, or all those of a table, and the lemmas about
`Cardinality` are stated for those three cases. That an address which is used again
is found in no slot follows from the count: a str that is freed had none.
`SlotsAssumption` (a table has finitely many slots) and `MaxHeld` above zero are
needed for the counting.

### Encoder walk (`EncoderWalkProofs`)

For any number of encoders, any heap of lists, dicts and tuples and any depth,
in both builds:

- `TypeCorrect` (`TypeOK`);
- `LocksHeld` (`LocksMatchSet`) and `AssertNeedsFailure` (the assert at the end of a
  container, `CurrentInSet`), if no allocation of the set fails. With a failure the
  second is false, as `encoder_set` shows; the theorem says that nothing else makes
  it so. An invariant per encoder (`LockState`) says what it holds at each label:
  the lists and dicts on its path, each once, and the one it just met;
- `SizesKept` (`SizesHold`), if nothing is taken out of a container while it is
  walked (`NothingShrinks`; `encoder_stale` is what happens otherwise). Values may be
  added at any time. The invariant (`SizeState`) says that `cur_list_size` is
  at most the length of the container on top, is restored after a return to it,
  and that a bracket is followed by a value or a comma before it is closed;
- `NoDeadlock` and `NoFalseErrors`: on a heap whose containers can be ranked above
  what they hold (a heap without circles), no set of encoders waits in a circle,
  nobody gets the error of a circular reference, and the depth error only for an
  argument of that rank. Ranks fall along each path (`RankInv`); whoever waits for a
  mutex holds only mutexes of higher rank, so a circle of waits would be a
  circle of ranks. The lowest rank in a finite or infinite circle is found by the
  order of the naturals, not by induction over the heap. Other threads may change
  the heap, within the ranks.

- `TextOfTheTree` (`OutputIsTheTree`) and `ErrorsOfTheTree` (`ErrorsExact`), on
  any heap and with any number of other encoders, for arguments nobody changed.
  The invariant (`TreeInv`) compares a call half way with the tree: its path is one of
  the heap (`Follows`: in each container, the value counted last is the next one of
  the path); what was passed on it was not too deep, and the text is the opening
  bracket of each container with the texts of the values passed (`Passed`); and
  the set holds containers of the path only. A value passed has its text at the
  level it is met on (`Rendered(heap)[MaxDepth - i]`), whichever way it was
  reached. What closes a circle is on the path, so it reaches itself; a call that
  succeeds met no depth error, and whatever reaches a circle is deeper than every
  limit. The invariant is asked of the calls whose containers are unchanged, for
  the text of the others is of no one heap;
- `CirclesOfTheHeap` (`DeadlockNeedsCycle`), if no allocation of the set fails. Each
  container of a path is in the one before, and what a call waits for is in the last
  (`LinkInv`, which appending and taking out leave alone while the locks are held).
  With `LockInv`, whoever waits holds only what is on its path; from one call in a
  circle of waits to the next, each reaches what the other holds, and the
  containers on the way, each of which holds another of them, are the circle.
  Unlike `NoDeadlock` it needs no ranks, and it speaks of the heap as it is then.

### Write buffer (`EncodeBufferProofs`)

For any header sizes, any growing sequence of sizes, texts and tokens of any
length: `TypeCorrect` (`TypeOK`), `BufferAccounted` (`BufferFreed`),
`NothingOutside` (`WritesInside`), `TextKept` (`TextHeld`), `ResultExact`
(`ResultIsTheText`), `CutShrinks` (`FitShrinks`, an action property).

Between tokens, `BufferInv` says of every character that it is where its level puts
it (`Settled`), and the lengths in `info` say which level that is. The widening in
place goes from the last part to the first, batch by batch, and needs a frontier:
characters behind it are where the result has them (`Final`), those before it
where they were written, and a batch moves the frontier by its length
(`ResultFrom`; `ArrayFrom` for the bytes an array left). That a batch overwrites no
character still to be read is `PlaceGrows`: a character never ends later in the
narrower text. `jobs` is always the list of what is left (`Parts`). The cut keeps
what is before the terminator. `BlocksKept` is the account of the one block.
The assumptions are `HeadersAssumption` (the compact header is the longer one),
`SizesAssumption` (sizes double) and `BoundsAssumption`.

### Strings and the scalar document (`ScalarDocumentProofs`)

For documents of any length, any runs, any number of escapes and changes of class,
vectors of 16, 32 or 64 bytes:

- `StringExact` (`ResultIsTheString`): the str has the length of the string, the
  narrowest kind that holds it, and each part of the buffer is read as wide as it was
  stored;
- `EndsClean` (`ScalarEndsClean`);
- `BufferTakesTheString` (`StoresInside`): every store stays in the buffer, if
  `4 * VectorBytes <= TailPadding` and if the buffers of str documents are allocated.
  Both hypotheses are needed: without the first it is `string_buffer`, and the second
  is the result that `loads_root_single` does not look at. So the theorem holds for
  vectors of 16 bytes and the padding of 64, and would with a padding of four
  vectors for the others.

`StringInv` knows of what was read how many characters it has and the largest class
among them (`SeenIn`: no character is larger, and one is that large), which is
`maxvec` and `maxEscape` in a str and the width in a bytes document (`StrWidth`,
`Utf8Width`); and of what was stored, how many characters lie at each width, which
are `u8size`, `u16size` and the rest (`StoredAs`). That the width of a bytes document
is the least is true only together with the run ahead, for which it was just widened.
`RoomInv` adds that the writer stays behind the reader. Since steps of `Readers` that are not
about the scalar leave it alone (`ReadersAreScalars`), the theorems are about
`ReadersSpec`, the specification of the run.

### UTF-8 cached in a str (`Utf8CacheProofs`)

For any number of threads, strs and buffers, in both builds:

- `OwnedBuffers` (`BuffersOwned`): a buffer of UTF-8 belongs to one str or to the one
  call that made it, and a call that copies UTF-8 copies from its str's own buffer,
  whoever won the race;
- `Types` (`TypeOK`), `TextWritten` (`OutputIsTheText`) and `StoresStayInside`
  (`StoresInside`): what a call has written is the UTF-8 of its str or its JSON, by
  whichever of the loops, from a cache or directly, and no store leaves the room, for
  strs of any length.

The invariant that is inductive adds what is known before a pointer is
published: under the GIL one call is between its steps and the str it found
without UTF-8 has none yet (`GILKeepsApart`), so that the plain store of
`SetCache` overwrites nothing; without the GIL nobody uses the plain store
(`SwapsPointers`); a pointer that was read stays the str's (`PointersStay`); and as
much of the types as is needed (`PointersTyped`).

The text is a pure function of the str, written in `Utf8Text` as a loop over the runs
of one class, each of them longer than nothing, so that the rest is shorter. What the
loop gives is shown by induction over what is left: the bytes are those of the
characters one after the other (`FlatConcat` of `DataInduction`), and what is stored
behind them is less than a vector. `StrsAssumption`, `BuffersAssumption` and
`ValuesAssumption` are used; the last says that Python gives a str the narrowest kind
that holds its characters.

### Induction (`DataInduction`)

The induction theorems of the library have an operator for a parameter and cannot be
cited here. A set of naturals has a least member, by the library's theorem on well
founded relations; what is to be shown of all is written as a set, and the least
natural outside of it refuted (`SetInduction`, `RankInduction`, `SeqInduction`).
`Recursion` shows that a definition whose argument decreases in some rank has a
solution, for the grammar, the text of a tree and `FlattenSeq`.

### What is only model-checked

- Numbers, blocks of UTF-8, vectors of a str, copies, and all that the writers write
  and reserve: folds and recursive functions over the data, in which
  arithmetic, lanes and builds meet; `ReadsInside`, `ReadIsTheText`,
  `ReservationSuffices` and `WrittenIsTheValue` are conjunctions of such parts, of which
  `StoresInside` alone is proved.
- `Returns`, which is liveness under fairness.

## What is not modelled

- In `Decoder`, strings and numbers are tokens: error positions and messages are
  not there. Finalizers that
  Python 3.10 and 3.11 may run inside an allocation.
- Of strings, which character an escape in a bytes document stands for (for a str it is
  `StrVectors`; the code is the same); the layout of the buffer for AVX-512. Of a
  str document, one that is not compact. Of numbers, the
  correctly rounded conversion to binary, and `-Infinity` and `-NaN`.
- Of the key cache, that functions may outlive the module object, and a
  `ssrjson_exec` that fails half way.
- In `EncoderWalk`, keys of dicts, indentation, and the width of the output. The
  set's own block, which a failed `kh_resize` of a new call leaks. The lock-free
  build, whose documentation claims nothing under concurrent changes.
- Of the UTF-8 encoder, how the lanes of a vector are shuffled into bytes. CPython's
  own filling of the UTF-8 of a str is one step.
- In `EncodeBuffer`, the buffer of `dumps_to_bytes()`, which grows in the same way
  and never changes its width.
- Digits of floats (`xjb`), half floats, the hash, the internals of `khash`, shuffles
  of lanes, detection of the instruction sets, the tables of powers of ten and of
  shuffles: pure computations, which tests compare
  with another implementation. They are the better part of what the map does
  not cover.
- Arguments, dispatch by type, and which width a `numpy` scalar has: one branch
  each.

## Plan

1. Done: `Decoder`, `DecoderContexts`, `ContextPool`, `EncoderWalk`,
   `EncodeBuffer`; `StringDecode`, `NumberParse`, `ScalarDocument`,
   `Utf8Blocks`, `LongCopies`, `StrVectors`, `Readers`; `KeyCache`; `Utf8Text`,
   `Utf8Cache`, `LaneMasks`, `Utf8Vectors`, `CopyVectors`, `NdArray`,
   `IntegerText`, `Appends`, `Writers`; the proofs above.
2. Proofs to come: the rest of `ReadsInside` (blocks of UTF-8, copies and vectors of
   a str stay inside and aligned), which is arithmetic over `LoadedUtf8`, the pieces
   of a copy and the lanes of a build; that the traversal of an array stays within
   what `ReserveCount` reserves.
3. Models that could follow: the growth of the buffer of `dumps_to_bytes()`.
