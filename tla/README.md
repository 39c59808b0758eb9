# Verification of jsoniter

TLA+ modules, TLC configurations and TLAPS proofs for this Go library, a
replacement of `encoding/json` that parses on the fly. Paths and line numbers
are those of the repository (`iter.go:248` is line 248 of `src/iter.go`).

## 1. Inventory

| Part | State | Operations | What is hard |
|---|---|---|---|
| **Iterator** (`iter*.go`, `rawstring.go`) | buffer, `head`, `tail`, `inputOffset`, `depth`, the capture, `Error` | `Skip`, `SkipAndReturnBytes`, `WhatIsNext`, `ReadArrayCB`, `ReadObjectRawCB`, `Read*`, `Reset` | the buffer is refilled under whoever looks at it; errors are state; a byte read ahead is put back |
| **Decoder, Unmarshal, Valid** (`adapter.go`, `config.go`) | an Iterator | `Decode`, `More`, `Buffered`, `Unmarshal`, `Valid` | the end of the input must be told from an error, and both from trailing bytes |
| **Codec cache** (`reflect*.go`, `config.go`) | `decoderCache`, `encoderCache`, extensions; one `ctx` per build | `DecoderOf`, `EncoderOf`, `RegisterExtension` | nothing is locked; recursive types; a map encoder that keeps its `ctx` |
| **Stream, Encoder, pool** (`stream*.go`, `pool.go`) | buffer, `Error`, `indention`, writer; the pool | `Write*`, `Flush`, `Borrow`, `Return`, `Marshal`, `Encode` | streams are shared between goroutines one after the other; errors and panics in mid-value; a writer that takes a part |
| **Struct binding** (`reflect_extension.go`, `reflect_struct_*.go`) | bindings while a type is described; tables of the decoder | `describeStruct`, `encoderOfStruct`, `decoderOfStruct` and the codecs they make | two algorithms must agree on what a name means; hashes stand for names |
| **Integer codecs** (`iter_int.go`, `stream_int.go`) | digits collected so far | `ReadInt8`…`WriteUint64` | width of the word, pieces, the unchecked fast path |
| **Frozen configurations** (`config.go`, `adapter.go`) | `cfgCache`, `extraExtensions`, the Config and the codecs of each API | `Froze`, `frozeWithCacheReuse`, `MarshalIndent`, `Set…`, `UseNumber`, `DisallowUnknownFields` | a cache keyed by less than what the value depends on; look-up, making and storing are apart |
| **Decoders of values** (`reflect_slice.go`, `reflect_array.go`, `reflect_map.go`, `reflect_optional.go`, `reflect_dynamic.go`, `reflect_native.go`, …) | the memory of the destination | `Unmarshal`, `ReadVal`, `Read` | what the variable holds is reused; null; values that hold pointers; failures half way |
| **Any** (`any*.go`) | captured bytes, or a Go value | `Get`, conversions, `Size`, `Keys`, `Wrap` | each access parses again; eleven implementations of one interface |
| **Text of strings** (`stream_str.go`, `iter_str.go`, `rawstring.go`) | bytes copied so far, the escape being read | `WriteString…`, `ReadString`, `ReadRawString`, `skipString` | escapes and surrogates cut by a refill; three readers that must agree |
| **Text of floats** (`stream_float.go`, `iter_float.go`) | digits collected so far | `ReadFloat32/64`, `WriteFloat…` | when the fast path is exact; what follows the number |
| **Sloppy skipping** (`iter_skip_sloppy.go`) | the level, the last backslash | `Skip` in another build | a backslash at the end of a piece |
| **`extra/`** | none | fuzzy decoders, byte slices as strings, private fields, naming strategies | an Iterator borrowed in the middle of a value; bytes pending in a loop that ends in two ways |

How they interact: `Unmarshal` and `Marshal` borrow an Iterator or a Stream
from the pool of their frozen configuration; `ReadVal`/`WriteVal` ask its cache
for the codec of the type, which is built from the codecs of the parts, struct
fields through the bindings; a codec then drives the Iterator or the Stream.
Callbacks run in the middle: the callbacks of `ReadObjectRawCB` and
`ReadArrayCB`, `MarshalJSON` of a value, extensions during a build.

What makes each part correct:

* Iterator: the buffer is always a window of the input; a value is moved over
  exactly once whatever the pieces; what is captured is that value; errors stay;
  depth is given back; every call returns.
* Unmarshal and Valid: the accepted texts are the JSON texts.
* Codec cache: no codec in use calls an empty placeholder; it is the codec of the
  type asked for; callers cannot tell the cache from an atomic registry.
* Stream: what is returned is the text of the value, and stays so; streams are
  lent once and come back; the writer gets each byte once.
* Struct binding: what is encoded is decoded into the same fields; names mean
  what they mean in `encoding/json`; all kinds of decoder agree.
* Integers, strings, floats: what is written is read back; what is read is what the
  text says; it does not depend on the pieces.
* Frozen configurations: a caller gets the settings it asked for and the extensions of
  the API it used; an API others use never changes.
* Decoders: the result is what `encoding/json` documents, the memory that is reused is
  that of the variable and nothing else, and what an earlier call gave away stays as it is.
* Any: `Get` finds the value a decoder would find, and conversions follow the table.

The hazards behind these, each at its line, are in PROJECT.json.

## 2. Modules

| Module | Models | Checked by |
|---|---|---|
| `Iterator` | buffer, tokens, skipping, capturing, clients | `MCIterator` with the grammar in `Json`; proofs in `IteratorProofs` |
| `CodecRegistry` | abstract: the codecs of a configuration as one atomic map | refined by `CodecCache` |
| `CodecCache` | the caches, contexts, placeholders, extensions | `MCCodecCache`; proofs in `CodecCacheProofs` |
| `Stream` | streams, pool, Marshal, Encoder, container encoders | `MCStream`; proofs in `StreamProofs` |
| `StreamText` | EXTENDS `Stream`: the text of a value; what Marshal and Encode promise | `MCStream`; proofs in `StreamTextProofs` |
| `StructBinding` | from a struct type to its codecs, and a value through them | `MCStructBinding`; proofs in `StructBindingProofs` |
| `IntCodec` | integer readers and writers | `MCIntCodec`; proofs in `StringCodecProofs` |
| `StringCodec` | EXTENDS `IntCodec`: writers and readers of strings, on the same reader | `MCStringCodec`; proofs in `StringCodecProofs` |
| `FloatCodec` | EXTENDS `StringCodec`: readers and writers of floats | `MCScalars` |
| `SloppySkip` | EXTENDS `FloatCodec`: `Skip` of the sloppy build | `MCScalars` |
| `FrozenConfig` | Configs, APIs, `cfgCache`, encoders and decoders with settings of their own | `MCFrozenConfig`; proofs in `FrozenConfigProofs` |
| `SliceReader` | an Iterator over a byte slice, as operators | used by `Decode` and `Any` |
| `Decode` | EXTENDS `SliceReader`: Unmarshal into variables that hold something | `MCDecode` |
| `UnmarshalSpec` | EXTENDS `Decode`: what `encoding/json` documents, on trees; the properties of `Decode` | `MCDecode` |
| `Any` | EXTENDS `Decode`: lazy and wrapped values, `Get`, conversions | `MCDecode` |
| `AnySpec` | composes `Decode` and `Any`; what an Any stands for, as a tree | `MCDecode` |
| `DataLemmas` | nothing: lemmas on induction, recursive functions and sequences | used by the proofs |

### Iterator
The record `it` is the Go struct, with positions counted as in the code. The Go
call stack is the variable `stk`, one frame per call in progress; a frame is
`[at, i, esc, acc, from]`, where `at` names the place in the function. A call
pushes a frame (`Call`), a return pops one (`Return`), `Become` moves on in the
same call. When a function needs a byte that is not buffered its frame is
`Blocked`, and one of `LoadSlice` (no reader: `iter.go:249`), `LoadMore` (the
reader hands over 1 to `BufSize` bytes) and `LoadFails` (the reader answers with
an error) lets it go on; so a refill can happen between any two bytes.
`nextToken` and `readByte` return in the register `tok`. Bytes are characters;
the alphabet has one or two of each class the code tells apart (for example the
digits 0 and 1). `strconv.ParseFloat` and `big.ParseFloat` are external and
accept what the Go documentation calls a floating-point literal, restricted to
the characters of a number; the former reports what is larger than a float of its width
(`Exceeds`, `MaxExponent32`, `MaxExponent64`), the latter takes any size. Clients: `Skip`, `SkipAndReturnBytes`, `WhatIsNext`,
`Decode`, `More`, `Unmarshal` (into a RawMessage), `Valid`, `Reset`.
`op` records the client operation for the properties; `op.dry`, the error the
reader last answered with, is a history variable.

### CodecCache and CodecRegistry
Each goroutine is in one `ReadVal` or `WriteVal`. A look-up and a store of the
concurrent map are one step each, everything in between is not atomic. `made[c]`
is the map of a `ctx`, where `Open` puts a placeholder before the parts are made
and `Close` fills it. A codec is described by what can go wrong with it: the key
it is for, the `ctx` it lives in, the extensions that decorate it, whether it is
boxed. `CodecRegistry` promises what a caller sees: the first answer for a type
has the extensions registered then, all later answers are the same. The
refinement mapping takes the look-up that hits, or the store, as the point where
the call is answered.

### Stream
A stream is its buffer, error and indention; `stack[g]` are the `Encode` methods
goroutine `g` is in. `MapStart` … `MapEnd` follow `sortKeysMapEncoder.Encode`
step by step, since a member may fail or panic in between; the order of
iteration is any. `Write` with a writer offers the whole buffer and lets the writer take any part
of it (`MaxFailures` bounds how often it takes less than all). The pool may hand
out a stream that was returned or make one, as `sync.Pool` may.
`StreamText` says what a caller gets, with no stream in it: `Text` is a recursive function over
the parts of a value (`Depth` is what the recursion goes down on), the members of a map in the order of
their names, and `Lines` are the texts of several values with a line feed after each. Where the code
indents otherwise (section 5) is left out by `PlainlyIndented`, on which `MCStream` checks its values.

### StructBinding
`describeStruct` with a stack of calls for embedded structs, then the loops of
`encoderOfStruct` and `decoderOfStruct` one binding at a time, `createStructDecoder`,
`structEncoder.Encode` field by field and the decoders member by member. A
binding knows its field by its `levels`; `Sorted` puts bindings in the one order that
`Less` allows. `Structs` has with each struct type those that are embedded in it. The hash of a name is a constant, so
that names can collide or hash to 0. Values of members are one opaque value each
(in the code: such that skipping one needs no byte put back after an error).
An object without members stands for `emptyStructEncoder` and `structEncoder`
alike. The extensions `extra.SetNamingStrategy` and `extra.SupportPrivateFields` are fields of
the configuration; they change names when a struct is described (`Renamed`, `WithPrivate`).

### IntCodec
`head` and `tail` are absolute positions. The digits are collected modulo
`2^WordBits`, as in `uint32` and `uint64`; `Fast` is the unrolled sequence, `Loop`
the loop over what is buffered, and a refill takes the next piece of any size.

### StringCodec, FloatCodec, SloppySkip
The reader is that of `IntCodec`. Strings are sequences of bytes; `WriteString` is an
operator, since nothing can come between its steps, while the three readers go step by
step and a refill can cut an escape or a surrogate pair anywhere (`pc` is the place in
the function, `rune`, `digits`, `high` its local variables). A float of p bits is
`<<m, e>>` with p bits in m; `Precision` and `NarrowPrecision` stand for 53 and 24,
`FloatWordBits` for 64 and `Decimals` for 6. `strconv` is external and rounds to nearest, ties to even.
With `reads = "binary"` a byte slice is written and read as the string of
`extra/binary_as_string_codec.go`, on the same reader.
`SloppySkip` goes from piece to piece, as the code does. `MCScalars` is the disjunction
of the four: a behaviour writes or reads one value.

### FrozenConfig
An API (a `frozenConfig`) has its Config, its extensions and its codec cache; handles are
Encoders and Decoders. A setter or `MarshalIndent` is a `call` that goes through the steps
of `frozeWithCacheReuse` (`config.go:172`): look up `cfgCache`, make, register one extension
after the other, store. `asks` is a history variable: what the caller asked for so
far. The fields of Config no call sets are the one value `others`.

### Decode, UnmarshalSpec
A decoder is an operator from a state of the Iterator to the next: a call of `Unmarshal` is
one step (nothing runs concurrently in it). `heap` is the memory, in which slices,
maps and pointers refer to objects by index, so that sharing and reuse can be told from
copies. A slice value has its whole array, the part beyond its length too, since the next
call fills it (`reflect_slice.go:81`). `UnmarshalSpec` says what `encoding/json` documents, by
recursion on the JSON tree and not on the bytes. With `Fuzzy` in its configuration the
decoders of `extra/fuzzy_decoder.go` take the place of the native ones: they parse a text of
their own with a `Borrowed` Iterator, whose error is passed on unless it is the end of that
text (`PassOn`). What they promise is `Convertible` and `Converted` in `UnmarshalSpec`, from
`extra/fuzzy_decoder.go:19` "It will handle string/number auto conversation, and treat empty []
as empty struct".

### Any, AnySpec
The lazy kinds hold bytes and run operators of `SliceReader` and `Decode` on them for every
access; wrapped kinds hold a Go value and the memory it is in. A program decodes, takes an
Any of a text or of its variable, and looks into it with `Get`, several times in a row.
`Departs` lists the known differences from the tree (section 5); from the first
of them on nothing is claimed of that Any.

## 3. Runs

| Run | Question | Result |
|---|---|---|
| `iterator` | Do `Skip` and `SkipAndReturnBytes` move over exactly one JSON value and capture it, for all pieces and reader errors? Do several operations in a row on one stream respect each other? Does `Unmarshal` accept exactly JSON? Does every call return? | holds; of numbers that are too large for a float and of some after a minus, which are named in the properties, the contrary (section 5) |
| `valid` | `adapter.go:152` "Valid reports whether data is a valid JSON encoding" | violated by the text `1` |
| `last_capture` | Are the captured bytes those of the value also at the end of the stream? | violated: the second value of `[] 10` is returned as ` 10[] `, the number followed by what stands before it in the buffer |
| `codecs` | Is the unlocked cache as good as an atomic registry? | holds |
| `dynamic_key` | Also for a map with interface keys? | violated: an empty placeholder is called |
| `encode` | Do goroutines that share streams get the text of their values, and writers every byte once? | holds |
| `binding` | Do encoder, decoder and `encoding/json` agree on the meaning of names? | holds |
| `configs` | Does everyone get the settings it asked for, and does no API change under anyone? | holds, if extensions are registered at the start and no two APIs are frozen from equal Configs |
| `twins` | Is `MarshalIndent` of an API its `Marshal` with white space (`adapter.go:37`), also for two APIs of one Config? | violated: the extensions of the other API are used |
| `decode` | Does `Unmarshal` do what `encoding/json` documents to a variable that holds something, is nothing shared or changed that should not be, and do `Get` and conversions agree with decoding? | holds |
| `scalars` | Are integers, strings and floats written and read faithfully, and skipped by the sloppy build, in every cut into pieces? | holds |
| `overflow` | Is every number that is too large refused? | violated: it is returned modulo the word |

### Bounds, and why they are enough

* `iterator`: 38 documents, valid and broken, that between them reach every branch of
  the functions modelled; a buffer of 3 bytes (512 in the code), so that each document
  of more than three bytes is refilled several times and every split into reads of 1
  to 3 bytes occurs; `MaxDepth` 2 (10000), reached and exceeded by a document. Five
  streams of two or three values, three operations in any order. Every string of up to
  four bytes over ten bytes, which distinguishes all two-token mistakes, and every string of up to five
  of the six characters of a number, for all signs, zeros, dots and exponents in front of and behind each other.
* `codecs`: two goroutines, two calls each, five types with one recursive struct, a
  pointer to it, a map of it and a map with interface keys, and one extension.
  A third goroutine adds no new pair of steps: a build touches its own `ctx` only.
* `encode`: two goroutines, three calls in all, three pool streams (a nested sorted map
  uses three), one failure of a writer. Goroutines and streams are symmetric:
  no step and no property tells one from another, and no liveness is checked here.
* `binding`: twelve struct types, and those they embed (tags, private, hidden and embedded fields to two
  levels, pointers to pointers), seven names of which one has the hash 0 and three differ in case only (a struct has
  two of them, documents the third, which may set either), 24
  configurations (every choice of three settings, with a naming strategy, private fields or neither: those two
  concern different fields), every document of two members. `SwitchSize` 3 (10 in the code, one type of
  decoder for each): the ten switches differ in their number of cases only, and 3
  has types on both sides.
* `scalars`: words of 14 and 7 bits for 64, 32, 16 and 8. `FastDigits` 3 (8), `Window` 4 (10)
  and `GroupDigits` 2 (3) keep the order of the code's numbers: the fast digits fit in the word,
  and the limit of the word lies beyond them and beyond two groups. Strings of up to two
  special parts (each class of byte and of rune the code tells apart), 170 texts with
  whole, lone, swapped and cut surrogates. 13 byte slices with safe bytes, unsafe ones and
  ones outside ASCII in every order the codec in `extra/` keeps (section 5). Mantissas of 14 and 5 bits with 2 decimal places keep
  the order of 53, 24 and 6: the digits that fit in the word overrun the mantissa, and ten to
  the number of places is exact in both. Floats are below 2^20 and 2^19 (2^1024 and 2^128), above what the fast
  path returns, and texts lie on both sides of each. What `WriteFloat` writes has to be the value; only
  `WriteFloatLossy` may be off by half of its last place. Three surrogate escapes in a row
  are left out (section 5).
* `configs`: two goroutines, four calls in all, two APIs that differ in a field no call sets,
  one with two extensions. Two goroutines that miss `cfgCache` together, one that finds what
  the other stores, and a setter after a setter need two, three and two calls.
* `decode`: 13 kinds of variables, empty and filled (eight with slices, pointers, maps and
  interfaces in them, three with an interface that holds a nil pointer of some type), good and broken texts for each, two calls, so that the second meets what the first has
  left, a failed first too; four configurations and a fifth with the fuzzy decoders, for which every
  kind of variable has the texts they convert and those they must refuse; two Gets in a row with 17 paths; a uint
  has 1024 values for the conversions.

`CHECK_DEADLOCK FALSE` is set where the system stops: when all calls of the bound
are made (`codecs`, `dynamic_key`, `encode`, `configs`, `twins`, `decode`) or the one value is through
(`binding`, `scalars`, `overflow`). In `Iterator` a client may always
pause, so deadlock is checked, and a call that hung would be found.

### Fairness

`CallsReturn` assumes weak fairness of `Run`: the goroutine inside the Iterator is
scheduled, and the reader answers each `Read` in the end with bytes or an error (a reader that
returns 0 bytes and no error for ever makes `loadMore` spin for ever, `iter.go:261`).
Nothing is assumed of the client. `EveryCallServed` assumes weak fairness of each
goroutine, and no more: no step of one waits for another, there is no lock.

## 4. Proofs

`IteratorProofs` proves for every set of inputs, buffer size, depth limit, set of reader
errors and number of operations:

* `TypeCorrect`: `Spec => []TypeOK`, in particular `head` stays within the buffered bytes
  and the start of a capture at or before it, so no index of the Go code is out of range;
* `WindowCorrect`: `Spec => []WindowIsInput`, a refill neither loses nor repeats a byte;
* `CaptureCorrect`: `Spec => []CaptureIsInput`, what is captured is one stretch of the
  input as long as the reader has not run dry.

They follow from one inductive invariant `Inv` (`IteratorProofs.tla`). None of the three is
inductive alone: `unreadByte` moves `head` back, which is safe only because the frame
on top has just read a byte that is still in the buffer and behind the start of the capture
(`CanUnread`, demanded of the places of the stack that unread), and because a capture
is on exactly while a `stopCapture` frame is on the stack (`HasStop`), below
which nothing else captures (`StackOK`). The proof has one lemma for each
action (`NextTokenInv`, `ReadRawStringInnerInv`, …) on top of lemmas about the
operators on the record (`GoodRefill`, `GoodUnread`, `GoodCapture`, …) and on the
stack (`CallOK`, `ReturnOK`, `BecomeOK`). Assumptions: those in `Iterator.tla`
(inputs are sequences of bytes, the buffer is not empty).

Its second half adds, under the same assumptions, what the calls on the stack owe
each other:

* `LevelsReturned`: `Spec => []DepthRestored`, arrays and objects give back every level they
  take. The invariant (`DepthInv`) is that the depth is that of the start of the operation and one
  for each open array or object (`Levels`), as long as no error is held, or the error is one that
  `skipNumber` will clear. The second case makes it inductive: `skipNumber` forgets an error
  (`iter_skip_strict.go:18`), and if anything but `ReadFloat64` could run above it (`Shape`), it
  would forget one that a level was lost to;
* `ErrorsStay`: `Spec => []ErrorIsSticky`, an error that an operation begins with is there
  when it ends, from the same invariant: no `skipNumber` runs while such an error is held;
* `NameGiven`: `Spec => []NameIsInput`, the name a callback gets is the text between the quotes in
  the input. Its invariant (`NameInv`) says of each place in `readRawStringInner` what has been
  collected so far (`Gathering`: a stretch of the input that ends at `head`, or one byte before it when
  a byte has been read ahead), and that a name is a view of the buffer only while the
  next token is buffered: `CopyIfRaw` before a refill (`rawstring.go`) is what keeps it. The name that
  `literal` (`null` in place of a name) gives is none.

Its third part is what the client of such a call is given:

* `CaptureReturned`: `Spec => []CaptureReturnsValue`, the bytes of `SkipAndReturnBytes`, and of a RawMessage that is
  decoded, are the input from the value the client stood before to where it stands now, through any number of
  refills, as long as the reader has not run dry (at the end of a stream it is false: run `last_capture`);
* `PeekKept`: `Spec => []PeekKeepsValue`, `More` and `WhatIsNext` pass over nothing but space, with the exception of
  a byte 0, which `More` takes for the end of the input and does not put back (`adapter.go:84`).

Both are of operations that begin without an error; one that holds an error reads nothing that is worth a promise.

Both speak of the end of a call, the invariant (`LookInv`) of its middle. A token that one of the frames that look
ahead (`Lookers`) has been given is the byte in front of `head`, and behind the start of the operation there is nothing but space up to it;
as long as none has been found, up to `head` (`Looked`), whose offset survives a refill because the buffer that is thrown away is blank
(`NoTokenAhead`). A capture begins behind such a stretch too (`CaptureBegins`), at an offset that neither `loadMore` nor a
handler changes (`Origin`): what is moved to `captured` is what `captureStartedAt` is reset by. From these, with
`CaptureIsInput` and `WindowIsInput` of the first part, `stopCapture` returns one stretch of the input (`CapturedIs`). What is left
is that nothing moves `head` after the answer: the frames below are those of the client (`PeekDone`,
`CaptureDone`), and only `Unmarshal` reads on (`LastRead`).

`CodecCacheProofs` proves, for every finite set of goroutines, keys and extensions and every
number of calls:

* `TypeCorrect`: `Spec => []TypeOK`. The bound on the depth of a build is the
  interesting part: while a key is being made it has a placeholder, so the frames of one
  goroutine are for different keys, and a build that goes on for ever is impossible;
* `ImplementsRegistryAlways`: `Spec => ImplementsRegistry`, each step of the unlocked cache
  is a step of the atomic registry or none;
* `NoNilCodecAlways`: no codec in use calls a placeholder that nobody will fill, assuming
  `NoDynamicMaps` (no map type with interface keys). The run `dynamic_key` shows
  that the assumption is necessary;
* `EveryCodecFits`: `Spec => []CodecFits`, the codec a caller uses is the one for its key, boxed if
  that key asks for it, and made of codecs for the parts of its key with the same extensions.

The invariant has four layers. `ShapeInv`: what frames and codecs refer to is there, and each
codec lives in the `ctx` that made it. `PartsInv`: an entry of a `ctx` is for its key, a
placeholder is filled by the frame that opened it, the frames form the path of the
recursion. `SettleInv`: a codec outside the build that makes it has all its parts settled or
in the same `ctx`, whose placeholders are all filled when the outermost call returns (`Own`,
`Fresh`). `NoNilCodec` alone says nothing of a codec under construction, so nothing
would follow from it when the codec is stored. `FitsInv`: the parts an open frame has and those it
still has to ask for are together the parts of its key (`PartsGathered`, where a struct asks for a
decoder and an encoder of each field and keeps one of them, `Taken`), the outermost frame keeps the codec that
was asked for (`RequestFits`), and what a `ctx` has finished is made of the right parts (`CtxFits`),
which is what cached and returned codecs need (`Answers`). The map key encoder that is made in a
remembered `ctx` after the build has ended has no parts, so it disturbs none of this.

`FrozenConfigProofs` proves, for every number of goroutines, APIs, Configs and calls:

* `TypeCorrect`: `Spec => []TypeOK`;
* `SharedApisNeverChange`: an API that the program has frozen, or that `cfgCache` holds, never
  changes again, assuming that programs register extensions at the start;
* `EveryoneGetsWhatTheyAsked`: what is encoded or decoded has the settings its caller asked for,
  and the extensions of the API it came from, assuming also that the frozen Configs differ in a
  field no call sets. Without this the property is false: run `twins`.

`SharedInv` adds to the types that an API whose extensions are still being registered
is known to the goroutine making it only. `Inv` adds that an API in `cfgCache` has the Config it
is stored under and the extensions of the one base that can have asked for that
Config (`CacheFits`), and the same of calls and handles on their way there (`CallsFit`,
`HandlesFit`).

`StreamProofs` proves, for every set of goroutines, streams and values, every indention and
writers that fail whenever they like:

* `StreamType`: `Spec => []TypeOK`, in particular the indention of a stream never gets
  negative (`writeIndention` would index backwards);
* `PoolBalanced`: `Spec => []PoolBalance`, a stream is in the pool or with one goroutine, never with
  two, and comes back once.

For the first, `Inv` keeps for every stream the number of containers open on it in
the stack of its goroutine (`Level`): the indention is at least one step for each. It is
not equal, since a panic leaves some behind on a stream that is then returned. For the
second, a map's `subStream` is different from the streams of the calls around it
(`IsFrame`), so what a goroutine holds is as many streams as its stack says. Assumptions:
indention steps are natural numbers, streams of the pool and those of Encoders are told apart.

`StreamTextProofs` proves, for all values (of any size and depth, `NodesAssumption`), all names, every
order in which a map is iterated, any goroutines and streams, and writers that take what part they like:

* `MarshalledIsText`: `PlainlyIndented => (Spec => []MarshalIsText)`, what Marshal returns is the text of its
  value, a call fails exactly when a part of its value cannot be encoded, and the result is not changed by
  who borrows the stream next;
* `WriterTakesLines`: `PlainlyIndented => (Spec => []WriterGetsLines)`, while no call of Encode fails the writer has a
  beginning of the lines of its values, and all of them between calls.

Both say something of the end of a call only. The invariant (`TextInv`) says for each call of an encoder what is
on its stream in the middle: there is a context for each frame of the stack (`Explains`), which is the text in
front of it, the indention it begins with, and whether something has failed on that stream before. What the stream has
been given, by its writer or in its buffer (`Outputs`), is the text in front and the parts that are done (`Describes`); the context of
a frame is what the frame below has written up to the part it is in (`IsPartOf`); and each text that a frame is to
write begins the whole (`IsBegun`), which is why what the writer takes in mid-value is a beginning of
the lines. A sorted map needs more: what its `subStream` holds is the members so far in the order of iteration, each
of them cut out of it by `Members` (`HasMembers`, `DescribesSub`), and once they are sorted they are what
the text has in the order of the names (`SortedEntries`, from the uniqueness of a sorted order); an error on
the `subStream` comes to the stream around it no later than with the closing bracket (`ErrorIs`). Between calls an Encoder's
buffer is empty and its indention zero, and streams in the pool have no error (`Rests`): that is
what the next call starts from. Assumed is `PlainlyIndented`: where values are indented no map is empty or has a
member that is indented itself, and no `MarshalJSON` panics; without an indention nothing is assumed.

`StructBindingProofs` proves, for all struct types, with structs embedded to any depth, all configurations
and extensions, names and hashes, values and documents (`StructBindingAssumption`):

* `TypeCorrect`: `Spec => []TypeOK`, of which the interesting part is that `describeStruct` returns its
  bindings strictly in the order of the fields, those promoted from embedded structs among the others;
* `ValuesComeBack`: `Spec => [](Paired => RoundTrip)`, what the encoder writes is read back into the fields it
  came from and nowhere else, and never refused;
* `EncodesDominant`: `Spec => [](Plain => DominantFields)`, the fields that are encoded are those of `encoding/json`;
* `EveryMemberFindsField`: `HashSeparates => (Spec => [](Plain => MembersFindFields))`, so is the field that a
  member of a document sets, with names in lower case, by hash or not.

The hypotheses are where the code keeps what it promises. `Paired`: no three fields have one name. `Plain`: in
addition, of two fields with one name and one depth either both or neither have a name in the tag if both or neither have a tag;
and if only one has a tag, it is the later one, and less deep or equally deep with a name in the tag.
`HashSeparates`: different names have different hashes (a name that no field has and that has the hash of one that a
field has is taken for it, `reflect_struct_decoder.go:583`; for what the encoder wrote it makes no difference, and
`ValuesComeBack` does not assume it). Without them the properties are false (section 5): with the
types `Ambiguous` of `MCStructBinding`, which are not `Plain` (the last not `Paired`), in place of `MCStructs` TLC finds all
three violated. The hypotheses are sufficient, not necessary: the type `IgnoreDeeperLevel` has more than two fields of one name, is
settled rightly, and stays with TLC; all others of `MCStructs` are `Plain`.

There are five layers of invariants. `DescribeInv`: in every call on the stack the bindings collected so far are
in order, in order with those of embedded structs, and of fields in front of the one the call is at (`FrameOK`),
so that what a call returns begins with the place at which its caller embeds it (`Promoted`), and one sorted order exists
(`OrderExists`: the rank of a binding is how many are before it). `EncoderInv` and `DecoderInv` say of the first
`at` fields that all that have a name are listed and bound, and, if `Paired`, that a field is ignored by the encoder or missing in
the decoder exactly if another field of its name among them has won (`Loses`); the two loops keep what is settled in
different structures and overwrite earlier decisions, and this is what they have in common. `TableInv` says that the decoder is one
made for the names (`DecoderOf`), and `TableIs`, `FoundIs` that each of the three kinds finds the same field for a name.
`ValueInv` says which members have been written and which field each of the members read so far has set. What
decides is then `KeptDominates`: for two fields of a name, a `Plain` one is not lost if and only if it dominates.

`StringCodecProofs` proves, for every width of the words, number of fast digits, window and group size
that the code's constants are an instance of (`IntCodecAssumption`), every text and every cut
into pieces:

* `IntType`: `Spec => []TypeOK`;
* `AnyTextIsRead`: `Spec => []ReadIsNumber`, a text whose digits fit the word is accepted exactly
  if it begins with an integer of the type, and that integer is returned. Digits that do not fit the
  word are the finding of run `overflow`;
* `WhatIsWrittenIsRead`: `Spec => []WrittenIsRead`, an integer is read back as it was written, with
  any suffix that begins with a comma.

The invariant (`Consumed`) is that the characters between the sign and `head` are digits, and `value` is
the number they write, given that all digits of the text fit the word. That `Absolute`, `Collected` and
the groups of `WriteInt` mean the same number is an induction over the text each (`Prefix`,
`Collects`, `Numeral`, `Adds`). That a digit more fits the word follows for the fast path from
`10^FastDigits <= Word`, and for the loop from the digits that are still to come.

It proves as well, for all strings of bytes, all runes outside ASCII that are no surrogates, and
every cut into pieces (`StringCodecAssumption`), on the same reader as `IntCodec`:

* `WrittenStringIsRead`: `StringSpec => [](written /\ reads # "binary" => StringIsRead)`, the text that
  `WriteString` or `WriteStringWithHTMLEscaped` writes is accepted by `ReadString`, by `ReadRawString` with
  `RawString.String`, and by `skipString`; the string comes back, with U+FFFD for bytes that are no runes
  where HTML is escaped, and what follows the string is left.

The property says nothing before the end, so the invariant (`StringInv`) says what is still to be read:
there are a place of the closing quote, a set of places where a byte, an escape or a rune starts, and for each of these
the bytes that the text behind it means (`Decodes`). A reader that is at such a place has collected
exactly the bytes that are missing in front of it (`SoFar`); one in the middle of an escape stands behind
such a place by the digits it has read (`InRune`); a raw string has copied the text up to `head`, and a
backslash in it has been noticed (`CopiedTo`). That what the writers produce can be
taken apart in this way (`WrittenIsDecodable`) is an induction over the string from its end, one piece of the
writer's output (`IsUnit`: a byte, a short escape, a `\u` escape) at a time. That no written escape is a surrogate is
what rules out `ReadLow`, `ReadLowU` and the errors; that the quote is still to come is why no
`loadMore` fails (`NeverEnded`).

`DataLemmas` has what these need of data. The library states induction for predicates and operators,
which the provers at hand cannot be given; here it is stated with a set in place of the predicate
(`Induction`, `BoundedInduction`, from the well-foundedness of `<`), and a recursive
function is obtained as the iteration of a step given as a function (`Iteration`), or of a
rule on the parts of a tree (`TreeRecursion`); a sequence has one sorted order only (`SortsUnique`).

Only model-checked:

* liveness: `CallsReturn`, `EveryCallServed`;
* the properties that compare with the JSON grammar or with `encoding/json`: those of the MC modules,
  `UnmarshalSpec` and `AnySpec`. `Json`, `SliceReader`, `Decode` and `Any` are mutually recursive operators;
* `StringIsRead` for texts that were not written by the writers (`Documents`: surrogates, raw control
  characters, broken escapes) and for byte slices as strings (`Binaries`, `BinaryTexts`);
* `RoundTrip`, `DominantFields` and `MembersFindFields` for struct types that are not `Paired` or `Plain`;
* the properties of `FloatCodec` and `SloppySkip`.

## 5. What the code does otherwise

The five findings are in PROJECT.json. Besides them, modelling showed the following, which the
properties of the passing runs name or their inputs avoid:

* Numbers: a number that is too large for a float is refused although only skipped: above 1.8e308 (`1e309`),
  since `skipNumber` reads it again with `ReadBigFloat` when `ReadFloat64` has already consumed it (only at the end of a
  reader's stream it has not, and is taken), and for a value that starts with `0` from the largest float32 on
  (`0.1e40`), since `Skip` reads those with `ReadFloat32` (`iter_skip.go:85`). After a minus that retry takes
  numbers of no JSON: `-01`, `-.1`, `-+1`. `TooLarge` and `LooseNumber` in `MCIterator` are these two, and
  `UnmarshalIffJSON` says that there are no others. Besides, `[01]` is refused or not depending on the pieces;
  bytes after a NUL are accepted by `Unmarshal`; `Decoder.More` says false at a NUL and
  goes past it; after a number that ends the stream
  `InputOffset` stays before it and a second `Decode` returns it again
  (`iter_float.go:179`); an error of the reader in the middle of a number is lost by
  `skipNumber` (`iter_skip_strict.go:18`); after a single zero it depends on the piece
  whether `assertInteger` notices a fraction.
* `null` is accepted for a member name after the first.
* `Reset` and `ResetBytes` keep `Error`: an Iterator that saw `io.EOF` refuses the next
  array or object. `io.EOF` itself does not stay: after a `Reset` the skip of `1e.1` keeps it
  until the number is read again with `ReadBigFloat`, which succeeds with no error.
  So `ErrorIsSticky` is about the other errors.
* An Encoder keeps its error for ever (`adapter.go:135`), where `json.Encoder` goes on.
  When `Flush` fails, bytes the writer took are offered again by the next
  `Stream.Write`, and a value that fails has already been written in part.
* `MarshalIndent` of a sorted map inside indented values indents its members from the left
  margin, since the stream borrowed for them has no indention
  (`reflect_map.go:295`); an empty map or struct is written with a line of its own. `ReturnStream` keeps the
  indention a panic left.
* A struct that embeds a pointer to itself makes `describeStruct` recurse for ever.
* Field names outside ASCII are lowered by `calcHash` and not by `readFieldHash`.
* Conflicts of field names: an untagged field beats a tagged one found before it at any
  depth, any tag (`json:",omitempty"`) counts as a name, and of three fields of one name
  two can be written (`reflect_struct_encoder.go:88`), unlike `encoding/json` (`README.md:9`
  "100% compatible").
* Strings: three surrogate escapes in a row lose the pair (`\ud83d\ud83d\ude04` gives three
  U+FFFD, `iter_str.go`); `ReadString` keeps bytes that are not UTF-8.
* Floats: `ReadFloat32` rounds twice (17179870208.000001 before a comma is read as
  17179869184, the nearest is 17179871232), so only that a neighbour is read is
  claimed; a leading `+` is accepted; whether `01` and `-.5` are refused depends
  on where the buffer ends. Sloppy `skipNumber` validates nothing and leaves `head` before a number
  that ends the stream.
* Decoding: `null` into a string, a `json.Number` or a TextUnmarshaler resets it, into a RawMessage
  makes it nil, and is accepted as a key; numeric keys may have
  spaces or `null` in the quotes; a `json.Number` takes any string; `interface{}` with `UseNumber`
  takes `-`, `1.`, `01`; a shorter JSON array leaves the rest of a Go array; an element for
  `[0]T` is written outside it (`reflect_array.go:85`); slices and maps do not count for
  `MaxDepth`; a nil pointer with a type in an `interface{}` is replaced by a new one of that type
  (`reflect_dynamic.go:46`), where `encoding/json` stores a plain value; the string option ignores what its decoder reports; an `interface{}` that
  holds a pointer to itself makes the decoder recurse for ever; the error paths of
  `ReadObjectCB` leave the depth raised.
* Any: `Get` of a wrapped array or map ignores the path after its first element, and a wrapped map
  panics for an index; `'*'` on a lazy object stops after a member it left unread; the
  first of duplicate members is found lazily, the last one after decoding; an
  empty path gives an invalid Any on simple values; `Wrap` panics on named string types and is
  invalid for pointers; `ToBool` of white space is false and of an empty wrapped struct too;
  errors inside the located value are lost. Conversions depart from `fuzzy_mode_convert_table.md` for a wrapped
  negative integer, whose `ToUint` is 2^64 - n (`any_int64.go:40`) and not 0 as of all others; for strings with characters of
  a number after the number (`1e`, `1+1`), whose `ToFloat64` is 0 (`any_str.go:139`); and `ToInt` of a lazy number or a string
  with an exponent ends before it (`1e1` is 1, as a wrapped float 10). `ConvertsAsTable` names the three.
* `extra/`: a byte slice written as a string loses a byte that is not safe at its end if all before
  it are safe (`[]byte("a\x01")` is written as `"a"`, `binary_as_string_codec.go:208`), and safe bytes
  between such a byte and one outside ASCII (`\xff a \xff` loses `a`, line 221); reading it panics
  when an escape is cut short and refuses capital hexadecimal digits. The fuzzy decoders take any
  array for an empty struct, not only an empty one; ignore what follows a number in a
  string, so that `"1s"` and `1e1` are 1 as an integer; write 0 after an error;
  take `{1:1}` for a map with string keys, which are read by the fuzzy string decoder; and let
  2^63 as a float pass the range of an int64 (`fuzzy_decoder.go:125`). `SupportPrivateFields` leaves out private fields with a tag (`privat_fields.go:50`).

## 6. Not modelled

* **`extra/`**: `time_as_int64_codec.go`, a multiplication and a division around `ReadInt64` and
  `WriteInt64` (`IntCodec`); the range of each width in the fuzzy integer decoders.
* **Any**: `ToVal`, `WriteTo` and `MustBeValid`, an Any as a field of a struct, the single widths in
  conversions.
* **Iterator**: `ReadBigInt` and `ReadNumberAsSlice`, which convert what `readNumberAsBytes`
  (modelled) returns; `Buffered`; reading containers over a
  reader with `ReadVal` (`Decode` reads a whole slice, as `Unmarshal` does; refills in the
  middle of tokens are in `Iterator`, `IntCodec`, `StringCodec` and `FloatCodec`).
* The pool of Iterators: the same code as that of Streams, which is modelled; an
  Iterator is borrowed in the middle of another's use by the sorted map and the fuzzy decoders only.
* Encoders that write the bytes they are given (`json.Number`, `RawMessage`, `[]byte`).
* `RegisterTypeDecoder` and its relatives (package variables read where extensions are),
  `UpdateStructDescriptor`, key extensions.
* Unlocked registration of extensions while codecs are being built: undefined in Go, and not what
  programs do.

## 7. Plan

1. *(done)* `Iterator`, `Json`: the core; `IteratorProofs`.
2. *(done)* `CodecCache` refining `CodecRegistry`; `CodecCacheProofs`.
3. *(done)* `Stream`, `StructBinding`, `IntCodec`, `StringCodec`, `FloatCodec`, `SloppySkip`.
4. *(done)* `FrozenConfig`; `FrozenConfigProofs`.
5. *(done)* `Decode` against `UnmarshalSpec`; `Any` against `AnySpec`.
6. *(done)* `StreamProofs`; `StringCodecProofs`, with the integers; `StreamTextProofs`; `StructBindingProofs`.
7. *(done)* The extensions in `extra/`: fuzzy decoders in `Decode`, byte slices as strings in
   `StringCodec`, private fields in `StructBinding`.
8. Proofs that are left: the other texts of `StringCodec`, for which `Decodes` needs units for pairs of
   surrogates and a counterpart for texts that are to be refused; the digits of `FloatCodec`.
