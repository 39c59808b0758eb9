----------------------------- MODULE CodecCache -----------------------------
(* The codec cache of a frozenConfig (reflect.go, config.go:87).           *)
(*                                                                         *)
(* ReadVal and WriteVal look a type up in decoderCache or encoderCache; on *)
(* a miss DecoderOf or EncoderOf builds the codec out of the codecs of the *)
(* type's components, and stores it.  Nothing is locked: two goroutines may *)
(* build the same codec, and the last Store stays.  A build keeps what it  *)
(* has made in a ctx of its own; a type met again while it is being built  *)
(* (a recursive type) gets a placeholder, which points to nothing until    *)
(* the codec of the type is finished.                                      *)
(*                                                                         *)
(* The encoder of a map with interface keys remembers the ctx it was built *)
(* in, and makes the encoders of its keys there whenever it encodes        *)
(* (reflect_map.go:238).                                                   *)
(*                                                                         *)
(* RegisterExtension takes no lock either; the model calls it only while   *)
(* no codec is being asked for, as programs do at their start.             *)
EXTENDS Naturals, Sequences, FiniteSets

CONSTANTS
  Goroutines,
  Types,
  Kind,           \* Kind[t]: "native", "ptr", "slice", "map", "dynmap" or "struct"
  Elems,          \* Elems[t]: the types of its element or of its fields, in order
  PtrShaped,      \* the types that are a pointer when boxed in an interface
  KeyType,        \* the type of map keys
  Requests,       \* what the goroutines ask for
  Extensions,
  Creates,        \* Creates[e]: the codecs the extension brings
  MaxCalls,       \* bound: calls per goroutine
  MaxExtensions,  \* bound: extensions registered
  None

Key(s, t) == [side |-> s, type |-> t]
Keys == [side : {"dec", "enc"}, type : Types]
Kinds == {"native", "ptr", "slice", "map", "dynmap", "struct"}

ASSUME TypesAssumption ==
  /\ IsFiniteSet(Types) /\ KeyType \in Types
  /\ Kind \in [Types -> Kinds] /\ Kind[KeyType] = "native"
  /\ Elems \in [Types -> Seq(Types)]
  /\ \A t \in Types : Kind[t] \in {"ptr", "slice", "map", "dynmap"} => Elems[t] # <<>>
  /\ PtrShaped \subseteq Types /\ Requests \subseteq Keys
  /\ Creates \in [Extensions -> SUBSET Keys]
  /\ MaxCalls \in Nat /\ MaxExtensions \in Nat
  /\ None \notin Keys

VARIABLES
  exts,     \* frozenConfig.extraExtensions
  cache,    \* decoderCache and encoderCache: key -> codec or None
  made,     \* made[c][k]: what ctx.decoders or ctx.encoders of c holds for k
  calls,    \* calls made by each goroutine
  pc,       \* where each goroutine is
  want,     \* what it asks for
  got,      \* the codec it was given
  stack     \* the codecs it is making, innermost first

vars == <<exts, cache, made, calls, pc, want, got, stack>>

\* A ctx is named by the goroutine that made it and the number of its call.
Ctxs == Goroutines \X (1..MaxCalls)
Placeholder == [filled |-> FALSE, parts |-> <<>>]
Made(parts) == [filled |-> TRUE, parts |-> parts]

----------------------------------------------------------------------------
(* reflect_extension.go:256: the first extension that has a codec wins.    *)
Custom(k) == \E i \in 1..Len(exts) : k \in Creates[exts[i]]

(* A codec as the code that uses it sees it: made in c for k, brought by   *)
(* an extension or not, decorated by every extension, not boxed.           *)
DecoratedTwice(c, k) ==
  [ctx |-> c, key |-> k, custom |-> Custom(k), boxed |-> FALSE,
   wraps |-> IF made[c][k] = Placeholder THEN exts \o exts ELSE exts]
Decorated(c, k) ==
  [ctx |-> c, key |-> k, custom |-> Custom(k), boxed |-> FALSE, wraps |-> exts]

(* EncoderOf boxes the encoder of a pointer-shaped type (reflect.go:203).  *)
Boxed(codec) ==
  [codec EXCEPT !.boxed = codec.key.side = "enc" /\ codec.key.type \in PtrShaped]

(* The codecs a type is made of, in the order in which they are asked for. *)
(* describeStruct asks for both codecs of each field (embedded structs are *)
(* described in place, so Elems lists their fields too).                   *)
BothOf(fields) ==
  [i \in 1..(2 * Len(fields)) |-> Key(IF i % 2 = 1 THEN "dec" ELSE "enc", fields[(i + 1) \div 2])]
ElemOf(k) == Key(k.side, Elems[k.type][1])
PartsOf(k) ==
  CASE Kind[k.type] = "native" -> <<>>
    [] Kind[k.type] = "struct" -> BothOf(Elems[k.type])
    [] Kind[k.type] = "map" -> <<Key(k.side, KeyType), ElemOf(k)>>
    [] OTHER -> <<ElemOf(k)>>

\* a struct decoder keeps the decoders of its fields, an encoder the encoders
CodecsIn(k) ==
  IF Kind[k.type] = "struct" THEN [i \in 1..Len(Elems[k.type]) |-> Key(k.side, Elems[k.type][i])]
                             ELSE PartsOf(k)

----------------------------------------------------------------------------
\* one codec being made: the one for key out of parts, with todo to come; the
\* outermost frame stands for the call and has one part, the codec it returns
Frame(k, todo) == [key |-> k, todo |-> todo, parts |-> <<>>]
Call1(k) == <<Frame(None, <<k>>)>>
Top(g) == Head(stack[g])
Returned(g) == Top(g).key = None /\ Top(g).todo = <<>>
Result(g) == Top(g).parts[1]
Making(g) == pc[g] \in {"build", "key"}
\* the ctx in which g makes codecs: its own, or the one its map remembers
Ctx(g) == IF pc[g] = "key" THEN got[g].ctx ELSE <<g, calls[g]>>

With(frame, codec) ==
  [frame EXCEPT !.todo = Tail(@),
                !.parts = IF frame.key = None \/ frame.key.side = codec.key.side
                          THEN Append(@, codec) ELSE @]

(* getDecoderFromCache and getEncoderFromCache: one atomic load.           *)
LookupNothing(k) == None
Lookup(k) == cache[k]

RegisterExtension(e) ==
  /\ Len(exts) < MaxExtensions
  /\ \A g \in Goroutines : pc[g] = "idle"
  /\ exts' = Append(exts, e)
  /\ UNCHANGED <<cache, made, calls, pc, want, got, stack>>

(* ReadVal and WriteVal, up to the use of the codec.                       *)
Ask(g, k) ==
  /\ pc[g] = "idle" /\ calls[g] < MaxCalls
  /\ calls' = [calls EXCEPT ![g] = @ + 1]
  /\ want' = [want EXCEPT ![g] = k]
  /\ got' = [got EXCEPT ![g] = None]
  /\ pc' = [pc EXCEPT ![g] = "load"]
  /\ UNCHANGED <<exts, cache, made, stack>>

Hit(g) ==
  /\ pc[g] \in {"load", "again"} /\ Lookup(want[g]) # None
  /\ got' = [got EXCEPT ![g] = Lookup(want[g])]
  /\ pc' = [pc EXCEPT ![g] = "use"]
  /\ UNCHANGED <<exts, cache, made, calls, want, stack>>

(* DecoderOf and EncoderOf look again before they build.                   *)
Miss(g) ==
  /\ pc[g] = "load" /\ Lookup(want[g]) = None
  /\ pc' = [pc EXCEPT ![g] = "again"]
  /\ UNCHANGED <<exts, cache, made, calls, want, got, stack>>

Build(g) ==
  /\ pc[g] = "again" /\ Lookup(want[g]) = None
  /\ stack' = [stack EXCEPT ![g] = Call1(want[g])]
  /\ pc' = [pc EXCEPT ![g] = "build"]
  /\ UNCHANGED <<exts, cache, made, calls, want, got>>

(* decoderOfType of a codec an extension brings, or that is in the ctx     *)
(* already, finished or still a placeholder.                               *)
Known(g, k) == Custom(k) \/ made[Ctx(g)][k] # None

TakeFinished(g) ==
  /\ Making(g) /\ Top(g).todo # <<>>
  /\ LET k == Head(Top(g).todo) IN
     /\ Known(g, k) /\ (~Custom(k) => made[Ctx(g)][k].filled)
     /\ stack' = [stack EXCEPT ![g] = <<With(Head(@), Decorated(Ctx(g), k))>> \o Tail(@)]
  /\ UNCHANGED <<exts, cache, made, calls, pc, want, got>>
Take(g) ==
  /\ Making(g) /\ Top(g).todo # <<>>
  /\ LET k == Head(Top(g).todo) IN
     /\ Known(g, k)
     /\ stack' = [stack EXCEPT ![g] = <<With(Head(@), Decorated(Ctx(g), k))>> \o Tail(@)]
  /\ UNCHANGED <<exts, cache, made, calls, pc, want, got>>

(* createDecoderOfType of a type that is new to the ctx: leave a           *)
(* placeholder and make its parts.                                         *)
OpenUnmarked(g) ==
  /\ Making(g) /\ Top(g).todo # <<>>
  /\ LET k == Head(Top(g).todo) IN
     /\ ~Known(g, k)
     /\ stack' = [stack EXCEPT ![g] = <<Frame(k, PartsOf(k))>> \o @]
  /\ UNCHANGED <<exts, cache, made, calls, pc, want, got>>
Open(g) ==
  /\ Making(g) /\ Top(g).todo # <<>>
  /\ LET k == Head(Top(g).todo) IN
     /\ ~Known(g, k)
     /\ made' = [made EXCEPT ![Ctx(g)][k] = Placeholder]
     /\ stack' = [stack EXCEPT ![g] = <<Frame(k, PartsOf(k))>> \o @]
  /\ UNCHANGED <<exts, cache, calls, pc, want, got>>

(* All parts are there: the placeholder is filled, and the codec given,    *)
(* decorated, to the one it is a part of.                                  *)
CloseUnfilled(g) ==
  /\ Making(g) /\ Top(g).todo = <<>> /\ Top(g).key # None
  /\ LET k == Top(g).key IN
     stack' = [stack EXCEPT ![g] = <<With(Head(Tail(@)), Decorated(Ctx(g), k))>> \o Tail(Tail(@))]
  /\ UNCHANGED <<exts, cache, made, calls, pc, want, got>>
Close(g) ==
  /\ Making(g) /\ Top(g).todo = <<>> /\ Top(g).key # None
  /\ LET k == Top(g).key IN
     /\ made' = [made EXCEPT ![Ctx(g)][k] = Made(Top(g).parts)]
     /\ stack' = [stack EXCEPT ![g] = <<With(Head(Tail(@)), Decorated(Ctx(g), k))>> \o Tail(Tail(@))]
  /\ UNCHANGED <<exts, cache, calls, pc, want, got>>

(* addDecoderToCache and addEncoderToCache: one atomic store.              *)
Store(g) ==
  /\ pc[g] = "build" /\ Returned(g)
  /\ cache' = [cache EXCEPT ![want[g]] = Boxed(Result(g))]
  /\ got' = [got EXCEPT ![g] = Boxed(Result(g))]
  /\ stack' = [stack EXCEPT ![g] = <<>>]
  /\ pc' = [pc EXCEPT ![g] = "use"]
  /\ UNCHANGED <<exts, made, calls, want>>

(* dynamicMapKeyEncoder.Encode: the encoder of the key is made in the ctx  *)
(* the map encoder was made in, whoever uses that ctx now.                 *)
HasDynamicKeys(codec) ==
  Kind[codec.key.type] = "dynmap" /\ codec.key.side = "enc" /\ ~codec.custom
EncodeKey(g) ==
  /\ pc[g] = "use" /\ HasDynamicKeys(got[g])
  /\ stack' = [stack EXCEPT ![g] = Call1(Key("enc", KeyType))]
  /\ pc' = [pc EXCEPT ![g] = "key"]
  /\ UNCHANGED <<exts, cache, made, calls, want, got>>

Return(g) ==
  /\ \/ pc[g] = "use" /\ ~HasDynamicKeys(got[g])
     \/ pc[g] = "key" /\ Returned(g)
  /\ pc' = [pc EXCEPT ![g] = "idle"]
  /\ stack' = [stack EXCEPT ![g] = <<>>]
  /\ UNCHANGED <<exts, cache, made, calls, want, got>>

----------------------------------------------------------------------------
Init ==
  /\ exts = <<>>
  /\ cache = [k \in Keys |-> None]
  /\ made = [c \in Ctxs |-> [k \in Keys |-> None]]
  /\ calls = [g \in Goroutines |-> 0]
  /\ pc = [g \in Goroutines |-> "idle"]
  /\ want = [g \in Goroutines |-> None]
  /\ got = [g \in Goroutines |-> None]
  /\ stack = [g \in Goroutines |-> <<>>]

Run(g) ==
  \/ Hit(g) \/ Miss(g) \/ Build(g) \/ Take(g) \/ Open(g) \/ Close(g)
  \/ Store(g) \/ EncodeKey(g) \/ Return(g)
Next ==
  \/ \E e \in Extensions : RegisterExtension(e)
  \/ \E g \in Goroutines : Run(g) \/ \E k \in Requests : Ask(g, k)

Spec == Init /\ [][Next]_vars

\* a goroutine that can take a step takes one: no step waits for another
FairSpec == Spec /\ \A g \in Goroutines : WF_vars(Run(g))

----------------------------------------------------------------------------
CodecType ==
  [ctx : Ctxs, key : Keys, custom : BOOLEAN, boxed : BOOLEAN, wraps : Seq(Extensions)]
Entries == [filled : BOOLEAN, parts : Seq(CodecType)]
EntryType == {None} \cup Entries
FrameType == [key : Keys \cup {None}, todo : Seq(Keys), parts : Seq(CodecType)]
ASSUME NoneAssumption ==
  None \notin CodecType /\ None \notin Entries /\ None \notin Seq(Extensions)

\* The variables have their types, and a build is never nested deeper than
\* there are codecs: the recursion of decoderOfType ends (reflect.go:135).
TypeOK ==
  /\ exts \in Seq(Extensions)
  /\ cache \in [Keys -> CodecType \cup {None}]
  /\ made \in [Ctxs -> [Keys -> EntryType]]
  /\ calls \in [Goroutines -> 0..MaxCalls]
  /\ pc \in [Goroutines -> {"idle", "load", "again", "build", "use", "key"}]
  /\ want \in [Goroutines -> Keys \cup {None}]
  /\ got \in [Goroutines -> CodecType \cup {None}]
  /\ stack \in [Goroutines -> Seq(FrameType)]
  /\ \A g \in Goroutines : Len(stack[g]) <= Cardinality(Keys) + 1

Finished(c, k) == made[c][k] # None /\ made[c][k].filled
Filled(codec) == codec.custom \/ Finished(codec.ctx, codec.key)
Parts(c, k) == made[c][k].parts

\* A codec is complete when it and the parts of all that its ctx has finished
\* are there: decoding with it follows no placeholder that points to nothing.
Complete(codec) ==
  /\ Filled(codec)
  /\ ~codec.custom =>
       \A k \in Keys : Finished(codec.ctx, k) =>
         \A i \in 1..Len(Parts(codec.ctx, k)) : Filled(Parts(codec.ctx, k)[i])

\* A codec that is used has no empty placeholder in it, whether it was built by
\* this goroutine or found in the cache while others were building
\* (reflect.go:319: placeholderDecoder.Decode calls decoder.decoder).
NoNilCodec ==
  \A g \in Goroutines :
    /\ pc[g] = "use" => Complete(got[g])
    /\ pc[g] = "key" /\ Returned(g) => Complete(Result(g))

\* What is made for k is made of the right codecs, in order, each decorated
\* once by every extension and never boxed.
FitsKey(c, k, wraps) ==
  LET keys == CodecsIn(k) IN
  /\ Len(Parts(c, k)) = Len(keys)
  /\ \A i \in 1..Len(keys) :
       /\ Parts(c, k)[i].key = keys[i] /\ Parts(c, k)[i].wraps = wraps
       /\ ~Parts(c, k)[i].boxed /\ Parts(c, k)[i].ctx = c

\* A codec that is used is the codec of the type that was asked for: boxed if
\* the value is, and down to its last part decorated once by the extensions,
\* also where a recursive type refers to itself (reflect.go:119).
CodecFits ==
  \A g \in Goroutines : pc[g] = "use" =>
    /\ got[g].key = want[g]
    /\ got[g].boxed = (want[g].side = "enc" /\ want[g].type \in PtrShaped)
    /\ ~got[g].custom =>
         \A k \in Keys : Finished(got[g].ctx, k) => FitsKey(got[g].ctx, k, got[g].wraps)

\* Every goroutine that asks for a codec is given one: none waits for another.
EveryCallServed ==
  \A g \in Goroutines : pc[g] = "load" ~> pc[g] = "use"

\* Two goroutines that ask for one type get the same codec and keep getting it
\* whatever is registered later: the unlocked load, build and store are as
\* good as one atomic step (reflect.go:101, config.go:92).
Registry == INSTANCE CodecRegistry WITH
  registered <- exts,
  known <- [k \in Keys |-> IF cache[k] = None THEN None ELSE cache[k].wraps],
  asked <- [g \in Goroutines |-> IF pc[g] \in {"load", "again", "build"} THEN want[g] ELSE None],
  answer <- [g \in Goroutines |-> IF got[g] = None THEN None ELSE got[g].wraps]
ImplementsRegistry == Registry!Spec
=============================================================================
