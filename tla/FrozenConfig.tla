---------------------------- MODULE FrozenConfig ----------------------------
(* Configurations, frozen configurations and the cache of them (config.go, *)
(* adapter.go).                                                            *)
(*                                                                         *)
(* An API is a frozenConfig, made by Froze from a Config and from then on  *)
(* shared by everyone who has it.  What changes a setting for one caller   *)
(* (MarshalIndent, Encoder.SetIndent, Encoder.SetEscapeHTML,               *)
(* Decoder.UseNumber, Decoder.DisallowUnknownFields) takes the Config of   *)
(* the API it has, changes it, and goes on with another API, which         *)
(* frozeWithCacheReuse finds in cfgCache or makes.  Looking up, making,    *)
(* registering the extensions and storing are separate steps: cfgCache is  *)
(* a concurrent map and nothing else is locked.                            *)
EXTENDS Naturals, Sequences, FiniteSets

CONSTANTS
  Goroutines,
  Bases,          \* the Configs the program freezes when it starts, a sequence
  BaseExtensions, \* BaseExtensions[b]: the extensions it registers on them
  Registers,      \* when it does: "start", before any other call, or "ever"
  Extensions,
  Others,         \* what the fields of a Config that no call sets may be
  Types,          \* the Go types that are encoded and decoded
  MaxIndent,      \* bound: spaces of an indention
  MaxCalls        \* bound: calls of all goroutines

(* The fields of a Config that one of the calls above sets.  The others    *)
(* are copied with it.                                                     *)
Configs ==
  [IndentionStep : 0..MaxIndent, EscapeHTML : BOOLEAN, UseNumber : BOOLEAN,
   DisallowUnknownFields : BOOLEAN, others : Others]

ASSUME BasesAssumption ==
  /\ Bases \in Seq(Configs) /\ Len(Bases) > 0   \* ConfigDefault always exists
  /\ BaseExtensions \in [1..Len(Bases) -> Seq(Extensions)]
  /\ Registers \in {"start", "ever"}
ASSUME BoundsAssumption == MaxIndent \in Nat /\ MaxCalls \in Nat

VARIABLES
  apis,      \* every frozenConfig there is; an API is an index of this sequence
  cfgCache,  \* Config -> the API stored for it, or 0
  pc,        \* where each goroutine is
  call,      \* the call it makes
  handle,    \* its Encoder or Decoder: base, api (its cfg) and asked (history)
  written,   \* history: how its last value was encoded or decoded, and should be
  calls      \* calls made

vars == <<apis, cfgCache, pc, call, handle, written, calls>>

----------------------------------------------------------------------------
(* frozenConfig.  encoderExtension and decoderExtension hold the codecs    *)
(* that EscapeHTML and UseNumber bring; codecs is the codec cache of this  *)
(* API, with what each codec was built from.                               *)
NotBuilt == [built |-> FALSE, html |-> FALSE, strict |-> FALSE, extra |-> <<>>]

Froze(cfg) ==
  [configBeforeFrozen |-> cfg,
   indentionStep |-> cfg.IndentionStep,
   disallowUnknownFields |-> cfg.DisallowUnknownFields,
   encoderExtension |-> cfg.EscapeHTML,
   decoderExtension |-> cfg.UseNumber,
   extraExtensions |-> <<>>,
   codecs |-> [t \in Types |-> NotBuilt]]

(* RegisterExtension appends, and leaves the codec cache alone.            *)
WithExtension(api, e) == [api EXCEPT !.extraExtensions = Append(@, e)]

\* the codec of a type, built from the API as it is now
CodecFrom(api) ==
  [built |-> TRUE, html |-> api.encoderExtension, strict |-> api.disallowUnknownFields,
   extra |-> api.extraExtensions]

(* ReadVal and WriteVal: the codec in the cache, or a new one, which is    *)
(* stored.  The indention and UseNumber (Iterator.Read) are looked up in   *)
(* the API whenever a value is written or read.                            *)
WithCodec(api, t) == [api EXCEPT !.codecs[t] = IF @.built THEN @ ELSE CodecFrom(api)]
Effect(api, t) ==
  [IndentionStep |-> api.indentionStep,
   EscapeHTML |-> api.codecs[t].html,
   UseNumber |-> api.configBeforeFrozen.UseNumber /\ api.decoderExtension,
   DisallowUnknownFields |-> api.codecs[t].strict,
   extra |-> api.codecs[t].extra]

\* ... and what a caller who asked for cfg on top of base b should get
Asked(b, cfg) ==
  [IndentionStep |-> cfg.IndentionStep, EscapeHTML |-> cfg.EscapeHTML,
   UseNumber |-> cfg.UseNumber, DisallowUnknownFields |-> cfg.DisallowUnknownFields,
   extra |-> apis[b].extraExtensions]

----------------------------------------------------------------------------
(* The calls.                                                              *)
NoCall ==
  [op |-> "none", cfg |-> Bases[1], asks |-> Bases[1], from |-> 0, made |-> 0, base |-> 0]
NoHandle == [base |-> 0, api |-> 0, asked |-> Bases[1]]
Nothing == [by |-> "none", is |-> 0, should |-> 0]
Goto(g, l) == pc' = [pc EXCEPT ![g] = l]

Begin(g) ==
  /\ pc[g] = "idle" /\ calls < MaxCalls
  /\ calls' = calls + 1

(* NewEncoder, NewDecoder.                                                 *)
New(g) ==
  /\ Begin(g)
  /\ \E b \in 1..Len(Bases) :
       handle' = [handle EXCEPT ![g] = [base |-> b, api |-> b, asked |-> Bases[b]]]
  /\ UNCHANGED <<apis, cfgCache, pc, call, written>>

\* frozeWithCacheReuse for cfg; "asks" (history) is what the caller has asked for
\* in all, one setting after the other
Reuse(g, op, b, from, cfg, asks) ==
  /\ call' = [call EXCEPT ![g] =
       [op |-> op, cfg |-> cfg, asks |-> asks, from |-> from, made |-> 0, base |-> b]]
  /\ Goto(g, "load")
  /\ UNCHANGED <<apis, cfgCache, handle, written>>

(* The Config that a setter asks for: that of the API it has now, with one *)
(* field changed.                                                          *)
\* mutant: it starts from the Config the program froze
SettingsOfBase(h) == Bases[h.base]
SettingsOf(h) == apis[h.api].configBeforeFrozen

(* Encoder.SetIndent, Encoder.SetEscapeHTML.                               *)
SetOnEncoder(g) ==
  /\ Begin(g) /\ handle[g].api # 0
  /\ \E n \in 0..MaxIndent, html \in BOOLEAN :
       LET h == handle[g]
           Indented(cfg) == [cfg EXCEPT !.IndentionStep = n]
           Escaped(cfg) == [cfg EXCEPT !.EscapeHTML = html] IN
       \/ Reuse(g, "set", h.base, h.api, Indented(SettingsOf(h)), Indented(h.asked))
       \/ Reuse(g, "set", h.base, h.api, Escaped(SettingsOf(h)), Escaped(h.asked))

(* Decoder.UseNumber, Decoder.DisallowUnknownFields.                       *)
SetOnDecoder(g) ==
  /\ Begin(g) /\ handle[g].api # 0
  /\ LET h == handle[g]
         Numbers(cfg) == [cfg EXCEPT !.UseNumber = TRUE]
         Strict(cfg) == [cfg EXCEPT !.DisallowUnknownFields = TRUE] IN
     \/ Reuse(g, "set", h.base, h.api, Numbers(SettingsOf(h)), Numbers(h.asked))
     \/ Reuse(g, "set", h.base, h.api, Strict(SettingsOf(h)), Strict(h.asked))

(* frozenConfig.MarshalIndent of an API the program froze (a prefix, or an *)
(* indent that is not all spaces, panics before anything happens).         *)
MarshalIndent(g) ==
  /\ Begin(g)
  /\ \E b \in 1..Len(Bases), n \in 0..MaxIndent :
       LET Indented(cfg) == [cfg EXCEPT !.IndentionStep = n] IN
       Reuse(g, "marshal", b, b, Indented(apis[b].configBeforeFrozen), Indented(Bases[b]))

----------------------------------------------------------------------------
(* frozeWithCacheReuse, called with the extensions of the API in call.from. *)
Found(g, api) == call' = [call EXCEPT ![g].made = api] /\ Goto(g, "return")

\* mutant: a miss is taken for a hit
LoadUnmade(g) ==
  /\ pc[g] = "load"
  /\ Found(g, cfgCache[call[g].cfg])
  /\ UNCHANGED <<apis, cfgCache, handle, written, calls>>

Load(g) ==
  /\ pc[g] = "load"
  /\ \/ cfgCache[call[g].cfg] # 0 /\ Found(g, cfgCache[call[g].cfg])
     \/ cfgCache[call[g].cfg] = 0 /\ Goto(g, "froze") /\ UNCHANGED call
  /\ UNCHANGED <<apis, cfgCache, handle, written, calls>>

\* mutant: the API is in the cache before its extensions are registered
MakeInCache(g) ==
  /\ pc[g] = "froze"
  /\ apis' = Append(apis, Froze(call[g].cfg))
  /\ cfgCache' = [cfgCache EXCEPT ![call[g].cfg] = Len(apis) + 1]
  /\ call' = [call EXCEPT ![g].made = Len(apis) + 1]
  /\ Goto(g, "register")
  /\ UNCHANGED <<handle, written, calls>>

Make(g) ==
  /\ pc[g] = "froze"
  /\ apis' = Append(apis, Froze(call[g].cfg))
  /\ call' = [call EXCEPT ![g].made = Len(apis) + 1]
  /\ Goto(g, "register")
  /\ UNCHANGED <<cfgCache, handle, written, calls>>

Registered(g) == Len(apis[call[g].made].extraExtensions)
ToRegister(g) == apis[call[g].from].extraExtensions

\* mutant: what is registered on the old API is left behind
RegisterNone(g) ==
  /\ pc[g] = "register"
  /\ Goto(g, "store")
  /\ UNCHANGED <<apis, cfgCache, call, handle, written, calls>>

Register(g) ==
  /\ pc[g] = "register"
  /\ \/ /\ Registered(g) < Len(ToRegister(g))
        /\ apis' = [apis EXCEPT ![call[g].made] =
                      WithExtension(@, ToRegister(g)[Registered(g) + 1])]
        /\ UNCHANGED pc
     \/ Registered(g) = Len(ToRegister(g)) /\ Goto(g, "store") /\ UNCHANGED apis
  /\ UNCHANGED <<cfgCache, call, handle, written, calls>>

Store(g) ==
  /\ pc[g] = "store"
  /\ cfgCache' = [cfgCache EXCEPT ![call[g].cfg] = call[g].made]
  /\ Goto(g, "return")
  /\ UNCHANGED <<apis, call, handle, written, calls>>

----------------------------------------------------------------------------
(* What the calls do with the API they are given, and Encode and Decode.   *)
Use(g, by, api, b, cfg, t) ==
  /\ apis' = [apis EXCEPT ![api] = WithCodec(@, t)]
  /\ written' = [written EXCEPT ![g] =
       [by |-> by, is |-> Effect(WithCodec(apis[api], t), t), should |-> Asked(b, cfg)]]

(* A setter: the Encoder or Decoder goes on with the API.                  *)
Install(g) ==
  /\ pc[g] = "return" /\ call[g].op = "set"
  /\ handle' = [handle EXCEPT ![g].api = call[g].made, ![g].asked = call[g].asks]
  /\ Goto(g, "idle")
  /\ call' = [call EXCEPT ![g] = NoCall]
  /\ UNCHANGED <<apis, cfgCache, written, calls>>

(* MarshalIndent: Marshal of the API.                                      *)
Marshal(g) ==
  /\ pc[g] = "return" /\ call[g].op = "marshal"
  /\ \E t \in Types : Use(g, "MarshalIndent", call[g].made, call[g].base, call[g].asks, t)
  /\ Goto(g, "idle")
  /\ call' = [call EXCEPT ![g] = NoCall]
  /\ UNCHANGED <<cfgCache, handle, calls>>

(* Encoder.Encode, Decoder.Decode.                                         *)
EncodeOrDecode(g) ==
  /\ Begin(g) /\ handle[g].api # 0
  /\ \E t \in Types : Use(g, "handle", handle[g].api, handle[g].base, handle[g].asked, t)
  /\ UNCHANGED <<cfgCache, pc, call, handle>>

(* API.RegisterExtension while nobody uses an API (it takes no lock).      *)
RegisterExtension(b) ==
  /\ \A g \in Goroutines : pc[g] = "idle"
  /\ Registers = "ever" \/ calls = 0
  /\ LET n == Len(apis[b].extraExtensions) IN
     /\ n < Len(BaseExtensions[b])
     /\ apis' = [apis EXCEPT ![b] = WithExtension(@, BaseExtensions[b][n + 1])]
  /\ written' = [g \in Goroutines |-> Nothing]
  /\ UNCHANGED <<cfgCache, pc, call, handle, calls>>

----------------------------------------------------------------------------
Init ==
  /\ apis = [b \in 1..Len(Bases) |-> Froze(Bases[b])]
  /\ cfgCache = [c \in Configs |-> 0]
  /\ pc = [g \in Goroutines |-> "idle"]
  /\ call = [g \in Goroutines |-> NoCall]
  /\ handle = [g \in Goroutines |-> NoHandle]
  /\ written = [g \in Goroutines |-> Nothing]
  /\ calls = 0

Run(g) ==
  \/ Load(g) \/ Make(g) \/ Register(g) \/ Store(g) \/ Install(g) \/ Marshal(g)
Call(g) ==
  \/ New(g) \/ SetOnEncoder(g) \/ SetOnDecoder(g) \/ MarshalIndent(g) \/ EncodeOrDecode(g)

Next ==
  \/ \E g \in Goroutines : Run(g) \/ Call(g)
  \/ \E b \in 1..Len(Bases) : RegisterExtension(b)

Spec == Init /\ [][Next]_vars

----------------------------------------------------------------------------
(* Properties.                                                             *)
Places == {"idle", "load", "froze", "register", "store", "return"}
Codecs ==
  [built : BOOLEAN, html : BOOLEAN, strict : BOOLEAN, extra : Seq(Extensions)]
Apis ==
  [configBeforeFrozen : Configs, indentionStep : Nat, disallowUnknownFields : BOOLEAN,
   encoderExtension : BOOLEAN, decoderExtension : BOOLEAN,
   extraExtensions : Seq(Extensions), codecs : [Types -> Codecs]]

\* Type invariant: whatever is referred to exists; a goroutine inside
\* frozeWithCacheReuse has the API it came from and, from "register" on, the
\* one it makes.
TypeOK ==
  /\ apis \in Seq(Apis) /\ Len(apis) >= Len(Bases)
  /\ cfgCache \in [Configs -> 0..Len(apis)]
  /\ pc \in [Goroutines -> Places]
  /\ call \in [Goroutines -> [op : {"none", "set", "marshal"}, cfg : Configs, asks : Configs,
       from : 0..Len(apis), made : 0..Len(apis), base : 0..Len(Bases)]]
  /\ handle \in [Goroutines -> [base : 0..Len(Bases), api : 0..Len(apis), asked : Configs]]
  /\ calls \in 0..MaxCalls
  /\ \A g \in Goroutines :
       /\ (handle[g].api = 0) <=> (handle[g].base = 0)
       /\ pc[g] # "idle" => call[g].from # 0 /\ call[g].base # 0 /\ call[g].op # "none"
       /\ pc[g] \in {"register", "store", "return"} => call[g].made # 0

\* Each value is written and read with the settings its own caller asked
\* for, one after the other, on top of the API it started from, and with the
\* extensions of that API (MarshalIndent, SetIndent, SetEscapeHTML, UseNumber,
\* DisallowUnknownFields, whoever else uses the API and its relatives).
AsAsked ==
  \A g \in Goroutines : written[g].by # "none" => written[g].is = written[g].should

\* MarshalIndent of an API writes what its Marshal writes, but for the white
\* space: with the extensions that are registered on that API.
IndentedLikeMarshal ==
  \A g \in Goroutines :
    written[g].by = "MarshalIndent" => written[g].is.extra = written[g].should.extra

\* Once the program has started, no call changes an API that others may have:
\* neither one the program has frozen nor one that is in the cache is given
\* other settings or extensions.
Shared == 1..Len(Bases) \cup {cfgCache[c] : c \in Configs}
Settings(api) ==
  <<api.configBeforeFrozen, api.indentionStep, api.disallowUnknownFields,
    api.encoderExtension, api.decoderExtension, api.extraExtensions>>
SharedApisKeep ==
  [][calls > 0 => \A i \in Shared \ {0} : Settings(apis'[i]) = Settings(apis[i])]_vars
=============================================================================
