------------------------- MODULE FrozenConfigProofs -------------------------
(***************************************************************************)
(* An API that others may have never changes, and every value is written   *)
(* and read with the settings and the extensions its caller asked for: for *)
(* any number of goroutines, calls, APIs and extensions.                   *)
(***************************************************************************)
EXTENDS FrozenConfig, SequenceTheorems, TLAPS

----------------------------------------------------------------------------
(* First layer: types.  A setter has a handle.                             *)
SetterHasHandle ==
  \A g \in Goroutines : pc[g] # "idle" /\ call[g].op = "set" => handle[g].base # 0
TypeInv == TypeOK /\ SetterHasHandle

(* Second layer: who knows which API.  Until the first call nobody has     *)
(* one; while its extensions are being registered it is known to its maker *)
(* only.                                                                   *)
NotUsedYet ==
  /\ \A g \in Goroutines : pc[g] = "idle" /\ handle[g].api = 0
  /\ \A c \in Configs : cfgCache[c] = 0
  /\ \A i \in 1..Len(apis), t \in Types : ~apis[i].codecs[t].built
Private(g) ==
  LET i == call[g].made IN
  /\ i > Len(Bases)
  /\ \A c \in Configs : cfgCache[c] # i
  /\ \A h \in Goroutines :
       /\ handle[h].api # i
       /\ pc[h] # "idle" => call[h].from # i /\ (h # g => call[h].made # i)
  /\ \A t \in Types : ~apis[i].codecs[t].built
PrivateInv ==
  /\ calls = 0 => NotUsedYet
  /\ \A g \in Goroutines : pc[g] = "register" => Private(g)
SharedInv == TypeInv /\ PrivateInv

(* Third layer: what the APIs are.  The extensions are the same for every  *)
(* base of an API, which is why the bases must differ in what is not set.  *)
Fits(i, cfg, b) ==
  /\ apis[i].configBeforeFrozen = cfg
  /\ apis[i].extraExtensions = apis[b].extraExtensions
  /\ cfg.others = Bases[b].others
FollowsConfig(api) ==
  /\ api.indentionStep = api.configBeforeFrozen.IndentionStep
  /\ api.disallowUnknownFields = api.configBeforeFrozen.DisallowUnknownFields
  /\ api.encoderExtension = api.configBeforeFrozen.EscapeHTML
  /\ api.decoderExtension = api.configBeforeFrozen.UseNumber
  /\ \A t \in Types : api.codecs[t].built => api.codecs[t] = CodecFrom(api)
\* the extensions registered so far are the first of those to register
HasFirst(some, all) ==
  /\ Len(some) <= Len(all)
  /\ \A k \in 1..Len(some) : some[k] = all[k]
CallFits(g) ==
  LET c == call[g] IN
  /\ c.cfg = c.asks /\ c.cfg.others = Bases[c.base].others
  /\ apis[c.from].extraExtensions = apis[c.base].extraExtensions
  /\ c.op = "set" => handle[g].base = c.base
  /\ pc[g] = "register" =>
       /\ apis[c.made].configBeforeFrozen = c.cfg
       /\ HasFirst(apis[c.made].extraExtensions, apis[c.from].extraExtensions)
  /\ pc[g] \in {"store", "return"} => Fits(c.made, c.cfg, c.base)

ApisFollow == \A i \in 1..Len(apis) : FollowsConfig(apis[i])
BasesKept == \A b \in 1..Len(Bases) : apis[b].configBeforeFrozen = Bases[b]
CacheFits ==
  \A c \in Configs, b \in 1..Len(Bases) :
    cfgCache[c] # 0 /\ c.others = Bases[b].others => Fits(cfgCache[c], c, b)
CallsFit == \A g \in Goroutines : pc[g] # "idle" => CallFits(g)
HandlesFit ==
  \A g \in Goroutines :
    handle[g].api # 0 => Fits(handle[g].api, handle[g].asked, handle[g].base)
ValuesInv ==
  /\ ApisFollow /\ BasesKept /\ CacheFits /\ CallsFit /\ HandlesFit /\ AsAsked
  /\ written = [g \in Goroutines |-> written[g]]
Inv == SharedInv /\ ValuesInv

----------------------------------------------------------------------------
(* Operators on an API.                                                    *)
LEMMA NonEmpty == Bases[1] \in Configs /\ Len(Bases) \in Nat /\ 1 \in 1..Len(Bases)
  BY BasesAssumption

LEMMA FrozeType ==
  ASSUME NEW cfg \in Configs
  PROVE  Froze(cfg) \in Apis
<1>1. cfg.IndentionStep \in Nat /\ <<>> \in Seq(Extensions)
  BY BoundsAssumption DEF Configs
<1>2. NotBuilt \in Codecs
  BY <1>1 DEF NotBuilt, Codecs
<1> QED BY <1>1, <1>2 DEF Froze, Apis, Configs

LEMMA WithExtensionType ==
  ASSUME NEW api \in Apis, NEW e \in Extensions
  PROVE  /\ WithExtension(api, e) \in Apis
         /\ WithExtension(api, e).extraExtensions = Append(api.extraExtensions, e)
         /\ WithExtension(api, e).codecs = api.codecs
         /\ WithExtension(api, e).configBeforeFrozen = api.configBeforeFrozen
         /\ WithExtension(api, e).indentionStep = api.indentionStep
         /\ WithExtension(api, e).disallowUnknownFields = api.disallowUnknownFields
         /\ WithExtension(api, e).encoderExtension = api.encoderExtension
         /\ WithExtension(api, e).decoderExtension = api.decoderExtension
<1>1. Append(api.extraExtensions, e) \in Seq(Extensions)
  BY DEF Apis
<1> QED BY <1>1 DEF WithExtension, Apis

LEMMA WithCodecType ==
  ASSUME NEW api \in Apis, NEW t \in Types
  PROVE  /\ WithCodec(api, t) \in Apis
         /\ WithCodec(api, t).codecs[t] =
              IF api.codecs[t].built THEN api.codecs[t] ELSE CodecFrom(api)
         /\ \A u \in Types : u # t => WithCodec(api, t).codecs[u] = api.codecs[u]
         /\ Settings(WithCodec(api, t)) = Settings(api)
<1>1. CodecFrom(api) \in Codecs
  BY DEF CodecFrom, Apis, Codecs
<1>2. api.codecs \in [Types -> Codecs]
  BY DEF Apis
<1> QED BY <1>1, <1>2 DEF WithCodec, Apis, Settings

LEMMA MadeApi ==
  ASSUME TypeOK, NEW cfg \in Configs, apis' = Append(apis, Froze(cfg))
  PROVE  /\ apis' \in Seq(Apis) /\ Len(apis') = Len(apis) + 1
         /\ \A i \in 1..Len(apis) : apis'[i] = apis[i]
         /\ apis'[Len(apis) + 1] = Froze(cfg)
<1>1. apis \in Seq(Apis) /\ Froze(cfg) \in Apis
  BY FrozeType DEF TypeOK
<1> QED BY <1>1

LEMMA UsedApi ==
  ASSUME TypeOK, NEW g \in Goroutines, NEW by, NEW api \in 1..Len(apis), NEW b, NEW cfg,
         NEW t \in Types, Use(g, by, api, b, cfg, t)
  PROVE  /\ apis' \in Seq(Apis) /\ Len(apis') = Len(apis)
         /\ \A i \in 1..Len(apis) : i # api => apis'[i] = apis[i]
         /\ apis'[api] = WithCodec(apis[api], t)
         /\ \A i \in 1..Len(apis) : Settings(apis'[i]) = Settings(apis[i])
<1>1. apis \in Seq(Apis) /\ apis[api] \in Apis
  BY DEF TypeOK
<1>2. WithCodec(apis[api], t) \in Apis
  BY <1>1, WithCodecType
<1>3. apis' = [apis EXCEPT ![api] = WithCodec(apis[api], t)]
  BY DEF Use
<1>4. apis' \in Seq(Apis) /\ Len(apis') = Len(apis)
  BY <1>1, <1>2, <1>3
<1>5. /\ \A i \in 1..Len(apis) : i # api => apis'[i] = apis[i]
      /\ apis'[api] = WithCodec(apis[api], t)
  BY <1>1, <1>3
<1>6. Settings(WithCodec(apis[api], t)) = Settings(apis[api])
  BY <1>1, WithCodecType
<1> QED BY <1>4, <1>5, <1>6

LEMMA ExtendedApi ==
  ASSUME TypeOK, NEW i \in 1..Len(apis), NEW e \in Extensions,
         apis' = [apis EXCEPT ![i] = WithExtension(@, e)]
  PROVE  /\ apis' \in Seq(Apis) /\ Len(apis') = Len(apis)
         /\ \A j \in 1..Len(apis) : j # i => apis'[j] = apis[j]
         /\ apis'[i] = WithExtension(apis[i], e)
<1>1. apis \in Seq(Apis) /\ apis[i] \in Apis
  BY DEF TypeOK
<1>2. WithExtension(apis[i], e) \in Apis
  BY <1>1, WithExtensionType
<1> QED BY <1>1, <1>2

LEMMA NextExtension ==
  ASSUME TypeOK, NEW g \in Goroutines, pc[g] = "register", Registered(g) < Len(ToRegister(g))
  PROVE  /\ Registered(g) + 1 \in 1..Len(ToRegister(g))
         /\ ToRegister(g)[Registered(g) + 1] \in Extensions
         /\ call[g].made \in 1..Len(apis)
<1>1. call[g].made \in 1..Len(apis) /\ call[g].from \in 1..Len(apis)
  BY DEF TypeOK
<1>2. apis[call[g].made] \in Apis /\ apis[call[g].from] \in Apis
  BY <1>1 DEF TypeOK
<1>3. Registered(g) \in Nat /\ ToRegister(g) \in Seq(Extensions)
  BY <1>2 DEF Registered, ToRegister, Apis
<1> QED BY <1>1, <1>3

LEMMA NextBaseExtension ==
  ASSUME TypeOK, NEW b \in 1..Len(Bases), RegisterExtension(b)
  PROVE  \E e \in Extensions : apis' = [apis EXCEPT ![b] = WithExtension(@, e)]
<1>1. b \in 1..Len(apis) /\ BaseExtensions[b] \in Seq(Extensions)
  BY BasesAssumption DEF TypeOK
<1>2. apis[b] \in Apis
  BY <1>1 DEF TypeOK
<1> DEFINE n == Len(apis[b].extraExtensions)
<1>3. n \in Nat /\ n < Len(BaseExtensions[b])
  BY <1>2 DEF Apis, RegisterExtension
<1>4. BaseExtensions[b][n + 1] \in Extensions
  BY <1>1, <1>3
<1>5. apis' = [apis EXCEPT ![b] = WithExtension(@, BaseExtensions[b][n + 1])]
  BY DEF RegisterExtension
<1> QED BY <1>4, <1>5

----------------------------------------------------------------------------
(* First layer.                                                            *)
CallType ==
  [op : {"none", "set", "marshal"}, cfg : Configs, asks : Configs, from : 0..Len(apis),
   made : 0..Len(apis), base : 0..Len(Bases)]
HandleType == [base : 0..Len(Bases), api : 0..Len(apis), asked : Configs]

LEMMA TypeFacts ==
  ASSUME TypeInv
  PROVE  /\ call \in [Goroutines -> CallType] /\ handle \in [Goroutines -> HandleType]
         /\ \A h \in Goroutines :
              /\ pc[h] # "idle" =>
                   /\ call[h].from # 0 /\ call[h].base # 0 /\ call[h].op # "none"
                   /\ call[h].op = "set" => handle[h].base # 0
              /\ pc[h] \in {"register", "store", "return"} => call[h].made # 0
              /\ (handle[h].api = 0) <=> (handle[h].base = 0)
              /\ handle[h].api \in 0..Len(apis) /\ handle[h].base \in 0..Len(Bases)
              /\ handle[h].asked \in Configs
         /\ apis \in Seq(Apis) /\ Len(apis) \in Nat /\ Len(Bases) \in Nat /\ Len(apis) >= Len(Bases)
         /\ \A i \in 1..Len(apis) : apis[i] \in Apis /\ apis[i].configBeforeFrozen \in Configs
<1>1. apis \in Seq(Apis) /\ Len(apis) \in Nat /\ Len(Bases) \in Nat /\ Len(apis) >= Len(Bases)
  BY NonEmpty DEF TypeInv, TypeOK
<1>2. \A i \in 1..Len(apis) : apis[i] \in Apis
  BY <1>1
<1>3. \A api \in Apis : api.configBeforeFrozen \in Configs
  BY DEF Apis
<1>4. call \in [Goroutines -> CallType] /\ handle \in [Goroutines -> HandleType]
  BY DEF TypeInv, TypeOK, CallType, HandleType
<1>5. \A h \in Goroutines : /\ handle[h].api \in 0..Len(apis) /\ handle[h].base \in 0..Len(Bases)
                            /\ handle[h].asked \in Configs
  BY <1>4 DEF HandleType
<1>6. \A h \in Goroutines :
        /\ pc[h] # "idle" => call[h].from # 0 /\ call[h].base # 0 /\ call[h].op # "none"
        /\ pc[h] # "idle" /\ call[h].op = "set" => handle[h].base # 0
        /\ pc[h] \in {"register", "store", "return"} => call[h].made # 0
        /\ (handle[h].api = 0) <=> (handle[h].base = 0)
  BY DEF TypeInv, TypeOK, SetterHasHandle
<1> QED BY <1>1, <1>2, <1>3, <1>4, <1>5, <1>6

LEMMA TypeInit == Init => TypeInv
<1> SUFFICES ASSUME Init PROVE TypeInv
  OBVIOUS
<1>1. apis \in Seq(Apis) /\ Len(apis) = Len(Bases)
  <2>1. \A b \in 1..Len(Bases) : Froze(Bases[b]) \in Apis
    BY BasesAssumption, FrozeType
  <2> QED BY <2>1, NonEmpty DEF Init
<1>2. NoCall \in CallType /\ NoHandle \in HandleType
  BY <1>1, NonEmpty DEF NoCall, NoHandle, CallType, HandleType
<1>3. /\ cfgCache \in [Configs -> 0..Len(apis)] /\ pc \in [Goroutines -> Places]
      /\ calls \in 0..MaxCalls
  BY <1>1, NonEmpty, BoundsAssumption DEF Init, Places
<1>4. /\ call \in [Goroutines -> CallType] /\ handle \in [Goroutines -> HandleType]
      /\ \A g \in Goroutines : handle[g] = NoHandle /\ pc[g] = "idle"
  BY <1>2 DEF Init
<1>5. TypeOK
  BY <1>1, <1>3, <1>4 DEF TypeOK, CallType, HandleType, NoHandle
<1> QED BY <1>4, <1>5 DEF TypeInv, SetterHasHandle

LEMMA ReuseType ==
  ASSUME TypeInv, NEW g \in Goroutines, NEW op \in {"set", "marshal"},
         NEW b \in 1..Len(Bases), NEW from \in 1..Len(apis), NEW cfg \in Configs, NEW asks \in Configs,
         op = "set" => handle[g].base # 0, Begin(g), Reuse(g, op, b, from, cfg, asks)
  PROVE  TypeInv'
<1> DEFINE c == [op |-> op, cfg |-> cfg, asks |-> asks, from |-> from, made |-> 0, base |-> b]
<1>1. c \in CallType
  BY NonEmpty DEF CallType, TypeInv, TypeOK
<1>2. call' \in [Goroutines -> CallType] /\ \A h \in Goroutines : call'[h] = IF h = g THEN c ELSE call[h]
  BY <1>1 DEF Reuse, TypeInv, TypeOK, CallType
<1>3. pc' \in [Goroutines -> Places] /\ \A h \in Goroutines : pc'[h] = IF h = g THEN "load" ELSE pc[h]
  BY DEF Reuse, Goto, Places, TypeInv, TypeOK
<1>4. UNCHANGED <<apis, cfgCache, handle>> /\ calls' \in 0..MaxCalls
  BY BoundsAssumption DEF Reuse, Begin, TypeInv, TypeOK
<1>5. \A h \in Goroutines : pc'[h] # "idle" =>
        /\ call'[h].from # 0 /\ call'[h].base # 0 /\ call'[h].op # "none"
        /\ call'[h].op = "set" => handle[h].base # 0
  <2>1. c.from # 0 /\ c.base # 0 /\ c.op # "none" /\ c.op = op
    BY NonEmpty, TypeFacts
  <2> HIDE DEF c
  <2> QED BY <1>2, <1>3, <2>1, TypeFacts
<1>6. \A h \in Goroutines : pc'[h] \in {"register", "store", "return"} => call'[h].made # 0
  BY <1>2, <1>3 DEF TypeInv, TypeOK
<1>7. TypeOK'
  BY <1>2, <1>3, <1>4, <1>5, <1>6 DEF TypeInv, TypeOK, CallType
<1> QED BY <1>4, <1>5, <1>7 DEF TypeInv, SetterHasHandle

(* The setters and MarshalIndent as calls of Reuse: a setter does to the   *)
(* Config of the API it has what it does to the Config asked for before.   *)
SameChange(g, cfg, asks) ==
  LET was == apis[handle[g].api].configBeforeFrozen IN
  /\ cfg.others = was.others
  /\ was = handle[g].asked => cfg = asks

LEMMA Setters ==
  ASSUME TypeInv, NEW g \in Goroutines, SetOnEncoder(g) \/ SetOnDecoder(g)
  PROVE  /\ Begin(g) /\ handle[g].base \in 1..Len(Bases) /\ handle[g].api \in 1..Len(apis)
         /\ \E cfg \in Configs, asks \in Configs :
              /\ SameChange(g, cfg, asks)
              /\ Reuse(g, "set", handle[g].base, handle[g].api, cfg, asks)
<1>1. Begin(g) /\ handle[g].base \in 1..Len(Bases) /\ handle[g].api \in 1..Len(apis)
  BY NonEmpty DEF SetOnEncoder, SetOnDecoder, TypeInv, TypeOK
<1> DEFINE was == SettingsOf(handle[g])
           asked == handle[g].asked
<1>2. was \in Configs /\ was = apis[handle[g].api].configBeforeFrozen /\ asked \in Configs
  BY <1>1, TypeFacts DEF SettingsOf
<1> HIDE DEF was, asked
<1>3. ASSUME NEW c \in Configs, NEW n \in 0..MaxIndent, NEW h \in BOOLEAN
      PROVE  /\ [c EXCEPT !.IndentionStep = n] \in Configs
             /\ [c EXCEPT !.IndentionStep = n].others = c.others
             /\ [c EXCEPT !.EscapeHTML = h] \in Configs
             /\ [c EXCEPT !.EscapeHTML = h].others = c.others
             /\ [c EXCEPT !.UseNumber = TRUE] \in Configs
             /\ [c EXCEPT !.UseNumber = TRUE].others = c.others
             /\ [c EXCEPT !.DisallowUnknownFields = TRUE] \in Configs
             /\ [c EXCEPT !.DisallowUnknownFields = TRUE].others = c.others
  BY DEF Configs
<1>4. CASE SetOnEncoder(g)
  <2>1. PICK n \in 0..MaxIndent, h \in BOOLEAN :
          \/ Reuse(g, "set", handle[g].base, handle[g].api,
                    [was EXCEPT !.IndentionStep = n], [asked EXCEPT !.IndentionStep = n])
          \/ Reuse(g, "set", handle[g].base, handle[g].api,
                    [was EXCEPT !.EscapeHTML = h], [asked EXCEPT !.EscapeHTML = h])
    BY <1>4 DEF SetOnEncoder, was, asked
  <2>2. /\ SameChange(g, [was EXCEPT !.IndentionStep = n], [asked EXCEPT !.IndentionStep = n])
        /\ SameChange(g, [was EXCEPT !.EscapeHTML = h], [asked EXCEPT !.EscapeHTML = h])
    BY <1>2, <1>3 DEF SameChange, asked
  <2> QED BY <1>1, <1>2, <1>3, <2>1, <2>2
<1>5. CASE SetOnDecoder(g)
  <2>1. \/ Reuse(g, "set", handle[g].base, handle[g].api,
                 [was EXCEPT !.UseNumber = TRUE], [asked EXCEPT !.UseNumber = TRUE])
        \/ Reuse(g, "set", handle[g].base, handle[g].api,
                 [was EXCEPT !.DisallowUnknownFields = TRUE],
                 [asked EXCEPT !.DisallowUnknownFields = TRUE])
    BY <1>5 DEF SetOnDecoder, was, asked
  <2>2. 0 \in 0..MaxIndent
    BY BoundsAssumption
  <2>3. /\ SameChange(g, [was EXCEPT !.UseNumber = TRUE], [asked EXCEPT !.UseNumber = TRUE])
        /\ SameChange(g, [was EXCEPT !.DisallowUnknownFields = TRUE],
                         [asked EXCEPT !.DisallowUnknownFields = TRUE])
    BY <1>2, <1>3, <2>2 DEF SameChange, asked
  <2> QED BY <1>1, <1>2, <1>3, <2>1, <2>2, <2>3
<1> QED BY <1>4, <1>5

LEMMA Indenters ==
  ASSUME TypeInv, NEW g \in Goroutines, MarshalIndent(g)
  PROVE  /\ Begin(g)
         /\ \E b \in 1..Len(Bases), cfg \in Configs, asks \in Configs :
              /\ b \in 1..Len(apis) /\ cfg.others = apis[b].configBeforeFrozen.others
              /\ apis[b].configBeforeFrozen = Bases[b] => cfg = asks
              /\ Reuse(g, "marshal", b, b, cfg, asks)
<1>1. PICK b \in 1..Len(Bases), n \in 0..MaxIndent :
        Reuse(g, "marshal", b, b, [apis[b].configBeforeFrozen EXCEPT !.IndentionStep = n],
              [Bases[b] EXCEPT !.IndentionStep = n])
  BY DEF MarshalIndent
<1>2. b \in 1..Len(apis)
  BY DEF TypeInv, TypeOK
<1>3. apis[b].configBeforeFrozen \in Configs /\ Bases[b] \in Configs
  BY <1>2, BasesAssumption, TypeFacts
<1>4. /\ [apis[b].configBeforeFrozen EXCEPT !.IndentionStep = n] \in Configs
      /\ [apis[b].configBeforeFrozen EXCEPT !.IndentionStep = n].others = apis[b].configBeforeFrozen.others
      /\ [Bases[b] EXCEPT !.IndentionStep = n] \in Configs
  BY <1>3 DEF Configs
<1> QED BY <1>1, <1>2, <1>4 DEF MarshalIndent

LEMMA TypeNext == TypeInv /\ [Next]_vars => TypeInv'
<1> SUFFICES ASSUME TypeInv, [Next]_vars PROVE TypeInv'
  OBVIOUS
<1> USE DEF TypeInv
<1>1. CASE UNCHANGED vars
  BY <1>1 DEF vars, TypeOK, SetterHasHandle
<1>2. ASSUME NEW g \in Goroutines, New(g) PROVE TypeInv'
  <2>1. PICK b \in 1..Len(Bases) :
          handle' = [handle EXCEPT ![g] = [base |-> b, api |-> b, asked |-> Bases[b]]]
    BY <1>2 DEF New
  <2>2. [base |-> b, api |-> b, asked |-> Bases[b]] \in HandleType
    BY BasesAssumption DEF HandleType, TypeOK
  <2>3. calls' \in 0..MaxCalls
    BY <1>2, BoundsAssumption DEF New, Begin, TypeOK
  <2>4. /\ handle' \in [Goroutines -> HandleType]
        /\ \A h \in Goroutines : handle'[h] =
             IF h = g THEN [base |-> b, api |-> b, asked |-> Bases[b]] ELSE handle[h]
    BY <2>1, <2>2 DEF TypeOK, HandleType
  <2>5. TypeOK'
    BY <1>2, <2>3, <2>4, SMTT(30) DEF New, TypeOK, HandleType
  <2> QED BY <1>2, <2>4, <2>5 DEF New, SetterHasHandle
<1>3. ASSUME NEW g \in Goroutines, SetOnEncoder(g) \/ SetOnDecoder(g) PROVE TypeInv'
  BY <1>3, Setters, ReuseType
<1>4. ASSUME NEW g \in Goroutines, MarshalIndent(g) PROVE TypeInv'
  BY <1>4, Indenters, ReuseType
<1>5. ASSUME NEW g \in Goroutines, Load(g) PROVE TypeInv'
  <2>1. call[g].cfg \in Configs /\ cfgCache[call[g].cfg] \in 0..Len(apis)
    BY DEF TypeOK
  <2>2. CASE Goto(g, "froze") /\ UNCHANGED call
    BY <1>5, <2>2 DEF Load, Goto, TypeOK, Places, SetterHasHandle
  <2>3. CASE cfgCache[call[g].cfg] # 0 /\ Found(g, cfgCache[call[g].cfg])
    <3>1. call' \in [Goroutines -> CallType] /\ \A h \in Goroutines :
            call'[h] = IF h = g THEN [call[g] EXCEPT !.made = cfgCache[call[g].cfg]] ELSE call[h]
      BY <2>1, <2>3, ZenonT(60) DEF Found, TypeOK, CallType
    <3>2. pc' \in [Goroutines -> Places] /\ \A h \in Goroutines : pc'[h] = IF h = g THEN "return" ELSE pc[h]
      BY <2>3 DEF Found, Goto, TypeOK, Places
    <3>3. \A h \in Goroutines : pc'[h] # "idle" =>
            /\ call'[h].from # 0 /\ call'[h].base # 0 /\ call'[h].op # "none"
            /\ call'[h].op = "set" => handle[h].base # 0
      <4>1. LET c == [call[g] EXCEPT !.made = cfgCache[call[g].cfg]] IN
            c.from = call[g].from /\ c.base = call[g].base /\ c.op = call[g].op
        BY TypeFacts DEF CallType
      <4>2. pc[g] # "idle"
        BY <1>5 DEF Load
      <4> QED BY <3>1, <3>2, <4>1, <4>2, TypeFacts, ZenonT(60)
    <3>4. \A h \in Goroutines : pc'[h] \in {"register", "store", "return"} => call'[h].made # 0
      BY <2>1, <2>3, <3>1, <3>2 DEF TypeOK
    <3>5. TypeOK'
      BY <1>5, <3>1, <3>2, <3>3, <3>4 DEF Load, TypeOK, CallType
    <3> QED BY <1>5, <3>3, <3>5 DEF Load, SetterHasHandle
  <2> QED BY <1>5, <2>2, <2>3 DEF Load
<1>6. ASSUME NEW g \in Goroutines, Make(g) PROVE TypeInv'
  <2>1. apis' \in Seq(Apis) /\ Len(apis') = Len(apis) + 1
    BY <1>6, MadeApi DEF Make, TypeOK
  <2>2. Len(apis) \in Nat /\ 0..Len(apis) \subseteq 0..Len(apis') /\ Len(apis) + 1 \in 0..Len(apis')
    BY <2>1 DEF TypeOK
  <2>3. /\ call' \in [Goroutines -> CallType']
        /\ \A h \in Goroutines : call'[h] = IF h = g THEN [call[g] EXCEPT !.made = Len(apis) + 1] ELSE call[h]
    <3>1. \A c \in CallType : c \in CallType' /\ [c EXCEPT !.made = Len(apis) + 1] \in CallType'
      BY <2>2 DEF CallType
    <3>2. call' = [call EXCEPT ![g] = [call[g] EXCEPT !.made = Len(apis) + 1]]
      BY <1>6, TypeFacts DEF Make
    <3> QED BY <3>1, <3>2, TypeFacts
  <2>4. pc' \in [Goroutines -> Places] /\ \A h \in Goroutines : pc'[h] = IF h = g THEN "register" ELSE pc[h]
    BY <1>6 DEF Make, Goto, TypeOK, Places
  <2>5. handle' \in [Goroutines -> HandleType'] /\ cfgCache' \in [Configs -> 0..Len(apis')]
    BY <1>6, <2>2 DEF Make, TypeOK, HandleType
  <2>6. \A h \in Goroutines : pc'[h] # "idle" =>
          /\ call'[h].from # 0 /\ call'[h].base # 0 /\ call'[h].op # "none"
          /\ call'[h].op = "set" => handle[h].base # 0
    <3>1. LET c == [call[g] EXCEPT !.made = Len(apis) + 1] IN
          c.from = call[g].from /\ c.base = call[g].base /\ c.op = call[g].op
      BY TypeFacts DEF CallType
    <3>2. pc[g] # "idle"
      BY <1>6 DEF Make
    <3> QED BY <2>3, <2>4, <3>1, <3>2, TypeFacts, ZenonT(60)
  <2>7. \A h \in Goroutines : pc'[h] \in {"register", "store", "return"} => call'[h].made # 0
    <3>1. [call[g] EXCEPT !.made = Len(apis) + 1].made # 0
      BY <2>2, TypeFacts DEF CallType
    <3> QED BY <2>3, <2>4, <3>1, TypeFacts
  <2>8. TypeOK'
    <3>1. handle' = handle /\ calls' = calls /\ calls \in 0..MaxCalls /\ Len(apis') >= Len(Bases)
      BY <1>6, <2>1, TypeFacts DEF Make, TypeOK
    <3>2. \A h \in Goroutines : (handle'[h].api = 0) <=> (handle'[h].base = 0)
      BY <3>1, TypeFacts
    <3> HIDE DEF TypeInv
    <3> QED BY <2>1, <2>3, <2>4, <2>5, <2>6, <2>7, <3>1, <3>2 DEF TypeOK, CallType, HandleType
  <2> QED BY <1>6, <2>6, <2>8 DEF Make, SetterHasHandle
<1>7. ASSUME NEW g \in Goroutines, Register(g) PROVE TypeInv'
  <2>1. CASE Registered(g) < Len(ToRegister(g)) /\ UNCHANGED pc
    <3>1. call[g].made \in 1..Len(apis) /\ \E e \in Extensions :
            apis' = [apis EXCEPT ![call[g].made] = WithExtension(@, e)]
      BY <1>7, <2>1, NextExtension DEF Register
    <3>2. apis' \in Seq(Apis) /\ Len(apis') = Len(apis)
      BY <3>1, ExtendedApi
    <3> QED BY <1>7, <2>1, <3>2 DEF Register, TypeOK, SetterHasHandle
  <2>2. CASE Goto(g, "store") /\ UNCHANGED apis
    BY <1>7, <2>2 DEF Register, Goto, TypeOK, Places, SetterHasHandle
  <2> QED BY <1>7, <2>1, <2>2 DEF Register
<1>8. ASSUME NEW g \in Goroutines, Store(g) PROVE TypeInv'
  BY <1>8 DEF Store, Goto, TypeOK, Places, SetterHasHandle
<1>9. ASSUME NEW g \in Goroutines, Install(g) PROVE TypeInv'
  <2>1. NoCall \in CallType
    BY NonEmpty DEF NoCall, CallType, TypeOK
  <2>2. call[g].made \in 1..Len(apis) /\ call[g].asks \in Configs /\ handle[g].base # 0
    BY <1>9 DEF Install, TypeOK, SetterHasHandle
  <2>3. call' \in [Goroutines -> CallType] /\ \A h \in Goroutines : call'[h] = IF h = g THEN NoCall ELSE call[h]
    BY <1>9, <2>1 DEF Install, TypeOK, CallType
  <2>4. pc' \in [Goroutines -> Places] /\ \A h \in Goroutines : pc'[h] = IF h = g THEN "idle" ELSE pc[h]
    BY <1>9 DEF Install, Goto, TypeOK, Places
  <2>5. /\ handle' \in [Goroutines -> HandleType]
        /\ \A h \in Goroutines : handle'[h].base = handle[h].base
        /\ \A h \in Goroutines : (handle'[h].api = 0) <=> (handle'[h].base = 0)
    BY <1>9, <2>2 DEF Install, TypeOK, HandleType
  <2>6. TypeOK'
    <3>1. UNCHANGED <<apis, cfgCache, calls>>
      BY <1>9 DEF Install
    <3>2. \A h \in Goroutines :
            /\ pc'[h] # "idle" => call'[h].from # 0 /\ call'[h].base # 0 /\ call'[h].op # "none"
            /\ pc'[h] \in {"register", "store", "return"} => call'[h].made # 0
      BY <2>3, <2>4, TypeFacts
    <3> QED BY <2>3, <2>4, <2>5, <3>1, <3>2 DEF TypeOK, CallType, HandleType
  <2> QED BY <2>3, <2>4, <2>5, <2>6 DEF SetterHasHandle
<1>10. ASSUME NEW g \in Goroutines, Marshal(g) PROVE TypeInv'
  <2>1. PICK t \in Types : Use(g, "MarshalIndent", call[g].made, call[g].base, call[g].asks, t)
    BY <1>10 DEF Marshal
  <2>2. call[g].made \in 1..Len(apis)
    BY <1>10 DEF Marshal, TypeOK
  <2>3. apis' \in Seq(Apis) /\ Len(apis') = Len(apis)
    BY <2>1, <2>2, UsedApi
  <2>4. NoCall \in CallType
    BY NonEmpty DEF NoCall, CallType, TypeOK
  <2>5. call' \in [Goroutines -> CallType] /\ \A h \in Goroutines : call'[h] = IF h = g THEN NoCall ELSE call[h]
    BY <1>10, <2>4 DEF Marshal, TypeOK, CallType
  <2>6. pc' \in [Goroutines -> Places] /\ \A h \in Goroutines : pc'[h] = IF h = g THEN "idle" ELSE pc[h]
    BY <1>10 DEF Marshal, Goto, TypeOK, Places
  <2>7. TypeOK'
    BY <1>10, <2>3, <2>5, <2>6, ZenonT(60) DEF Marshal, TypeOK, CallType
  <2> QED BY <1>10, <2>5, <2>6, <2>7 DEF Marshal, SetterHasHandle
<1>11. ASSUME NEW g \in Goroutines, EncodeOrDecode(g) PROVE TypeInv'
  <2>1. PICK t \in Types : Use(g, "handle", handle[g].api, handle[g].base, handle[g].asked, t)
    BY <1>11 DEF EncodeOrDecode
  <2>2. handle[g].api \in 1..Len(apis)
    BY <1>11 DEF EncodeOrDecode, TypeOK
  <2>3. apis' \in Seq(Apis) /\ Len(apis') = Len(apis)
    BY <2>1, <2>2, UsedApi
  <2>4. calls' \in 0..MaxCalls
    BY <1>11, BoundsAssumption DEF EncodeOrDecode, Begin, TypeOK
  <2> QED BY <1>11, <2>3, <2>4 DEF EncodeOrDecode, TypeOK, SetterHasHandle
<1>12. ASSUME NEW b \in 1..Len(Bases), RegisterExtension(b) PROVE TypeInv'
  <2>1. b \in 1..Len(apis)
    BY DEF TypeOK
  <2>2. apis' \in Seq(Apis) /\ Len(apis') = Len(apis)
    BY <1>12, <2>1, NextBaseExtension, ExtendedApi
  <2> QED BY <1>12, <2>2 DEF RegisterExtension, TypeOK, SetterHasHandle
<1> QED BY <1>1, <1>2, <1>3, <1>4, <1>5, <1>6, <1>7, <1>8, <1>9, <1>10, <1>11, <1>12 DEF Next, Run, Call

\* Whatever the configurations, the extensions and the calls, an API that is
\* referred to exists (frozeWithCacheReuse, Encoder and Decoder).
THEOREM TypeCorrect == Spec => []TypeOK
<1>1. Init => TypeInv
  BY TypeInit
<1>2. TypeInv /\ [Next]_vars => TypeInv'
  BY TypeNext
<1>3. TypeInv => TypeOK
  BY DEF TypeInv
<1> QED BY <1>1, <1>2, <1>3, PTL DEF Spec

----------------------------------------------------------------------------
(* Second layer.                                                           *)
LEMMA SharedInit == Init => SharedInv
<1> SUFFICES ASSUME Init PROVE SharedInv
  OBVIOUS
<1>1. TypeInv
  BY TypeInit
<1>2. \A i \in 1..Len(apis), t \in Types : ~apis[i].codecs[t].built
  <2>1. Len(apis) = Len(Bases) /\ \A i \in 1..Len(apis) : apis[i] = Froze(Bases[i])
    BY NonEmpty DEF Init
  <2>2. ASSUME NEW cfg, NEW t \in Types PROVE ~Froze(cfg).codecs[t].built
    BY DEF Froze, NotBuilt
  <2> QED BY <2>1, <2>2
<1>3. \A g \in Goroutines : pc[g] = "idle" /\ handle[g].api = 0
  BY DEF Init, NoHandle
<1> QED BY <1>1, <1>2, <1>3 DEF Init, SharedInv, PrivateInv, NotUsedYet

(* Only extensions are registered before the first call.                   *)
LEMMA NotFirst ==
  ASSUME SharedInv, NEW g \in Goroutines, Run(g) \/ Call(g)
  PROVE  calls' # 0
<1>1. calls \in Nat
  BY BoundsAssumption DEF SharedInv, TypeInv, TypeOK
<1>2. CASE Call(g)
  BY <1>1, <1>2 DEF Call, New, SetOnEncoder, SetOnDecoder, MarshalIndent, EncodeOrDecode, Begin
<1>3. CASE Run(g)
  <2>1. pc[g] # "idle" /\ calls' = calls
    BY <1>3 DEF Run, Load, Make, Register, Store, Install, Marshal
  <2> QED BY <2>1 DEF SharedInv, PrivateInv, NotUsedYet
<1> QED BY <1>2, <1>3

LEMMA ReusePrivate ==
  ASSUME SharedInv, NEW g \in Goroutines, NEW op, NEW b \in 1..Len(Bases), NEW from, NEW cfg,
         NEW asks, from = handle[g].api \/ from = b, Reuse(g, op, b, from, cfg, asks),
         NEW h \in Goroutines, pc'[h] = "register"
  PROVE  Private(h)'
<1>1. /\ h # g /\ pc[h] = "register" /\ UNCHANGED <<apis, cfgCache, handle>>
      /\ \A k \in Goroutines : k # g => pc'[k] = pc[k] /\ call'[k] = call[k]
      /\ call'[g].from = from /\ call'[g].made = 0
  BY DEF Reuse, Goto, SharedInv, TypeInv, TypeOK
<1>2. Private(h)
  BY <1>1 DEF SharedInv, PrivateInv
<1>3. call[h].made # 0 /\ call[h].made > Len(Bases) /\ from # call[h].made
  BY <1>2, NonEmpty DEF Private
<1> QED BY <1>1, <1>2, <1>3 DEF Private

LEMMA PrivateNext ==
  ASSUME Registers = "start", SharedInv, [Next]_vars
  PROVE  SharedInv'
<1>1. TypeInv /\ PrivateInv /\ TypeInv'
  BY TypeNext DEF SharedInv
<1>2. CASE UNCHANGED vars
  BY <1>1, <1>2 DEF vars, SharedInv, PrivateInv, NotUsedYet, Private
<1>3. ASSUME NEW b \in 1..Len(Bases), RegisterExtension(b) PROVE SharedInv'
  <2>1. b \in 1..Len(apis) /\ calls = 0 /\ NotUsedYet
    BY <1>1, <1>3, TypeFacts DEF RegisterExtension, PrivateInv
  <2>2. PICK e \in Extensions : apis' = [apis EXCEPT ![b] = WithExtension(@, e)]
    BY <1>1, <1>3, NextBaseExtension DEF TypeInv
  <2>3. /\ Len(apis') = Len(apis) /\ apis'[b] = WithExtension(apis[b], e)
        /\ \A i \in 1..Len(apis) : i # b => apis'[i] = apis[i]
    BY <1>1, <2>1, <2>2, ExtendedApi DEF TypeInv
  <2>4. \A i \in 1..Len(apis) : apis'[i].codecs = apis[i].codecs
    BY <1>1, <2>1, <2>3, WithExtensionType, TypeFacts
  <2>5. NotUsedYet'
    BY <1>3, <2>1, <2>3, <2>4 DEF NotUsedYet, RegisterExtension
  <2>6. \A g \in Goroutines : pc'[g] # "register"
    BY <2>5 DEF NotUsedYet
  <2> QED BY <1>1, <2>5, <2>6 DEF SharedInv, PrivateInv
<1>4. ASSUME NEW g \in Goroutines, Run(g) \/ Call(g) PROVE SharedInv'
  <2>1. calls' # 0
    BY <1>4, NotFirst
  <2> SUFFICES ASSUME NEW h \in Goroutines, pc'[h] = "register" PROVE Private(h)'
    BY <1>1, <2>1 DEF SharedInv, PrivateInv
  <2>2. pc[h] = "register" => Private(h) /\ call[h].made \in 1..Len(apis)
    BY <1>1, TypeFacts DEF PrivateInv, CallType
  <2> DEFINE i == call[h].made
  <2>3. CASE New(g)
    <3>1. /\ UNCHANGED <<apis, cfgCache, pc, call>>
          /\ \A k \in Goroutines : handle'[k].api = handle[k].api \/ handle'[k].api \in 1..Len(Bases)
      BY <1>1, <2>3, TypeFacts DEF New
    <3> QED BY <2>2, <3>1, NonEmpty DEF Private
  <2>4. CASE SetOnEncoder(g) \/ SetOnDecoder(g)
    BY <1>1, <2>4, Setters, ReusePrivate
  <2>5. CASE MarshalIndent(g)
    BY <1>1, <2>5, Indenters, ReusePrivate
  <2>6. CASE Load(g)
    <3>1. /\ h # g /\ UNCHANGED <<apis, cfgCache, handle>> /\ pc'[h] = pc[h] /\ call'[h] = call[h]
          /\ \A k \in Goroutines : k # g => pc'[k] = pc[k] /\ call'[k] = call[k]
      BY <1>1, <2>6 DEF Load, Found, Goto, TypeInv, TypeOK
    <3>2. /\ call'[g].from = call[g].from /\ call'[g].made \in {call[g].made, cfgCache[call[g].cfg]}
          /\ call[g].cfg \in Configs /\ pc[g] # "idle"
      BY <1>1, <2>6, TypeFacts DEF Load, Found, CallType
    <3> QED BY <2>2, <3>1, <3>2 DEF Private
  <2>7. CASE Make(g)
    <3>1. /\ Len(apis') = Len(apis) + 1 /\ \A k \in 1..Len(apis) : apis'[k] = apis[k]
          /\ apis'[Len(apis) + 1] = Froze(call[g].cfg)
      BY <1>1, <2>7, MadeApi DEF Make, TypeInv, TypeOK
    <3>2. /\ UNCHANGED <<cfgCache, handle>> /\ pc[g] = "froze"
          /\ \A k \in Goroutines : k # g => pc'[k] = pc[k] /\ call'[k] = call[k]
      BY <1>1, <2>7 DEF Make, Goto, TypeInv, TypeOK
    <3>3. call'[g].from = call[g].from /\ call'[g].made = Len(apis) + 1
      BY <1>1, <2>7, TypeFacts DEF Make, CallType
    <3>4. CASE h = g
      <4>1. \A t \in Types : ~apis'[Len(apis) + 1].codecs[t].built
        BY <3>1 DEF Froze, NotBuilt
      <4>2. \A c \in Configs : cfgCache[c] \in 0..Len(apis)
        BY <1>1 DEF TypeInv, TypeOK
      <4>3. \A k \in Goroutines : /\ handle[k].api \in 0..Len(apis)
                                  /\ call[k].from \in 0..Len(apis) /\ call[k].made \in 0..Len(apis)
        BY <1>1, TypeFacts DEF CallType
      <4>4. Len(apis) \in Nat /\ Len(apis) + 1 > Len(Bases)
        BY <1>1, TypeFacts
      <4> QED BY <3>2, <3>3, <3>4, <4>1, <4>2, <4>3, <4>4 DEF Private
    <3>5. CASE h # g
      <4>1. pc[h] = "register" /\ i # Len(apis) + 1 /\ apis'[i] = apis[i] /\ call'[h] = call[h]
        BY <1>1, <2>2, <3>1, <3>2, <3>5, TypeFacts
      <4> QED BY <2>2, <3>2, <3>3, <3>5, <4>1 DEF Private
    <3> QED BY <3>4, <3>5
  <2>8. CASE Register(g)
    <3>1. UNCHANGED <<cfgCache, call, handle>> /\ pc[g] = "register"
      BY <2>8 DEF Register
    <3>2. CASE Registered(g) < Len(ToRegister(g)) /\ UNCHANGED pc
      <4>1. call[g].made \in 1..Len(apis)
        BY <1>1, <3>1, <3>2, NextExtension DEF TypeInv
      <4>2. PICK e \in Extensions : apis' = [apis EXCEPT ![call[g].made] = WithExtension(@, e)]
        BY <1>1, <2>8, <3>1, <3>2, NextExtension DEF Register, TypeInv
      <4>3. \A k \in 1..Len(apis) : apis'[k].codecs = apis[k].codecs
        BY <1>1, <4>1, <4>2, ExtendedApi, WithExtensionType, TypeFacts DEF TypeInv
      <4> QED BY <2>2, <3>1, <3>2, <4>3 DEF Private
    <3>3. CASE Goto(g, "store") /\ UNCHANGED apis
      <4>1. h # g /\ \A k \in Goroutines : k # g => pc'[k] = pc[k]
        BY <1>1, <3>3 DEF Goto, TypeInv, TypeOK
      <4> QED BY <2>2, <3>1, <3>3, <4>1 DEF Private
    <3> QED BY <2>8, <3>2, <3>3 DEF Register
  <2>9. CASE Store(g)
    <3>1. /\ h # g /\ \A k \in Goroutines : k # g => pc'[k] = pc[k]
          /\ UNCHANGED <<apis, call, handle>> /\ pc[g] # "idle"
      BY <1>1, <2>9 DEF Store, Goto, TypeInv, TypeOK
    <3>2. \A c \in Configs : cfgCache'[c] \in {cfgCache[c], call[g].made}
      BY <1>1, <2>9 DEF Store, TypeInv, TypeOK
    <3> QED BY <2>2, <3>1, <3>2 DEF Private
  <2>10. CASE Install(g)
    <3>1. /\ h # g /\ \A k \in Goroutines : k # g => pc'[k] = pc[k] /\ call'[k] = call[k]
          /\ UNCHANGED <<apis, cfgCache>> /\ pc[g] # "idle" /\ pc'[g] = "idle"
      BY <1>1, <2>10 DEF Install, Goto, TypeInv, TypeOK
    <3>2. \A k \in Goroutines : handle'[k].api \in {handle[k].api} \cup {call[g].made}
      BY <1>1, <2>10, TypeFacts DEF Install, HandleType
    <3> QED BY <2>2, <3>1, <3>2 DEF Private
  <2>11. CASE Marshal(g)
    <3>1. /\ h # g /\ \A k \in Goroutines : k # g => pc'[k] = pc[k] /\ call'[k] = call[k]
          /\ UNCHANGED <<cfgCache, handle>> /\ pc[g] = "return" /\ pc'[g] = "idle"
      BY <1>1, <2>11 DEF Marshal, Goto, TypeInv, TypeOK
    <3>2. PICK t \in Types : Use(g, "MarshalIndent", call[g].made, call[g].base, call[g].asks, t)
      BY <2>11 DEF Marshal
    <3>3. call[g].made \in 1..Len(apis)
      BY <1>1, <3>1, TypeFacts DEF CallType
    <3>4. call[g].made # i /\ apis'[i] = apis[i]
      BY <1>1, <2>2, <3>1, <3>2, <3>3, UsedApi DEF Private, TypeInv
    <3> QED BY <2>2, <3>1, <3>4 DEF Private
  <2>12. CASE EncodeOrDecode(g)
    <3>1. UNCHANGED <<cfgCache, pc, call, handle>>
      BY <2>12 DEF EncodeOrDecode
    <3>2. PICK t \in Types : Use(g, "handle", handle[g].api, handle[g].base, handle[g].asked, t)
      BY <2>12 DEF EncodeOrDecode
    <3>3. handle[g].api \in 1..Len(apis)
      BY <1>1, <2>12, TypeFacts DEF EncodeOrDecode
    <3>4. apis'[i] = apis[i]
      BY <1>1, <2>2, <3>1, <3>2, <3>3, UsedApi DEF Private, TypeInv
    <3> QED BY <2>2, <3>1, <3>4 DEF Private
  <2> QED BY <1>4, <2>3, <2>4, <2>5, <2>6, <2>7, <2>8, <2>9, <2>10, <2>11, <2>12 DEF Run, Call
<1> QED BY <1>2, <1>3, <1>4 DEF Next

\* Once the program has started, no step changes the settings or extensions of
\* an API that the program has frozen or that is in cfgCache, so a caller
\* never sees one that is still being made (frozeWithCacheReuse stores an API
\* only after it has registered its extensions).
THEOREM SharedApisNeverChange ==
  ASSUME Registers = "start"
  PROVE  Spec => SharedApisKeep
<1>1. Init => SharedInv
  BY SharedInit
<1>2. SharedInv /\ [Next]_vars => SharedInv'
  BY PrivateNext
<1> DEFINE Keep == calls > 0 => \A i \in Shared \ {0} : Settings(apis'[i]) = Settings(apis[i])
<1>3. SharedInv /\ [Next]_vars => [Keep]_vars
  <2> SUFFICES ASSUME SharedInv, Next, calls > 0, NEW i \in Shared \ {0}
               PROVE  Settings(apis'[i]) = Settings(apis[i])
    OBVIOUS
  <2>1. TypeInv /\ PrivateInv
    BY DEF SharedInv
  <2>2. i \in 1..Len(apis)
    BY <2>1, TypeFacts DEF Shared, TypeInv, TypeOK
  <2>3. ~\E b \in 1..Len(Bases) : RegisterExtension(b)
    <3>1. calls # 0
      BY <2>1, BoundsAssumption DEF TypeInv, TypeOK
    <3> QED BY <3>1 DEF RegisterExtension
  <2>4. PICK g \in Goroutines : Run(g) \/ Call(g)
    BY <2>3 DEF Next
  <2>5. CASE UNCHANGED apis
    BY <2>5 DEF Settings
  <2>6. CASE Make(g)
    <3>1. apis'[i] = apis[i]
      BY <2>1, <2>2, <2>6, MadeApi DEF Make, TypeInv, TypeOK
    <3> QED BY <3>1 DEF Settings
  <2>7. CASE Register(g)
    <3>1. i # call[g].made
      <4>1. pc[g] = "register"
        BY <2>7 DEF Register
      <4>2. Private(g)
        BY <2>1, <4>1 DEF PrivateInv
      <4> QED BY <4>2, NonEmpty DEF Private, Shared
    <3>2. CASE Registered(g) < Len(ToRegister(g)) /\ UNCHANGED pc
      <4>1. pc[g] = "register"
        BY <2>7 DEF Register
      <4>2. call[g].made \in 1..Len(apis)
        BY <2>1, <4>1, <3>2, NextExtension DEF TypeInv
      <4>3. PICK e \in Extensions : apis' = [apis EXCEPT ![call[g].made] = WithExtension(@, e)]
        BY <2>1, <2>7, <4>1, <3>2, NextExtension DEF Register, TypeInv
      <4>4. apis'[i] = apis[i]
        BY <2>1, <2>2, <3>1, <4>2, <4>3, ExtendedApi DEF TypeInv
      <4> QED BY <4>4 DEF Settings
    <3> QED BY <2>5, <2>7, <3>2 DEF Register
  <2>8. CASE Marshal(g)
    <3>1. PICK t \in Types : Use(g, "MarshalIndent", call[g].made, call[g].base, call[g].asks, t)
      BY <2>8 DEF Marshal
    <3>2. call[g].made \in 1..Len(apis)
      BY <2>1, <2>8, TypeFacts DEF Marshal, CallType
    <3> QED BY <2>1, <2>2, <3>1, <3>2, UsedApi DEF TypeInv
  <2>9. CASE EncodeOrDecode(g)
    <3>1. PICK t \in Types : Use(g, "handle", handle[g].api, handle[g].base, handle[g].asked, t)
      BY <2>9 DEF EncodeOrDecode
    <3>2. handle[g].api \in 1..Len(apis)
      BY <2>1, <2>9, TypeFacts DEF EncodeOrDecode
    <3> QED BY <2>1, <2>2, <3>1, <3>2, UsedApi DEF TypeInv
  <2>10. UNCHANGED apis \/ Make(g) \/ Register(g) \/ Marshal(g) \/ EncodeOrDecode(g)
    BY <2>4 DEF Run, Call, Load, Store, Install, New, SetOnEncoder, SetOnDecoder, MarshalIndent, Reuse
  <2> QED BY <2>5, <2>6, <2>7, <2>8, <2>9, <2>10
<1> QED BY <1>1, <1>2, <1>3, PTL DEF Spec, SharedApisKeep

----------------------------------------------------------------------------
(* Third layer.                                                            *)
Distinct == \A a, b \in 1..Len(Bases) : Bases[a].others = Bases[b].others => a = b

LEMMA FrozeFollows ==
  ASSUME NEW cfg \in Configs
  PROVE  /\ FollowsConfig(Froze(cfg))
         /\ Froze(cfg).configBeforeFrozen = cfg /\ Froze(cfg).extraExtensions = <<>>
  BY DEF Froze, FollowsConfig, NotBuilt

LEMMA WithCodecFollows ==
  ASSUME NEW api \in Apis, NEW t \in Types, FollowsConfig(api)
  PROVE  /\ FollowsConfig(WithCodec(api, t))
         /\ WithCodec(api, t).codecs[t] = CodecFrom(api)
<1> DEFINE new == WithCodec(api, t)
<1>1. Settings(new) = Settings(api) /\ new \in Apis
  BY WithCodecType
<1>2. CodecFrom(new) = CodecFrom(api)
  BY <1>1 DEF Settings, CodecFrom
<1>3. new.codecs[t] = CodecFrom(api)
  BY WithCodecType DEF FollowsConfig
<1>4. \A u \in Types : new.codecs[u].built => new.codecs[u] = CodecFrom(new)
  BY <1>2, <1>3, WithCodecType, SMTT(30) DEF FollowsConfig
<1> QED BY <1>1, <1>3, <1>4 DEF FollowsConfig, Settings

(* What a caller gets of an API that fits what it asked for.               *)
LEMMA FittingApi ==
  ASSUME TypeInv, ApisFollow, NEW i \in 1..Len(apis), NEW b \in 1..Len(Bases), NEW cfg \in Configs,
         Fits(i, cfg, b), NEW t \in Types
  PROVE  Effect(WithCodec(apis[i], t), t) = Asked(b, cfg)
<1> DEFINE new == WithCodec(apis[i], t)
<1>1. apis[i] \in Apis /\ FollowsConfig(apis[i]) /\ apis[i].configBeforeFrozen \in Configs
  BY TypeFacts DEF ApisFollow
<1>2. Settings(new) = Settings(apis[i]) /\ new.codecs[t] = CodecFrom(apis[i])
  BY <1>1, WithCodecType, WithCodecFollows
<1>3. /\ new.indentionStep = cfg.IndentionStep
      /\ new.configBeforeFrozen.UseNumber = cfg.UseNumber /\ new.decoderExtension = cfg.UseNumber
      /\ CodecFrom(apis[i]).html = cfg.EscapeHTML
      /\ CodecFrom(apis[i]).strict = cfg.DisallowUnknownFields
      /\ CodecFrom(apis[i]).extra = apis[b].extraExtensions
  BY <1>1, <1>2 DEF Settings, FollowsConfig, Fits, CodecFrom
<1>4. (cfg.UseNumber /\ cfg.UseNumber) = cfg.UseNumber
  BY DEF Configs
<1> QED BY <1>2, <1>3, <1>4 DEF Effect, Asked

(* Steps that leave the APIs there are as they are, but for their codecs.  *)
SettingsKept ==
  /\ Len(apis') >= Len(apis)
  /\ \A i \in 1..Len(apis) : Settings(apis'[i]) = Settings(apis[i])

LEMMA FitsKept ==
  ASSUME TypeInv, SettingsKept, NEW i \in 1..Len(apis), NEW b \in 1..Len(Bases), NEW cfg,
         Fits(i, cfg, b)
  PROVE  Fits(i, cfg, b)'
<1>1. b \in 1..Len(apis)
  BY TypeFacts
<1> QED BY <1>1 DEF SettingsKept, Fits, Settings

LEMMA BasesKeep ==
  ASSUME TypeInv, SettingsKept, BasesKept
  PROVE  BasesKept'
  BY TypeFacts DEF SettingsKept, BasesKept, Settings

LEMMA CacheKeeps ==
  ASSUME TypeInv, SettingsKept, CacheFits, UNCHANGED cfgCache
  PROVE  CacheFits'
<1>1. \A c \in Configs : cfgCache[c] \in 0..Len(apis)
  BY DEF TypeInv, TypeOK
<1>2. ASSUME NEW c \in Configs, NEW b \in 1..Len(Bases), cfgCache[c] # 0, c.others = Bases[b].others
      PROVE  Fits(cfgCache[c], c, b)'
  <2>1. Fits(cfgCache[c], c, b) /\ cfgCache[c] \in 1..Len(apis)
    BY <1>1, <1>2 DEF CacheFits
  <2> QED BY <2>1, FitsKept DEF Fits
<1> QED BY <1>2 DEF CacheFits

LEMMA HandlesKeep ==
  ASSUME TypeInv, SettingsKept, HandlesFit, NEW h \in Goroutines, handle'[h] = handle[h],
         handle[h].api # 0
  PROVE  Fits(handle[h].api, handle[h].asked, handle[h].base)' /\ handle'[h].api # 0
<1>1. /\ handle[h].api \in 1..Len(apis) /\ handle[h].base \in 1..Len(Bases)
      /\ Fits(handle[h].api, handle[h].asked, handle[h].base)
  BY TypeFacts DEF HandlesFit
<1>2. /\ apis'[handle[h].api].configBeforeFrozen = handle[h].asked
      /\ apis'[handle[h].api].extraExtensions = apis'[handle[h].base].extraExtensions
      /\ handle[h].asked.others = Bases[handle[h].base].others
  BY <1>1, FitsKept DEF Fits
<1> QED BY <1>2 DEF Fits

LEMMA CallKeeps ==
  ASSUME TypeInv, SettingsKept, NEW h \in Goroutines, pc[h] # "idle", CallFits(h),
         pc'[h] = pc[h], call'[h] = call[h], handle'[h].base = handle[h].base
  PROVE  CallFits(h)'
<1> DEFINE c == call[h]
<1>1. /\ c.from \in 1..Len(apis) /\ c.base \in 1..Len(Bases) /\ c.base \in 1..Len(apis)
      /\ pc[h] \in {"register", "store", "return"} => c.made \in 1..Len(apis)
  BY TypeFacts DEF CallType
<1>2. /\ apis'[c.from].extraExtensions = apis[c.from].extraExtensions
      /\ apis'[c.base].extraExtensions = apis[c.base].extraExtensions
      /\ pc[h] \in {"register", "store", "return"} =>
           /\ apis'[c.made].configBeforeFrozen = apis[c.made].configBeforeFrozen
           /\ apis'[c.made].extraExtensions = apis[c.made].extraExtensions
  BY <1>1 DEF SettingsKept, Settings
<1> QED BY <1>1, <1>2 DEF CallFits, Fits

LEMMA ValuesInit == Init => Inv
<1> SUFFICES ASSUME Init PROVE Inv
  OBVIOUS
<1>1. SharedInv /\ TypeInv
  BY SharedInit DEF SharedInv
<1>2. Len(apis) = Len(Bases) /\ \A b \in 1..Len(Bases) : apis[b] = Froze(Bases[b]) /\ Bases[b] \in Configs
  BY BasesAssumption, NonEmpty DEF Init
<1>3. ApisFollow /\ BasesKept
  BY <1>2, FrozeFollows DEF ApisFollow, BasesKept
<1>4. CacheFits /\ CallsFit /\ HandlesFit
  BY DEF Init, CacheFits, CallsFit, HandlesFit, NoHandle
<1>5. AsAsked /\ written = [g \in Goroutines |-> written[g]]
  BY DEF Init, AsAsked, Nothing
<1> QED BY <1>1, <1>3, <1>4, <1>5 DEF Inv, ValuesInv

(* A call that begins, from the API of the handle or of a base.            *)
LEMMA ReuseFits ==
  ASSUME Inv, NEW g \in Goroutines, NEW op \in {"set", "marshal"}, NEW b \in 1..Len(Bases),
         NEW from \in 1..Len(apis), NEW cfg \in Configs, NEW asks \in Configs,
         Reuse(g, op, b, from, cfg, asks), Begin(g),
         op = "set" => handle[g].base = b,
         cfg = asks, cfg.others = Bases[b].others,
         apis[from].extraExtensions = apis[b].extraExtensions
  PROVE  ValuesInv'
<1>1. UNCHANGED <<apis, cfgCache, handle, written>> /\ SharedInv /\ TypeInv /\ ValuesInv
  BY DEF Reuse, Begin, Inv, SharedInv, SetOnEncoder
<1>2. /\ \A h \in Goroutines : h # g => call'[h] = call[h] /\ pc'[h] = pc[h]
      /\ call'[g] = [op |-> op, cfg |-> cfg, asks |-> asks, from |-> from, made |-> 0, base |-> b]
      /\ pc'[g] = "load"
  BY <1>1 DEF Reuse, Goto, TypeInv, TypeOK
<1>3. SettingsKept
  BY <1>1, TypeFacts DEF SettingsKept, Settings
<1>4. CallFits(g)'
  BY <1>1, <1>2 DEF CallFits
<1>5. \A h \in Goroutines : pc'[h] # "idle" => CallFits(h)'
  BY <1>1, <1>2, <1>3, <1>4, CallKeeps DEF ValuesInv, CallsFit
<1>6. AsAsked' /\ ApisFollow' /\ BasesKept' /\ CacheFits' /\ HandlesFit'
  BY <1>1 DEF ValuesInv, AsAsked, ApisFollow, BasesKept, CacheFits, HandlesFit, Fits
<1> QED BY <1>1, <1>5, <1>6 DEF ValuesInv, CallsFit

LEMMA UseFits ==
  ASSUME Inv, NEW g \in Goroutines, NEW by, NEW i \in 1..Len(apis), NEW b \in 1..Len(Bases),
         NEW cfg \in Configs, NEW t \in Types, Fits(i, cfg, b), Use(g, by, i, b, cfg, t)
  PROVE  /\ SettingsKept /\ ApisFollow' /\ AsAsked'
         /\ written' = [h \in Goroutines |-> written'[h]]
<1>1. TypeInv /\ TypeOK /\ ApisFollow /\ AsAsked /\ written = [h \in Goroutines |-> written[h]]
  BY DEF Inv, SharedInv, TypeInv, ValuesInv
<1>2. /\ Len(apis') = Len(apis)
      /\ \A j \in 1..Len(apis) : j # i => apis'[j] = apis[j]
      /\ apis'[i] = WithCodec(apis[i], t)
      /\ \A j \in 1..Len(apis) : Settings(apis'[j]) = Settings(apis[j])
  BY <1>1, UsedApi
<1>3. SettingsKept
  BY <1>1, <1>2, TypeFacts DEF SettingsKept
<1>4. ApisFollow'
  BY <1>1, <1>2, TypeFacts, WithCodecFollows DEF ApisFollow
<1>5. Effect(WithCodec(apis[i], t), t) = Asked(b, cfg)
  BY <1>1, FittingApi
<1>6. written' = [written EXCEPT ![g] = [by |-> by, is |-> Asked(b, cfg), should |-> Asked(b, cfg)]]
  BY <1>5 DEF Use
<1>7. AsAsked' /\ written' = [h \in Goroutines |-> written'[h]]
  <2>1. \A h \in Goroutines :
          written'[h] = IF h = g THEN [by |-> by, is |-> Asked(b, cfg), should |-> Asked(b, cfg)]
                        ELSE written[h]
    BY <1>1, <1>6
  <2>2. written'[g].is = written'[g].should
    BY <2>1
  <2>3. AsAsked'
    BY <1>1, <2>1, <2>2 DEF AsAsked
  <2>4. written' = [h \in Goroutines |-> written'[h]]
    BY <1>1, <1>6
  <2> QED BY <2>3, <2>4
<1> QED BY <1>3, <1>4, <1>7

LEMMA RegisterFits ==
  ASSUME Inv, NEW g \in Goroutines, Register(g), Registered(g) < Len(ToRegister(g)), UNCHANGED pc
  PROVE  ValuesInv'
<1> DEFINE m == call[g].made
           e == ToRegister(g)[Registered(g) + 1]
<1>1. /\ SharedInv /\ TypeInv /\ TypeOK /\ PrivateInv /\ ValuesInv /\ pc[g] = "register"
      /\ UNCHANGED <<cfgCache, call, handle, written>>
  BY DEF Inv, SharedInv, TypeInv, Register
<1>2. m \in 1..Len(apis) /\ e \in Extensions /\ Private(g)
  BY <1>1, NextExtension DEF PrivateInv
<1>3. apis' = [apis EXCEPT ![m] = WithExtension(@, e)]
  BY DEF Register
<1> HIDE DEF e
<1>4. /\ Len(apis') = Len(apis) /\ apis'[m] = WithExtension(apis[m], e)
      /\ \A i \in 1..Len(apis) : i # m => apis'[i] = apis[i]
  BY <1>1, <1>2, <1>3, ExtendedApi
<1>5. \A b \in 1..Len(Bases) : b \in 1..Len(apis) /\ b # m /\ apis'[b] = apis[b]
  BY <1>1, <1>2, <1>4, TypeFacts DEF Private
<1>6. ApisFollow'
  <2>1. /\ FollowsConfig(apis[m]) /\ apis[m] \in Apis
        /\ \A t \in Types : ~apis[m].codecs[t].built
    BY <1>1, <1>2, TypeFacts DEF ValuesInv, ApisFollow, Private
  <2>2. FollowsConfig(WithExtension(apis[m], e))
    BY <1>2, <2>1, WithExtensionType DEF FollowsConfig
  <2> QED BY <1>1, <1>4, <2>2 DEF ValuesInv, ApisFollow
<1>7. BasesKept'
  BY <1>1, <1>5 DEF ValuesInv, BasesKept
<1>8. CacheFits'
  <2> SUFFICES ASSUME NEW c \in Configs, NEW b \in 1..Len(Bases), cfgCache[c] # 0,
                      c.others = Bases[b].others
               PROVE  Fits(cfgCache[c], c, b)'
    BY <1>1 DEF CacheFits
  <2>1. cfgCache[c] \in 1..Len(apis) /\ cfgCache[c] # m /\ Fits(cfgCache[c], c, b)
    BY <1>1, <1>2 DEF ValuesInv, CacheFits, Private, TypeOK
  <2> QED BY <1>1, <1>4, <1>5, <2>1 DEF Fits
<1>9. HandlesFit'
  <2> SUFFICES ASSUME NEW h \in Goroutines, handle[h].api # 0
               PROVE  Fits(handle[h].api, handle[h].asked, handle[h].base)'
    BY <1>1 DEF HandlesFit
  <2>1. /\ handle[h].api \in 1..Len(apis) /\ handle[h].api # m /\ handle[h].base \in 1..Len(Bases)
        /\ Fits(handle[h].api, handle[h].asked, handle[h].base)
    BY <1>1, <1>2, TypeFacts DEF ValuesInv, HandlesFit, Private
  <2> QED BY <1>1, <1>4, <1>5, <2>1 DEF Fits
<1>10. CallsFit'
  <2> SUFFICES ASSUME NEW h \in Goroutines, pc[h] # "idle" PROVE CallFits(h)'
    BY <1>1 DEF CallsFit
  <2>1. /\ CallFits(h) /\ call[h].from \in 1..Len(apis) /\ call[h].base \in 1..Len(Bases)
        /\ call[h].from # m
        /\ pc[h] \in {"register", "store", "return"} => call[h].made \in 1..Len(apis)
    BY <1>1, <1>2, TypeFacts DEF ValuesInv, CallsFit, Private, CallType
  <2>2. /\ apis'[call[h].from] = apis[call[h].from]
        /\ apis'[call[h].base] = apis[call[h].base]
    BY <1>4, <1>5, <2>1
  <2>3. CASE h # g
    <3>1. call[h].made # m
      BY <1>2, <2>3 DEF Private
    <3>2. pc[h] \in {"register", "store", "return"} => apis'[call[h].made] = apis[call[h].made]
      BY <1>4, <2>1, <3>1
    <3> QED BY <1>1, <2>1, <2>2, <3>2 DEF CallFits, Fits
  <2>4. CASE h = g
    <3> DEFINE some == apis[m].extraExtensions
               all == apis[call[g].from].extraExtensions
    <3>1. /\ some \in Seq(Extensions) /\ all \in Seq(Extensions) /\ apis[m] \in Apis
          /\ e = all[Len(some) + 1] /\ Len(some) < Len(all)
      <4>1. apis[m] \in Apis /\ apis[call[g].from] \in Apis
        BY <1>1, <1>2, <2>1, <2>4, TypeFacts
      <4> QED BY <4>1 DEF Apis, e, Registered, ToRegister
    <3>2. apis'[m].extraExtensions = Append(some, e) /\ apis'[m].configBeforeFrozen = apis[m].configBeforeFrozen
      <4>1. /\ WithExtension(apis[m], e).extraExtensions = Append(apis[m].extraExtensions, e)
            /\ WithExtension(apis[m], e).configBeforeFrozen = apis[m].configBeforeFrozen
        BY <1>2, <3>1, WithExtensionType
      <4> QED BY <1>4, <4>1
    <3>3. HasFirst(some, all) /\ apis[m].configBeforeFrozen = call[g].cfg
      BY <1>1, <2>1, <2>4 DEF CallFits
    <3> HIDE DEF some, all
    <3>4. HasFirst(Append(some, e), all)
      BY <1>2, <3>1, <3>3 DEF HasFirst
    <3>5. HasFirst(apis'[m].extraExtensions, apis'[call[g].from].extraExtensions)
      BY <2>2, <2>4, <3>2, <3>4 DEF all
    <3> QED BY <1>1, <2>1, <2>2, <2>4, <3>2, <3>3, <3>5 DEF CallFits
  <2> QED BY <2>3, <2>4
<1>11. AsAsked'
  BY <1>1 DEF ValuesInv, AsAsked
<1> QED BY <1>1, <1>6, <1>7, <1>8, <1>9, <1>10, <1>11 DEF ValuesInv

LEMMA ValuesNext ==
  ASSUME Registers = "start", Distinct, Inv, [Next]_vars
  PROVE  Inv'
<1>1. SharedInv' /\ SharedInv /\ TypeInv /\ TypeOK /\ PrivateInv /\ ValuesInv
  BY PrivateNext DEF Inv, SharedInv, TypeInv
<1> SUFFICES ValuesInv'
  BY <1>1 DEF Inv
<1>2. CASE UNCHANGED vars
  <2>1. UNCHANGED <<apis, cfgCache, pc, call, handle, written>>
    BY <1>2 DEF vars
  <2> QED BY <1>1, <2>1 DEF ValuesInv, ApisFollow, BasesKept, CacheFits, CallsFit, HandlesFit,
                            AsAsked, CallFits, Fits
<1>3. ASSUME NEW b \in 1..Len(Bases), RegisterExtension(b) PROVE ValuesInv'
  <2>1. b \in 1..Len(apis) /\ NotUsedYet
    BY <1>1, <1>3, TypeFacts DEF RegisterExtension, PrivateInv
  <2>2. PICK e \in Extensions : apis' = [apis EXCEPT ![b] = WithExtension(@, e)]
    BY <1>1, <1>3, NextBaseExtension
  <2>3. /\ Len(apis') = Len(apis) /\ apis'[b] = WithExtension(apis[b], e)
        /\ \A i \in 1..Len(apis) : i # b => apis'[i] = apis[i]
    BY <1>1, <2>1, <2>2, ExtendedApi
  <2>4. /\ \A g \in Goroutines : pc'[g] = "idle" /\ handle'[g].api = 0
        /\ \A c \in Configs : cfgCache'[c] = 0
        /\ written' = [g \in Goroutines |-> Nothing]
    BY <1>3, <2>1 DEF RegisterExtension, NotUsedYet
  <2>5. CacheFits' /\ CallsFit' /\ HandlesFit' /\ AsAsked' /\ written' = [g \in Goroutines |-> written'[g]]
    BY <2>4 DEF CacheFits, CallsFit, HandlesFit, AsAsked, Nothing
  <2>6. apis[b] \in Apis /\ FollowsConfig(apis[b]) /\ \A t \in Types : ~apis[b].codecs[t].built
    BY <1>1, <2>1, TypeFacts DEF ValuesInv, ApisFollow, NotUsedYet
  <2>7. FollowsConfig(WithExtension(apis[b], e))
    BY <2>6, WithExtensionType DEF FollowsConfig
  <2>8. ApisFollow'
    BY <1>1, <2>3, <2>7 DEF ValuesInv, ApisFollow
  <2>9. BasesKept'
    <3>1. WithExtension(apis[b], e).configBeforeFrozen = apis[b].configBeforeFrozen
      BY <2>6, WithExtensionType
    <3>2. \A i \in 1..Len(Bases) : i \in 1..Len(apis)
      BY <1>1, TypeFacts
    <3> QED BY <1>1, <2>3, <3>1, <3>2 DEF ValuesInv, BasesKept
  <2> QED BY <2>5, <2>8, <2>9 DEF ValuesInv
<1>4. ASSUME NEW g \in Goroutines, New(g) PROVE ValuesInv'
  <2>1. PICK b \in 1..Len(Bases) :
          handle' = [handle EXCEPT ![g] = [base |-> b, api |-> b, asked |-> Bases[b]]]
    BY <1>4 DEF New
  <2>2. /\ UNCHANGED <<apis, cfgCache, pc, call, written>> /\ pc[g] = "idle"
        /\ \A h \in Goroutines : h # g => handle'[h] = handle[h]
        /\ handle'[g] = [base |-> b, api |-> b, asked |-> Bases[b]]
    BY <1>1, <1>4, <2>1 DEF New, Begin, TypeOK
  <2>3. SettingsKept
    BY <1>1, <2>2, TypeFacts DEF SettingsKept, Settings
  <2>4. Fits(b, Bases[b], b)
    BY <1>1 DEF ValuesInv, BasesKept, Fits
  <2>5. HandlesFit'
    BY <1>1, <2>2, <2>4 DEF ValuesInv, HandlesFit, Fits
  <2>6. CallsFit'
    BY <1>1, <2>2, <2>3, CallKeeps DEF ValuesInv, CallsFit
  <2>7. ApisFollow' /\ BasesKept' /\ CacheFits' /\ AsAsked'
    BY <1>1, <2>2 DEF ValuesInv, ApisFollow, BasesKept, CacheFits, AsAsked, Fits
  <2> QED BY <1>1, <2>2, <2>5, <2>6, <2>7 DEF ValuesInv
<1>5. ASSUME NEW g \in Goroutines, SetOnEncoder(g) \/ SetOnDecoder(g) PROVE ValuesInv'
  <2>1. /\ Begin(g) /\ handle[g].base \in 1..Len(Bases) /\ handle[g].api \in 1..Len(apis)
        /\ \E cfg \in Configs, asks \in Configs :
             /\ SameChange(g, cfg, asks)
             /\ Reuse(g, "set", handle[g].base, handle[g].api, cfg, asks)
    BY <1>1, <1>5, Setters
  <2>2. PICK cfg \in Configs, asks \in Configs :
          /\ SameChange(g, cfg, asks)
          /\ Reuse(g, "set", handle[g].base, handle[g].api, cfg, asks)
    BY <2>1
  <2>3. Fits(handle[g].api, handle[g].asked, handle[g].base)
    BY <1>1, <2>1 DEF ValuesInv, HandlesFit
  <2>4. /\ cfg = asks /\ cfg.others = Bases[handle[g].base].others
        /\ apis[handle[g].api].extraExtensions = apis[handle[g].base].extraExtensions
    BY <2>2, <2>3 DEF SameChange, Fits
  <2> QED BY <2>1, <2>2, <2>4, ReuseFits
<1>6. ASSUME NEW g \in Goroutines, MarshalIndent(g) PROVE ValuesInv'
  <2>1. Begin(g)
    BY <1>6 DEF MarshalIndent
  <2>2. PICK b \in 1..Len(Bases), cfg \in Configs, asks \in Configs :
          /\ b \in 1..Len(apis) /\ cfg.others = apis[b].configBeforeFrozen.others
          /\ apis[b].configBeforeFrozen = Bases[b] => cfg = asks
          /\ Reuse(g, "marshal", b, b, cfg, asks)
    BY <1>1, <1>6, Indenters
  <2>3. apis[b].configBeforeFrozen = Bases[b]
    BY <1>1 DEF ValuesInv, BasesKept
  <2> QED BY <2>1, <2>2, <2>3, ReuseFits
<1>7. ASSUME NEW g \in Goroutines, Load(g) PROVE ValuesInv'
  <2>1. /\ UNCHANGED <<apis, cfgCache, handle, written>> /\ pc[g] = "load" /\ CallFits(g)
        /\ call[g].cfg \in Configs /\ call[g].base \in 1..Len(Bases)
    BY <1>1, <1>7, TypeFacts DEF Load, ValuesInv, CallsFit, CallType
  <2>2. SettingsKept
    BY <1>1, <2>1, TypeFacts DEF SettingsKept, Settings
  <2>3. \A h \in Goroutines : h # g => pc'[h] = pc[h] /\ call'[h] = call[h]
    BY <1>1, <1>7 DEF Load, Found, Goto, TypeOK
  <2>4. CallFits(g)'
    <3>1. CASE Goto(g, "froze") /\ UNCHANGED call
      BY <1>1, <2>1, <3>1 DEF Goto, TypeOK, CallFits
    <3>2. CASE cfgCache[call[g].cfg] # 0 /\ Found(g, cfgCache[call[g].cfg])
      <4>1. /\ pc'[g] = "return" /\ call'[g] = [call[g] EXCEPT !.made = cfgCache[call[g].cfg]]
        BY <1>1, <3>2 DEF Found, Goto, TypeOK
      <4>2. /\ call'[g].cfg = call[g].cfg /\ call'[g].asks = call[g].asks /\ call'[g].op = call[g].op
            /\ call'[g].from = call[g].from /\ call'[g].base = call[g].base
            /\ call'[g].made = cfgCache[call[g].cfg]
        BY <1>1, <4>1, TypeFacts DEF CallType
      <4>3. Fits(cfgCache[call[g].cfg], call[g].cfg, call[g].base)
        BY <1>1, <2>1, <3>2 DEF ValuesInv, CacheFits, CallFits
      <4> QED BY <2>1, <4>1, <4>2, <4>3 DEF CallFits, Fits
    <3> QED BY <1>7, <3>1, <3>2 DEF Load
  <2>5. CallsFit'
    BY <1>1, <2>1, <2>2, <2>3, <2>4, CallKeeps DEF ValuesInv, CallsFit
  <2>6. ApisFollow' /\ BasesKept' /\ CacheFits' /\ HandlesFit' /\ AsAsked'
    BY <1>1, <2>1 DEF ValuesInv, ApisFollow, BasesKept, CacheFits, HandlesFit, AsAsked, Fits
  <2> QED BY <1>1, <2>1, <2>5, <2>6 DEF ValuesInv
<1>8. ASSUME NEW g \in Goroutines, Make(g) PROVE ValuesInv'
  <2>1. /\ UNCHANGED <<cfgCache, handle, written>> /\ pc[g] = "froze" /\ CallFits(g)
        /\ call[g].cfg \in Configs /\ call[g].from \in 1..Len(apis)
        /\ call[g].base \in 1..Len(Bases) /\ call[g].base \in 1..Len(apis)
    BY <1>1, <1>8, TypeFacts DEF Make, ValuesInv, CallsFit, CallType
  <2>2. /\ Len(apis') = Len(apis) + 1 /\ \A i \in 1..Len(apis) : apis'[i] = apis[i]
        /\ apis'[Len(apis) + 1] = Froze(call[g].cfg)
    BY <1>1, <1>8, <2>1, MadeApi DEF Make
  <2>3. SettingsKept
    BY <1>1, <2>2, TypeFacts DEF SettingsKept, Settings
  <2>4. \A h \in Goroutines : h # g => pc'[h] = pc[h] /\ call'[h] = call[h]
    BY <1>1, <1>8 DEF Make, Goto, TypeOK
  <2>5. ApisFollow'
    <3>1. FollowsConfig(Froze(call[g].cfg))
      BY <2>1, FrozeFollows
    <3>2. \A i \in 1..Len(apis') : i \in 1..Len(apis) \/ i = Len(apis) + 1
      BY <1>1, <2>2, TypeFacts
    <3> QED BY <1>1, <2>2, <3>1, <3>2 DEF ValuesInv, ApisFollow
  <2>6. CallFits(g)'
    <3>1. /\ pc'[g] = "register" /\ call'[g] = [call[g] EXCEPT !.made = Len(apis) + 1]
      BY <1>1, <1>8 DEF Make, Goto, TypeOK
    <3>2. /\ call'[g].cfg = call[g].cfg /\ call'[g].asks = call[g].asks /\ call'[g].op = call[g].op
          /\ call'[g].from = call[g].from /\ call'[g].base = call[g].base
          /\ call'[g].made = Len(apis) + 1
      BY <1>1, <3>1, TypeFacts DEF CallType
    <3>3. apis'[Len(apis) + 1].configBeforeFrozen = call[g].cfg /\ apis'[Len(apis) + 1].extraExtensions = <<>>
      BY <2>1, <2>2, FrozeFollows
    <3>4. HasFirst(<<>>, apis[call[g].from].extraExtensions)
      <4>1. apis[call[g].from] \in Apis
        BY <1>1, <2>1, TypeFacts
      <4>2. Len(<<>>) = 0 /\ apis[call[g].from].extraExtensions \in Seq(Extensions)
        BY <4>1 DEF Apis
      <4> QED BY <4>2 DEF HasFirst
    <3> QED BY <2>1, <2>2, <3>1, <3>2, <3>3, <3>4 DEF CallFits
  <2>7. CallsFit'
    BY <1>1, <2>1, <2>3, <2>4, <2>6, CallKeeps DEF ValuesInv, CallsFit
  <2>8. BasesKept' /\ CacheFits'
    BY <1>1, <2>1, <2>3, BasesKeep, CacheKeeps DEF ValuesInv
  <2>9. HandlesFit'
    BY <1>1, <2>1, <2>3, HandlesKeep DEF ValuesInv, HandlesFit
  <2>10. AsAsked'
    BY <1>1, <2>1 DEF ValuesInv, AsAsked
  <2> QED BY <1>1, <2>1, <2>5, <2>7, <2>8, <2>9, <2>10 DEF ValuesInv
<1>9. ASSUME NEW g \in Goroutines, Register(g) PROVE ValuesInv'
  <2>1. CASE Registered(g) < Len(ToRegister(g)) /\ UNCHANGED pc
    BY <1>9, <2>1, RegisterFits
  <2>2. CASE Registered(g) = Len(ToRegister(g)) /\ Goto(g, "store") /\ UNCHANGED apis
    <3>1. /\ UNCHANGED <<cfgCache, call, handle, written>> /\ pc[g] = "register" /\ CallFits(g)
          /\ call[g].made \in 1..Len(apis) /\ call[g].from \in 1..Len(apis)
      BY <1>1, <1>9, TypeFacts DEF Register, ValuesInv, CallsFit, CallType
    <3>2. pc'[g] = "store" /\ \A h \in Goroutines : h # g => pc'[h] = pc[h]
      BY <1>1, <2>2 DEF Goto, TypeOK
    <3>3. SettingsKept
      BY <1>1, <2>2, TypeFacts DEF SettingsKept, Settings
    <3>4. apis[call[g].made].extraExtensions = apis[call[g].from].extraExtensions
      <4> DEFINE some == apis[call[g].made].extraExtensions
                 all == apis[call[g].from].extraExtensions
      <4>1. HasFirst(some, all) /\ Len(some) = Len(all)
        BY <2>2, <3>1 DEF CallFits, Registered, ToRegister
      <4>2. some \in Seq(Extensions) /\ all \in Seq(Extensions)
        BY <1>1, <3>1, TypeFacts DEF Apis
      <4> HIDE DEF some, all
      <4>3. some = all
        BY <4>1, <4>2, SeqEqual DEF HasFirst
      <4> QED BY <4>3 DEF some, all
    <3>5. Fits(call[g].made, call[g].cfg, call[g].base)
      BY <3>1, <3>4 DEF CallFits, Fits
    <3>6. CallFits(g)'
      BY <2>2, <3>1, <3>2, <3>5 DEF CallFits, Fits
    <3>7. CallsFit'
      BY <1>1, <3>1, <3>2, <3>3, <3>6, CallKeeps DEF ValuesInv, CallsFit
    <3>8. ApisFollow' /\ BasesKept' /\ CacheFits' /\ HandlesFit' /\ AsAsked'
      BY <1>1, <2>2, <3>1 DEF ValuesInv, ApisFollow, BasesKept, CacheFits, HandlesFit, AsAsked, Fits
    <3> QED BY <1>1, <3>1, <3>7, <3>8 DEF ValuesInv
  <2> QED BY <1>9, <2>1, <2>2 DEF Register
<1>10. ASSUME NEW g \in Goroutines, Store(g) PROVE ValuesInv'
  <2>1. /\ UNCHANGED <<apis, call, handle, written>> /\ pc[g] = "store" /\ CallFits(g)
        /\ call[g].base \in 1..Len(Bases)
    BY <1>1, <1>10, TypeFacts DEF Store, ValuesInv, CallsFit, CallType
  <2>2. pc'[g] = "return" /\ \A h \in Goroutines : h # g => pc'[h] = pc[h]
    BY <1>1, <1>10 DEF Store, Goto, TypeOK
  <2>3. SettingsKept
    BY <1>1, <2>1, TypeFacts DEF SettingsKept, Settings
  <2>4. \A c \in Configs : cfgCache'[c] = IF c = call[g].cfg THEN call[g].made ELSE cfgCache[c]
    BY <1>1, <1>10 DEF Store, TypeOK
  <2>5. ASSUME NEW b \in 1..Len(Bases), call[g].cfg.others = Bases[b].others
        PROVE  Fits(call[g].made, call[g].cfg, b)
    <3>1. b = call[g].base
      BY <2>1, <2>5 DEF Distinct, CallFits
    <3> QED BY <2>1, <3>1 DEF CallFits
  <2>6. CacheFits'
    BY <1>1, <2>1, <2>4, <2>5 DEF ValuesInv, CacheFits, Fits
  <2>7. CallFits(g)'
    BY <2>1, <2>2 DEF CallFits, Fits
  <2>8. CallsFit'
    BY <1>1, <2>1, <2>2, <2>3, <2>7, CallKeeps DEF ValuesInv, CallsFit
  <2>9. ApisFollow' /\ BasesKept' /\ HandlesFit' /\ AsAsked'
    BY <1>1, <2>1 DEF ValuesInv, ApisFollow, BasesKept, HandlesFit, AsAsked, Fits
  <2> QED BY <1>1, <2>1, <2>6, <2>8, <2>9 DEF ValuesInv
<1>11. ASSUME NEW g \in Goroutines, Install(g) PROVE ValuesInv'
  <2>1. /\ UNCHANGED <<apis, cfgCache, written>> /\ pc[g] = "return" /\ CallFits(g)
        /\ call[g].op = "set"
    BY <1>1, <1>11 DEF Install, ValuesInv, CallsFit
  <2>2. pc'[g] = "idle" /\ \A h \in Goroutines : h # g => pc'[h] = pc[h] /\ call'[h] = call[h]
    BY <1>1, <1>11 DEF Install, Goto, TypeOK
  <2>3. /\ \A h \in Goroutines : h # g => handle'[h] = handle[h]
        /\ handle'[g].api = call[g].made /\ handle'[g].asked = call[g].asks
        /\ handle'[g].base = handle[g].base
    BY <1>1, <1>11, TypeFacts DEF Install, HandleType
  <2>4. SettingsKept
    BY <1>1, <2>1, TypeFacts DEF SettingsKept, Settings
  <2>5. Fits(call[g].made, call[g].asks, handle[g].base)
    BY <2>1 DEF CallFits
  <2>6. HandlesFit'
    BY <1>1, <2>1, <2>3, <2>5 DEF ValuesInv, HandlesFit, Fits
  <2>7. CallsFit'
    BY <1>1, <2>2, <2>3, <2>4, CallKeeps DEF ValuesInv, CallsFit
  <2>8. ApisFollow' /\ BasesKept' /\ CacheFits' /\ AsAsked'
    BY <1>1, <2>1 DEF ValuesInv, ApisFollow, BasesKept, CacheFits, AsAsked, Fits
  <2> QED BY <1>1, <2>1, <2>6, <2>7, <2>8 DEF ValuesInv
<1>12. ASSUME NEW g \in Goroutines, Marshal(g) PROVE ValuesInv'
  <2>1. /\ UNCHANGED <<cfgCache, handle>> /\ pc[g] = "return" /\ CallFits(g)
        /\ call[g].made \in 1..Len(apis) /\ call[g].base \in 1..Len(Bases)
        /\ call[g].asks \in Configs
    BY <1>1, <1>12, TypeFacts DEF Marshal, ValuesInv, CallsFit, CallType
  <2>2. pc'[g] = "idle" /\ \A h \in Goroutines : h # g => pc'[h] = pc[h] /\ call'[h] = call[h]
    BY <1>1, <1>12 DEF Marshal, Goto, TypeOK
  <2>3. PICK t \in Types : Use(g, "MarshalIndent", call[g].made, call[g].base, call[g].asks, t)
    BY <1>12 DEF Marshal
  <2>4. Fits(call[g].made, call[g].asks, call[g].base)
    BY <2>1 DEF CallFits
  <2>5. /\ SettingsKept /\ ApisFollow' /\ AsAsked'
        /\ written' = [h \in Goroutines |-> written'[h]]
    BY <2>1, <2>3, <2>4, UseFits
  <2>6. BasesKept' /\ CacheFits'
    BY <1>1, <2>1, <2>5, BasesKeep, CacheKeeps DEF ValuesInv
  <2>7. HandlesFit'
    BY <1>1, <2>1, <2>5, HandlesKeep DEF ValuesInv, HandlesFit
  <2>8. CallsFit'
    BY <1>1, <2>1, <2>2, <2>5, CallKeeps DEF ValuesInv, CallsFit
  <2> QED BY <2>5, <2>6, <2>7, <2>8 DEF ValuesInv
<1>13. ASSUME NEW g \in Goroutines, EncodeOrDecode(g) PROVE ValuesInv'
  <2>1. /\ UNCHANGED <<cfgCache, pc, call, handle>> /\ handle[g].api \in 1..Len(apis)
        /\ handle[g].base \in 1..Len(Bases) /\ handle[g].asked \in Configs
        /\ Fits(handle[g].api, handle[g].asked, handle[g].base)
    BY <1>1, <1>13, TypeFacts DEF EncodeOrDecode, ValuesInv, HandlesFit
  <2>2. PICK t \in Types : Use(g, "handle", handle[g].api, handle[g].base, handle[g].asked, t)
    BY <1>13 DEF EncodeOrDecode
  <2>3. /\ SettingsKept /\ ApisFollow' /\ AsAsked'
        /\ written' = [h \in Goroutines |-> written'[h]]
    BY <2>1, <2>2, UseFits
  <2>4. BasesKept' /\ CacheFits'
    BY <1>1, <2>1, <2>3, BasesKeep, CacheKeeps DEF ValuesInv
  <2>5. HandlesFit'
    BY <1>1, <2>1, <2>3, HandlesKeep DEF ValuesInv, HandlesFit
  <2>6. CallsFit'
    BY <1>1, <2>1, <2>3, CallKeeps DEF ValuesInv, CallsFit
  <2> QED BY <2>3, <2>4, <2>5, <2>6 DEF ValuesInv
<1> QED BY <1>2, <1>3, <1>4, <1>5, <1>6, <1>7, <1>8, <1>9, <1>10, <1>11, <1>12, <1>13
        DEF Next, Run, Call

\* Each value is written and read with the settings its caller asked for and
\* the extensions of the API it started from (MarshalIndent, the setters of
\* Encoder and Decoder), if the program registers its extensions first and its
\* Configs differ in a field that no setter changes.  Both are needed: without
\* them cfgCache, which knows the Config only, confuses two APIs.
THEOREM EveryoneGetsWhatTheyAsked ==
  ASSUME Registers = "start", Distinct
  PROVE  Spec => []AsAsked
<1>1. Init => Inv
  BY ValuesInit
<1>2. Inv /\ [Next]_vars => Inv'
  BY ValuesNext
<1>3. Inv => AsAsked
  BY DEF Inv, ValuesInv
<1> QED BY <1>1, <1>2, <1>3, PTL DEF Spec
=============================================================================
