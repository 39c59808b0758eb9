--------------------------- MODULE StructBinding ---------------------------
(* From a struct type to its codecs, and one value through them            *)
(* (reflect_extension.go:334 describeStruct, reflect_struct_encoder.go,    *)
(* reflect_struct_decoder.go, extra/naming_strategy.go, privat_fields.go). *)
(*                                                                         *)
(* A struct is flattened into bindings, one for each field it has or       *)
(* embeds; the encoder and the decoder each settle, on their own and in    *)
(* their own order, which of the bindings with one name are kept; the      *)
(* decoder then chooses between a switch over hashes of the names and a    *)
(* look-up of the name.  A value is then encoded, and what was written, or *)
(* another document, is decoded.                                           *)
EXTENDS Naturals, Sequences, FiniteSets

CONSTANTS
  Structs,      \* the struct types, those that are embedded included
  Configs,      \* the configurations, see Config
  Names,        \* names of members
  Lower,        \* strings.ToLower
  Hash,         \* calcHash, and readFieldHash, of a name in lower case
  Translate,    \* the naming strategy of an extension
  SwitchSize,   \* bound: the widest decoder that is a switch over hashes (10 in the code)
  DocSize,      \* bound: members of a document that was not encoded here
  None

\* A field: its Go name, the name in its tag (None: a tag without a name, "no
\* tag", or "-"), whether it says omitempty, and, when it is anonymous, the
\* struct it embeds, by value or through a pointer.
TagKinds == {"none", "options", "named", "hidden"}
Config == [caseSensitive : BOOLEAN, onlyTaggedField : BOOLEAN,
           disallowUnknownFields : BOOLEAN, naming : BOOLEAN, private : BOOLEAN]

FieldType == [name : Names, exported : BOOLEAN, tag : TagKinds, tagName : Names \cup {None},
              omitempty : BOOLEAN, anonymous : BOOLEAN, struct : Structs \cup {None}, pointer : BOOLEAN]

ASSUME StructBindingAssumption ==
  /\ \A s \in Structs : s \in Seq(FieldType) /\ \A i \in 1..Len(s) : s[i].tag = "named" => s[i].tagName \in Names
  /\ Configs \subseteq Config
  /\ Lower \in [Names -> Names] /\ \A n \in Names : Lower[Lower[n]] = Lower[n]
  /\ Hash \in [Names -> Nat] /\ Translate \in [Names -> Names]
  /\ SwitchSize \in Nat /\ DocSize \in Nat

VARIABLES
  cfg,       \* the frozenConfig
  typ,       \* the struct type
  phase,     \* where the goroutine is
  stack,     \* the describeStruct calls it is in, innermost first
  fields,    \* StructDescriptor.Fields
  at,        \* how many of them the loop over them has seen
  ordered,   \* orderedBindings of encoderOfStruct
  bound,     \* bindings of decoderOfStruct: name -> binding
  decoder,   \* what createStructDecoder made
  nils,      \* the embedded pointers of the value that are nil
  empty,     \* its fields that are empty
  members,   \* the members the encoder has written: name and field
  doc,       \* the names of the members to decode
  out,       \* the fields set so far: which member each has
  error      \* "found unknown field"

vars == <<cfg, typ, phase, stack, fields, at, ordered, bound, decoder, nils, empty, members, doc, out, error>>
describing == <<stack, fields>>
value == <<nils, empty, members, doc, out, error>>

----------------------------------------------------------------------------
(* describeStruct.  A binding knows its field by its levels.               *)
Frame(fs) == [of |-> fs, i |-> 0, bindings |-> <<>>, embedded |-> <<>>]
Top == Head(stack)
Field == Top.of[Top.i + 1]
Describing == phase = "describe" /\ Top.i < Len(Top.of)
Advanced == [Top EXCEPT !.i = @ + 1]

Hidden(f) == f.tag = "hidden" \/ (cfg.onlyTaggedField /\ f.tag = "none" /\ ~f.anonymous)
Embeds(f) == f.anonymous /\ f.tag # "named" /\ f.struct # None

SkipField ==
  /\ Describing /\ Hidden(Field)
  /\ stack' = <<Advanced>> \o Tail(stack)
  /\ UNCHANGED <<cfg, typ, phase, fields, at, ordered, bound, decoder, value>>

Embed ==
  /\ Describing /\ ~Hidden(Field) /\ Embeds(Field)
  /\ stack' = <<Frame(Field.struct), Advanced>> \o Tail(stack)
  /\ UNCHANGED <<cfg, typ, phase, fields, at, ordered, bound, decoder, value>>

\* calcFieldNames: the names a field is written and read by, at most one
FieldNames(f) ==
  IF ~f.exported THEN {} ELSE IF f.tag = "named" THEN {f.tagName} ELSE {f.name}
\* the Extensions of extra.SetNamingStrategy and extra.SupportPrivateFields
Renamed(b) ==
  IF cfg.naming /\ b.field.exported /\ b.field.tag # "named"
  THEN [b EXCEPT !.names = {Translate[b.field.name]}] ELSE b
WithPrivate(b) ==
  IF cfg.private /\ ~b.field.exported /\ b.field.tag = "none"
  THEN [b EXCEPT !.names = {b.field.name}] ELSE b

BindField ==
  /\ Describing /\ ~Hidden(Field) /\ ~Embeds(Field)
  /\ LET b == [levels |-> <<Top.i + 1>>, field |-> Field, names |-> FieldNames(Field), pointers |-> {}] IN
     stack' = <<[Advanced EXCEPT !.bindings = Append(@, b)]>> \o Tail(stack)
  /\ UNCHANGED <<cfg, typ, phase, fields, at, ordered, bound, decoder, value>>

\* sortableBindings
Before(b, c) ==
  \E k \in 1..Len(b.levels) :
    /\ k <= Len(c.levels) /\ b.levels[k] < c.levels[k]
    /\ SubSeq(b.levels, 1, k - 1) = SubSeq(c.levels, 1, k - 1)
MergedUnsorted(f) == f.embedded \o [i \in DOMAIN f.bindings |-> WithPrivate(Renamed(f.bindings[i]))]
\* sort.Sort: the one order in which they can come
IsSorted(b, order) == \A i, j \in DOMAIN b : i < j => Before(b[order[i]], b[order[j]])
Sorted(b) ==
  LET order == CHOOSE o \in [DOMAIN b -> DOMAIN b] : IsSorted(b, o) IN [i \in DOMAIN b |-> b[order[i]]]
Merged(f) == Sorted(MergedUnsorted(f))
\* a binding of the struct embedded as the i-th field
Promoted(b, i, pointer) ==
  [b EXCEPT !.levels = <<i>> \o @,
            !.pointers = {<<i>> \o p : p \in @} \cup IF pointer THEN {<<i>>} ELSE {}]

DescribeReturns ==
  /\ phase = "describe" /\ Top.i = Len(Top.of)
  /\ IF Len(stack) = 1
     THEN stack' = <<>> /\ fields' = Merged(Top) /\ phase' = "to"
     ELSE LET caller == stack[2]
              b == Merged(Top)
              p == caller.of[caller.i].pointer
          IN
          /\ stack' = <<[caller EXCEPT !.embedded = @ \o [k \in DOMAIN b |-> Promoted(b[k], caller.i, p)]]>>
                      \o Tail(Tail(stack))
          /\ UNCHANGED <<fields, phase>>
  /\ UNCHANGED <<cfg, typ, at, ordered, bound, decoder, value>>

----------------------------------------------------------------------------
(* resolveConflictBinding: <<ignoreOld, ignoreNew>>.                       *)
Tagged(b) == b.field.tag # "none"
Shallower(old, new) ==
  <<Len(old.levels) >= Len(new.levels), Len(new.levels) >= Len(old.levels)>>
resolveByOrder(old, new) == <<FALSE, TRUE>>
resolveConflictBinding(old, new) ==
  IF Tagged(new) = Tagged(old) THEN Shallower(old, new) ELSE <<TRUE, FALSE>>

(* One round of encoderOfStruct: the new binding against each old one of   *)
(* its name, whatever was decided about the old one before.                *)
BindTo ==
  /\ phase = "to" /\ at < Len(fields)
  /\ at' = at + 1
  /\ LET new == fields[at + 1] IN
     IF new.names = {} THEN UNCHANGED ordered
     ELSE LET name == CHOOSE n \in new.names : TRUE
              same == {j \in DOMAIN ordered : ordered[j].name = name}
              decided(j) == resolveConflictBinding(ordered[j].binding, new)
              last == CHOOSE j \in same : \A k \in same : k <= j
          IN ordered' = Append(
               [j \in DOMAIN ordered |->
                  IF j \in same THEN [ordered[j] EXCEPT !.ignored = decided(j)[1]] ELSE ordered[j]],
               [binding |-> new, name |-> name, ignored |-> IF same = {} THEN FALSE ELSE decided(last)[2]])
  /\ UNCHANGED <<cfg, typ, phase, describing, bound, decoder, value>>

EncoderMade ==
  /\ phase = "to" /\ at = Len(fields)
  /\ phase' = "from" /\ at' = 0
  /\ UNCHANGED <<cfg, typ, describing, ordered, bound, decoder, value>>

(* One round of decoderOfStruct.                                           *)
With(f, key, x) == [n \in DOMAIN f \cup {key} |-> IF n = key THEN x ELSE f[n]]
Drop(f, name) == [n \in DOMAIN f \ {name} |-> f[n]]
BindFrom ==
  /\ phase = "from" /\ at < Len(fields)
  /\ at' = at + 1
  /\ LET new == fields[at + 1] IN
     IF new.names = {} THEN UNCHANGED bound
     ELSE LET name == CHOOSE n \in new.names : TRUE IN
          IF name \notin DOMAIN bound THEN bound' = With(bound, name, new)
          ELSE LET ignore == resolveConflictBinding(bound[name], new)
                   kept == IF ignore[1] THEN Drop(bound, name) ELSE bound
               IN bound' = IF ignore[2] THEN kept ELSE With(kept, name, new)
  /\ UNCHANGED <<cfg, typ, phase, describing, ordered, decoder, value>>

(* createStructDecoder: fields is bound, and unless names are case         *)
(* sensitive each binding once more under its name in lower case; which of *)
(* two that share it is settled by the order of Go's map iteration.        *)
WithLower ==
  IF cfg.caseSensitive THEN {bound}
  ELSE LET added == {Lower[n] : n \in DOMAIN bound} \ DOMAIN bound
           choice == {f \in [added -> DOMAIN bound] : \A n \in added : Lower[f[n]] = n}
       IN {[n \in DOMAIN bound \cup added |-> IF n \in DOMAIN bound THEN bound[n] ELSE bound[f[n]]] : f \in choice}

HashOf(name) == IF cfg.caseSensitive THEN Hash[name] ELSE Hash[Lower[name]]
NonZero(names) == \A n \in names : HashOf(n) # 0
Distinct(names) == \A m, n \in names : HashOf(m) # 0 /\ (HashOf(m) = HashOf(n) => m = n)
Switch(table) ==
  [kind |-> "switch",
   table |-> [h \in {HashOf(n) : n \in DOMAIN table} |-> table[CHOOSE n \in DOMAIN table : HashOf(n) = h]]]
General(table) == [kind |-> "general", table |-> table]

DecoderOf(table) ==
  IF cfg.disallowUnknownFields THEN General(table)
  ELSE IF DOMAIN table = {} THEN [kind |-> "skip", table |-> table]
  ELSE IF Cardinality(DOMAIN table) <= SwitchSize /\ Distinct(DOMAIN table) THEN Switch(table)
  ELSE General(table)

DecoderMade ==
  /\ phase = "from" /\ at = Len(fields)
  /\ phase' = "ready"
  /\ \E table \in WithLower : decoder' = DecoderOf(table)
  /\ UNCHANGED <<cfg, typ, describing, at, ordered, bound, value>>

----------------------------------------------------------------------------
(* structEncoder.Encode.                                                   *)
Pointers == UNION {fields[k].pointers : k \in DOMAIN fields}
Paths == {fields[k].levels : k \in DOMAIN fields}
PrefixOf(p, q) == Len(p) <= Len(q) /\ p = SubSeq(q, 1, Len(p))
EmbeddedPtrNil(b) == b.pointers \cap nils # {}

StartEncode ==
  /\ phase = "ready"
  /\ phase' = "encode" /\ at' = 0
  \* what an embedded pointer leads to is there or not as a whole
  /\ nils' \in {n \in SUBSET Pointers : \A p \in Pointers, q \in n : PrefixOf(q, p) => p \in n}
  /\ empty' \in SUBSET Paths
  /\ UNCHANGED <<cfg, typ, describing, ordered, bound, decoder, members, doc, out, error>>

Omitted(b) == b.field.omitempty /\ b.levels \in empty
EncodeField ==
  /\ phase = "encode" /\ at < Len(ordered)
  /\ at' = at + 1
  /\ LET f == ordered[at + 1] IN
     IF f.ignored \/ Omitted(f.binding) \/ EmbeddedPtrNil(f.binding) THEN UNCHANGED members
     ELSE members' = Append(members, [name |-> f.name, field |-> f.binding.levels])
  /\ UNCHANGED <<cfg, typ, phase, describing, ordered, bound, decoder, nils, empty, doc, out, error>>

\* to decode: what was written, or any other document
Docs == UNION {[1..n -> Names] : n \in 0..DocSize}
StartDecode ==
  /\ phase = "encode" /\ at = Len(ordered)
  /\ at' = 0
  /\ \/ phase' = "decode" /\ doc' = [i \in DOMAIN members |-> members[i].name]
     \/ phase' = "decodeOther" /\ doc' \in Docs
  /\ UNCHANGED <<cfg, typ, describing, ordered, bound, decoder, nils, empty, members, out, error>>

(* One member: the switch over readFieldHash, or decodeOneField, which     *)
(* reports an unknown member and goes on.                                  *)
NoBinding == [levels |-> <<>>]
FoundExactly(name) ==
  LET t == decoder.table IN
  IF decoder.kind = "switch" THEN IF HashOf(name) \in DOMAIN t THEN t[HashOf(name)] ELSE NoBinding
  ELSE IF name \in DOMAIN t THEN t[name] ELSE NoBinding
Found(name) ==
  LET t == decoder.table IN
  IF decoder.kind = "switch" THEN IF HashOf(name) \in DOMAIN t THEN t[HashOf(name)] ELSE NoBinding
  ELSE IF name \in DOMAIN t THEN t[name]
  ELSE IF ~cfg.caseSensitive /\ Lower[name] \in DOMAIN t THEN t[Lower[name]] ELSE NoBinding

DecodeMember ==
  /\ phase \in {"decode", "decodeOther"} /\ at < Len(doc)
  /\ at' = at + 1
  /\ LET b == Found(doc[at + 1]) IN
     IF b = NoBinding THEN error' = (error \/ cfg.disallowUnknownFields) /\ UNCHANGED out
     ELSE out' = With(out, b.levels, at + 1) /\ UNCHANGED error
  /\ UNCHANGED <<cfg, typ, phase, describing, ordered, bound, decoder, nils, empty, members, doc>>

----------------------------------------------------------------------------
Init ==
  /\ cfg \in Configs /\ typ \in Structs
  /\ phase = "describe" /\ stack = <<Frame(typ)>> /\ fields = <<>> /\ at = 0
  /\ ordered = <<>> /\ bound = <<>> /\ decoder = None
  /\ nils = {} /\ empty = {} /\ members = <<>> /\ doc = <<>> /\ out = <<>> /\ error = FALSE

Next ==
  \/ SkipField \/ Embed \/ BindField \/ DescribeReturns
  \/ BindTo \/ EncoderMade \/ BindFrom \/ DecoderMade
  \/ StartEncode \/ EncodeField \/ StartDecode \/ DecodeMember

Spec == Init /\ [][Next]_vars

----------------------------------------------------------------------------
Phases == {"describe", "to", "from", "ready", "encode", "decode", "decodeOther"}
Decoded == phase \in {"decode", "decodeOther"} /\ at = Len(doc)

\* Every variable has a value of its kind, and the bindings come in the order
\* of their fields (reflect_extension.go:414 sorts what is promoted from embedded
\* structs among the fields of the struct itself).
TypeOK ==
  /\ phase \in Phases /\ cfg \in Configs /\ typ \in Structs /\ error \in BOOLEAN
  /\ \A i, j \in DOMAIN fields : i < j => Before(fields[i], fields[j])
  /\ at \in 0..(IF phase = "decodeOther" THEN DocSize ELSE Len(fields))
  /\ DOMAIN bound \subseteq Names /\ {doc[i] : i \in DOMAIN doc} \subseteq Names
  /\ DOMAIN out \subseteq Paths

\* What the encoder wrote is decoded into the fields it came from: each member
\* that was written, and no other field, gets its own value back, although
\* encoderOfStruct and decoderOfStruct settle names separately and the decoder
\* looks members up by hash or in lower case.
RoundTrip ==
  Decoded /\ phase = "decode" =>
    /\ ~error
    /\ DOMAIN out = {members[i].field : i \in DOMAIN members}
    /\ \A i \in DOMAIN members : out[members[i].field] = i

\* Which fields a name stands for in Go's encoding/json: of those with the name
\* the shallowest, of several of them one whose tag names it, of several none.
SameName(k) == {j \in DOMAIN fields : fields[j].names = fields[k].names}
Shallowest(ks) == {k \in ks : \A j \in ks : Len(fields[k].levels) <= Len(fields[j].levels)}
Dominates(k) ==
  LET top == Shallowest(SameName(k))
      named == {j \in top : fields[j].field.tag = "named"}
  IN fields[k].names # {} /\ (top = {k} \/ named = {k})

\* Once the encoder is made, it has the fields encoding/json would encode
\* (README.md:9 "A high-performance 100% compatible drop-in replacement of
\* "encoding/json"").
DominantFields ==
  phase \notin {"describe", "to"} =>
    {ordered[i].binding.levels : i \in {j \in DOMAIN ordered : ~ordered[j].ignored}}
      = {fields[k].levels : k \in {j \in DOMAIN fields : Dominates(j)}}

\* A member of any document sets a field that has its name, in the same case
\* when there is one, in another case only when names are not case sensitive;
\* a member that no field has sets nothing, and is an error if the configuration
\* says so.  Of two members for one field the later one counts.
MayName(name, k) ==
  \/ name \in fields[k].names
  \/ (~cfg.caseSensitive /\ \E n \in fields[k].names : Lower[n] = Lower[name])
Exactly(name) == {k \in DOMAIN fields : name \in fields[k].names /\ Dominates(k)}
MembersFindFields ==
  Decoded =>
    /\ \A path \in DOMAIN out : \E k \in DOMAIN fields :
         fields[k].levels = path /\ Dominates(k) /\ MayName(doc[out[path]], k)
    /\ \A i \in 1..at : \A k \in Exactly(doc[i]) :
         fields[k].levels \in DOMAIN out /\ out[fields[k].levels] >= i
    /\ error = (cfg.disallowUnknownFields /\ \E i \in DOMAIN doc :
                  \A k \in DOMAIN fields : Dominates(k) => ~MayName(doc[i], k))
=============================================================================
