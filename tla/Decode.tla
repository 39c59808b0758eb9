------------------------------- MODULE Decode -------------------------------
(* Unmarshal into variables that hold something already (reflect_slice.go, *)
(* reflect_array.go, reflect_map.go, reflect_optional.go,                  *)
(* reflect_dynamic.go, reflect_native.go, reflect_marshaler.go,            *)
(* Iterator.Read, and the struct decoders of reflect_struct_decoder.go     *)
(* after the binding of names, which is module StructBinding), with the    *)
(* decoders of the library or with those of extra/fuzzy_decoder.go.        *)
(*                                                                         *)
(* A decoder is an operator on the state of an Iterator over a byte slice  *)
(* (module SliceReader), to which the memory of the program is added: heap *)
(* is the sequence of the objects that were allocated, and a value that    *)
(* refers to one has its index.  Destinations are trees: nothing in a      *)
(* variable refers to what holds it.                                       *)
EXTENDS SliceReader, TLC

CONSTANTS
  Types,         \* the Go types: name -> [kind, elem, key, len, fields]
  Destinations,  \* bound: the variables, [type, value, heap]
  Configs,       \* the configurations, [UseNumber, DisallowUnknownFields, Fuzzy]; Fuzzy:
                 \* RegisterFuzzyDecoders has been called
  Inputs,        \* bound: Inputs[Fuzzy][t], the texts for a type, [doc, tree]
  Refused,       \* bytes that the UnmarshalJSON of the program refuses
  MaxCalls       \* bound: calls of Unmarshal

VARIABLES cfg, type, dest, heap, last, calls
vars == <<cfg, type, dest, heap, last, calls>>

----------------------------------------------------------------------------
(* Go values.  A slice has the array it is in, all of it, and its length.  *)
Nil == <<"nil">>
Num(text) == <<"num", text>>
Str(text) == <<"str", text>>
Bool(b) == <<"bool", b>>
Iface(t, v) == <<"iface", t, v>>
Empty == [k \in {} |-> Nil]       \* a map without keys

RECURSIVE Zero(_)
Zero(t) ==
  LET T == Types[t] IN
  CASE T.kind \in {"int", "float"} -> Num(<<"0">>)
    [] T.kind \in {"string", "number", "unmarshaler", "text"} -> Str(<<>>)
    [] T.kind = "bool" -> Bool(FALSE)
    [] T.kind = "quoted" -> Zero(T.elem)
    [] T.kind = "array" -> <<"array", [i \in 1..T.len |-> Zero(T.elem)]>>
    [] T.kind = "struct" -> <<"struct", [i \in 1..Len(T.fields) |-> Zero(T.fields[i].type)]>>
    [] OTHER -> Nil

\* an object is allocated, or written to; the value that is returned refers to it
New(r, tag, object) ==
  [r EXCEPT !.heap = Append(@, object), !.ret = <<tag, Len(r.heap) + 1>>]

\* the same for a slice of these elements
NewSlice(r, elements) ==
  LET s == New(r, "slice", elements) IN Returns(s, Append(s.ret, Len(elements)))

\* UnsafeMakeSlice(0, 0); mutant: the array is replaced, the length stays
NewEmptyKeepsLength(v, r) ==
  LET s == New(r, "slice", <<>>) IN Returns(s, Append(s.ret, IF v = Nil THEN 0 ELSE v[3]))
NewEmpty(v, r) == NewSlice(r, <<>>)
Write(r, v, object) == [r EXCEPT !.heap[v[2]] = object, !.ret = v]

----------------------------------------------------------------------------
\* Iterator.Read; the variable that an element is read into holds nothing, so
\* that efaceDecoder calls Read again
RECURSIVE Read(_)
Read(r) ==
  LET w == WhatIsNext(r)
      Appended(s, e) == [e EXCEPT !.acc = Append(s.acc, e.ret)]
      Assigned(s, e) == [e EXCEPT !.acc = (Str(s.ret) :> e.ret) @@ s.acc]
      Element(s) == Appended(s, Read(s))
      Member(s) == Assigned(s, Read(s))
      As(t, s, Make(_)) == Returns(s, Iface(t, Make(s.ret)))
      Made(t, s) == Returns(s, Iface(t, s.ret))
      MadeSlice(a) == Made("[]interface {}", NewSlice(a, a.acc))
      MadeMap(o) == Made("map[string]interface {}", New(o, "map", o.acc))
  IN CASE w.ret = "string" -> As("string", ReadString(w), Str)
       [] w.ret = "number" -> IF r.cfg.UseNumber THEN As("json.Number", ReadNumberAsBytes(w), Str)
                              ELSE As("float64", ReadFloat(w), Num)
       [] w.ret = "nil" -> Returns(SkipBytes(w, <<"n">> \o Ull), Nil)
       [] w.ret = "bool" -> As("bool", ReadBool(w), Bool)
       [] w.ret = "array" -> MadeSlice(ReadArrayCB([w EXCEPT !.acc = <<>>], Element))
       [] w.ret = "object" -> MadeMap(ReadObjectCB([w EXCEPT !.acc = Empty], Member))
       [] OTHER -> Returns(ReportError(w), Nil)

RECURSIVE Decode(_, _, _)   \* Decode(t, v, r): into a variable of type t with value v

\* Iterator.ReadVal of a pointer p of type t
ReadVal(t, p, r) ==
  LET Checked(d) == IF d.depth # r.depth THEN ReportError(d) ELSE d
      Written(d) == Checked(Write(d, p, d.ret))
  IN Written(Decode(Types[t].elem, r.heap[p[2]], r))

----------------------------------------------------------------------------
(* The decoders, T the type they are made for.                             *)

\* int8Codec ... float64Codec, boolCodec: null leaves the variable alone
DecodeNative(v, r, ReadIt(_), Make(_)) ==
  LET s == ReadNil(r)
      n == ReadIt(s)
  IN IF s.ret THEN Returns(s, v) ELSE Returns(n, Make(n.ret))

\* stringCodec
DecodeString(r) == LET s == ReadString(r) IN Returns(s, Str(s.ret))

\* jsonNumberCodec
DecodeNumber(r) ==
  LET w == WhatIsNext(r)
      s == ReadString(w)
      n == ReadNumberAsBytes(w)
  IN CASE w.ret = "string" -> Returns(s, Str(s.ret))
       [] w.ret = "nil" -> Returns(SkipBytes(w, <<"n">> \o Ull), Str(<<>>))
       [] OTHER -> Returns(n, Str(n.ret))

\* jsonRawMessageCodec
DecodeRaw(r) ==
  LET s == ReadNil(r)
      b == SkipAndReturnBytes(s)
  IN IF s.ret THEN Returns(s, Nil) ELSE Returns(b, Str(b.ret))

\* unmarshalerDecoder and textUnmarshalerDecoder: the variable keeps what it is given
Unmarshaler(s) ==
  IF s.ret = Refused THEN Returns(ReportError(s), Str(<<>>)) ELSE Returns(s, Str(s.ret))
DecodeUnmarshaler(r) == Unmarshaler(SkipAndReturnBytes(UnreadByte(NextToken(r))))
DecodeText(r) == Unmarshaler(ReadString(r))

\* stringModeNumberDecoder
DecodeQuoted(T, v, r) ==
  LET w == WhatIsNext(r)
      open == NextToken(w)
      n == Decode(T.elem, v, open)
      close == ReadByte(n)
  IN IF w.ret = "nil" THEN Decode(T.elem, v, w)
     ELSE IF open.ret # "\"" THEN Returns(ReportError(open), v)
     ELSE IF n.err # "nil" THEN n
     ELSE IF close.ret # "\"" THEN Returns(ReportError(close), n.ret) ELSE Returns(close, n.ret)


DecodePtr(T, v, r) ==
  LET s == ReadNil(r)
      new == Decode(T.elem, Zero(T.elem), s)
      old == Decode(T.elem, s.heap[v[2]], s)
  IN IF s.ret THEN Returns(s, Nil)
     ELSE IF v = Nil THEN New(new, "ptr", new.ret) ELSE Write(old, v, old.ret)

\* UnsafeGrow: the slice with length n, in a larger array if it must
NewCap(cap, n) == IF cap = 0 THEN n ELSE 2 * cap
Grow(T, v, n, r) ==
  LET cap == IF v = Nil THEN 0 ELSE Len(r.heap[v[2]])
      s == New(r, "slice", [i \in 1..NewCap(cap, n) |->
                              IF i < n THEN r.heap[v[2]][i] ELSE Zero(T.elem)])
  IN IF n <= cap THEN Returns(r, <<"slice", v[2], n>>) ELSE Returns(s, Append(s.ret, n))

\* sliceDecoder
DecodeSlice(T, v, r) ==
  LET RECURSIVE Elements(_, _, _)
      More(to, i, c) ==           \* c is what follows an element
        CASE c.ret = "," -> Elements(to, i + 1, c)
          [] c.ret = "]" -> Returns(c, to)
          [] OTHER -> Returns(ReportError(c), to)
      Put(to, i, e) == [e EXCEPT !.heap[to[2]][i] = e.ret]
      Element(to, i, g) == More(to, i, NextToken(Put(to, i, Decode(T.elem, g.heap[to[2]][i], g))))
      Elements(to, i, s) == LET g == Grow(T, to, i, s) IN Element(g.ret, i, g)
      First(c) == IF c.ret = "]" THEN NewEmpty(v, c) ELSE Elements(v, 1, UnreadByte(c))
      s == NextToken(r)
  IN CASE s.ret = "n" -> Returns(SkipBytes(s, Ull), Nil)
       [] s.ret = "[" -> First(NextToken(s))
       [] OTHER -> Returns(ReportError(s), v)

\* base64Codec; the bytes that four characters encode are one element
DecodeBytes(T, v, r) ==
  LET Decoded(src) ==
        IF Len(src.ret) % 4 = 0
        THEN NewSlice(src, [i \in 1..(Len(src.ret) \div 4) |-> Num(SubSeq(src.ret, 4 * i - 3, 4 * i))])
        ELSE Returns(ReportError(src), v)
      Found(w) ==
        CASE w.ret = "string" -> Decoded(ReadString(w))
          [] w.ret = "array" -> DecodeSlice(T, v, w)
          [] OTHER -> Returns(ReportError(w), v)
      s == ReadNil(r)
  IN IF s.ret THEN Returns(s, Nil) ELSE Found(WhatIsNext(s))

\* arrayDecoder; the first element is decoded also when the array has none
DecodeArray(T, v, r) ==
  LET Put(a, i, e) == Returns(e, [a EXCEPT ![i] = e.ret])
      Into(s, a, i) ==
        IF i <= T.len THEN Put(a, i, Decode(T.elem, a[i], s))
        ELSE IF i > 1 THEN Returns(Skip(s), a)
        ELSE [Decode(T.elem, Zero(T.elem), s) EXCEPT !.outside = TRUE, !.ret = a]
      RECURSIVE Elements(_, _)
      More(a, i, c) ==            \* c is what follows element i
        CASE c.ret = "," -> Elements(i + 1, Into(c, a, i + 1))
          [] c.ret = "]" -> Returns(c, <<"array", a>>)
          [] OTHER -> Returns(ReportError(c), <<"array", a>>)
      Elements(i, s) == More(s.ret, i, NextToken(s))
      First(c) == IF c.ret = "]" THEN Returns(c, v) ELSE Elements(1, Into(UnreadByte(c), v[2], 1))
      s == NextToken(r)
  IN CASE s.ret = "n" -> Returns(SkipBytes(s, Ull), v)
       [] s.ret = "[" -> First(NextToken(s))
       [] OTHER -> Returns(ReportError(s), v)

KeyEnd(n, c) == Returns(IF c.ret # "\"" THEN ReportError(c) ELSE c, n.ret)

DecodeKey(T, r) ==
  LET Number(n) == KeyEnd(n, NextToken(n))
      Quoted(open) == IF open.ret # "\"" THEN Returns(ReportError(open), Zero(T.key))
                      ELSE Number(Decode(T.key, Zero(T.key), open))
  IN IF Types[T.key].kind = "string" THEN Decode(T.key, Zero(T.key), r) ELSE Quoted(NextToken(r))

\* elemType.UnsafeNew of mapDecoder; mutants: one for all keys, or the one that is there
MapElementOnce(T, k, m, h) ==
  IF h[m[2]] = Empty THEN Zero(T.elem) ELSE h[m[2]][CHOOSE key \in DOMAIN h[m[2]] : TRUE]
MapElementOld(T, k, m, h) == IF k \in DOMAIN h[m[2]] THEN h[m[2]][k] ELSE Zero(T.elem)
MapElement(T, k, m, h) == Zero(T.elem)

\* mapDecoder
DecodeMap(T, v, r) ==
  LET RECURSIVE Members(_, _)
      More(m, c) ==               \* c is what follows a member
        CASE c.ret = "," -> Members(m, c)
          [] c.ret = "}" -> Returns(c, m)
          [] OTHER -> Returns(ReportError(c), m)
      Put(m, k, e) == Write(e, m, (k :> e.ret) @@ e.heap[m[2]])
      Member(m, k, colon) ==
        IF colon.ret # ":" THEN Returns(ReportError(colon), m)
        ELSE More(m, NextToken(Put(m, k, Decode(T.elem, MapElement(T, k, m, colon.heap), colon))))
      Keyed(m, k) == Member(m, k.ret, NextToken(k))
      Members(m, s) == Keyed(m, DecodeKey(T, s))
      First(m, c) == IF c.ret = "}" THEN Returns(c, m) ELSE Members(m, UnreadByte(c))
      Into(b, made) == IF b = "{" THEN First(made.ret, NextToken(made)) ELSE ReportError(made)
      s == NextToken(r)
  IN IF s.ret = "n" THEN Returns(SkipBytes(s, Ull), Nil)
     ELSE Into(s.ret, IF v = Nil THEN New(s, "map", Empty) ELSE Returns(s, v))

\* skipObjectDecoder, generalStructDecoder and those for few fields
DecodeStruct(T, v, r) ==
  LET known(name) == {i \in 1..Len(T.fields) : T.fields[i].name = name}
      Colon(c) == IF c.ret # ":" THEN ReportError(c) ELSE c
      Set(f, i, e) == Returns(e, [f EXCEPT ![i] = e.ret])
      Named(f, name) ==           \* the name has been read
        IF known(name.ret) = {}
        THEN LET s == IF r.cfg.DisallowUnknownFields THEN ReportError(name) ELSE name
             IN Returns(Skip(Colon(NextToken(s))), f)
        ELSE LET i == CHOOSE i \in known(name.ret) : TRUE
             IN Set(f, i, Decode(T.fields[i].type, f[i], Colon(NextToken(name))))
      Field(f, s) == Named(f, ReadString(s))
      RECURSIVE Fields(_)
      Fields(s) ==                \* s returns the fields
        LET c == NextToken(s)
            end == IF c.ret # "}" THEN ReportError(c) ELSE c
        IN IF c.ret = "," THEN Fields(Field(s.ret, c))
           ELSE Returns(DecrementDepth(end), <<"struct", s.ret>>)
      Open(s) == IF ~s.ret THEN Returns(s, v) ELSE Fields(Field(v[2], s))
      First(c) == IF c.ret = "}" THEN Returns(c, v) ELSE Open(IncrementDepth(UnreadByte(c)))
      Skipped(w) == IF w.ret \in {"object", "nil"} THEN Skip(w) ELSE ReportError(w)
      s == NextToken(r)
  IN IF T.fields = <<>> /\ ~r.cfg.DisallowUnknownFields THEN Returns(Skipped(WhatIsNext(r)), v)
     ELSE CASE s.ret = "n" -> Returns(SkipBytes(s, Ull), v)
            [] s.ret = "{" -> First(NextToken(s))
            [] OTHER -> Returns(ReportError(s), v)

\* efaceDecoder; a nil pointer of a type is replaced by a new one
DecodeEface(v, r) ==
  LET w == WhatIsNext(r)
      Into(p) == Returns(ReadVal(v[2], p.ret, p), Iface(v[2], p.ret))
  IN IF v = Nil \/ Types[v[2]].kind # "ptr" THEN Read(r)
     ELSE IF w.ret = "nil" /\ Types[Types[v[2]].elem].kind # "ptr"
     THEN Returns(SkipBytes(w, <<"n">> \o Ull), Nil)
     ELSE Into(IF v[3] = Nil THEN New(w, "ptr", Zero(Types[v[2]].elem)) ELSE Returns(w, v[3]))

\* ifaceDecoder
DecodeIface(v, r) ==
  LET s == ReadNil(r)
      e == ReadVal(v[2], v[3], s)
  IN IF s.ret THEN Returns(s, Nil)
     ELSE IF v = Nil \/ Types[v[2]].kind # "ptr" \/ v[3] = Nil THEN Returns(ReportError(s), v)
     ELSE Returns(e, v)

----------------------------------------------------------------------------
(* extra/fuzzy_decoder.go.                                                 *)
\* BorrowIterator
Borrowed(r, doc) == [r EXCEPT !.doc = doc, !.pos = 0, !.depth = 0, !.err = "nil"]
\* what it returned, and its error unless that is the end of its text
PassOn(n, s) == Returns(IF Failed(n) THEN ReportError(s) ELSE s, n.ret)

\* the conversion of a float to an integer
IntegerPart(text) ==
  LET int == SubSeq(text, 1, RunOf(text, 0, Digits \cup {"-"})) IN
  IF int = <<"-", "0">> THEN <<"0">> ELSE int

\* a scalar that is no string, as a text
FuzzyText(w) ==
  LET b == ReadBool(w) IN
  CASE w.ret = "bool" -> Returns(b, IF b.ret THEN <<"1">> ELSE <<"0">>)
    [] w.ret = "nil" -> Returns(Skip(w), <<"0">>)
    [] OTHER -> Returns(ReportError(w), <<>>)

\* fuzzyStringDecoder
DecodeFuzzyString(v, r) ==
  LET w == WhatIsNext(r)
      Made(s) == Returns(s, Str(s.ret))
  IN CASE w.ret = "number" -> Made(ReadNumberAsBytes(w))
       [] w.ret = "string" -> Made(ReadString(w))
       [] w.ret = "nil" -> Returns(Skip(w), Str(<<>>))
       [] OTHER -> Returns(ReportError(w), v)

\* fuzzyIntegerDecoder, for numbers that fit and have no exponent; it writes
\* after an error too
DecodeFuzzyInt(r) ==
  LET w == WhatIsNext(r)
      Number(n) == [n EXCEPT !.ret = Num(IntegerPart(@))]
      Parse(n) == IF \E i \in DOMAIN n.doc : n.doc[i] = "." THEN ReadFloat(n) ELSE ReadInt(n)
      From(s) == Number(PassOn(Parse(Borrowed(s, IF s.ret = <<>> THEN <<"0">> ELSE s.ret)), s))
  IN From(CASE w.ret = "number" -> ReadNumberAsBytes(w)
            [] w.ret = "string" -> ReadString(w)
            [] OTHER -> FuzzyText(w))

\* fuzzyFloat32Decoder, fuzzyFloat64Decoder
DecodeFuzzyFloat(v, r) ==
  LET w == WhatIsNext(r)
      Made(n) == Returns(n, Num(n.ret))
      Parsed(s) == Made(PassOn(ReadFloat(Borrowed(s, s.ret)), s))
  IN CASE w.ret = "number" -> Made(ReadFloat(w))
       [] w.ret = "string" -> Parsed(ReadString(w))
       [] w.ret \in {"bool", "nil"} -> Made(FuzzyText(w))
       [] OTHER -> Returns(ReportError(w), v)

\* tolerateEmptyArrayDecoder: any array is skipped
DecodeTolerant(T, v, r) ==
  LET w == WhatIsNext(r)
      s == Skip(w)
      Inner(x) == IF T.kind = "map" THEN DecodeMap(T, v, x) ELSE DecodeStruct(T, v, x)
  IN IF w.ret # "array" THEN Inner(w)
     ELSE [Inner(Borrowed(s, <<"{", "}">>))
             EXCEPT !.doc = s.doc, !.pos = s.pos, !.depth = s.depth, !.err = s.err]

\* typeDecoders and the extension come before the decoders of the library
FuzzyKinds == {"int", "float", "string", "map", "struct"}
DecodeFuzzy(T, v, r) ==
  CASE T.kind = "int" -> DecodeFuzzyInt(r)
    [] T.kind = "float" -> DecodeFuzzyFloat(v, r)
    [] T.kind = "string" -> DecodeFuzzyString(v, r)
    [] T.kind \in {"map", "struct"} -> DecodeTolerant(T, v, r)

----------------------------------------------------------------------------
Decode(t, v, r) ==
  LET T == Types[t] IN
  IF r.cfg.Fuzzy /\ T.kind \in FuzzyKinds THEN DecodeFuzzy(T, v, r) ELSE
  CASE T.kind = "int" -> DecodeNative(v, r, ReadInt, Num)
    [] T.kind = "float" -> DecodeNative(v, r, ReadFloat, Num)
    [] T.kind = "bool" -> DecodeNative(v, r, ReadBool, Bool)
    [] T.kind = "string" -> DecodeString(r)
    [] T.kind = "number" -> DecodeNumber(r)
    [] T.kind = "raw" -> DecodeRaw(r)
    [] T.kind = "unmarshaler" -> DecodeUnmarshaler(r)
    [] T.kind = "text" -> DecodeText(r)
    [] T.kind = "quoted" -> DecodeQuoted(T, v, r)
    [] T.kind = "ptr" -> DecodePtr(T, v, r)
    [] T.kind = "slice" -> DecodeSlice(T, v, r)
    [] T.kind = "bytes" -> DecodeBytes(T, v, r)
    [] T.kind = "array" -> DecodeArray(T, v, r)
    [] T.kind = "map" -> DecodeMap(T, v, r)
    [] T.kind = "struct" -> DecodeStruct(T, v, r)
    [] T.kind = "eface" -> DecodeEface(v, r)
    [] T.kind = "iface" -> DecodeIface(v, r)

----------------------------------------------------------------------------
(* frozenConfig.Unmarshal and UnmarshalFromString.                         *)
RECURSIVE Deep(_, _, _)
\* a value with what it refers to, of a slice also the elements after its length
Deep(t, v, h) ==
  LET T == Types[t]
      All(seq) == [i \in 1..Len(seq) |-> Deep(T.elem, seq[i], h)]
  IN CASE v = Nil -> Nil
       [] T.kind = "ptr" -> <<"ptr", Deep(T.elem, h[v[2]], h)>>
       [] T.kind \in {"slice", "bytes"} -> <<"slice", All(h[v[2]]), v[3]>>
       [] T.kind = "array" -> <<"array", All(v[2])>>
       [] T.kind = "map" -> <<"map", [k \in DOMAIN h[v[2]] |-> Deep(T.elem, h[v[2]][k], h)]>>
       [] T.kind = "struct" -> <<"struct", [i \in 1..Len(v[2]) |-> Deep(T.fields[i].type, v[2][i], h)]>>
       [] T.kind \in {"eface", "iface"} -> <<"iface", v[2], Deep(v[2], v[3], h)>>
       [] OTHER -> v

Finish(d) ==
  LET c == NextToken(IF d.depth # 0 THEN ReportError(d) ELSE d) IN Returns(d, c.ret = NUL /\ c.err # "bad")
Started(doc) ==
  [doc |-> doc, pos |-> 0, depth |-> 0, err |-> "nil", ret |-> NUL,
   heap |-> heap, cfg |-> cfg, acc |-> <<>>, outside |-> FALSE]

Unmarshal(in) ==
  \E d \in {Decode(type, dest, Started(in.doc))} :
    /\ dest' = d.ret
    /\ heap' = d.heap
    /\ last' = [tree |-> in.tree, ok |-> Finish(d).ret,
                before |-> Deep(type, dest, heap), outside |-> d.outside]

----------------------------------------------------------------------------
Init ==
  /\ cfg \in Configs
  /\ \E x \in Destinations : type = x.type /\ dest = x.value /\ heap = x.heap
  /\ last = [tree |-> <<"none">>, ok |-> FALSE, before |-> Nil, outside |-> FALSE]
  /\ calls = 0

Next ==
  /\ calls < MaxCalls
  /\ calls' = calls + 1
  /\ \E in \in Inputs[cfg.Fuzzy][type] : Unmarshal(in)
  /\ UNCHANGED <<cfg, type>>

Spec == Init /\ [][Next]_vars
=============================================================================
