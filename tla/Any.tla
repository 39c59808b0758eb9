--------------------------------- MODULE Any ---------------------------------
(* Any (any.go, any_array.go, any_object.go, any_str.go, any_number.go and *)
(* the other any_*.go): a JSON text that is parsed when it is looked into, *)
(* or a Go value behind the same interface.  The lazy ones borrow an       *)
(* Iterator over their bytes for every operation.                          *)
(*                                                                         *)
(*   <<"invalid">>, <<"nil">>, <<"bool", b>>, <<"string", text>>           *)
(*   <<"number", bytes, err>>            numberLazyAny                     *)
(*   <<"arrayLazy", bytes>>, <<"objectLazy", bytes>>                       *)
(*   <<"wrapped", t, value>>             floatAny, int64Any, arrayAny,     *)
(*                                       objectAny and mapAny              *)
(*   <<"panic">>                         what reflect answers a mistake    *)
EXTENDS Decode, FiniteSets

CONSTANTS
  Word,          \* the number of values of a uint (2^64)
  Paths,         \* bound: the arguments of a Get
  MaxGets        \* bound: calls of Get in a row

VARIABLES any, gets
anyVars == <<any, gets>>

Invalid == <<"invalid">>
NilAny == <<"nil">>
Panics == <<"panic">>
NoAny == <<"none">>
Star == <<"star">>
Name(text) == <<"name", text>>
Index(n) == <<"index", n>>

\* the prefix of a text whose characters are all in S
Leading(text, S) == SubSeq(text, 1, RunOf(text, 0, S))

Borrow(bytes) ==
  [doc |-> bytes, pos |-> 0, depth |-> 0, err |-> "nil", ret |-> NUL, heap |-> <<>>,
   cfg |-> cfg, acc |-> <<>>, outside |-> FALSE]

----------------------------------------------------------------------------
(* ReadAny.                                                                *)
ReadAny(r) ==
  LET s == NextToken(r)
      Lazy(tag, e) == Returns(e, <<tag, SubSeq(r.doc, s.pos, e.pos)>>)
      n == SkipNumber(s)
      str == ReadString(UnreadByte(s))
  IN CASE s.ret = "\"" -> Returns(str, <<"string", str.ret>>)
       [] s.ret = "n" -> Returns(SkipBytes(s, Ull), NilAny)
       [] s.ret = "t" -> Returns(SkipBytes(s, <<"r", "u", "e">>), <<"bool", TRUE>>)
       [] s.ret = "f" -> Returns(SkipBytes(s, <<"a", "l", "s", "e">>), <<"bool", FALSE>>)
       [] s.ret = "{" -> Lazy("objectLazy", ReadObjectCB(UnreadByte(s), Skip))
       [] s.ret = "[" -> Lazy("arrayLazy", ReadArrayCB(UnreadByte(s), Skip))
       [] s.ret = NUL -> Returns(s, Invalid)
       [] OTHER -> Returns(n, <<"number", SubSeq(r.doc, s.pos, n.pos), "nil">>)

\* ReadArray: whether there is an element to read
ReadArray(r) ==
  LET s == NextToken(r)
      First(c) == IF c.ret = "]" THEN Returns(c, FALSE) ELSE Returns(UnreadByte(c), TRUE)
  IN CASE s.ret = "n" -> Returns(SkipBytes(s, Ull), FALSE)
       [] s.ret = "[" -> First(NextToken(s))
       [] s.ret \in {"]", ","} -> Returns(s, s.ret = ",")
       [] OTHER -> Returns(ReportError(UnreadByte(s)), FALSE)

\* ReadObjectRaw: the name of the member to read, or Nil
ReadObjectRaw(r) ==
  LET s == NextToken(r)
      Colon(name, c) == Returns(IF c.ret # ":" THEN ReportError(UnreadByte(c)) ELSE c, name)
      Member(n) == IF Failed(n) THEN Returns(n, Nil) ELSE Colon(Name(n.ret), NextToken(n))
      First(c) ==
        CASE c.ret = "\"" -> Member(ReadStringInner(c))
          [] c.ret = "}" -> Returns(c, Nil)
          [] OTHER -> Returns(ReportError(c), Nil)
      Further(c) == IF c.ret = "n" THEN Returns(SkipBytes(c, Ull), Nil) ELSE Member(ReadString(s))
  IN CASE s.ret = "n" -> Returns(SkipBytes(s, Ull), Nil)
       [] s.ret = "{" -> First(NextToken(s))
       [] s.ret = "," -> Further(NextToken(s))
       [] s.ret = "}" -> Returns(s, Nil)
       [] OTHER -> Returns(ReportError(UnreadByte(s)), Nil)

\* findObjectField and findArrayElement stop before the value
RECURSIVE FindObjectField(_, _), FindArrayElement(_, _)
FindObjectField(r, name) ==
  LET s == ReadObjectRaw(r) IN
  IF s.ret = Nil THEN Returns(s, FALSE)
  ELSE IF s.ret = name THEN Returns(s, TRUE) ELSE FindObjectField(Skip(s), name)
FindArrayElement(r, n) ==
  LET s == ReadArray(r) IN
  IF ~s.ret THEN s ELSE IF n = 0 THEN s ELSE FindArrayElement(Skip(s), n - 1)

----------------------------------------------------------------------------
(* Wrap, of a value d of type t.  An []Any or a map[string]Any that Get    *)
(* returns has the type "[]Any" or "map[string]Any".                       *)
RECURSIVE Wrap(_, _)
Wrap(t, d) ==
  CASE t = "Any" -> d
    [] Types[t].kind \in {"eface", "iface"} -> IF d = Nil THEN NilAny ELSE Wrap(d[2], d[3])
    [] t = "string" -> <<"string", d[2]>>
    [] Types[t].kind = "bool" -> d
    [] Types[t].kind \in {"slice", "struct", "map", "int", "float"} -> <<"wrapped", t, d>>
    [] Types[t].kind = "number" -> Panics     \* a string type that is not string
    [] OTHER -> Invalid
Unless(anys, a) == IF \E i \in DOMAIN anys : anys[i] = Panics THEN Panics ELSE a
WrapArray(anys) == Unless(anys, Wrap("[]Any", <<"slice", anys, Len(anys)>>))
WrapMap(anys) == Unless(anys, Wrap("map[string]Any", <<"map", anys>>))

Elements(a) == IF a[3] = Nil THEN <<>> ELSE SubSeq(a[3][2], 1, a[3][3])
Entries(a) == IF a[3] = Nil THEN Empty ELSE a[3][2]
Kind(a) == IF a[1] = "wrapped" THEN Types[a[2]].kind ELSE a[1]

(* Get.  A simple value has no Get, not even of an empty path, except that *)
(* a string has.                                                           *)
RECURSIVE Get(_, _), LocatePath(_, _)
LocatePath(r, path) ==
  IF path = <<>> THEN IF Failed(r) THEN Returns(r, Invalid) ELSE ReadAny(r)
  ELSE
    LET Inside(a) == Returns(a, Get(a.ret, path))
        After(f) == IF f.ret THEN LocatePath(f, Tail(path)) ELSE Returns(f, Invalid)
    IN CASE path[1] = Star -> Inside(ReadAny(r))
         [] path[1][1] = "name" -> After(FindObjectField(r, path[1]))
         [] path[1][1] = "index" -> After(FindArrayElement(r, path[1][2]))

Kept(s, e, found) == IF found = Invalid THEN e ELSE [e EXCEPT !.acc = Append(s.acc, found)]

\* mutant: the callback of '*' reads the element of the array itself
EachElementInPlace(a, rest) ==
  LET InPlace(s, e) == Kept(s, e, e.ret)
      Element(s) == InPlace(s, LocatePath(s, rest))
  IN ReadArrayCB(Borrow(a[2]), Element).acc

EachElement(a, rest) ==
  LET Inside(s, e) == Kept(s, e, Get(e.ret, rest))
      Element(s) == Inside(s, ReadAny(s))
  IN ReadArrayCB(Borrow(a[2]), Element).acc

\* ... which is what objectLazyAny does: it may leave the rest of a member unread
EachMember(a, rest) ==
  LET InPlace(s, e) == IF e.ret = Invalid THEN e ELSE [e EXCEPT !.acc = (Str(s.ret) :> e.ret) @@ s.acc]
      Member(s) == InPlace(s, LocatePath(s, rest))
  IN ReadObjectCB([Borrow(a[2]) EXCEPT !.acc = Empty], Member).acc

\* the elements of a wrapped value with what Get returns of each that has the rest
Valid(found) == [i \in {i \in DOMAIN found : found[i] # Invalid} |-> found[i]]
WithRest(f, TypeOf(_), rest) == Valid([i \in DOMAIN f |-> Get(Wrap(TypeOf(i), f[i]), rest)])

\* the values of a function on some positions, in their order
RECURSIVE InOrder(_, _)
InOrder(f, n) == IF n = 0 THEN <<>>
                 ELSE InOrder(f, n - 1) \o (IF n \in DOMAIN f THEN <<f[n]>> ELSE <<>>)

\* arrayLazyAny, objectLazyAny
GetOfLazyArray(a, path) ==
  CASE path[1] = Star -> WrapArray(EachElement(a, Tail(path)))
    [] path[1][1] = "index" -> LocatePath(Borrow(a[2]), path).ret
    [] OTHER -> Invalid
GetOfLazyObject(a, path) ==
  CASE path[1] = Star -> WrapMap(EachMember(a, Tail(path)))
    [] path[1][1] = "name" -> LocatePath(Borrow(a[2]), path).ret
    [] OTHER -> Invalid

\* arrayAny, mapAny and objectAny take one step of a path that begins with a
\* name or an index
GetOfArray(a, path) ==
  LET elem == Types[a[2]].elem
      n == Len(Elements(a))
  IN CASE path[1] = Star -> WrapArray(InOrder(WithRest(Elements(a), LAMBDA i : elem, Tail(path)), n))
       [] path[1][1] = "index" /\ path[1][2] \in 0..(n - 1) -> Wrap(elem, Elements(a)[path[1][2] + 1])
       [] OTHER -> Invalid
GetOfMap(a, path) ==
  LET elem == Types[a[2]].elem
      key == Str(path[1][2])
  IN CASE path[1] = Star -> WrapMap(WithRest(Entries(a), LAMBDA k : elem, Tail(path)))
       [] path[1][1] = "index" -> Panics
       [] path[1][1] = "name" -> IF key \in DOMAIN Entries(a) THEN Wrap(elem, Entries(a)[key]) ELSE Invalid
GetOfStruct(a, path) ==
  LET fields == Types[a[2]].fields
      values == [i \in 1..Len(fields) |-> a[3][2][i]]
      Named(f, name) == CHOOSE i \in DOMAIN f : fields[i].name = name
      ByName(found) == [k \in {Str(fields[i].name) : i \in DOMAIN found} |-> found[Named(found, k[2])]]
  IN CASE path[1] = Star -> WrapMap(ByName(WithRest(values, LAMBDA i : fields[i].type, Tail(path))))
       [] path[1][1] = "name" /\ \E i \in 1..Len(fields) : fields[i].name = path[1][2] ->
            LET i == Named(values, path[1][2]) IN Wrap(fields[i].type, values[i])
       [] OTHER -> Invalid

Get(a, path) ==
  CASE path = <<>> -> IF Kind(a) \in {"string", "arrayLazy", "objectLazy", "slice", "map", "struct"}
                      THEN a ELSE Invalid
    [] Kind(a) = "arrayLazy" -> GetOfLazyArray(a, path)
    [] Kind(a) = "objectLazy" -> GetOfLazyObject(a, path)
    [] Kind(a) = "slice" -> GetOfArray(a, path)
    [] Kind(a) = "map" -> GetOfMap(a, path)
    [] Kind(a) = "struct" -> GetOfStruct(a, path)
    [] OTHER -> Invalid

----------------------------------------------------------------------------
(* What is in an Any.                                                      *)
GetInterface(a) ==
  LET Plainly(r) == Deep("interface {}", r.ret, r.heap) IN
  CASE a[1] \in {"number", "arrayLazy", "objectLazy"} -> Plainly(Read(Borrow(a[2])))
    [] a[1] = "string" -> Iface("string", Str(a[2]))
    [] a[1] = "bool" -> Iface("bool", a)
    [] a[1] = "wrapped" -> Iface(a[2], a[3])
    [] OTHER -> Nil

\* the names of a lazy object in the order of the text
Keys(a) ==
  LET Member(s) == [Skip(s) EXCEPT !.acc = Append(s.acc, s.ret)] IN ReadObjectCB(Borrow(a[2]), Member).acc

LazyArraySize(a) ==
  LET Element(s) == [Skip(s) EXCEPT !.acc = Append(s.acc, s.ret)]
  IN Len(ReadArrayCB(Borrow(a[2]), Element).acc)
LazyObjectSize(a) ==
  LET RECURSIVE Members(_)
      Members(r) == LET s == ReadObjectRaw(r) IN IF s.ret = Nil THEN 0 ELSE 1 + Members(Skip(s))
  IN Members(Borrow(a[2]))
Size(a) ==
  CASE Kind(a) = "arrayLazy" -> LazyArraySize(a)
    [] Kind(a) = "objectLazy" -> LazyObjectSize(a)
    [] Kind(a) = "slice" -> Len(Elements(a))
    [] Kind(a) = "map" -> Cardinality(DOMAIN Entries(a))
    [] Kind(a) = "struct" -> Len(Types[a[2]].fields)
    [] OTHER -> 0

----------------------------------------------------------------------------
(* Conversions.  A number is counted in hundredths; overflow is the        *)
(* subject of module IntCodec.                                             *)
Value(digits) ==
  LET v[k \in 0..Len(digits)] == IF k = 0 THEN 0 ELSE 10 * v[k - 1] + (IF digits[k] = "1" THEN 1 ELSE 0)
  IN v[Len(digits)]
Signed(text, n) == IF text # <<>> /\ text[1] = "-" THEN -n ELSE n
Unsigned(text) == IF text # <<>> /\ text[1] \in Signs THEN Tail(text) ELSE text
Mantissa(text) == Leading(text, NumberBytes \ Exponents)
AfterMantissa(text) == SubSeq(text, Len(Mantissa(text)) + 1, Len(text))
Power(text) ==
  LET e == AfterMantissa(text) IN IF e = <<>> THEN 0 ELSE Signed(Tail(e), Value(Unsigned(Tail(e))))
Hundredths(text) ==
  LET m == Unsigned(Mantissa(text))
      whole == Leading(m, Digits)
      places == SubSeq(m, Len(whole) + 2, Len(m))
      shift == 2 - Len(places) + Power(text)
      n == Value(whole \o places)
  IN Signed(text, IF shift < 0 THEN n \div 10 ^ (-shift) ELSE n * 10 ^ shift)
Truncated(n) == IF n < 0 THEN -((-n) \div 100) ELSE n \div 100

\* strconv.ParseFloat, 0 of what it refuses
ParseFloat(text) == IF ParsesAsFloat(text) THEN Hundredths(text) ELSE 0

AsOne(b) == IF b THEN 1 ELSE 0

\* stringAny: 0 and white space are false; an integer is read up to what is no
\* digit, a float up to what no number has
StringToBool(text) == text # <<"0">> /\ Leading(text, {" "}) # text
StringToInt(text) == Signed(text, Value(Leading(Unsigned(text), Digits)))
StringToFloat(text) ==
  IF text = <<>> \/ text[1] \notin Digits \cup Signs THEN 0
  ELSE ParseFloat(<<text[1]>> \o Leading(Tail(text), NumberBytes))

\* numberLazyAny: what the Iterator reads
NumberToFloat(a) == Hundredths(ReadFloat(Borrow(a[2])).ret)
NumberToInt(a) == LET Number(n) == Signed(n, Value(Unsigned(n))) IN Number(ReadInt(Borrow(a[2])).ret)

\* arrays are 1 unless they are empty, objects are 0 but true
ArrayToBool(a) == IF a[1] = "arrayLazy" THEN ReadArray(Borrow(a[2])).ret ELSE Elements(a) # <<>>
ObjectToBool(a) == Kind(a) = "struct" => Types[a[2]].fields # <<>>
IsObject(a) == Kind(a) \in {"objectLazy", "map", "struct"}

ToBool(a) ==
  CASE a[1] = "bool" -> a[2]
    [] a[1] = "number" -> NumberToFloat(a) # 0
    [] a[1] = "string" -> StringToBool(a[2])
    [] Kind(a) \in {"arrayLazy", "slice"} -> ArrayToBool(a)
    [] IsObject(a) -> ObjectToBool(a)
    [] Kind(a) \in {"int", "float"} -> Hundredths(a[3][2]) # 0
    [] OTHER -> FALSE

ToFloat(a) ==
  CASE a[1] = "number" -> NumberToFloat(a)
    [] a[1] = "string" -> StringToFloat(a[2])
    [] Kind(a) \in {"int", "float"} -> Hundredths(a[3][2])
    [] OTHER -> 100 * AsOne(~IsObject(a) /\ ToBool(a))

ToInt(a) ==
  CASE a[1] = "number" -> NumberToInt(a)
    [] a[1] = "string" -> StringToInt(a[2])
    [] OTHER -> Truncated(ToFloat(a))

\* mutant: the sign is only dropped
ToUintUnsigned(a) ==
  LET n == ToInt(a) IN IF n < 0 THEN -n ELSE n

\* what has a minus is 0, but int32Any and int64Any convert what they have
ToUint(a) ==
  LET n == ToInt(a) IN
  CASE Kind(a) = "int" -> n % Word
    [] n < 0 -> 0
    [] OTHER -> n

TextOf(a) ==
  CASE a[1] \in {"number", "arrayLazy", "objectLazy", "string"} -> a[2]
    [] a[1] = "bool" -> IF a[2] THEN <<"t", "r", "u", "e">> ELSE <<"f", "a", "l", "s", "e">>
    [] OTHER -> <<>>              \* Marshal of a wrapped value is the subject of module Stream

\* LastError after ToInt or ToUint, which keep what the Iterator says of a number
ErrorOf(a, ReadIt(_)) ==
  LET r == ReadIt(Borrow(a[2])) IN IF Failed(r) THEN "bad" ELSE a[3]
ReadUint(r) == IF NextToken(r).ret = "-" THEN ReportError(NextToken(r)) ELSE ReadInt(r)

----------------------------------------------------------------------------
(* Actions.                                                                *)

\* frozenConfig.Get
GetData(doc, path) ==
  /\ any = NoAny
  /\ any' = LocatePath(Borrow(doc), path).ret
  /\ gets' = gets + 1

\* Wrap of what a variable has now
WrapValue(t, d) == any = NoAny /\ any' = Wrap(t, d) /\ UNCHANGED gets

Follow(path) ==
  /\ any \notin {NoAny, Panics} /\ gets < MaxGets
  /\ any' = Get(any, path)
  /\ gets' = gets + 1

Convert ==
  /\ any[1] = "number"
  /\ \E ReadIt \in {"ReadInt64", "ReadUint64"} :
       any' = [any EXCEPT ![3] = IF ReadIt = "ReadInt64" THEN ErrorOf(any, ReadInt) ELSE ErrorOf(any, ReadUint)]
  /\ UNCHANGED gets
=============================================================================
