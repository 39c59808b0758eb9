------------------------------ MODULE MCDecode ------------------------------
(* Decode on small types and texts.                                        *)
EXTENDS AnySpec

Basic(kind) == [kind |-> kind, elem |-> "int", key |-> "int", len |-> 0, fields |-> <<>>]
Of(kind, elem) == [Basic(kind) EXCEPT !.elem = elem]
ArrayOf(n, elem) == [Of("array", elem) EXCEPT !.len = n]
MapOf(key, elem) == [Of("map", elem) EXCEPT !.key = key]
StructOf(fields) ==
  [Basic("struct") EXCEPT !.fields = [i \in 1..Len(fields) |-> [name |-> Chars(fields[i][1]), type |-> fields[i][2]]]]

MCTypes ==
  LET named == [k \in {"int", "float64", "string", "bool"} |-> Basic(IF k = "float64" THEN "float" ELSE k)] IN
  named @@
  ("interface {}" :> Basic("eface")) @@ ("json.Number" :> Basic("number")) @@
  ("[]interface {}" :> Of("slice", "interface {}")) @@
  ("map[string]interface {}" :> MapOf("string", "interface {}")) @@
  ("*int" :> Of("ptr", "int")) @@ ("**int" :> Of("ptr", "*int")) @@
  ("[]int" :> Of("slice", "int")) @@ ("[]byte" :> Of("bytes", "int")) @@
  ("Node" :> StructOf(<< <<"v", "int">>, <<"n", "*Node">>, <<"s", "[]Leaf">> >>)) @@
  ("*Node" :> Of("ptr", "Node")) @@
  ("Leaf" :> StructOf(<< <<"a", "int">>, <<"b", "*int">> >>)) @@
  ("[]Leaf" :> Of("slice", "Leaf")) @@ ("*Leaf" :> Of("ptr", "Leaf")) @@
  ("[]*Leaf" :> Of("slice", "*Leaf")) @@
  ("[2]*Leaf" :> ArrayOf(2, "*Leaf")) @@ ("[0]int" :> ArrayOf(0, "int")) @@
  ("map[string]*Leaf" :> MapOf("string", "*Leaf")) @@ ("map[int]int" :> MapOf("int", "int")) @@
  ("Small" :> StructOf(<< <<"r", "json.RawMessage">>, <<"y", "[]byte">>, <<"u", "Unmarshaler">>,
                          <<"q", "quoted">>, <<"t", "Text">>, <<"o", "bool">>, <<"m", "map[int]int">> >>)) @@
  ("json.RawMessage" :> Basic("raw")) @@ ("Unmarshaler" :> Basic("unmarshaler")) @@
  ("Text" :> Basic("text")) @@ ("quoted" :> Of("quoted", "int")) @@
  ("Empty" :> StructOf(<<>>)) @@ ("Holder" :> StructOf(<< <<"x", "interface {}">>, <<"i", "iface">> >>)) @@
  ("[]Any" :> Of("slice", "Any")) @@ ("map[string]Any" :> MapOf("string", "Any")) @@
  ("iface" :> Basic("iface")) @@
  ("Fuzzy" :> StructOf(<< <<"s", "string">>, <<"i", "int">>, <<"f", "float64">>, <<"e", "Empty">>,
                          <<"l", "*Leaf">>, <<"m", "map[string]*Leaf">>, <<"k", "map[int]int">> >>))

----------------------------------------------------------------------------
One == JNum("1")
Ten == JNum("10")
L(ms) == JObj(ms)

LeafTexts == {L(<< <<"a", One>> >>), L(<< <<"b", Ten>> >>), L(<< <<"b", Null>>, <<"a", Ten>> >>)}
ListTexts ==
  {Null, JArr(<<>>), JArr(<<Null>>)} \cup {JArr(<<x>>) : x \in LeafTexts} \cup
  {JArr(<<x, y>>) : x \in LeafTexts, y \in LeafTexts} \cup
  {JArr(<<x, Null, y>>) : x \in LeafTexts, y \in {L(<<>>)}}
Anything ==
  {Null, One, JNum("0.1"), JStr("s"), JBool(TRUE), JArr(<<>>), JObj(<<>>), JArr(<<JStr("1"), Null, JArr(<<JBool(FALSE)>>)>>),
   JObj(<< <<"v", JArr(<<One>>)>>, <<"n", Null>>, <<"v", Ten>> >>)}
BadTexts ==
  {"", "[", "[1", "[1,", "[1}", "{", "{\"v\"", "{\"v\":", "{\"v\":1", "{\"v\":1]", "{\"v\"1}", "nul",
   "[]]", "{}1", "1 1", "x", "[x]", "{x:1}", "{1:1}", "{\"v\":1,}", "[1,]", "tru", "\"s"}
BadNumbers == {"1.", "-", "01"}
BadLists == {"[{\"a\":1}", "[{\"a\":1},", "[{\"b\":1}{", "[{\"a\":x},{\"b\":1}]", "[{\"b\":1}]1", "{\"a\":{\"b\":1}", "{\"a\":{\"b\":1},"}

NodeTexts ==
  {L(<< <<"v", One>> >>), L(<< <<"n", Null>>, <<"v", Null>> >>), L(<< <<"n", L(<< <<"v", Ten>> >>)>> >>),
   L(<< <<"s", JArr(<<L(<< <<"b", One>> >>)>>)>>, <<"n", L(<< <<"n", L(<<>>)>> >>)>> >>),
   L(<< <<"s", JArr(<<Null, L(<< <<"a", One>> >>)>>)>>, <<"z", JArr(<<JBool(TRUE), Null>>)>>, <<"v", JNum("-11")>> >>)}
MapTexts ==
  {L(<<>>), L(<< <<"a", Null>> >>)} \cup {L(<< <<k, x>> >>) : k \in {"a", "b"}, x \in LeafTexts} \cup
  {L(<< <<"a", x>>, <<"b", y>> >>) : x \in LeafTexts, y \in LeafTexts} \cup
  {L(<< <<"a", x>>, <<"a", y>> >>) : x \in LeafTexts, y \in LeafTexts}
SmallTexts ==
  {L(<< <<"r", x>>, <<"u", x>>, <<"o", JBool(TRUE)>> >>) : x \in Anything \ {Null}} \cup
  {L(<< <<"y", y>>, <<"t", JStr("s")>> >>) :
     y \in {Null, JStr(""), JStr("abcdefgh"), JStr("abc"), JArr(<<One, Ten>>), One}} \cup
  {L(<< <<"q", q>>, <<"m", m>> >>) : q \in {Null, JStr("1"), JStr("s"), One},
     m \in {Null, L(<< <<"1", One>> >>), L(<< <<"10", Ten>>, <<"1", Null>> >>), L(<< <<"s", One>> >>)}} \cup
  {L(<< <<"u", JStr("no")>> >>), L(<< <<"t", JStr("no")>> >>), L(<< <<"u", Null>>, <<"m", One>> >>), L(<< <<"t", One>> >>)}
BadSmall == {"{\"m\":{\"1:1}}", "{\"m\":{1:1}}", "{\"m\":{\"1 \":1}", "{\"q\":\"1}", "{\"q\":\"1,\"o\":true}", "{\"r\":}", "{\"u\":[}"}
AnyTexts == {L(<< <<k, x>> >>) : k \in {"x", "i"}, x \in Anything \cup LeafTexts}
\* to look into, and to convert
Nested ==
  {JArr(<<JArr(<<One>>), JArr(<<Ten, JStr("s")>>)>>), JArr(<<JObj(<< <<"a", One>> >>), JObj(<< <<"b", JArr(<<Ten>>)>>, <<"a", Null>> >>)>>),
   JObj(<< <<"a", JArr(<<One, JStr("s")>>)>>, <<"b", JObj(<< <<"a", JStr("0")>> >>)>> >>),
   JArr(<<JStr("-10.1s"), JStr("+1"), JNum("-1.1")>>)} \cup
  {JStr(s) : s \in {"-10.1s", "+1", "", "0", "s1", "1.s", "-s", "+1.1e1", "1e", "1e1s", "1+1"}} \cup {JNum(s) : s \in {"-1.1", "-0", "10.01", "1e1", "-10e-1"}}
PtrTexts == {Null, One, JStr("s")}

\* for the fuzzy decoders: members of each kind, and a struct that is an array
Numbers == {JNum("-1.1"), JNum("-0.1"), JNum("10"), JStr("-10.1"), JStr("1"), JStr("0.1")}
FuzzyTexts ==
  {L(<< <<k, x>> >>) : k \in {"s", "i", "f", "e", "l", "m", "k"}, x \in Numbers \cup Anything} \cup
  {L(<< <<k, x>> >>) : k \in {"i", "f"}, x \in {JStr(""), JStr("s1"), JStr("1."), JStr("-")}} \cup
  {L(<< <<"l", L(<< <<"a", JStr("1")>> >>)>>, <<"m", L(<< <<"s", JArr(<<>>)>>, <<"a", L(<<>>)>> >>)>> >>),
   L(<< <<"k", L(<< <<"1", JStr("10")>>, <<"10", Null>> >>)>>, <<"l", JArr(<<One>>)>> >>)}
BadFuzzy ==
  {"{\"i\":[}", "{\"i\":tru}", "{\"s\":", "{\"f\":nul}", "{\"l\":[1}", "{\"l\":[}", "{\"i\":\"1}", "[1", "[]]", "[]1"}

FuzzyInputs ==
  ("Fuzzy" :> Good(FuzzyTexts \cup Anything) \cup Bad(BadFuzzy)) @@
  ("[]Leaf" :> Good({JArr(<<x, y>>) : x \in LeafTexts \cup {JArr(<<>>)}, y \in LeafTexts \cup {JArr(<<>>)}}))
PlainInputs ==
  [t \in {"Node", "*Node"} |-> Good(NodeTexts \cup Anything) \cup Bad(BadTexts \ {"{\"v\":1,}"})] @@
  [t \in {"[]Leaf", "[]*Leaf"} |-> Good(ListTexts \cup Anything) \cup Bad(BadTexts \cup BadLists)] @@
  ("[2]*Leaf" :> Good({x \in ListTexts : x = Null \/ Len(x[2]) >= 2} \cup {One}) \cup Bad(BadLists)) @@
  ("map[string]*Leaf" :> Good(MapTexts \cup Anything) \cup Bad(BadTexts \cup BadLists)) @@
  ("interface {}" :> Good(Anything \cup LeafTexts \cup Nested) \cup Bad(BadTexts)) @@
  ("Holder" :> Good(AnyTexts \cup Anything)) @@
  ("Small" :> Good(SmallTexts) \cup Bad(BadSmall)) @@
  ("Empty" :> Good(Anything) \cup Bad(BadTexts \ {"{\"v\":1,}"})) @@
  ("**int" :> Good(PtrTexts)) @@ ("float64" :> Good(Anything) \cup Bad(BadTexts \cup BadNumbers)) @@
  ("[0]int" :> Good({Null, JArr(<<>>), JArr(<<One>>), JArr(<<One, Ten>>), One}) \cup Bad(BadTexts))
MCInputs ==
  [fuzzy \in BOOLEAN |-> [t \in DOMAIN MCTypes |->
     LET inputs == IF fuzzy THEN FuzzyInputs ELSE PlainInputs IN
     IF t \in DOMAIN inputs THEN inputs[t] ELSE {}]]

MCPaths ==
  {<<>>, <<Star>>} \cup {<<p>> : p \in {Name(<<"a">>), Name(<<"b">>), Name(<<"v">>), Name(<<"x">>)}} \cup {<<Index(i)>> : i \in -1..2} \cup
  {<<Star, Index(0)>>, <<Star, Name(<<"a">>)>>, <<Index(1), Name(<<"b">>), Index(0)>>, <<Index(0), Star, Index(0)>>,
   <<Name(<<"b">>), Star>>, <<Index(0), Index(0)>>, <<Name(<<"a">>), Index(1)>>}

Var(t) == [type |-> t, value |-> Zero(t), heap |-> <<>>]
Filled == {[type |-> "Holder", value |-> <<"struct", <<Iface("*Leaf", <<"ptr", 1>>), Iface("*int", <<"ptr", 2>>)>> >>,
            heap |-> <<Zero("Leaf"), Num(<<"1", "0">>)>>],
           [type |-> "Holder", value |-> <<"struct", <<Iface("**int", <<"ptr", 2>>), Iface("int", Num(<<"1">>))>> >>,
            heap |-> <<Num(<<"1">>), <<"ptr", 1>> >>],
           [type |-> "Holder", value |-> <<"struct", <<Iface("int", Num(<<"-", "1">>)), Iface("*int", Nil)>> >>, heap |-> <<>>],
           [type |-> "Holder", value |-> <<"struct", <<Iface("*Leaf", Nil), Nil>> >>, heap |-> <<>>],
           [type |-> "Holder", value |-> <<"struct", <<Iface("**int", Nil), Nil>> >>, heap |-> <<>>],
           [type |-> "[]Leaf", value |-> <<"slice", 1, 1>>,
            heap |-> << <<Zero("Leaf"), <<"struct", <<Num(<<"1">>), <<"ptr", 2>> >> >> >>, Num(<<"1">>)>>],
           [type |-> "[]*Leaf", value |-> <<"slice", 1, 0>>,
            heap |-> << << <<"ptr", 2>>, Nil>>, Zero("Leaf")>>],
           [type |-> "map[string]*Leaf", value |-> <<"map", 1>>,
            heap |-> << Str(<<"a">>) :> <<"ptr", 2>>, Zero("Leaf")>>]}
MCDestinations ==
  Filled \cup {Var(t) : t \in {"Node", "*Node", "[]Leaf", "[]*Leaf", "[2]*Leaf", "map[string]*Leaf", "interface {}",
                               "Holder", "Small", "Empty", "Fuzzy", "[0]int", "**int", "float64"}}
MCConfigs == {c \in [UseNumber : BOOLEAN, DisallowUnknownFields : BOOLEAN, Fuzzy : BOOLEAN] :
                c.Fuzzy => ~c.UseNumber /\ c.DisallowUnknownFields}
MCRefused == Chars("\"no\"")

MCExplored ==
  {"interface {}", "Holder"} \X {[UseNumber |-> FALSE, DisallowUnknownFields |-> FALSE, Fuzzy |-> FALSE]} \cup
  {<<"interface {}", [UseNumber |-> TRUE, DisallowUnknownFields |-> FALSE, Fuzzy |-> FALSE]>>}
=============================================================================
