--------------------------- MODULE UnmarshalSpec ---------------------------
(* What encoding/json documents for Unmarshal, on trees: a JSON value is a *)
(* tree, a Go value one with what it refers to.  A slice is reset to       *)
(* length 0 and appended to, in its old array.  And what the decoders of   *)
(* module Decode owe to it.                                                *)
EXTENDS Decode, FiniteSets, SequencesExt

----------------------------------------------------------------------------
(* JSON trees and their texts.                                             *)
Chars(s) == [i \in 1..Len(s) |-> SubSeq(s, i, i)]
Null == <<"null">>
JBool(b) == <<"bool", b>>
JNum(s) == <<"num", Chars(s)>>
JStr(s) == <<"str", Chars(s)>>
JArr(elements) == <<"arr", elements>>
JObj(members) == <<"obj", [i \in 1..Len(members) |-> <<Chars(members[i][1]), members[i][2]>>]>>
Broken == <<"broken">>

RECURSIVE Text(_)
Joined(texts) == FlattenSeq([i \in 1..Len(texts) |-> IF i = 1 THEN texts[i] ELSE <<",", " ">> \o texts[i]])
Text(j) ==
  CASE j[1] = "null" -> Chars("null")
    [] j[1] = "bool" -> Chars(IF j[2] THEN "true" ELSE "false")
    [] j[1] = "num" -> j[2]
    [] j[1] = "str" -> <<"\"">> \o j[2] \o <<"\"">>
    [] j[1] = "arr" -> <<"[">> \o Joined([i \in 1..Len(j[2]) |-> Text(j[2][i])]) \o <<"]">>
    [] j[1] = "obj" ->
         <<"{", " ">> \o Joined([i \in 1..Len(j[2]) |->
                     <<"\"">> \o j[2][i][1] \o <<"\"", " ", ":">> \o Text(j[2][i][2])]) \o <<"}">>

Good(trees) == {[doc |-> <<" ">> \o Text(j) \o <<" ">>, tree |-> j] : j \in trees}
Bad(strings) == {[doc |-> Chars(s), tree |-> Broken] : s \in strings}

----------------------------------------------------------------------------
(* The documentation of Unmarshal.                                         *)
FieldOf(T, name) == {i \in 1..Len(T.fields) : T.fields[i].name = name}

\* fuzzy_decoder.go:18 "It will handle string/number auto conversation, and
\* treat empty [] as empty struct"; the code takes any array for an empty struct
Convertible(T, j) ==
  LET isNumber(s) == ValidFloat(IF s # <<>> /\ Head(s) = "-" THEN Tail(s) ELSE s) IN
  CASE T.kind = "int" -> j[1] = "bool" \/ (j[1] \in {"num", "str"} /\ (isNumber(j[2]) \/ j[2] = <<>>))
    [] T.kind = "float" -> j[1] = "bool" \/ (j[1] \in {"num", "str"} /\ isNumber(j[2]))
    [] T.kind = "string" -> j[1] \in {"num", "str"}
    [] T.kind \in {"map", "struct"} -> j[1] = "arr"
    [] OTHER -> FALSE
Converted(T, j) ==
  LET text == CASE j = Null -> <<"0">>
                [] j[1] = "bool" -> IF j[2] THEN <<"1">> ELSE <<"0">>
                [] OTHER -> IF j[2] = <<>> THEN <<"0">> ELSE j[2]
  IN CASE T.kind = "int" -> Num(IntegerPart(text))
       [] T.kind = "float" -> Num(text)
       [] T.kind = "string" -> Str(IF j = Null THEN <<>> ELSE j[2])

\* the text is of a kind that the variable can hold
RECURSIVE Fits(_, _, _)
Fits(t, d, j) ==
  LET T == Types[t]
      All == \A i \in 1..Len(j[2]) : Fits(T.elem, Zero(T.elem), j[2][i])
  IN CASE j = Null \/ (cfg.Fuzzy /\ Convertible(T, j)) -> TRUE
       [] T.kind = "int" -> j[1] = "num" /\ ToSet(j[2]) \subseteq Digits \cup {"-"}
       [] T.kind \in {"float", "number"} -> j[1] = "num"
       [] T.kind = "bool" -> j[1] = "bool"
       [] T.kind = "string" -> j[1] = "str"
       [] T.kind = "raw" -> TRUE
       [] T.kind = "unmarshaler" -> Text(j) # Refused
       [] T.kind = "text" -> j[1] = "str" /\ j[2] # Refused
       [] T.kind = "quoted" -> j[1] = "str" /\ Fits(T.elem, d, <<"num", j[2]>>)
       [] T.kind = "ptr" -> Fits(T.elem, IF d = Nil THEN Zero(T.elem) ELSE d[2], j)
       [] T.kind = "bytes" -> IF j[1] = "str" THEN Len(j[2]) % 4 = 0 ELSE j[1] = "arr" /\ All
       [] T.kind \in {"slice", "array"} -> j[1] = "arr" /\ All
       [] T.kind = "map" -> j[1] = "obj" /\ \A i \in 1..Len(j[2]) :
            /\ Fits(T.elem, Zero(T.elem), j[2][i][2])
            /\ Types[T.key].kind = "string" \/ Fits(T.key, Zero(T.key), <<"num", j[2][i][1]>>)
       [] T.kind = "struct" -> j[1] = "obj" /\ \A i \in 1..Len(j[2]) :
            LET f == FieldOf(T, j[2][i][1]) IN
            IF f = {} THEN ~cfg.DisallowUnknownFields
            ELSE \A k \in f : Fits(T.fields[k].type, d[2][k], j[2][i][2])
       [] T.kind = "eface" -> d = Nil \/ Types[d[2]].kind # "ptr" \/ Fits(d[2], d[3], j)
       [] T.kind = "iface" -> d # Nil /\ Types[d[2]].kind = "ptr" /\ d[3] # Nil /\ Fits(d[2], d[3], j)

RECURSIVE Plain(_)
Plain(j) ==
  CASE j = Null -> Nil
    [] j[1] = "bool" -> Iface("bool", Bool(j[2]))
    [] j[1] = "str" -> Iface("string", Str(j[2]))
    [] j[1] = "num" -> IF cfg.UseNumber THEN Iface("json.Number", Str(j[2])) ELSE Iface("float64", Num(j[2]))
    [] j[1] = "arr" -> Iface("[]interface {}",
                         <<"slice", [i \in 1..Len(j[2]) |-> Plain(j[2][i])], Len(j[2])>>)
    [] j[1] = "obj" -> Iface("map[string]interface {}",
         <<"map", [k \in {Str(j[2][i][1]) : i \in 1..Len(j[2])} |->
                     Plain(j[2][CHOOSE i \in 1..Len(j[2]) : /\ k = Str(j[2][i][1])
                                  /\ \A n \in (i + 1)..Len(j[2]) : k # Str(j[2][n][1])][2])]>>)

\* the value after Unmarshal, if the text fits; the type of a pointer in an
\* interface is kept also when the pointer is nil, where encoding/json would
\* store a plain value
RECURSIVE Assign(_, _, _)
Assign(t, d, j) ==
  LET T == Types[t]
      n == Len(j[2])
      old == IF d = Nil THEN <<>> ELSE d[2]
      Element(seq, i) == Assign(T.elem, IF i <= Len(seq) THEN seq[i] ELSE Zero(T.elem), j[2][i])
      Rest(seq) == IF n = 0 THEN <<>> ELSE SubSeq(seq, n + 1, Len(seq))
      Key(i) == IF Types[T.key].kind = "string" THEN Str(j[2][i][1]) ELSE Num(j[2][i][1])
      Put(i, m) == (Key(i) :> Assign(T.elem, Zero(T.elem), j[2][i][2])) @@ m
      Set(i, f) == [k \in DOMAIN f |-> IF k \in FieldOf(T, j[2][i][1])
                                       THEN Assign(T.fields[k].type, f[k], j[2][i][2]) ELSE f[k]]
      Folded(Step(_, _), x) == FoldLeft(LAMBDA y, i : Step(i, y), x, [i \in 1..n |-> i])
  IN CASE cfg.Fuzzy /\ T.kind \in {"int", "float", "string"} -> Converted(T, j)
       [] cfg.Fuzzy /\ T.kind \in {"map", "struct"} /\ j[1] = "arr" -> Assign(t, d, JObj(<<>>))
       [] T.kind = "unmarshaler" -> Str(Text(j))
       [] j = Null -> IF T.kind \in {"ptr", "slice", "bytes", "map", "iface"} THEN Nil
                      ELSE IF T.kind # "eface" THEN d
                      ELSE IF d = Nil \/ Types[d[2]].kind # "ptr" THEN Nil
                      ELSE IF Types[Types[d[2]].elem].kind # "ptr" THEN Nil
                      ELSE Iface(d[2], <<"ptr", Nil>>)
       [] T.kind \in {"int", "float"} -> Num(j[2])
       [] T.kind = "quoted" -> Num(j[2])
       [] T.kind \in {"string", "text", "number"} -> Str(j[2])
       [] T.kind = "bool" -> Bool(j[2])
       [] T.kind = "raw" -> Str(Text(j))
       [] T.kind = "ptr" -> <<"ptr", Assign(T.elem, IF d = Nil THEN Zero(T.elem) ELSE d[2], j)>>
       [] T.kind = "bytes" /\ j[1] = "str" ->
            <<"slice", [i \in 1..(n \div 4) |-> Num(SubSeq(j[2], 4 * i - 3, 4 * i))], n \div 4>>
       [] T.kind \in {"slice", "bytes"} ->
            <<"slice", [i \in 1..n |-> Element(old, i)] \o Rest(old), n>>
       [] T.kind = "array" ->
            <<"array", [i \in 1..T.len |-> IF i <= n THEN Element(d[2], i) ELSE Zero(T.elem)]>>
       [] T.kind = "map" -> <<"map", Folded(Put, IF d = Nil THEN Empty ELSE d[2])>>
       [] T.kind = "struct" -> <<"struct", Folded(Set, d[2])>>
       [] T.kind = "eface" -> IF d = Nil \/ Types[d[2]].kind # "ptr" THEN Plain(j)
                              ELSE Iface(d[2], Assign(d[2], d[3], j))
       [] T.kind = "iface" -> Iface(d[2], Assign(d[2], d[3], j))

\* what a program sees of a value: a slice ends with its length
RECURSIVE Shown(_)
Shown(d) ==
  CASE d[1] = "slice" -> <<"slice", [i \in 1..d[3] |-> Shown(d[2][i])]>>
    [] d[1] = "ptr" -> <<"ptr", Shown(d[2])>>
    [] d[1] \in {"array", "map", "struct"} -> <<d[1], [i \in DOMAIN d[2] |-> Shown(d[2][i])]>>
    [] d[1] = "iface" -> <<"iface", d[2], Shown(d[3])>>
    [] OTHER -> d

----------------------------------------------------------------------------
(* Properties.                                                             *)

\* the objects a variable refers to, once for each reference; `into` says
\* whether those of the elements of maps count
RECURSIVE Objects(_, _, _, _)
Objects(t, v, h, into) ==
  LET T == Types[t]
      All(seq) == FlattenSeq([i \in 1..Len(seq) |-> Objects(T.elem, seq[i], h, into)])
  IN CASE v = Nil -> <<>>
       [] T.kind = "ptr" -> <<v[2]>> \o Objects(T.elem, h[v[2]], h, into)
       [] T.kind \in {"slice", "bytes"} -> <<v[2]>> \o All(h[v[2]])
       [] T.kind = "array" -> All(v[2])
       [] T.kind = "map" ->
            LET keys == SetToSeq(DOMAIN h[v[2]]) IN
            <<v[2]>> \o (IF into THEN All([i \in 1..Len(keys) |-> h[v[2]][keys[i]]]) ELSE <<>>)
       [] T.kind = "struct" ->
            FlattenSeq([i \in 1..Len(v[2]) |-> Objects(T.fields[i].type, v[2][i], h, into)])
       [] T.kind \in {"eface", "iface"} ->
            IF into \/ Types[v[2]].kind = "ptr" THEN Objects(v[2], v[3], h, into) ELSE <<>>
       [] OTHER -> <<>>

\* Type invariant: what the variable refers to has been allocated, a slice is
\* not longer than the array it is in, and only of an array without elements is
\* memory written that it does not have (the first element, reflect_array.go:85).
TypeOK ==
  /\ cfg \in Configs /\ type \in DOMAIN Types /\ calls \in 0..MaxCalls
  /\ LET all == Objects(type, dest, heap, TRUE) IN ToSet(all) \subseteq 1..Len(heap)
  /\ Types[type].kind = "slice" /\ dest # Nil => dest[3] \in 0..Len(heap[dest[2]])
  /\ last.outside => Types[type].len = 0



\* After any calls, failed ones too, no two parts of the variable share memory:
\* a later call that fills one does not change the other.
NothingShared ==
  LET all == Objects(type, dest, heap, TRUE) IN Len(all) = Cardinality(ToSet(all))

\* What the program has kept of the variable and that the variable does not
\* refer to any more, or only through the elements of a map or a plain value
\* in an interface, is never written to.
KeptIsKept ==
  [][LET filled == ToSet(Objects(type, dest, heap, FALSE)) IN
     \A a \in DOMAIN heap \ filled : heap'[a] = heap[a]]_vars
=============================================================================
