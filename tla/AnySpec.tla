------------------------------ MODULE AnySpec ------------------------------
(* A program that decodes into variables, looks into texts with Get and    *)
(* into its variables with Wrap and Get: modules Decode and Any together,  *)
(* and what an Any stands for, as a JSON tree.                             *)
EXTENDS UnmarshalSpec, Any

CONSTANT Explored   \* bound: <<type, cfg>> of the variables and texts that are looked into

VARIABLES
  found,      \* the tree that the Gets so far lead to, or Absent
  departed    \* whether one of them panicked or is a known departure, see Departs
allVars == <<vars, anyVars, found, departed>>
spec == <<found, departed>>

Absent == <<"absent">>
Simple(j) == j[1] \in {"null", "bool", "num"}

----------------------------------------------------------------------------
\* the members of an object that are there, of one name the last
Members(all) ==
  LET there == {i \in 1..Len(all) : all[i][2] # Absent}
      kept == {i \in there : \A n \in there : n > i => all[n][1] # all[i][1]}
      order == SetToSortSeq(kept, LAMBDA x, y : x < y)
  IN [i \in 1..Len(order) |-> all[order[i]]]

\* the value at the end of a path; '*' gives those of all elements that have one
RECURSIVE Lookup(_, _)
Lookup(j, path) ==
  LET rest == Tail(path)
      Deeper(x) == Lookup(x, rest)
      members == [i \in 1..Len(j[2]) |-> <<j[2][i][1], Deeper(j[2][i][2])>>]
      named == {i \in 1..Len(j[2]) : j[2][i][1] = path[1][2]}
      first == CHOOSE i \in named : \A k \in named : i <= k
  IN CASE path = <<>> -> j
       [] j[1] = "arr" ->
            IF path[1] = Star
            THEN <<"arr", SelectSeq([i \in 1..Len(j[2]) |-> Deeper(j[2][i])], LAMBDA x : x # Absent)>>
            ELSE IF path[1][1] = "index" /\ path[1][2] \in 0..(Len(j[2]) - 1)
            THEN Deeper(j[2][path[1][2] + 1]) ELSE Absent
       [] j[1] = "obj" ->
            IF path[1] = Star THEN <<"obj", Members(members)>>
            ELSE IF path[1][1] = "name" /\ named # {} THEN Deeper(j[2][first][2]) ELSE Absent
       [] OTHER -> Absent

\* a Go value as a tree; Wrap knows no pointers
RECURSIVE TreeOf(_, _)
TreeOf(t, d) ==
  LET T == Types[t]
      keys == SetToSeq(DOMAIN d[2])
  IN CASE T.kind \in {"eface", "iface"} -> IF d = Nil THEN Null ELSE TreeOf(d[2], d[3])
       [] T.kind = "string" -> d
       [] T.kind \in {"int", "float"} -> d
       [] T.kind = "bool" -> d
       [] T.kind = "slice" -> <<"arr", IF d = Nil THEN <<>> ELSE [i \in 1..d[3] |-> TreeOf(T.elem, d[2][i])]>>
       [] T.kind = "map" -> <<"obj", IF d = Nil THEN <<>>
                                     ELSE [i \in 1..Len(keys) |-> <<keys[i][2], TreeOf(T.elem, d[2][keys[i]])>>]>>
       [] T.kind = "struct" -> <<"obj", [i \in 1..Len(T.fields) |->
                                          <<T.fields[i].name, TreeOf(T.fields[i].type, d[2][i])>>]>>
       [] OTHER -> Absent

\* an Any is the value of a tree
RECURSIVE Denotes(_, _)
Denotes(a, j) ==
  CASE a = Invalid -> j = Absent
    [] a = NilAny -> j = Null
    [] a[1] = "bool" -> j = a
    [] a[1] = "string" -> j = <<"str", a[2]>>
    [] a[1] = "number" -> j = <<"num", a[2]>>
    [] a[1] \in {"arrayLazy", "objectLazy"} -> j[1] = SubSeq(a[1], 1, 3) /\ a[2] = Text(j)
    [] Kind(a) = "slice" /\ Types[a[2]].elem = "Any" ->
         j[1] = "arr" /\ Len(j[2]) = Len(Elements(a)) /\ \A i \in 1..Len(j[2]) : Denotes(Elements(a)[i], j[2][i])
    [] Kind(a) = "map" /\ Types[a[2]].elem = "Any" ->
         /\ j[1] = "obj" /\ DOMAIN Entries(a) = {Str(j[2][i][1]) : i \in 1..Len(j[2])}
         /\ \A i \in 1..Len(j[2]) : Denotes(Entries(a)[Str(j[2][i][1])], j[2][i][2])
    [] OTHER -> a[1] = "wrapped" /\ j = TreeOf(a[2], a[3])

----------------------------------------------------------------------------
\* what Get is known to do otherwise: a simple value has no empty path, also
\* below '*'; a lazy object stops at a member of which '*' leaves something
\* unread; a wrapped value takes one step of a path only
RECURSIVE Departs(_, _, _)
Departs(j, path, wrapped) ==
  LET rest == Tail(path)
      inside == IF j[1] = "arr" THEN ToSet(j[2]) ELSE {j[2][i][2] : i \in 1..Len(j[2])}
      below == \/ rest = <<>> /\ \E x \in inside : Simple(x)
               \/ rest # <<>> /\ \E x \in inside : Departs(x, rest, wrapped)
  IN CASE j[1] \notin {"arr", "obj"} -> FALSE
       [] path[1] = Star -> IF j[1] = "arr" \/ wrapped THEN below ELSE rest # <<>>
       [] wrapped -> rest # <<>>
       [] OTHER -> LET x == Lookup(j, <<path[1]>>) IN x # Absent /\ rest # <<>> /\ Departs(x, rest, FALSE)

LookUp(in, path) ==
  /\ GetData(in.doc, path)
  /\ found' = IF in.tree = Broken THEN Absent ELSE Lookup(in.tree, path)
  /\ departed' = (in.tree = Broken \/ (path # <<>> /\ Departs(in.tree, path, FALSE)))

WrapDecoded ==
  LET d == Deep(type, dest, heap) IN
  /\ WrapValue(type, d)
  /\ found' = TreeOf(type, d)
  /\ departed' = (any' = Panics)

FollowPath(path) ==
  /\ Follow(path)
  /\ found' = IF found = Absent THEN Absent ELSE Lookup(found, path)
  /\ departed' = (departed \/ any' = Panics \/ (found # Absent /\ IF path = <<>> THEN Simple(found)
                                                 ELSE Departs(found, path, any[1] = "wrapped")))

----------------------------------------------------------------------------
WholeInit == Init /\ any = NoAny /\ gets = 0 /\ found = Absent /\ departed = FALSE

WholeNext ==
  \/ Next /\ any = NoAny /\ UNCHANGED <<anyVars, spec>>
  \/ /\ <<type, cfg>> \in Explored /\ Types[type].kind = "eface" /\ calls = 0 /\ UNCHANGED vars
     /\ \E in \in Inputs[cfg.Fuzzy][type], path \in Paths : LookUp(in, path)
  \/ <<type, cfg>> \in Explored /\ last.ok /\ calls = 1 /\ WrapDecoded /\ UNCHANGED vars
  \/ UNCHANGED vars /\ \E path \in Paths : FollowPath(path)
  \/ UNCHANGED <<vars, spec>> /\ Convert

WholeSpec == WholeInit /\ [][WholeNext]_allVars

----------------------------------------------------------------------------
(* Properties.                                                             *)

\* Whatever was decoded or looked into before, any chain of Gets, in one call
\* or in several, leads to the value that the text or the variable has there,
\* lazily or not; the Any has its size, its names and its Go value.
HasWhatIsThere ==
  any # NoAny =>
    /\ Denotes(any, found)
    /\ found # Absent =>
         /\ Size(any) = IF found[1] \in {"arr", "obj"} THEN Len(found[2]) ELSE 0
         /\ any[1] = "objectLazy" => Keys(any) = [i \in 1..Len(found[2]) |-> found[2][i][1]]
         /\ any[1] # "wrapped" => GetInterface(any) = Plain(found)

GetFindsValue == ~departed => HasWhatIsThere

\* fuzzy_mode_convert_table.md, on trees; of a string the longest number that
\* it begins with
Begins(text) == {p \in {SubSeq(text, 1, n) : n \in 1..Len(text)} : Head(p) # "." /\ ParsesAsFloat(p)}
Longest(text) == CHOOSE p \in Begins(text) : \A q \in Begins(text) : Len(q) <= Len(p)
NumberIn(j) ==
  CASE j[1] = "num" -> Hundredths(j[2])
    [] j[1] = "str" -> IF Begins(j[2]) = {} THEN 0 ELSE Hundredths(Longest(j[2]))
    [] j[1] = "arr" -> IF j[2] = <<>> THEN 0 ELSE 100
    [] OTHER -> IF j = <<"bool", TRUE>> THEN 100 ELSE 0

\* what the code does otherwise: a string is no float when characters of a
\* number follow the one it begins with (1e, 1+1); the integer in a text ends
\* before an exponent, and only a float that is wrapped counts it
Garbled(j) ==
  /\ j[1] = "str" /\ Begins(j[2]) # {}
  /\ LET n == Len(Longest(j[2])) IN n < Len(j[2]) /\ j[2][n + 1] \in NumberBytes
WholeIn(j) ==
  Truncated(NumberIn(IF any[1] # "wrapped" /\ j[1] \in {"num", "str"} THEN <<j[1], Mantissa(j[2])>> ELSE j))
TruthOf(j) ==
  CASE j[1] = "str" -> j[2] \notin {<<>>, <<"0">>}
    [] j[1] = "obj" -> TRUE
    [] OTHER -> NumberIn(j) # 0

UintOf(n) == IF n >= 0 THEN n ELSE IF Kind(any) = "int" THEN Word + n ELSE 0

\* Conversions give what the table says of the value, whichever way the Any
\* came by it, but for Garbled strings and exponents (WholeIn), a wrapped struct
\* without fields, which is false, and a wrapped int below 0, which as a uint is
\* what Go converts it to and not 0; and LastError is set only when one has lost
\* something.
ConvertsAsTable ==
  any \notin {NoAny, Invalid, Panics} /\ ~departed =>
    /\ ToBool(any) = (TruthOf(found) /\ (Kind(any) = "struct" => Types[any[2]].fields # <<>>))
    /\ ToFloat(any) = IF Garbled(found) THEN 0 ELSE NumberIn(found)
    /\ ToInt(any) = WholeIn(found)
    /\ ToUint(any) = UintOf(WholeIn(found))
    /\ any[1] # "wrapped" =>
         TextOf(any) = IF found[1] = "str" THEN found[2] ELSE IF found = Null THEN <<>> ELSE Text(found)
    /\ any[1] = "number" /\ any[3] = "bad" =>
         NumberIn(found) < 0 \/ ~(ToSet(found[2]) \subseteq Digits)
=============================================================================
