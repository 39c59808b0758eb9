-------------------------- MODULE MCStructBinding --------------------------
(* StructBinding on the struct types of type_tests and a few more.         *)
EXTENDS StructBinding, TLC

MCNames == {"A", "a", "B", "b", "Ab", "aB", "ab"}
MCLower == ("A" :> "a") @@ ("B" :> "b") @@ [n \in {"Ab", "aB"} |-> "ab"] @@ [n \in MCNames |-> n]
\* one name has the hash that stands for no name
MCHash == ("A" :> 3) @@ ("a" :> 1) @@ ("B" :> 4) @@ ("b" :> 0) @@
          ("Ab" :> 5) @@ ("aB" :> 6) @@ ("ab" :> 2)
MCTranslate == [n \in {"Ab", "aB"} |-> n] @@ MCLower

F(name) == [name |-> name, exported |-> TRUE, tag |-> "none", tagName |-> None, omitempty |-> FALSE,
            anonymous |-> FALSE, struct |-> None, pointer |-> FALSE]
Named(name, tag) == [F(name) EXCEPT !.tag = "named", !.tagName = tag]
OmitEmpty(name) == [F(name) EXCEPT !.tag = "options", !.omitempty = TRUE]
Private == [F("a") EXCEPT !.exported = FALSE]
HiddenField(name) == [F(name) EXCEPT !.tag = "hidden"]
Value(struct) == [F("A") EXCEPT !.anonymous = TRUE, !.struct = struct]
Pointer(struct) == [Value(struct) EXCEPT !.pointer = TRUE]

MCConfigs == {c \in Config : ~(c.naming /\ c.private)}

IgnoreDeeperLevel ==
  <<Value(<<Value(<<Named("A", "A")>>), F("A")>>), Value(<<Named("A", "A"), Value(<<Named("A", "A")>>)>>)>>
Described == {
  <<>>,
  <<Named("A", "b")>>, <<Named("A", "a")>>, <<F("A"), Named("B", "a")>>, <<F("Ab"), Named("B", "aB")>>,
  <<F("A"), Named("B", "a"), OmitEmpty("B")>>,
  <<Value(<<F("A"), F("B")>>), F("A"), Private>>, <<F("B"), Private, [Private EXCEPT !.tag = "named", !.tagName = "b"]>>,
  <<Pointer(<<OmitEmpty("A"), Pointer(<<F("B"), OmitEmpty("A")>>)>>), HiddenField("B")>>,
  <<Value(<<F("A")>>), Pointer(<<F("A")>>), F("B")>>,
  <<Value(<<F("A")>>), Value(<<Named("B", "A")>>)>>,
  IgnoreDeeperLevel}
\* and those they embed, two levels deep
EmbeddedIn(structs) == UNION {{s[i].struct : i \in {j \in DOMAIN s : s[j].anonymous}} : s \in structs}
MCStructs == Described \cup EmbeddedIn(Described) \cup EmbeddedIn(EmbeddedIn(Described))

\* a field and an embedded one of its name that has no tag, two embedded ones of
\* which the first has a tag, and three, the last one deeper
Ambiguous == {
  <<OmitEmpty("A"), Value(<<F("A")>>)>>,
  <<Value(<<Named("B", "A")>>), Value(<<F("A")>>)>>,
  <<Value(<<F("A")>>), Value(<<F("A")>>), Value(<<Value(<<F("A")>>)>>)>>}
=============================================================================
