------------------------------ MODULE MCStream ------------------------------
(* Stream and its promises on small values.                                *)
EXTENDS StreamText, FiniteSetsExt, TLC

Leaf(kind) == [kind |-> kind, parts |-> <<>>, names |-> <<>>]
Node(kind, names, parts) == [kind |-> kind, parts |-> parts, names |-> names]
S == Leaf("scalar")
List(parts) == Node("array", <<>>, parts)
Struct(parts) == Node("object", <<2, 1>>, parts)
Map(parts) == Node("map", <<2, 1>>, parts)
Map1(part) == Node("map", <<1>>, <<part>>)

MCNames == <<"a", "b">>
\* with an indention, a map has no member that is indented: the subStream of a
\* sorted map starts from no indention
ASSUME MCIsPlain == PlainlyIndented
MCValues == [n \in {0, 1} |->
  IF n = 0 THEN {List(<<Map1(Leaf("marshaler"))>>), Map(<<Leaf("bad"), S>>),
                 Map1(Map1(S)), Map1(List(<<Leaf("panic")>>))}
  ELSE {Struct(<<List(<<>>), List(<<S>>)>>), Map(<<S, S>>)}]

\* every value, and every part of one, with its depth
Below(values) == values \cup UNION {{v.parts[i] : i \in DOMAIN v.parts} : v \in values}
MCNodes == Below(Below(Below(UNION {MCValues[n] : n \in {0, 1}})))
MCDepth ==
  LET depth[v \in MCNodes] ==
        IF v.parts = <<>> THEN 0 ELSE 1 + Max({depth[v.parts[i]] : i \in DOMAIN v.parts})
  IN depth

Symmetry == Permutations(Goroutines) \cup Permutations(StreamIds)
=============================================================================
