-------------------------- MODULE StreamTextProofs --------------------------
(***************************************************************************)
(* What Marshal returns is the text of its value, and the writer of an     *)
(* Encoder gets the lines of its values: for all values whose parts are    *)
(* plainly indented, any names, number of goroutines, streams and calls,   *)
(* and writers that fail and take part of the bytes whenever they like.    *)
(***************************************************************************)
EXTENDS StreamText, StreamProofs

----------------------------------------------------------------------------
(* Texts.                                                                  *)
Marks == {"1", "m", "[", "]", "{", "}", ",", ":", " ", "\n"}
Letters == Marks \cup {Names[i] : i \in DOMAIN Names}
Texts == Seq(Letters)

LEMMA ConcatTexts ==
  /\ \A a, b \in Texts : a \o b \in Texts /\ Len(a \o b) = Len(a) + Len(b) /\ Len(a) \in Nat
  /\ \A a, b, c \in Texts : (a \o b) \o c = a \o (b \o c)
  /\ \A a \in Texts : a \o <<>> = a /\ <<>> \o a = a
  /\ <<>> \in Texts /\ \A x \in Letters : <<x>> \in Texts
<1>1. \A a, b \in Texts : a \o b \in Texts /\ Len(a \o b) = Len(a) + Len(b) /\ Len(a) \in Nat
  BY ConcatProperties DEF Texts
<1>2. \A a, b, c \in Texts : (a \o b) \o c = a \o (b \o c)
  BY ConcatAssociative DEF Texts
<1>3. \A a \in Texts : a \o <<>> = a /\ <<>> \o a = a
  BY ConcatEmptySeq DEF Texts
<1>4. <<>> \in Texts
  BY EmptySeq DEF Texts
<1>5. \A x \in Letters : <<x>> \in Texts
  <2>1. ASSUME NEW S, NEW x \in S PROVE <<x>> \in Seq(S)
    OBVIOUS
  <2> QED BY <2>1 DEF Texts
<1> QED BY <1>1, <1>2, <1>3, <1>4, <1>5

\* The parts of a text, and of a concatenation.
LEMMA CutText ==
  ASSUME NEW a \in Texts, NEW m \in 0..Len(a)
  PROVE  /\ SubSeq(a, 1, m) \in Texts /\ Len(SubSeq(a, 1, m)) = m
         /\ SubSeq(a, m + 1, Len(a)) \in Texts
         /\ SubSeq(a, 1, m) \o SubSeq(a, m + 1, Len(a)) = a
<1>1. Len(a) \in Nat /\ a \in Seq(Letters) /\ \A i \in 1..Len(a) : a[i] \in Letters
  BY DEF Texts
<1>2. SubSeq(a, 1, m) \in Texts /\ Len(SubSeq(a, 1, m)) = m
  <2>1. \A i \in 1..m : a[i] \in Letters
    BY <1>1
  <2>2. m \in Int /\ 1 \in Int /\ m \in Nat
    BY <1>1
  <2>3. /\ SubSeq(a, 1, m) \in Seq(Letters)
        /\ Len(SubSeq(a, 1, m)) = IF 1 <= m THEN m - 1 + 1 ELSE 0
    BY <2>1, <2>2, SubSeqProperties
  <2> QED BY <2>2, <2>3 DEF Texts
<1>3. SubSeq(a, m + 1, Len(a)) \in Texts
  <2>1. \A i \in (m + 1)..Len(a) : a[i] \in Letters
    BY <1>1
  <2>2. m + 1 \in Int /\ Len(a) \in Int
    BY <1>1
  <2> QED BY <2>1, <2>2, SubSeqProperties DEF Texts
<1>4. SubSeq(a, 1, m) \o SubSeq(a, m + 1, Len(a)) = a
  <2>1. 1 \in 1..(Len(a) + 1) /\ m \in (1 - 1)..Len(a) /\ Len(a) \in m..Len(a)
    BY <1>1
  <2>2. SubSeq(a, 1, m) \o SubSeq(a, m + 1, Len(a)) = SubSeq(a, 1, Len(a))
    BY <1>1, <2>1, ConcatAdjacentSubSeq
  <2> QED BY <1>1, <2>2, SubSeqFull
<1> QED BY <1>2, <1>3, <1>4

LEMMA PartsOfConcat ==
  ASSUME NEW a \in Texts, NEW b \in Texts
  PROVE  /\ SubSeq(a \o b, 1, Len(a)) = a
         /\ SubSeq(a \o b, Len(a) + 1, Len(a \o b)) = b
<1> DEFINE c == a \o b
           m == Len(a)
<1>1. c \in Texts /\ Len(c) = m + Len(b) /\ m \in Nat /\ Len(b) \in Nat
  BY ConcatTexts
<1>2. a \in Seq(Letters) /\ b \in Seq(Letters) /\ c \in Seq(Letters)
  BY <1>1 DEF Texts
<1>3. SubSeq(c, 1, m) = a
  <2>1. CASE m = 0
    <3>1. SubSeq(c, 1, m) = <<>> /\ a = <<>>
      BY <1>2, <2>1, SubSeqEmpty, EmptySeq
    <3> QED BY <3>1
  <2>2. CASE m # 0
    <3>1. 1 \in 1..Len(a) /\ m \in 1..Len(a)
      BY <1>1, <2>2
    <3>2. SubSeq(c, 1, m) = SubSeq(a, 1, m)
      BY <1>2, <3>1, SubSeqOfConcat1
    <3> QED BY <1>2, <3>2, SubSeqFull
  <2> QED BY <2>1, <2>2
<1> DEFINE rest == SubSeq(c, m + 1, Len(c))
<1>4. rest = b
  <2>1. m \in 0..Len(c)
    BY <1>1
  <2>2. rest \in Texts /\ SubSeq(c, 1, m) \o rest = c
    <3> HIDE DEF c
    <3> QED BY <1>1, <2>1, CutText
  <2>3. a \o rest = a \o b
    BY <1>3, <2>2
  <2> HIDE DEF rest
  <2>4. rest \in Seq(Letters)
    BY <2>2 DEF Texts
  <2> QED BY <1>2, <2>3, <2>4, ConcatSimplifications
<1> QED BY <1>3, <1>4

\* The beginnings of a text.
LEMMA Beginnings ==
  /\ \A s, r \in Texts : IsPrefixOf(s, s \o r)
  /\ \A s, t, u \in Texts : IsPrefixOf(s, t) /\ IsPrefixOf(t, u) => IsPrefixOf(s, u)
  /\ \A s \in Texts : IsPrefixOf(s, s)
<1>1. ASSUME NEW s \in Texts, NEW r \in Texts PROVE IsPrefixOf(s, s \o r)
  <2>1. Len(s \o r) = Len(s) + Len(r) /\ Len(s) \in Nat /\ Len(r) \in Nat
    BY ConcatTexts
  <2>2. s = SubSeq(s \o r, 1, Len(s))
    BY PartsOfConcat
  <2> DEFINE t == s \o r
  <2> HIDE DEF t
  <2>3. Len(s) <= Len(t) /\ s = SubSeq(t, 1, Len(s))
    BY <2>1, <2>2 DEF t
  <2> QED BY <2>3 DEF IsPrefixOf, t
<1>2. ASSUME NEW s \in Texts, NEW t \in Texts, IsPrefixOf(s, t) PROVE \E r \in Texts : t = s \o r
  <2>1. Len(s) \in 0..Len(t) /\ s = SubSeq(t, 1, Len(s))
    BY <1>2, ConcatTexts DEF IsPrefixOf
  <2> DEFINE m == Len(s)
  <2>2. m \in 0..Len(t) /\ s = SubSeq(t, 1, m)
    BY <2>1
  <2> HIDE DEF m
  <2> QED BY <2>2, CutText
<1>3. ASSUME NEW s \in Texts, NEW t \in Texts, NEW u \in Texts, IsPrefixOf(s, t), IsPrefixOf(t, u)
      PROVE  IsPrefixOf(s, u)
  <2>1. PICK p \in Texts : t = s \o p
    BY <1>2, <1>3
  <2>2. PICK q \in Texts : u = t \o q
    BY <1>2, <1>3
  <2>3. p \o q \in Texts
    BY ConcatTexts
  <2>4. (s \o p) \o q = s \o (p \o q)
    BY ConcatTexts
  <2> QED BY <1>1, <2>1, <2>2, <2>3, <2>4
<1>4. \A s \in Texts : IsPrefixOf(s, s)
  BY <1>1, ConcatTexts
<1> QED BY <1>1, <1>3, <1>4

----------------------------------------------------------------------------
(* Texts one after the other.                                              *)

\* The recursive definition of the first k of some texts.
IsJoined(f, texts) ==
  f = [k \in 0..Len(texts) |-> IF k = 0 THEN <<>> ELSE f[k - 1] \o texts[k]]

LEMMA JoinedIs ==
  ASSUME NEW texts \in Seq(Texts)
  PROVE  /\ Joined(texts) \in [0..Len(texts) -> Texts]
         /\ Joined(texts)[0] = <<>>
         /\ \A k \in 1..Len(texts) : Joined(texts)[k] = Joined(texts)[k - 1] \o texts[k]
<1> DEFINE n == Len(texts)
           D == 0..n
           p == [x \in Texts \X D |-> IF x[2] = 0 THEN x[1] ELSE x[1] \o texts[x[2]]]
           h == [x \in Texts \X D |-> IF x[2] \in DOMAIN texts THEN x[1] \o texts[x[2]] ELSE x[1]]
<1>1. n \in Nat /\ \A k \in D : k # 0 => k \in DOMAIN texts /\ texts[k] \in Texts
  BY DEF Texts
<1>2. h \in [Texts \X D -> Texts]
  <2>1. \A x \in Texts \X D : x[1] \in Texts
    OBVIOUS
  <2>2. \A k \in DOMAIN texts : texts[k] \in Texts
    BY DEF Texts
  <2> QED BY <2>1, <2>2, ConcatTexts
<1>3. <<>> \in Texts
  BY ConcatTexts
<1>4. PICK f \in [D -> Texts] : Iterates(f, D, <<>>, h)
  <2> HIDE DEF h
  <2> QED BY <1>1, <1>2, <1>3, Iteration
<1>5. \A k \in D : f[k] = IF k = 0 THEN <<>> ELSE f[k - 1] \o texts[k]
  <2>1. ASSUME NEW k \in D, k # 0 PROVE f[k] = f[k - 1] \o texts[k]
    <3>1. f[k] = h[<<f[k - 1], k>>] /\ k - 1 \in D
      <4> HIDE DEF h
      <4> QED BY <1>1, <1>4, <2>1 DEF Iterates
    <3>2. f[k - 1] \in Texts /\ k \in DOMAIN texts
      BY <1>1, <1>4, <2>1, <3>1
    <3> QED BY <3>1, <3>2
  <2> QED BY <1>4, <2>1 DEF Iterates
<1>6. IsJoined(f, texts)
  <2>1. f = [k \in D |-> IF k = 0 THEN <<>> ELSE f[k - 1] \o texts[k]]
    BY <1>4, <1>5
  <2> QED BY <2>1 DEF IsJoined
<1> DEFINE c == CHOOSE g : IsJoined(g, texts)
<1>7. Joined(texts) = c
  BY DEF Joined, IsJoined
<1>8. IsJoined(c, texts)
  BY <1>6
<1> HIDE DEF c, h, p
<1>9. c = [k \in D |-> IF k = 0 THEN <<>> ELSE c[k - 1] \o texts[k]]
  BY <1>8 DEF IsJoined
<1>10. \A k \in D : c[k] = IF k = 0 THEN <<>> ELSE c[k - 1] \o texts[k]
  BY <1>9
<1> DEFINE Same == {k \in D : c[k] = f[k]}
<1>11. D \subseteq Same
  <2>1. 0 \in Same
    <3>1. 0 \in D
      BY <1>1
    <3> QED BY <1>5, <1>10, <3>1
  <2>2. ASSUME NEW k \in 0..(n - 1), k \in Same PROVE k + 1 \in Same
    <3>1. k + 1 \in D /\ k + 1 # 0 /\ (k + 1) - 1 = k
      BY <1>1
    <3> QED BY <1>5, <1>10, <2>2, <3>1
  <2> HIDE DEF Same
  <2> QED BY <1>1, <2>1, <2>2, BoundedInduction
<1>12. c \in [D -> Texts]
  BY <1>4, <1>9, <1>11
<1>13. c[0] = <<>> /\ \A k \in 1..n : c[k] = c[k - 1] \o texts[k]
  <2>1. 0 \in D /\ \A k \in 1..n : k \in D /\ k # 0
    BY <1>1
  <2> QED BY <1>10, <2>1
<1> QED BY <1>7, <1>12, <1>13

\* Texts that agree up to m agree when they are joined.
LEMMA JoinedSame ==
  ASSUME NEW a \in Seq(Texts), NEW b \in Seq(Texts), NEW m \in Nat, m <= Len(a), m <= Len(b),
         \A k \in 1..m : a[k] = b[k]
  PROVE  Joined(a)[m] = Joined(b)[m]
<1> DEFINE f == Joined(a)
           g == Joined(b)
           Same == {k \in 0..m : f[k] = g[k]}
<1>1. /\ f[0] = <<>> /\ g[0] = <<>>
      /\ \A k \in 1..Len(a) : f[k] = f[k - 1] \o a[k]
      /\ \A k \in 1..Len(b) : g[k] = g[k - 1] \o b[k]
      /\ Len(a) \in Nat /\ Len(b) \in Nat
  BY JoinedIs, LenProperties
<1> HIDE DEF f, g
<1>2. 0 \in Same
  BY <1>1
<1>3. ASSUME NEW k \in 0..(m - 1), k \in Same PROVE k + 1 \in Same
  <2>1. k + 1 \in 1..m /\ k + 1 \in 0..m /\ k + 1 \in 1..Len(a) /\ k + 1 \in 1..Len(b) /\ (k + 1) - 1 = k
    BY <1>1
  <2>2. f[k + 1] = f[k] \o a[k + 1] /\ g[k + 1] = g[k] \o b[k + 1] /\ a[k + 1] = b[k + 1] /\ f[k] = g[k]
    BY <1>1, <1>3, <2>1
  <2> QED BY <2>1, <2>2
<1>4. 0..m \subseteq Same
  <2> HIDE DEF Same
  <2> QED BY <1>2, <1>3, BoundedInduction
<1>5. m \in 0..m
  OBVIOUS
<1> QED BY <1>4, <1>5 DEF f, g

\* The first texts are a beginning of all.
LEMMA JoinedBegins ==
  ASSUME NEW a \in Seq(Texts), NEW m \in 0..Len(a)
  PROVE  IsPrefixOf(Joined(a)[m], Joined(a)[Len(a)])
<1> DEFINE f == Joined(a)
           n == Len(a)
           S == {k \in Nat : m + k <= n => IsPrefixOf(f[m], f[m + k])}
<1>1. /\ f \in [0..n -> Texts] /\ n \in Nat /\ m \in Nat
      /\ \A k \in 1..n : f[k] = f[k - 1] \o a[k] /\ a[k] \in Texts
  <2>1. \A k \in 1..n : a[k] \in Texts
    BY ElementOfSeq
  <2>2. n \in Nat
    BY LenProperties
  <2>3. f \in [0..n -> Texts] /\ \A k \in 1..n : f[k] = f[k - 1] \o a[k]
    BY JoinedIs
  <2>4. m \in Nat
    BY <2>2
  <2> HIDE DEF f, n
  <2> QED BY <2>1, <2>2, <2>3, <2>4
<1> HIDE DEF f, n
<1>2. 0 \in S
  <2>1. m + 0 = m /\ f[m] \in Texts
    BY <1>1 DEF n
  <2> QED BY <2>1, Beginnings
<1>3. ASSUME NEW k \in Nat, k \in S PROVE k + 1 \in S
  <2>1. SUFFICES ASSUME m + (k + 1) <= n PROVE IsPrefixOf(f[m], f[m + (k + 1)])
    OBVIOUS
  <2> DEFINE j == m + k
  <2>2. m + (k + 1) = j + 1 /\ j + 1 \in 1..n /\ (j + 1) - 1 = j /\ j \in 0..n /\ j <= n /\ m \in 0..n
        /\ j + 1 \in 0..n
    BY <1>1, <2>1
  <2>3. f[j + 1] = f[j] \o a[j + 1] /\ a[j + 1] \in Texts
    BY <1>1, <2>2
  <2>4. f[j] \in Texts /\ f[j + 1] \in Texts /\ f[m] \in Texts
    BY <1>1, <2>2
  <2>5. IsPrefixOf(f[m], f[j])
    BY <1>3, <2>2
  <2> HIDE DEF j
  <2>6. IsPrefixOf(f[j], f[j + 1])
    BY <2>3, <2>4, Beginnings
  <2> QED BY <2>2, <2>4, <2>5, <2>6, Beginnings
<1>4. Nat \subseteq S
  <2> HIDE DEF S
  <2> QED BY <1>2, <1>3, Induction
<1>5. n - m \in Nat /\ m + (n - m) = n
  BY <1>1 DEF n
<1>6. n - m \in S
  BY <1>4, <1>5
<1> QED BY <1>5, <1>6 DEF f, n

----------------------------------------------------------------------------
(* Values and their texts.                                                 *)

LEMMA NodeFacts ==
  ASSUME NEW v \in Nodes
  PROVE  /\ Len(v.parts) \in Nat /\ DOMAIN v.parts = 1..Len(v.parts) /\ v.kind \in Kinds
         /\ \A i \in DOMAIN v.parts : v.parts[i] \in Nodes /\ Depth[v.parts[i]] < Depth[v]
         /\ Depth[v] \in Nat
         /\ v.kind \in {"array", "object", "map"} \/ v.parts = <<>>
         /\ v.kind \in {"object", "map"} =>
              /\ v.names \in [1..Len(v.parts) -> Nat]
              /\ \A i \in DOMAIN v.parts : Names[v.names[i]] \in Letters
         /\ v.kind = "map" => \A i, j \in 1..Len(v.parts) : v.names[i] = v.names[j] => i = j
<1>1. /\ v.parts \in Seq(Nodes) /\ v.kind \in Kinds /\ Depth[v] \in Nat
      /\ \A i \in DOMAIN v.parts : Depth[v.parts[i]] < Depth[v]
      /\ v.kind \in {"array", "object", "map"} \/ v.parts = <<>>
  BY NodesAssumption
<1>2. Len(v.parts) \in Nat /\ DOMAIN v.parts = 1..Len(v.parts) /\ \A i \in DOMAIN v.parts : v.parts[i] \in Nodes
  BY <1>1, LenProperties, ElementOfSeq
<1>3. Names \in Seq({Names[i] : i \in DOMAIN Names})
  BY NodesAssumption
<1>4. DOMAIN Names \subseteq Nat /\ \A k \in DOMAIN Names : Names[k] \in Letters
  BY <1>3, LenProperties DEF Letters
<1>5. ASSUME v.kind \in {"object", "map"}
      PROVE  /\ v.names \in [1..Len(v.parts) -> Nat]
             /\ \A i \in DOMAIN v.parts : Names[v.names[i]] \in Letters
             /\ DOMAIN v.names = DOMAIN v.parts
  <2>1. v.names \in Seq(DOMAIN Names) /\ Len(v.names) = Len(v.parts)
    BY <1>5, NodesAssumption
  <2>2. v.names \in [1..Len(v.parts) -> DOMAIN Names]
    BY <2>1, LenProperties
  <2> QED BY <1>2, <1>4, <2>2
<1>6. v.kind = "map" => \A i, j \in DOMAIN v.names : v.names[i] = v.names[j] => i = j
  BY NodesAssumption
<1> QED BY <1>1, <1>2, <1>5, <1>6

\* The same for the depth of values: h depends only on the parts.
IsPartsRule(h, X) ==
  /\ h \in [[Nodes -> X] \X Nodes -> X]
  /\ \A e, f \in [Nodes -> X] : \A v \in Nodes :
       (\A i \in DOMAIN v.parts : e[v.parts[i]] = f[v.parts[i]]) => h[<<e, v>>] = h[<<f, v>>]

LEMMA PartsRecursion ==
  ASSUME NEW X, NEW x0 \in X, NEW h, IsPartsRule(h, X)
  PROVE  \E f : Solves(f, h, X, Nodes)
<1> DEFINE depth == [v \in Nodes |-> Depth[v]]
<1>1. depth \in [Nodes -> Nat]
  BY NodeFacts
<1>2. ASSUME NEW e \in [Nodes -> X], NEW f \in [Nodes -> X], NEW v \in Nodes,
             \A u \in Nodes : depth[u] < depth[v] => e[u] = f[u]
      PROVE  h[<<e, v>>] = h[<<f, v>>]
  <2>1. \A i \in DOMAIN v.parts : v.parts[i] \in Nodes /\ depth[v.parts[i]] < depth[v]
    BY NodeFacts
  <2>2. \A i \in DOMAIN v.parts : e[v.parts[i]] = f[v.parts[i]]
    BY <1>2, <2>1
  <2> QED BY <2>2 DEF IsPartsRule
<1> HIDE DEF depth
<1>3. IsTreeRule(h, X, Nodes, depth)
  BY <1>1, <1>2 DEF IsTreeRule, IsPartsRule
<1> QED BY <1>3, TreeRecursion

IsWithin(f) == f = [v \in Nodes |-> {v} \cup UNION {f[v.parts[i]] : i \in DOMAIN v.parts}]

LEMMA WithinIs ==
  \A v \in Nodes : Within[v] = {v} \cup UNION {Within[v.parts[i]] : i \in DOMAIN v.parts}
<1> DEFINE X == SUBSET Nodes
           h == [p \in [Nodes -> X] \X Nodes |-> {p[2]} \cup UNION {p[1][p[2].parts[i]] : i \in DOMAIN p[2].parts}]
<1>1. ASSUME NEW e \in [Nodes -> X], NEW v \in Nodes
      PROVE  /\ h[<<e, v>>] = {v} \cup UNION {e[v.parts[i]] : i \in DOMAIN v.parts}
             /\ h[<<e, v>>] \in X
  <2>1. h[<<e, v>>] = {v} \cup UNION {e[v.parts[i]] : i \in DOMAIN v.parts}
    OBVIOUS
  <2>2. \A i \in DOMAIN v.parts : e[v.parts[i]] \in X
    BY NodeFacts
  <2> QED BY <2>1, <2>2
<1>2. h \in [[Nodes -> X] \X Nodes -> X]
  <2>1. h = [p \in [Nodes -> X] \X Nodes |-> h[p]]
    OBVIOUS
  <2>2. \A p \in [Nodes -> X] \X Nodes : p[1] \in [Nodes -> X] /\ p[2] \in Nodes /\ p = <<p[1], p[2]>>
    OBVIOUS
  <2>3. \A p \in [Nodes -> X] \X Nodes : h[p] \in X
    <3> HIDE DEF h, X
    <3> QED BY <1>1, <2>2
  <2> HIDE DEF h, X
  <2> QED BY <2>1, <2>3
<1>3. {} \in X
  OBVIOUS
<1>4. ASSUME NEW e \in [Nodes -> X], NEW f \in [Nodes -> X], NEW v \in Nodes,
             \A i \in DOMAIN v.parts : e[v.parts[i]] = f[v.parts[i]]
      PROVE  h[<<e, v>>] = h[<<f, v>>]
  <2>1. {e[v.parts[i]] : i \in DOMAIN v.parts} = {f[v.parts[i]] : i \in DOMAIN v.parts}
    BY <1>4
  <2> HIDE DEF h, X
  <2> QED BY <1>1, <2>1
<1> HIDE DEF h, X
<1>a. IsPartsRule(h, X)
  BY <1>2, <1>4 DEF IsPartsRule
<1>5. PICK f \in [Nodes -> X] : \A v \in Nodes : f[v] = h[<<f, v>>]
  <2>1. \E f : Solves(f, h, X, Nodes)
    BY <1>3, <1>a, PartsRecursion
  <2> QED BY <2>1 DEF Solves
<1>6. IsWithin(f)
  <2>1. \A v \in Nodes : f[v] = {v} \cup UNION {f[v.parts[i]] : i \in DOMAIN v.parts}
    BY <1>1, <1>5
  <2>2. f = [v \in Nodes |-> {v} \cup UNION {f[v.parts[i]] : i \in DOMAIN v.parts}]
    BY <2>1
  <2> QED BY <2>2 DEF IsWithin
<1> DEFINE c == CHOOSE g : IsWithin(g)
<1>7. Within = c
  BY DEF Within, IsWithin
<1>8. IsWithin(c)
  BY <1>6
<1> HIDE DEF c
<1>9. c = [v \in Nodes |-> {v} \cup UNION {c[v.parts[i]] : i \in DOMAIN v.parts}]
  BY <1>8 DEF IsWithin
<1>10. \A v \in Nodes : c[v] = {v} \cup UNION {c[v.parts[i]] : i \in DOMAIN v.parts}
  BY <1>9
<1> QED BY <1>7, <1>10

LEMMA HasOfParts ==
  ASSUME NEW v \in Nodes, NEW kinds
  PROVE  Has(v, kinds) <=> v.kind \in kinds \/ \E i \in DOMAIN v.parts : Has(v.parts[i], kinds)
<1>1. Within[v] = {v} \cup UNION {Within[v.parts[i]] : i \in DOMAIN v.parts}
  BY WithinIs
<1> QED BY <1>1 DEF Has

\* A value that fails to encode: something in it does.
Bad(v) == Has(v, {"bad"})

LEMMA BadOfParts ==
  ASSUME NEW v \in Nodes
  PROVE  /\ Bad(v) <=> v.kind = "bad" \/ \E i \in DOMAIN v.parts : Bad(v.parts[i])
         /\ v.parts = <<>> => (Bad(v) <=> v.kind = "bad")
<1>1. Bad(v) <=> v.kind = "bad" \/ \E i \in DOMAIN v.parts : Bad(v.parts[i])
  BY HasOfParts DEF Bad
<1>2. v.parts = <<>> => DOMAIN v.parts = {}
  OBVIOUS
<1> QED BY <1>1, <1>2

LEMMA IndentsOfParts ==
  ASSUME NEW v \in Nodes, Indents(v)
  PROVE  /\ v.kind # "panic"
         /\ v.kind = "map" => /\ v.parts # <<>>
                              /\ \A i \in DOMAIN v.parts : v.parts[i].kind # "map" /\ v.parts[i].parts = <<>>
         /\ \A i \in DOMAIN v.parts : Indents(v.parts[i])
<1>1. Within[v] = {v} \cup UNION {Within[v.parts[i]] : i \in DOMAIN v.parts}
  BY WithinIs
<1>2. v \in Within[v] /\ \A i \in DOMAIN v.parts : Within[v.parts[i]] \subseteq Within[v]
  BY <1>1
<1> QED BY <1>2 DEF Indents

LEMMA OrderIs ==
  ASSUME NEW v \in Nodes
  PROVE  /\ Order(v) \in [1..Len(v.parts) -> 1..Len(v.parts)]
         /\ v.kind = "map" => Sorts(Order(v), Len(v.parts), v.names)
<1> DEFINE n == Len(v.parts)
<1>1. n \in Nat /\ DOMAIN v.parts = 1..n
  BY NodeFacts
<1>2. CASE v.kind = "map"
  <2> DEFINE key == v.names
             P(o) == \A i, j \in 1..n : i < j => o[i] # o[j] /\ key[o[i]] <= key[o[j]]
  <2>1. key \in [1..n -> Nat]
    BY <1>2, NodeFacts
  <2>2. Order(v) = CHOOSE o \in [1..n -> 1..n] : P(o)
    BY <1>2, <2>1 DEF Order, Ordering
  <2>3. \E o \in [1..n -> 1..n] : P(o)
    <3> HIDE DEF key, n
    <3>1. \E o : Sorts(o, n, key)
      BY <1>1, <2>1, SortsExists
    <3> QED BY <3>1 DEF Sorts
  <2>4. Order(v) \in [1..n -> 1..n] /\ P(Order(v))
    <3> HIDE DEF P
    <3> QED BY <2>2, <2>3
  <2> QED BY <1>2, <2>4 DEF Sorts
<1>3. CASE v.kind # "map"
  BY <1>1, <1>3 DEF Order
<1> QED BY <1>2, <1>3

LEMMA MarksAreLetters == \A x \in Marks : x \in Letters /\ <<x>> \in Texts
BY ConcatTexts DEF Letters

LEMMA NewLineText ==
  ASSUME NEW n \in Nat, NEW ind \in Nat
  PROVE  NewLine(n, ind) \in Texts
<1> DEFINE spaces == [i \in 1..ind |-> " "]
<1>1. spaces \in Texts
  <2>1. spaces \in [1..ind -> Letters]
    BY MarksAreLetters DEF Marks
  <2> HIDE DEF spaces
  <2>2. spaces \in Seq(Letters)
    BY <2>1, SeqDef
  <2> QED BY <2>2 DEF Texts
<1>2. <<"\n">> \in Texts
  BY MarksAreLetters DEF Marks
<1> HIDE DEF spaces
<1>3. <<"\n">> \o spaces \in Texts /\ <<>> \in Texts
  BY <1>1, <1>2, ConcatTexts
<1> QED BY <1>3 DEF NewLine, spaces

LEMMA LabelText ==
  ASSUME NEW n \in Nat, NEW v \in Nodes, NEW i \in DOMAIN v.parts
  PROVE  Label(n, v, i) \in Texts
<1>0. v.kind \in {"array", "object", "map"}
  <2>1. v.parts # <<>>
    OBVIOUS
  <2> QED BY <2>1, NodeFacts
<1> DEFINE colon == IF n > 0 THEN <<":", " ">> ELSE <<":">>
<1>1. colon \in Texts
  <2>1. <<":">> \o <<" ">> = <<":", " ">>
    BY PairIs
  <2>2. <<":">> \in Texts /\ <<" ">> \in Texts
    BY MarksAreLetters DEF Marks
  <2> QED BY <2>1, <2>2, ConcatTexts
<1>2. CASE v.kind = "array"
  BY <1>2, ConcatTexts DEF Label
<1>3. CASE v.kind # "array"
  <2> DEFINE name == Names[v.names[i]]
  <2>1. name \in Letters
    BY <1>0, <1>3, NodeFacts
  <2>2. Label(n, v, i) = <<name>> \o colon
    BY <1>3 DEF Label
  <2> HIDE DEF name, colon
  <2> QED BY <1>1, <2>1, <2>2, ConcatTexts
<1> QED BY <1>2, <1>3

LEMMA BracketText ==
  ASSUME NEW v
  PROVE  Bracket(v) \in Texts /\ Bracket(v)[1] \in Letters /\ Bracket(v)[2] \in Letters
         /\ Bracket(v) = <<Bracket(v)[1]>> \o <<Bracket(v)[2]>>
<1> DEFINE a == Bracket(v)[1]
           b == Bracket(v)[2]
<1>1. Bracket(v) = <<a, b>> /\ a \in Marks /\ b \in Marks
  BY DEF Bracket, Marks
<1> HIDE DEF a, b
<1>2. <<a>> \o <<b>> = <<a, b>>
  BY PairIs
<1>3. <<a>> \in Texts /\ <<b>> \in Texts /\ a \in Letters /\ b \in Letters
  BY <1>1, MarksAreLetters
<1>4. <<a>> \o <<b>> \in Texts
  BY <1>3, ConcatTexts
<1> QED BY <1>1, <1>2, <1>3, <1>4 DEF a, b

LEMMA LeadText ==
  ASSUME NEW n \in Nat, NEW v \in Nodes,
         NEW k \in 1..Len(v.parts), NEW ind \in Nat
  PROVE  Lead(n, v, k, ind) \in Texts
<1> DEFINE first == IF k = 1 THEN Bracket(v)[1] ELSE ","
<1>1. <<first>> \in Texts
  <2>1. "," \in Letters /\ Bracket(v)[1] \in Letters
    BY BracketText, MarksAreLetters DEF Marks
  <2> QED BY <2>1, ConcatTexts
<1>2. Label(n, v, Order(v)[k]) \in Texts /\ NewLine(n, ind) \in Texts
  <2>1. Order(v)[k] \in DOMAIN v.parts
    BY OrderIs, NodeFacts
  <2> QED BY <2>1, LabelText, NewLineText
<1> HIDE DEF first
<1> QED BY <1>1, <1>2, ConcatTexts DEF Lead, first

Tables == [Nodes -> [Nat -> Texts]]

LEMMA PartsText ==
  ASSUME NEW n \in Nat, NEW v \in Nodes, NEW ind \in Nat, NEW text \in Tables
  PROVE  Parts(n, text, v, ind) \in Seq(Texts) /\ Len(Parts(n, text, v, ind)) = Len(v.parts)
<1> DEFINE m == Len(v.parts)
           piece == [k \in 1..m |-> Lead(n, v, k, ind) \o text[v.parts[Order(v)[k]]][ind]]
<1>1. DOMAIN v.parts = 1..m /\ m \in Nat
  BY NodeFacts
<1>2. Parts(n, text, v, ind) = piece
  BY <1>1 DEF Parts
<1>3. ASSUME NEW k \in 1..m PROVE Lead(n, v, k, ind) \o text[v.parts[Order(v)[k]]][ind] \in Texts
  <2>1. Order(v)[k] \in DOMAIN v.parts
    BY <1>1, OrderIs
  <2>2. v.parts[Order(v)[k]] \in Nodes
    BY <2>1, NodeFacts
  <2>3. text[v.parts[Order(v)[k]]][ind] \in Texts
    BY <2>2 DEF Tables
  <2>4. Lead(n, v, k, ind) \in Texts
    BY LeadText
  <2> QED BY <2>3, <2>4, ConcatTexts
<1>4. piece \in [1..m -> Texts]
  BY <1>3
<1> HIDE DEF piece, m
<1>5. piece \in Seq(Texts) /\ Len(piece) = m
  <2>1. piece \in Seq(Texts)
    BY <1>1, <1>4, SeqDef
  <2>2. Len(piece) = m
    BY <1>1, <1>4, <2>1, LenProperties
  <2> QED BY <2>1, <2>2
<1> QED BY <1>2, <1>5 DEF m

LEMMA TextAtText ==
  ASSUME NEW n \in Nat, NEW v \in Nodes, NEW ind \in Nat, NEW text \in Tables
  PROVE  TextAt(n, text, v, ind) \in Texts
<1>1. CASE v.kind \in {"scalar", "marshaler", "bad", "panic"}
  <2>1. <<"1">> \in Texts /\ <<"m">> \in Texts /\ <<>> \in Texts
    BY ConcatTexts, MarksAreLetters DEF Marks
  <2> QED BY <1>1, <2>1 DEF TextAt
<1>2. CASE v.kind \in {"array", "object", "map"}
  <2> DEFINE pieces == Parts(n, text, v, ind + n)
             body == Joined(pieces)[Len(v.parts)]
             line == NewLine(n, ind)
             end == <<Bracket(v)[2]>>
  <2>1. TextAt(n, text, v, ind) = IF v.parts = <<>> THEN Bracket(v) ELSE body \o line \o end
    BY <1>2 DEF TextAt
  <2>2. ind + n \in Nat /\ Len(v.parts) \in Nat
    BY NodeFacts
  <2>3. pieces \in Seq(Texts) /\ Len(pieces) = Len(v.parts)
    BY <1>2, <2>2, PartsText
  <2>4. body \in Texts
    <3> HIDE DEF pieces
    <3>1. Len(v.parts) \in 0..Len(pieces)
      BY <2>2, <2>3
    <3> QED BY <2>3, <3>1, JoinedIs
  <2>5. line \in Texts /\ end \in Texts /\ Bracket(v) \in Texts
    BY NewLineText, BracketText, ConcatTexts
  <2> HIDE DEF body, line, end
  <2>6. body \o line \o end \in Texts
    BY <2>4, <2>5, ConcatTexts
  <2> QED BY <2>1, <2>5, <2>6
<1>3. v.kind \in Kinds
  BY NodeFacts
<1> QED BY <1>1, <1>2, <1>3 DEF Kinds

LEMMA TextAtSame ==
  ASSUME NEW n, NEW v \in Nodes, NEW ind, NEW e, NEW f,
         \A i \in DOMAIN v.parts : e[v.parts[i]] = f[v.parts[i]]
  PROVE  TextAt(n, e, v, ind) = TextAt(n, f, v, ind)
<1>1. \A x : Parts(n, e, v, x) = Parts(n, f, v, x)
  <2>1. TAKE x
  <2>2. ASSUME NEW k \in DOMAIN v.parts PROVE e[v.parts[Order(v)[k]]] = f[v.parts[Order(v)[k]]]
    <3>1. Order(v)[k] \in DOMAIN v.parts
      BY OrderIs, NodeFacts
    <3> QED BY <3>1
  <2> QED BY <2>2 DEF Parts
<1> QED BY <1>1 DEF TextAt

IsText(n, f) == f = [v \in Nodes |-> [ind \in Nat |-> TextAt(n, f, v, ind)]]

LEMMA TextIs ==
  ASSUME NEW n \in Nat
  PROVE  /\ Text(n) \in Tables
         /\ \A v \in Nodes, ind \in Nat : Text(n)[v][ind] = TextAt(n, Text(n), v, ind)
<1> DEFINE X == [Nat -> Texts]
           h == [p \in [Nodes -> X] \X Nodes |-> [ind \in Nat |-> TextAt(n, p[1], p[2], ind)]]
<1>1. ASSUME NEW e \in [Nodes -> X], NEW v \in Nodes
      PROVE  h[<<e, v>>] = [ind \in Nat |-> TextAt(n, e, v, ind)] /\ h[<<e, v>>] \in X
  <2>1. h[<<e, v>>] = [ind \in Nat |-> TextAt(n, e, v, ind)]
    OBVIOUS
  <2>2. \A ind \in Nat : TextAt(n, e, v, ind) \in Texts
    BY TextAtText DEF Tables
  <2> DEFINE t(ind) == TextAt(n, e, v, ind)
  <2>3. \A ind \in Nat : t(ind) \in Texts
    BY <2>2
  <2> HIDE DEF t
  <2>4. [ind \in Nat |-> t(ind)] \in [Nat -> Texts]
    BY <2>3
  <2> QED BY <2>1, <2>4 DEF t
<1>2. h \in [[Nodes -> X] \X Nodes -> X]
  <2>1. h = [p \in [Nodes -> X] \X Nodes |-> h[p]]
    OBVIOUS
  <2>2. \A p \in [Nodes -> X] \X Nodes : p[1] \in [Nodes -> X] /\ p[2] \in Nodes /\ p = <<p[1], p[2]>>
    OBVIOUS
  <2>3. \A p \in [Nodes -> X] \X Nodes : h[p] \in X
    <3> HIDE DEF h, X
    <3> QED BY <1>1, <2>2
  <2> HIDE DEF h, X
  <2> QED BY <2>1, <2>3
<1>3. \E x : x \in X
  <2>1. <<>> \in Texts
    BY ConcatTexts
  <2>2. [i \in Nat |-> <<>>] \in [Nat -> Texts]
    BY <2>1
  <2> QED BY <2>2
<1>4. ASSUME NEW e \in [Nodes -> X], NEW f \in [Nodes -> X], NEW v \in Nodes,
             \A i \in DOMAIN v.parts : e[v.parts[i]] = f[v.parts[i]]
      PROVE  h[<<e, v>>] = h[<<f, v>>]
  <2>1. \A ind : TextAt(n, e, v, ind) = TextAt(n, f, v, ind)
    BY <1>4, TextAtSame
  <2>2. [ind \in Nat |-> TextAt(n, e, v, ind)] = [ind \in Nat |-> TextAt(n, f, v, ind)]
    BY <2>1
  <2>3. h[<<e, v>>] = [ind \in Nat |-> TextAt(n, e, v, ind)]
        /\ h[<<f, v>>] = [ind \in Nat |-> TextAt(n, f, v, ind)]
    <3> HIDE DEF h, X
    <3> QED BY <1>1, Zenon
  <2> HIDE DEF h
  <2> QED BY <2>2, <2>3
<1> HIDE DEF h, X
<1>a. IsPartsRule(h, X)
  BY <1>2, <1>4 DEF IsPartsRule
<1>5. PICK f \in [Nodes -> X] : \A v \in Nodes : f[v] = h[<<f, v>>]
  <2>1. \E f : Solves(f, h, X, Nodes)
    BY <1>3, <1>a, PartsRecursion
  <2> QED BY <2>1 DEF Solves
<1>6. IsText(n, f)
  <2>1. \A v \in Nodes : f[v] = [ind \in Nat |-> TextAt(n, f, v, ind)]
    BY <1>1, <1>5
  <2>2. f = [v \in Nodes |-> [ind \in Nat |-> TextAt(n, f, v, ind)]]
    BY <2>1
  <2> QED BY <2>2 DEF IsText
<1> DEFINE c == CHOOSE g : IsText(n, g)
<1>7. Text(n) = c
  BY DEF Text, IsText
<1>8. IsText(n, c)
  BY <1>6
<1> HIDE DEF c
<1>9. c = [v \in Nodes |-> [ind \in Nat |-> TextAt(n, c, v, ind)]]
  BY <1>8 DEF IsText
<1>10. \A v \in Nodes : c[v] = [ind \in Nat |-> TextAt(n, c, v, ind)]
  BY <1>9
<1>11. \A v \in Nodes : f[v] = [ind \in Nat |-> TextAt(n, f, v, ind)]
  BY <1>1, <1>5
<1> DEFINE S == {k \in Nat : \A v \in Nodes : Depth[v] = k => c[v] = f[v]}
<1>12. ASSUME NEW k \in Nat, \A j \in Nat : j < k => j \in S PROVE k \in S
  <2>1. ASSUME NEW v \in Nodes, Depth[v] = k PROVE c[v] = f[v]
    <3>1. \A i \in DOMAIN v.parts : v.parts[i] \in Nodes /\ Depth[v.parts[i]] \in Nat /\ Depth[v.parts[i]] < k
      BY <2>1, NodeFacts
    <3>2. \A i \in DOMAIN v.parts : c[v.parts[i]] = f[v.parts[i]]
      BY <1>12, <3>1
    <3>3. \A ind : TextAt(n, c, v, ind) = TextAt(n, f, v, ind)
      BY <3>2, TextAtSame
    <3> QED BY <1>10, <1>11, <3>3
  <2> QED BY <2>1
<1>13. Nat \subseteq S
  <2> HIDE DEF S
  <2> QED BY <1>12, StrongInduction
<1>14. \A v \in Nodes : c[v] = f[v]
  <2>1. \A v \in Nodes : Depth[v] \in Nat
    BY NodeFacts
  <2> QED BY <1>13, <2>1
<1>15. c \in [Nodes -> X]
  BY <1>9, <1>14
<1>16. \A v \in Nodes, ind \in Nat : c[v][ind] = TextAt(n, c, v, ind)
  BY <1>10
<1> QED BY <1>7, <1>15, <1>16 DEF Tables, X

----------------------------------------------------------------------------
(* What the encoders write of a value, part by part.                       *)

\* The parts as they are written; of a map also the members as they are on the
\* subStream, and what is written before the first.
Upto(n, v, ind) == Joined(Parts(n, Text(n), v, ind))
Member(n, v, i) == Label(n, v, i) \o Text(n)[v.parts[i]][0]
SubUpto(n, v, order) == Joined([k \in DOMAIN v.parts |-> Member(n, v, order[k])])
Opening(n, v, ind) == <<Bracket(v)[1]>> \o NewLine(n, ind)
Closing(n, v, ind) == NewLine(n, ind) \o <<Bracket(v)[2]>>
\* Whether one of the first k parts fails, in the order a call visits them.
BadTo(v, visits, k) == \E j \in 1..k : Bad(v.parts[visits[j]])

LEMMA UptoIs ==
  ASSUME NEW n \in Nat, NEW v \in Nodes, NEW ind \in Nat
  PROVE  /\ Upto(n, v, ind) \in [0..Len(v.parts) -> Texts] /\ Upto(n, v, ind)[0] = <<>>
         /\ \A k \in 1..Len(v.parts) :
              /\ Upto(n, v, ind)[k]
                 = Upto(n, v, ind)[k - 1] \o (Lead(n, v, k, ind) \o Text(n)[v.parts[Order(v)[k]]][ind])
              /\ Lead(n, v, k, ind) \in Texts /\ Text(n)[v.parts[Order(v)[k]]][ind] \in Texts
              /\ Order(v)[k] \in DOMAIN v.parts
<1> DEFINE pieces == Parts(n, Text(n), v, ind)
           m == Len(v.parts)
<1>1. pieces \in Seq(Texts) /\ Len(pieces) = m
  BY TextIs, PartsText
<1>2. DOMAIN v.parts = 1..m
  BY NodeFacts
<1>3. \A k \in 1..m : pieces[k] = Lead(n, v, k, ind) \o Text(n)[v.parts[Order(v)[k]]][ind]
  BY <1>2 DEF Parts
<1>4. ASSUME NEW k \in 1..m
      PROVE  /\ Lead(n, v, k, ind) \in Texts /\ Text(n)[v.parts[Order(v)[k]]][ind] \in Texts
             /\ Order(v)[k] \in DOMAIN v.parts
  <2>1. Order(v)[k] \in DOMAIN v.parts
    BY <1>2, OrderIs
  <2>2. v.parts[Order(v)[k]] \in Nodes
    BY <2>1, NodeFacts
  <2> QED BY <2>1, <2>2, TextIs, LeadText DEF Tables
<1> HIDE DEF pieces
<1>5. /\ Joined(pieces) \in [0..m -> Texts] /\ Joined(pieces)[0] = <<>>
      /\ \A k \in 1..m : Joined(pieces)[k] = Joined(pieces)[k - 1] \o pieces[k]
  BY <1>1, JoinedIs
<1>6. Upto(n, v, ind) = Joined(pieces)
  BY DEF Upto, pieces
<1> HIDE DEF m
<1>7. \A k \in 1..m : Joined(pieces)[k]
        = Joined(pieces)[k - 1] \o (Lead(n, v, k, ind) \o Text(n)[v.parts[Order(v)[k]]][ind])
  BY <1>3, <1>5
<1> QED BY <1>4, <1>5, <1>6, <1>7 DEF m

LEMMA MemberText ==
  ASSUME NEW n \in Nat, NEW v \in Nodes, NEW i \in DOMAIN v.parts
  PROVE  /\ Member(n, v, i) \in Texts /\ Label(n, v, i) \in Texts /\ v.parts[i] \in Nodes
         /\ \A ind \in Nat : Text(n)[v.parts[i]][ind] \in Texts
<1>1. v.parts[i] \in Nodes
  BY NodeFacts
<1>2. \A ind \in Nat : Text(n)[v.parts[i]][ind] \in Texts
  BY <1>1, TextIs DEF Tables
<1>3. Label(n, v, i) \in Texts
  BY LabelText
<1> QED BY <1>1, <1>2, <1>3, ConcatTexts DEF Member

LEMMA OrdersFacts ==
  ASSUME NEW v \in Nodes, NEW o \in Orders(v)
  PROVE  /\ o \in [1..Len(v.parts) -> 1..Len(v.parts)] /\ \A k \in 1..Len(v.parts) : o[k] \in DOMAIN v.parts
         /\ \A i \in DOMAIN v.parts : \E k \in 1..Len(v.parts) : o[k] = i
<1> DEFINE n == Len(v.parts)
<1>1. DOMAIN v.parts = 1..n /\ n \in Nat
  BY NodeFacts
<1>2. o \in [1..n -> 1..n] /\ \A i, j \in 1..n : o[i] = o[j] => i = j
  BY DEF Orders
<1> HIDE DEF n
<1>3. o \in Injection(1..n, 1..n)
  BY <1>2 DEF Injection, IsInjective
<1>4. o \in Surjection(1..n, 1..n)
  BY <1>1, <1>3, FS_Interval, FS_Injection
<1> QED BY <1>1, <1>2, <1>4 DEF Surjection, n

LEMMA SubUptoIs ==
  ASSUME NEW n \in Nat, NEW v \in Nodes, NEW o \in Orders(v)
  PROVE  /\ SubUpto(n, v, o) \in [0..Len(v.parts) -> Texts] /\ SubUpto(n, v, o)[0] = <<>>
         /\ \A k \in 1..Len(v.parts) : SubUpto(n, v, o)[k] = SubUpto(n, v, o)[k - 1] \o Member(n, v, o[k])
<1> DEFINE m == Len(v.parts)
           pieces == [k \in 1..m |-> Member(n, v, o[k])]
<1>1. DOMAIN v.parts = 1..m /\ m \in Nat
  BY NodeFacts
<1>2. \A k \in 1..m : Member(n, v, o[k]) \in Texts
  BY OrdersFacts, MemberText
<1>3. pieces \in [1..m -> Texts]
  BY <1>2
<1>4. SubUpto(n, v, o) = Joined(pieces) /\ \A k \in 1..m : pieces[k] = Member(n, v, o[k])
  BY <1>1 DEF SubUpto
<1> HIDE DEF pieces, m
<1>5. pieces \in Seq(Texts) /\ Len(pieces) = m
  <2>1. pieces \in Seq(Texts)
    BY <1>1, <1>3, SeqDef
  <2> QED BY <1>1, <1>3, <2>1, LenProperties
<1>6. /\ Joined(pieces) \in [0..m -> Texts] /\ Joined(pieces)[0] = <<>>
      /\ \A k \in 1..m : Joined(pieces)[k] = Joined(pieces)[k - 1] \o pieces[k]
  BY <1>5, JoinedIs
<1> QED BY <1>4, <1>6 DEF m

\* The text of a value that is made of parts, and of one that is not.
LEMMA TextOfParts ==
  ASSUME NEW n \in Nat, NEW v \in Nodes, NEW ind \in Nat
  PROVE  /\ Text(n)[v][ind] \in Texts
         /\ v.kind = "scalar" => Text(n)[v][ind] = <<"1">>
         /\ v.kind = "marshaler" => Text(n)[v][ind] = <<"m">>
         /\ v.kind = "bad" => Text(n)[v][ind] = <<>>
         /\ v.kind \in {"array", "object", "map"} =>
              Text(n)[v][ind] = IF v.parts = <<>> THEN Bracket(v)
                                ELSE Upto(n, v, ind + n)[Len(v.parts)] \o Closing(n, v, ind)
<1>1. Text(n)[v][ind] = TextAt(n, Text(n), v, ind) /\ Text(n)[v][ind] \in Texts
  BY TextIs DEF Tables
<1>2. ASSUME v.kind \in {"array", "object", "map"}
      PROVE  Text(n)[v][ind] = IF v.parts = <<>> THEN Bracket(v)
                               ELSE Upto(n, v, ind + n)[Len(v.parts)] \o Closing(n, v, ind)
  <2> DEFINE body == Upto(n, v, ind + n)[Len(v.parts)]
             line == NewLine(n, ind)
             end == <<Bracket(v)[2]>>
  <2>1. Text(n)[v][ind] = IF v.parts = <<>> THEN Bracket(v) ELSE body \o line \o end
    BY <1>1, <1>2 DEF TextAt, Upto
  <2>2. body \in Texts /\ line \in Texts /\ end \in Texts
    <3>1. ind + n \in Nat /\ Len(v.parts) \in Nat
      BY NodeFacts
    <3>2. Len(v.parts) \in 0..Len(v.parts)
      BY <3>1
    <3>3. body \in Texts
      <4>1. Upto(n, v, ind + n) \in [0..Len(v.parts) -> Texts]
        BY <3>1, UptoIs
      <4> QED BY <3>2, <4>1
    <3>4. line \in Texts /\ end \in Texts
      BY NewLineText, BracketText, ConcatTexts
    <3> QED BY <3>3, <3>4
  <2>3. Closing(n, v, ind) = line \o end
    BY DEF Closing
  <2> HIDE DEF body, line, end
  <2>4. body \o line \o end = body \o (line \o end)
    BY <2>2, ConcatTexts
  <2> QED BY <2>1, <2>3, <2>4 DEF body
<1>3. /\ v.kind = "scalar" => Text(n)[v][ind] = <<"1">>
      /\ v.kind = "marshaler" => Text(n)[v][ind] = <<"m">>
      /\ v.kind = "bad" => Text(n)[v][ind] = <<>>
  BY <1>1 DEF TextAt
<1> QED BY <1>1, <1>2, <1>3

LEMMA OpeningText ==
  ASSUME NEW n \in Nat, NEW v, NEW ind \in Nat
  PROVE  Opening(n, v, ind) \in Texts /\ Closing(n, v, ind) \in Texts
BY NewLineText, BracketText, ConcatTexts DEF Opening, Closing

\* What is written of a value is a beginning of its text.
LEMMA UptoBegins ==
  ASSUME NEW n \in Nat, NEW v \in Nodes, v.kind \in {"array", "object", "map"}, NEW ind \in Nat,
         NEW k \in 0..Len(v.parts)
  PROVE  IsPrefixOf(Upto(n, v, ind + n)[k], Text(n)[v][ind])
<1> DEFINE m == Len(v.parts)
           x == ind + n
           pieces == Parts(n, Text(n), v, x)
<1>1. m \in Nat /\ x \in Nat /\ DOMAIN v.parts = 1..m
  BY NodeFacts
<1>2. Upto(n, v, x) \in [0..m -> Texts] /\ Upto(n, v, x)[0] = <<>>
  BY <1>1, UptoIs
<1>3. pieces \in Seq(Texts) /\ Len(pieces) = m
  BY <1>1, TextIs, PartsText
<1>4. IsPrefixOf(Upto(n, v, x)[k], Upto(n, v, x)[m])
  <2> HIDE DEF pieces, x
  <2>1. Upto(n, v, x) = Joined(pieces)
    BY DEF Upto, pieces
  <2>2. k \in 0..Len(pieces)
    BY <1>3
  <2>3. IsPrefixOf(Joined(pieces)[k], Joined(pieces)[Len(pieces)])
    BY <1>3, <2>2, JoinedBegins
  <2> QED BY <1>3, <2>1, <2>3
<1>5. Text(n)[v][ind] \in Texts /\ Closing(n, v, ind) \in Texts
      /\ Text(n)[v][ind] = IF v.parts = <<>> THEN Bracket(v) ELSE Upto(n, v, x)[m] \o Closing(n, v, ind)
  BY TextOfParts, OpeningText
<1> DEFINE u == Upto(n, v, x)
<1>6. u[k] \in Texts /\ u[m] \in Texts /\ u[0] = <<>>
  <2>1. m \in 0..m /\ k \in 0..m
    BY <1>1
  <2> QED BY <1>2, <2>1
<1> HIDE DEF u
<1>7. CASE v.parts = <<>>
  <2>1. m = 0 /\ k = 0
    BY <1>7
  <2>2. IsPrefixOf(<<>>, <<>> \o Text(n)[v][ind])
    BY <1>5, Beginnings, ConcatTexts
  <2>3. <<>> \o Text(n)[v][ind] = Text(n)[v][ind]
    BY <1>5, ConcatTexts
  <2> QED BY <1>6, <2>1, <2>2, <2>3 DEF u
<1>8. CASE v.parts # <<>>
  <2>1. Text(n)[v][ind] = u[m] \o Closing(n, v, ind)
    BY <1>5, <1>8 DEF u
  <2>2. IsPrefixOf(u[m], Text(n)[v][ind])
    <3>1. IsPrefixOf(u[m], u[m] \o Closing(n, v, ind))
      BY <1>5, <1>6, Beginnings
    <3> QED BY <2>1, <3>1
  <2>3. IsPrefixOf(u[k], u[m])
    BY <1>4 DEF u
  <2>4. IsPrefixOf(u[k], Text(n)[v][ind])
    BY <1>5, <1>6, <2>2, <2>3, Beginnings
  <2> QED BY <2>4 DEF u, x
<1> QED BY <1>7, <1>8

\* The members of a map have one text, whatever the line they begin on.
LEMMA FlatMember ==
  ASSUME NEW n \in Nat, NEW v \in Nodes, v.kind = "map", n # 0 => Indents(v),
         NEW i \in DOMAIN v.parts, NEW ind \in Nat, n = 0 => ind = 0
  PROVE  Text(n)[v.parts[i]][ind] = Text(n)[v.parts[i]][0]
<1>1. CASE n = 0
  BY <1>1
<1>2. CASE n # 0
  <2> DEFINE u == v.parts[i]
  <2>1. u \in Nodes /\ u.parts = <<>>
    BY <1>2, IndentsOfParts, NodeFacts
  <2>2. \A x \in Nat : Text(n)[u][x] = TextAt(n, Text(n), u, x)
    BY <2>1, TextIs
  <2>3. \A x : TextAt(n, Text(n), u, x) = TextAt(n, Text(n), u, 0)
    <3> HIDE DEF u
    <3> QED BY <2>1 DEF TextAt
  <2> QED BY <2>2, <2>3
<1> QED BY <1>1, <1>2

\* The first part of a value comes after the opening bracket, the others after a
\* comma.
LEMMA LeadIs ==
  ASSUME NEW n \in Nat, NEW v \in Nodes, NEW k \in 1..Len(v.parts), NEW ind \in Nat
  PROVE  /\ k = 1 => Lead(n, v, k, ind) = Opening(n, v, ind) \o Label(n, v, Order(v)[k])
         /\ k # 1 => Lead(n, v, k, ind) = (<<",">> \o NewLine(n, ind)) \o Label(n, v, Order(v)[k])
BY DEF Lead, Opening

\* All parts of a map fail if one does, in any order.
LEMMA BadToIs ==
  ASSUME NEW v \in Nodes, NEW visits
  PROVE  /\ ~BadTo(v, visits, 0)
         /\ \A k \in Nat : BadTo(v, visits, k + 1) <=> BadTo(v, visits, k) \/ Bad(v.parts[visits[k + 1]])
         /\ v.kind # "bad" /\ (visits \in Orders(v) \/ visits = [i \in DOMAIN v.parts |-> i]) =>
              /\ BadTo(v, visits, Len(v.parts)) <=> Bad(v)
              /\ \A k \in 0..Len(v.parts) : BadTo(v, visits, k) => Bad(v)
<1>1. ~BadTo(v, visits, 0)
  BY DEF BadTo
<1>2. ASSUME NEW k \in Nat PROVE BadTo(v, visits, k + 1) <=> BadTo(v, visits, k) \/ Bad(v.parts[visits[k + 1]])
  <2>1. \A j : j \in 1..(k + 1) <=> j \in 1..k \/ j = k + 1
    OBVIOUS
  <2> QED BY <2>1 DEF BadTo
<1>3. ASSUME v.kind # "bad", visits \in Orders(v) \/ visits = [i \in DOMAIN v.parts |-> i]
      PROVE  /\ BadTo(v, visits, Len(v.parts)) <=> Bad(v)
             /\ \A k \in 0..Len(v.parts) : BadTo(v, visits, k) => Bad(v)
  <2> DEFINE m == Len(v.parts)
  <2>1. m \in Nat /\ DOMAIN v.parts = 1..m
    BY NodeFacts
  <2>2. /\ \A k \in 1..m : visits[k] \in DOMAIN v.parts
        /\ \A i \in DOMAIN v.parts : \E k \in 1..m : visits[k] = i
    BY <1>3, <2>1, OrdersFacts
  <2>3. Bad(v) <=> \E i \in DOMAIN v.parts : Bad(v.parts[i])
    BY <1>3, BadOfParts
  <2>4. \A k \in 0..m : \A j \in 1..k : j \in 1..m
    BY <2>1
  <2>5. m \in 0..m
    BY <2>1
  <2> HIDE DEF m
  <2>6. \A k \in 0..m : BadTo(v, visits, k) => Bad(v)
    BY <2>2, <2>3, <2>4 DEF BadTo
  <2>7. Bad(v) => BadTo(v, visits, m)
    BY <2>2, <2>3 DEF BadTo
  <2> QED BY <2>5, <2>6, <2>7 DEF m
<1> QED BY <1>1, <1>2, <1>3

\* The entries of a map, sorted by name, whatever the order they came in.
Entry(n, v, i) == [name |-> v.names[i], bytes |-> Member(n, v, i)]

LEMMA SortedEntries ==
  ASSUME NEW n, NEW v \in Nodes, v.kind = "map", NEW o \in Orders(v)
  PROVE  Sorted([k \in 1..Len(v.parts) |-> Entry(n, v, o[k])])
         = [k \in 1..Len(v.parts) |-> Entry(n, v, Order(v)[k])]
<1> DEFINE m == Len(v.parts)
           key == v.names
           members == [k \in 1..m |-> Entry(n, v, o[k])]
           names == [k \in 1..m |-> key[o[k]]]
           p == Ordering(names)
           q == [k \in 1..m |-> o[p[k]]]
<1>1. m \in Nat /\ key \in [1..m -> Nat] /\ o \in [1..m -> 1..m]
      /\ \A i, j \in 1..m : key[i] = key[j] => i = j
  BY NodeFacts, OrdersFacts
<1>2. \A i, j \in 1..m : o[i] = o[j] => i = j
  BY DEF Orders
<1>3. Sorts(Order(v), m, key)
  BY OrderIs
<1> HIDE DEF m, key
<1>4. names \in [1..m -> Nat]
  BY <1>1
<1>5. Sorts(p, m, names)
  <2> DEFINE P(x) == \A i, j \in 1..m : i < j => x[i] # x[j] /\ names[x[i]] <= names[x[j]]
  <2>1. p = CHOOSE x \in [1..m -> 1..m] : P(x)
    BY <1>4 DEF Ordering
  <2>2. \E x : Sorts(x, m, names)
    <3> HIDE DEF names
    <3> QED BY <1>1, <1>4, SortsExists
  <2>3. \E x \in [1..m -> 1..m] : P(x)
    <3> HIDE DEF names
    <3> QED BY <2>2 DEF Sorts
  <2> HIDE DEF p
  <2>4. p \in [1..m -> 1..m] /\ P(p)
    <3> HIDE DEF P
    <3> QED BY <2>1, <2>3
  <2> QED BY <2>4 DEF Sorts
<1> HIDE DEF p
<1>6. p \in [1..m -> 1..m] /\ \A i, j \in 1..m : i < j => p[i] # p[j] /\ key[o[p[i]]] <= key[o[p[j]]]
  <2>1. p \in [1..m -> 1..m] /\ \A i, j \in 1..m : i < j => p[i] # p[j] /\ names[p[i]] <= names[p[j]]
    <3> HIDE DEF names
    <3> QED BY <1>5 DEF Sorts
  <2> QED BY <2>1
<1>7. Sorts(q, m, key)
  <2>1. q \in [1..m -> 1..m] /\ \A k \in 1..m : q[k] = o[p[k]]
    BY <1>1, <1>6
  <2>2. ASSUME NEW i \in 1..m, NEW j \in 1..m, i < j PROVE q[i] # q[j] /\ key[q[i]] <= key[q[j]]
    BY <1>2, <1>6, <2>1, <2>2
  <2> HIDE DEF q
  <2> QED BY <2>1, <2>2 DEF Sorts
<1>8. q = Order(v)
  <2> HIDE DEF q
  <2> QED BY <1>1, <1>3, <1>7, SortsUnique
<1>9. Sorted(members) = [k \in 1..m |-> members[p[k]]]
  <2>1. [i \in DOMAIN members |-> members[i].name] = names
    BY DEF Entry, key
  <2> HIDE DEF names
  <2>2. Ordering([i \in DOMAIN members |-> members[i].name]) = p
    BY <2>1 DEF p
  <2>3. Sorted(members) = [i \in DOMAIN members |-> members[Ordering([j \in DOMAIN members |-> members[j].name])[i]]]
    BY DEF Sorted
  <2>4. DOMAIN members = 1..m
    OBVIOUS
  <2> HIDE DEF members
  <2> QED BY <2>2, <2>3, <2>4
<1>10. \A k \in 1..m : members[p[k]] = Entry(n, v, Order(v)[k])
  <2>1. \A k \in 1..m : members[p[k]] = Entry(n, v, o[p[k]]) /\ o[p[k]] = q[k]
    BY <1>6
  <2> HIDE DEF q
  <2> QED BY <1>8, <2>1
<1> HIDE DEF members
<1>11. Sorted(members) = [k \in 1..m |-> Entry(n, v, Order(v)[k])]
  BY <1>9, <1>10
<1> QED BY <1>11 DEF members, m

----------------------------------------------------------------------------
(* The text of what is encoded so far.  Each call of an encoder is seen in *)
(* a context: the text on its stream before it, the indention it begins    *)
(* with, and whether something failed on the stream before it.             *)

Contexts(n) == [pre : Texts, ind : IF n = 0 THEN {0} ELSE Nat, bad : BOOLEAN]

\* The order in which a call encodes the parts of its value, and what it has
\* written of them.
Visits(f) == IF f.val.kind = "map" THEN f.order ELSE [i \in DOMAIN f.val.parts |-> i]
Done(n, f, ind) ==
  IF f.val.kind # "map" THEN Upto(n, f.val, ind + n)[f.at]
  ELSE IF f.sub = None THEN <<>>
  ELSE IF f.sorted /\ f.at # 0 THEN Upto(n, f.val, ind + n)[f.at]
  ELSE Opening(n, f.val, ind + n)
\* The error of a stream; a map takes that of its subStream late.
ErrorIs(f, c, err) ==
  IF f.val.kind # "map" THEN (err # "nil") <=> (c.bad \/ BadTo(f.val, Visits(f), f.at))
  ELSE (err # "nil" => c.bad \/ Bad(f.val)) /\ (c.bad => err # "nil")
Opened(f) == IF f.val.kind = "map" THEN f.sub # None ELSE f.at # 0

\* What a stream was given, out, when a call f in context c is between two of its
\* parts, when one has not begun or has returned; and the subStream of a map.
Describes(n, f, c, out) ==
  /\ out.indention = c.ind + (IF Opened(f) THEN n ELSE 0)
  /\ out.known => out.text = c.pre \o Done(n, f, c.ind) /\ ErrorIs(f, c, out.err)
Before(c, out) ==
  /\ out.indention = c.ind
  /\ out.known => out.text = c.pre /\ ((out.err # "nil") <=> c.bad)
Finished(n, v, c, out) ==
  /\ out.indention = c.ind
  /\ out.known => /\ out.text = c.pre \o Text(n)[v][c.ind]
                  /\ (out.err # "nil") <=> (c.bad \/ Bad(v))
DescribesSub(n, f, out) ==
  /\ out.indention = 0 /\ out.known
  /\ (out.err # "nil") <=> BadTo(f.val, f.order, IF f.sorted THEN Len(f.val.parts) ELSE f.at)
  /\ ~f.sorted => out.text = SubUpto(n, f.val, f.order)[f.at]

\* A call: how far it is, and the members of a map.
HasMembers(n, f) ==
  /\ f.val.kind = "map" /\ f.order \in Orders(f.val)
  /\ f.sorted => f.members = [k \in 1..Len(f.val.parts) |-> Entry(n, f.val, Order(f.val)[k])]
  /\ ~f.sorted /\ f.at # 0 =>
       /\ f.members = [k \in 1..(f.at - 1) |-> Entry(n, f.val, f.order[k])]
       /\ f.subAt = Len(SubUpto(n, f.val, f.order)[f.at - 1])
GoodFrame(n, f) ==
  /\ f.val \in Nodes /\ (n # 0 => Indents(f.val))
  /\ f.at \in 0..Len(f.val.parts)
  /\ IF f.sub = None THEN f.val.kind = "map" => f.at = 0 ELSE HasMembers(n, f)

\* A call p in the middle of a part, and the call f for that part with its context.
Inside(p) == p.at # 0 /\ (p.val.kind = "map" => p.sub # None /\ ~p.sorted)
Child(n, p, c) ==
  IF p.val.kind = "map"
  THEN [pre |-> SubUpto(n, p.val, p.order)[p.at - 1] \o Label(n, p.val, p.order[p.at]),
        ind |-> 0, bad |-> BadTo(p.val, p.order, p.at - 1)]
  ELSE [pre |-> c.pre \o (Upto(n, p.val, c.ind + n)[p.at - 1] \o Lead(n, p.val, p.at, c.ind + n)),
        ind |-> c.ind + n, bad |-> c.bad \/ BadTo(p.val, Visits(p), p.at - 1)]
ChildVal(p) == p.val.parts[Visits(p)[p.at]]
ChildOn(p) == IF p.val.kind = "map" THEN p.sub ELSE p.on
IsPartOf(n, f, w, p, c) == Inside(p) /\ w = Child(n, p, c) /\ f.val = ChildVal(p) /\ f.on = ChildOn(p)

\* The contexts w of the calls s of an API call on stream id that encodes v after
\* pre: each call is in a part of the one around it, and no other call writes on
\* the stream of a map.
Starts(pre) == [pre |-> pre, ind |-> 0, bad |-> FALSE]
All(n, v, pre) == pre \o Text(n)[v][0]
IsBegun(n, f, c, all) == IsPrefixOf(c.pre \o Text(n)[f.val][c.ind], all)
Nested(n, s, w, id, v, pre) ==
  /\ w \in Seq(Contexts(n)) /\ Len(w) = Len(s)
  /\ \A i \in 1..Len(s) : GoodFrame(n, s[i])
  /\ \A i \in 1..Len(s) : i = Len(s) => w[i] = Starts(pre) /\ s[i].val = v /\ s[i].on = id
  /\ \A i \in 1..Len(s) : i # Len(s) => IsPartOf(n, s[i], w[i], s[i + 1], w[i + 1])
  /\ \A i, j \in 1..Len(s) : j < i /\ s[i].val.kind = "map" => s[j].on # s[i].on
  /\ \A i \in 1..Len(s) : s[i].on = id => IsBegun(n, s[i], w[i], All(n, v, pre))
Outer(n, s, w, out, from) ==
  \A i \in from..Len(s) : s[i].val.kind = "map" => Describes(n, s[i], w[i], out[s[i].on])
Explains(n, s, w, id, v, pre, out) ==
  /\ Nested(n, s, w, id, v, pre) /\ Outer(n, s, w, out, 2)
  /\ Describes(n, s[1], w[1], out[s[1].on])
  /\ s[1].sub # None => DescribesSub(n, s[1], out[s[1].sub])

----------------------------------------------------------------------------
(* Calls in calls.                                                         *)

LEMMA ContextFacts ==
  ASSUME NEW n \in Nat, NEW c \in Contexts(n)
  PROVE  c.pre \in Texts /\ c.ind \in Nat /\ c.bad \in BOOLEAN /\ (n = 0 => c.ind = 0) /\ c.ind + n \in Nat
BY DEF Contexts

\* What a call in the middle of a part has written before the part and with it.
LEMMA InsideFacts ==
  ASSUME NEW n \in Nat, NEW p, GoodFrame(n, p), Inside(p), NEW c \in Contexts(n)
  PROVE  /\ p.val \in Nodes /\ p.at \in 1..Len(p.val.parts) /\ p.at - 1 \in 0..Len(p.val.parts)
         /\ p.at \in 0..Len(p.val.parts) /\ p.at - 1 \in Nat /\ (p.at - 1) + 1 = p.at
         /\ p.val.kind = "map" => p.sub # None /\ ~p.sorted /\ HasMembers(n, p) /\ p.order \in Orders(p.val)
         /\ p.val.kind # "map" => p.sub = None /\ Visits(p)[p.at] = p.at /\ Order(p.val)[p.at] = p.at
         /\ Visits(p)[p.at] \in DOMAIN p.val.parts /\ ChildVal(p) \in Nodes
         /\ p.val.kind \in {"array", "object", "map"}
         /\ Child(n, p, c) \in Contexts(n)
         /\ n # 0 => Indents(ChildVal(p))
<1>1. /\ p.val \in Nodes /\ p.at \in 0..Len(p.val.parts) /\ p.at # 0
      /\ p.val.kind = "map" => p.sub # None /\ ~p.sorted
      /\ IF p.sub = None THEN p.val.kind = "map" => p.at = 0 ELSE HasMembers(n, p)
  BY DEF GoodFrame, Inside
<1> DEFINE v == p.val
           m == Len(v.parts)
<1>2. m \in Nat /\ DOMAIN v.parts = 1..m
  BY <1>1, NodeFacts
<1>3. p.at \in 1..m /\ p.at - 1 \in 0..m /\ p.at - 1 \in Nat /\ (p.at - 1) + 1 = p.at
  BY <1>1, <1>2
<1>4. v.kind \in {"array", "object", "map"}
  <2>1. v.parts # <<>>
    BY <1>2, <1>3
  <2> QED BY <1>1, <2>1, NodeFacts
<1>5. ASSUME v.kind = "map"
      PROVE  /\ p.order \in Orders(v) /\ Visits(p)[p.at] = p.order[p.at] /\ p.order[p.at] \in DOMAIN v.parts
             /\ Child(n, p, c) \in Contexts(n)
  <2>1. p.order \in Orders(v)
    BY <1>1, <1>5 DEF HasMembers
  <2>2. p.order[p.at] \in DOMAIN v.parts
    BY <1>1, <1>3, <2>1, OrdersFacts
  <2> DEFINE a == SubUpto(n, v, p.order)[p.at - 1]
             b == Label(n, v, p.order[p.at])
             e == BadTo(v, p.order, p.at - 1)
  <2>3. a \in Texts
    BY <1>1, <1>3, <2>1, SubUptoIs
  <2>4. b \in Texts
    BY <1>1, <2>2, LabelText
  <2>5. e \in BOOLEAN
    BY DEF BadTo
  <2>6. Child(n, p, c) = [pre |-> a \o b, ind |-> 0, bad |-> e]
    BY <1>5 DEF Child
  <2> HIDE DEF a, b, e
  <2>7. a \o b \in Texts
    BY <2>3, <2>4, ConcatTexts
  <2>8. Child(n, p, c) \in Contexts(n)
    BY <2>5, <2>6, <2>7 DEF Contexts
  <2> QED BY <1>5, <2>1, <2>2, <2>8 DEF Visits
<1>6. ASSUME v.kind # "map"
      PROVE  /\ p.sub = None /\ Visits(p)[p.at] = p.at /\ Order(v)[p.at] = p.at
             /\ Child(n, p, c) \in Contexts(n)
  <2>1. p.sub = None
    BY <1>1, <1>6 DEF HasMembers
  <2>2. Visits(p)[p.at] = p.at /\ Order(v)[p.at] = p.at
    BY <1>2, <1>3, <1>6 DEF Visits, Order
  <2> DEFINE x == c.ind + n
             a == Upto(n, v, x)[p.at - 1]
             b == Lead(n, v, p.at, x)
             e == c.bad \/ BadTo(v, Visits(p), p.at - 1)
  <2>3. x \in Nat /\ c.pre \in Texts /\ x \in IF n = 0 THEN {0} ELSE Nat
    BY ContextFacts
  <2>4. a \in Texts
    <3> HIDE DEF x
    <3>1. Upto(n, v, x) \in [0..m -> Texts]
      BY <1>1, <2>3, UptoIs
    <3> QED BY <1>3, <3>1
  <2>5. b \in Texts
    BY <1>1, <1>3, <2>3, LeadText
  <2>6. e \in BOOLEAN
    OBVIOUS
  <2>7. Child(n, p, c) = [pre |-> c.pre \o (a \o b), ind |-> x, bad |-> e]
    BY <1>6 DEF Child
  <2> HIDE DEF a, b, e, x
  <2>8. c.pre \o (a \o b) \in Texts
    BY <2>3, <2>4, <2>5, ConcatTexts
  <2>9. Child(n, p, c) \in Contexts(n)
    BY <2>3, <2>6, <2>7, <2>8 DEF Contexts
  <2> QED BY <2>1, <2>2, <2>9
<1>7. Visits(p)[p.at] \in DOMAIN v.parts
  BY <1>2, <1>3, <1>5, <1>6
<1>8. ChildVal(p) \in Nodes /\ (n # 0 => Indents(ChildVal(p)))
  <2>1. n # 0 => Indents(v)
    BY DEF GoodFrame
  <2> QED BY <1>1, <1>7, <2>1, NodeFacts, IndentsOfParts DEF ChildVal
<1> QED BY <1>1, <1>3, <1>4, <1>5, <1>6, <1>7, <1>8

\* t is s without its first element.
Follows(t, s) == \A i \in 1..(Len(s) - 1) : t[i] = s[i + 1]

\* A call returns to the one around it.
LEMMA NestedTail ==
  ASSUME NEW S, NEW s \in Seq(S), NEW n, NEW w, NEW id, NEW v, NEW pre,
         Nested(n, s, w, id, v, pre), Len(s) > 1
  PROVE  /\ Nested(n, Tail(s), Tail(w), id, v, pre)
         /\ Tail(s) # <<>> /\ Tail(s)[1] = s[2] /\ Tail(w)[1] = w[2] /\ Len(Tail(s)) = Len(s) - 1
         /\ Follows(Tail(s), s) /\ Follows(Tail(w), w) /\ Len(w) = Len(s)
<1> DEFINE t == Tail(s)
           x == Tail(w)
           C == Contexts(n)
           all == All(n, v, pre)
<1>1. w \in Seq(C) /\ Len(w) = Len(s) /\ Len(s) \in Nat
  BY LenProperties DEF Nested
<1>2. s # <<>> /\ w # <<>>
  BY <1>1, EmptySeq
<1> HIDE DEF C
<1>3. /\ t \in Seq(S) /\ Len(t) = Len(s) - 1 /\ x \in Seq(C) /\ Len(x) = Len(s) - 1
      /\ \A i \in 1..(Len(s) - 1) : t[i] = s[i + 1] /\ x[i] = w[i + 1]
  <2>1. t \in Seq(S) /\ Len(t) = Len(s) - 1 /\ \A i \in 1..Len(t) : t[i] = s[i + 1]
    BY <1>2, HeadTailProperties
  <2>2. x \in Seq(C) /\ Len(x) = Len(w) - 1 /\ \A i \in 1..Len(x) : x[i] = w[i + 1]
    BY <1>1, <1>2, HeadTailProperties
  <2> HIDE DEF t, x
  <2> QED BY <1>1, <2>1, <2>2
<1> DEFINE m == Len(s) - 1
<1>4. m \in Nat /\ m >= 1 /\ \A i \in 1..m : i + 1 \in 1..Len(s) /\ (i = m <=> i + 1 = Len(s))
  BY <1>1
<1> HIDE DEF t, x
<1>5. \A i \in 1..m : GoodFrame(n, t[i]) /\ (t[i].on = id => IsBegun(n, t[i], x[i], all))
  <2> HIDE DEF all
  <2> QED BY <1>3, <1>4 DEF Nested, all
<1>6. \A i \in 1..m : i = m => x[i] = Starts(pre) /\ t[i].val = v /\ t[i].on = id
  BY <1>3, <1>4 DEF Nested
<1>7. ASSUME NEW i \in 1..m, i # m PROVE IsPartOf(n, t[i], x[i], t[i + 1], x[i + 1])
  <2>1. i + 1 \in 1..m /\ i + 1 \in 1..Len(s) /\ i + 1 # Len(s)
    BY <1>4, <1>7
  <2>2. IsPartOf(n, s[i + 1], w[i + 1], s[i + 1 + 1], w[i + 1 + 1])
    BY <2>1 DEF Nested
  <2> QED BY <1>3, <2>1, <2>2
<1>8. \A i, j \in 1..m : j < i /\ t[i].val.kind = "map" => t[j].on # t[i].on
  <2>1. ASSUME NEW i \in 1..m, NEW j \in 1..m, j < i, t[i].val.kind = "map" PROVE t[j].on # t[i].on
    <3>1. i + 1 \in 1..Len(s) /\ j + 1 \in 1..Len(s) /\ j + 1 < i + 1
      BY <1>4, <2>1
    <3>2. t[i] = s[i + 1] /\ t[j] = s[j + 1]
      BY <1>3
    <3> QED BY <2>1, <3>1, <3>2 DEF Nested
  <2> QED BY <2>1
<1>9. Len(t) = m /\ Len(x) = m
  BY <1>3
<1> HIDE DEF m
<1>10. Nested(n, t, x, id, v, pre)
  BY <1>3, <1>5, <1>6, <1>7, <1>8, <1>9 DEF Nested, C, all
<1>11. 1 \in 1..(Len(s) - 1) /\ 1 + 1 = 2
  BY <1>4 DEF m
<1>12. t[1] = s[2] /\ x[1] = w[2] /\ t # <<>>
  BY <1>1, <1>3, <1>11
<1>13. Follows(t, s) /\ Follows(x, w) /\ Len(w) = Len(s)
  BY <1>1, <1>3 DEF Follows
<1> QED BY <1>3, <1>10, <1>12, <1>13 DEF t, x

\* A call goes on.
LEMMA NestedReplace ==
  ASSUME NEW S, NEW s \in Seq(S), s # <<>>, NEW n, NEW w, NEW id, NEW v, NEW pre,
         Nested(n, s, w, id, v, pre),
         NEW u, u.val = s[1].val, u.on = s[1].on, GoodFrame(n, u)
  PROVE  LET t == <<u>> \o Tail(s) IN
         /\ Nested(n, t, w, id, v, pre)
         /\ Len(t) = Len(s) /\ t[1] = u /\ \A i \in 2..Len(s) : t[i] = s[i]
<1> DEFINE t == <<u>> \o Tail(s)
           R == S \cup {u}
<1>1. s # <<>> /\ Len(s) \in Nat /\ Len(s) >= 1
  BY EmptySeq
<1>2. Tail(s) \in Seq(S) /\ Len(Tail(s)) = Len(s) - 1 /\ \A i \in 1..Len(Tail(s)) : Tail(s)[i] = s[i + 1]
  BY <1>1, HeadTailProperties
<1>3. Tail(s) \in Seq(R) /\ u \in R
  <2>1. S \subseteq R
    OBVIOUS
  <2> HIDE DEF R
  <2>2. Tail(s) \in Seq(R)
    BY <1>2, <2>1, SeqMonotonic
  <2> QED BY <2>2 DEF R
<1> HIDE DEF R
<1>4. t \in Seq(R) /\ Len(t) = Len(s) /\ t[1] = u /\ \A i \in 2..Len(s) : t[i] = s[i]
  <2>1. /\ t \in Seq(R) /\ Len(t) = Len(Tail(s)) + 1 /\ t[1] = u
        /\ \A k \in 2..(Len(Tail(s)) + 1) : t[k] = Tail(s)[k - 1]
    BY <1>3, ConsProperties
  <2> HIDE DEF t
  <2>2. \A i \in 2..Len(s) : i \in 2..(Len(Tail(s)) + 1) /\ i - 1 \in 1..Len(Tail(s)) /\ (i - 1) + 1 = i
    BY <1>1, <1>2
  <2> QED BY <1>1, <1>2, <2>1, <2>2
<1> HIDE DEF t
<1>5. \A i \in 1..Len(s) : t[i].val = s[i].val /\ t[i].on = s[i].on /\ GoodFrame(n, t[i])
  <2>1. \A i \in 1..Len(s) : i = 1 \/ i \in 2..Len(s)
    OBVIOUS
  <2>2. \A i \in 1..Len(s) : GoodFrame(n, s[i])
    BY DEF Nested
  <2> QED BY <1>4, <2>1, <2>2
<1>6. \A i \in 1..Len(s) : i # Len(s) => IsPartOf(n, t[i], w[i], t[i + 1], w[i + 1])
  <2>1. ASSUME NEW i \in 1..Len(s), i # Len(s) PROVE IsPartOf(n, t[i], w[i], t[i + 1], w[i + 1])
    <3>1. i + 1 \in 2..Len(s)
      BY <1>1, <2>1
    <3>2. IsPartOf(n, s[i], w[i], s[i + 1], w[i + 1])
      BY <2>1 DEF Nested
    <3>3. t[i + 1] = s[i + 1]
      BY <1>4, <3>1
    <3> QED BY <1>5, <3>2, <3>3 DEF IsPartOf
  <2> QED BY <2>1
<1>7. \A i \in 1..Len(s) : t[i].on = id => IsBegun(n, t[i], w[i], All(n, v, pre))
  BY <1>5 DEF Nested, IsBegun
<1>8. \A i, j \in 1..Len(s) : j < i /\ t[i].val.kind = "map" => t[j].on # t[i].on
  BY <1>5 DEF Nested
<1>9. \A i \in 1..Len(s) : i = Len(s) => w[i] = Starts(pre) /\ t[i].val = v /\ t[i].on = id
  BY <1>5 DEF Nested
<1>10. w \in Seq(Contexts(n)) /\ Len(w) = Len(t)
  BY <1>4 DEF Nested
<1>11. Nested(n, t, w, id, v, pre)
  BY <1>4, <1>5, <1>6, <1>7, <1>8, <1>9, <1>10 DEF Nested
<1> QED BY <1>4, <1>11 DEF t

\* A call begins a part.
LEMMA NestedPush ==
  ASSUME NEW S, NEW s \in Seq(S), s # <<>>, NEW n \in Nat, NEW w, NEW id, NEW v, NEW pre,
         Nested(n, s, w, id, v, pre),
         NEW u, NEW c \in Contexts(n), GoodFrame(n, u), IsPartOf(n, u, c, s[1], w[1]),
         \A i \in 1..Len(s) : s[i].val.kind = "map" => u.on # s[i].on,
         u.on = id => IsBegun(n, u, c, All(n, v, pre))
  PROVE  LET t == <<u>> \o s
             x == <<c>> \o w IN
         /\ Nested(n, t, x, id, v, pre)
         /\ Len(t) = Len(s) + 1 /\ t[1] = u /\ x[1] = c
         /\ Follows(s, t) /\ Follows(w, x) /\ Len(x) = Len(t)
<1> DEFINE t == <<u>> \o s
           x == <<c>> \o w
           R == S \cup {u}
           C == Contexts(n)
           all == All(n, v, pre)
           m == Len(s)
<1>1. m \in Nat /\ m >= 1
  BY EmptySeq
<1>2. s \in Seq(R) /\ u \in R
  <2>1. S \subseteq R
    OBVIOUS
  <2> HIDE DEF R
  <2>2. s \in Seq(R)
    BY <2>1, SeqMonotonic
  <2> QED BY <2>2 DEF R
<1>3. w \in Seq(C) /\ Len(w) = m /\ c \in C
  BY DEF Nested
<1> HIDE DEF R, C
<1>4. /\ t \in Seq(R) /\ Len(t) = m + 1 /\ t[1] = u /\ \A k \in 2..(m + 1) : t[k] = s[k - 1]
      /\ x \in Seq(C) /\ Len(x) = m + 1 /\ x[1] = c /\ \A k \in 2..(m + 1) : x[k] = w[k - 1]
  <2>1. t \in Seq(R) /\ Len(t) = Len(s) + 1 /\ t[1] = u /\ \A k \in 2..(Len(s) + 1) : t[k] = s[k - 1]
    BY <1>2, ConsProperties
  <2>2. x \in Seq(C) /\ Len(x) = Len(w) + 1 /\ x[1] = c /\ \A k \in 2..(Len(w) + 1) : x[k] = w[k - 1]
    BY <1>3, ConsProperties
  <2> QED BY <1>3, <2>1, <2>2
<1> HIDE DEF t, x, m
<1>5. \A i \in 1..m : t[i + 1] = s[i] /\ x[i + 1] = w[i]
  <2>1. \A i \in 1..m : i + 1 \in 2..(m + 1) /\ (i + 1) - 1 = i
    BY <1>1
  <2> QED BY <1>4, <2>1
<1>6. \A i \in 1..(m + 1) : i = 1 \/ \E k \in 1..m : i = k + 1
  <2>1. \A i \in 1..(m + 1) : i # 1 => i - 1 \in 1..m /\ i = (i - 1) + 1
    BY <1>1
  <2> QED BY <2>1
<1>7. \A i \in 1..(m + 1) : GoodFrame(n, t[i]) /\ (t[i].on = id => IsBegun(n, t[i], x[i], all))
  <2>1. \A i \in 1..m : GoodFrame(n, s[i]) /\ (s[i].on = id => IsBegun(n, s[i], w[i], all))
    BY DEF Nested, m
  <2> HIDE DEF all
  <2>2. u.on = id => IsBegun(n, u, c, all)
    BY DEF all
  <2>3. GoodFrame(n, u) /\ t[1] = u /\ x[1] = c
    BY <1>4
  <2>4. ASSUME NEW k \in 1..m
        PROVE  GoodFrame(n, t[k + 1]) /\ (t[k + 1].on = id => IsBegun(n, t[k + 1], x[k + 1], all))
    BY <1>5, <2>1
  <2> QED BY <1>6, <2>2, <2>3, <2>4
<1>8. \A i \in 1..(m + 1) : i = m + 1 => x[i] = Starts(pre) /\ t[i].val = v /\ t[i].on = id
  <2>1. m \in 1..m
    BY <1>1
  <2>2. w[m] = Starts(pre) /\ s[m].val = v /\ s[m].on = id
    BY <2>1 DEF Nested, m
  <2> QED BY <1>5, <2>1, <2>2
<1>9. ASSUME NEW i \in 1..(m + 1), i # m + 1 PROVE IsPartOf(n, t[i], x[i], t[i + 1], x[i + 1])
  <2>1. i \in 1..m
    BY <1>1, <1>9
  <2>2. CASE i = 1
    <3>1. t[1 + 1] = s[1] /\ x[1 + 1] = w[1]
      BY <1>5, <2>1, <2>2
    <3> QED BY <1>4, <2>2, <3>1
  <2>3. CASE i # 1
    <3>1. PICK k \in 1..m : i = k + 1
      BY <1>6, <2>3
    <3>2. k # m /\ k + 1 \in 1..m
      BY <1>1, <2>1, <3>1
    <3>3. IsPartOf(n, s[k], w[k], s[k + 1], w[k + 1])
      BY <3>2 DEF Nested, m
    <3> QED BY <1>5, <3>1, <3>2, <3>3
  <2> QED BY <2>2, <2>3
<1>10. ASSUME NEW i \in 1..(m + 1), NEW j \in 1..(m + 1), j < i, t[i].val.kind = "map" PROVE t[j].on # t[i].on
  <2>1. i # 1
    BY <1>1, <1>10
  <2>2. PICK k \in 1..m : i = k + 1
    BY <1>6, <2>1
  <2>3. t[i] = s[k]
    BY <1>5, <2>2
  <2>4. CASE j = 1
    BY <1>4, <1>10, <2>3, <2>4 DEF m
  <2>5. CASE j # 1
    <3>1. PICK l \in 1..m : j = l + 1
      BY <1>6, <2>5
    <3>2. l < k /\ t[j] = s[l]
      BY <1>1, <1>5, <1>10, <2>2, <3>1
    <3> QED BY <1>10, <2>3, <3>2 DEF Nested, m
  <2> QED BY <2>4, <2>5
<1>11. Nested(n, t, x, id, v, pre)
  <2>1. Len(t) = m + 1 /\ x \in Seq(Contexts(n)) /\ Len(x) = Len(t)
    BY <1>4 DEF C
  <2> QED BY <1>7, <1>8, <1>9, <1>10, <2>1 DEF Nested, all
<1>12. Follows(s, t) /\ Follows(w, x) /\ Len(x) = Len(t)
  <2>1. Len(t) - 1 = m /\ Len(x) - 1 = m
    BY <1>1, <1>4
  <2> QED BY <1>4, <1>5, <2>1 DEF Follows
<1> QED BY <1>4, <1>11, <1>12 DEF t, x, m

LEMMA BeginningAfter ==
  ASSUME NEW c \in Texts, NEW a \in Texts, NEW b \in Texts, IsPrefixOf(a, b)
  PROVE  IsPrefixOf(c \o a, c \o b)
<1> DEFINE r == SubSeq(b, Len(a) + 1, Len(b))
<1>1. Len(a) \in 0..Len(b) /\ a = SubSeq(b, 1, Len(a))
  BY LenProperties DEF IsPrefixOf, Texts
<1>2. r \in Texts /\ a \o r = b
  BY <1>1, CutText
<1> HIDE DEF r
<1>3. c \o b = (c \o a) \o r /\ c \o a \in Texts
  BY <1>2, ConcatTexts
<1> QED BY <1>2, <1>3, Beginnings

\* A part that is complete brings the call to its next position.
LEMMA ChildText ==
  ASSUME NEW n \in Nat, NEW p, GoodFrame(n, p), Inside(p), NEW c \in Contexts(n)
  PROVE  LET k == Child(n, p, c) IN
         /\ Text(n)[ChildVal(p)][k.ind] \in Texts
         /\ p.val.kind = "map" => k.pre \o Text(n)[ChildVal(p)][k.ind] = SubUpto(n, p.val, p.order)[p.at]
         /\ p.val.kind # "map" =>
              k.pre \o Text(n)[ChildVal(p)][k.ind] = c.pre \o Upto(n, p.val, c.ind + n)[p.at]
         /\ k.bad \/ Bad(ChildVal(p)) <=>
              (p.val.kind # "map" /\ c.bad) \/ BadTo(p.val, Visits(p), p.at)
<1> DEFINE v == p.val
           u == ChildVal(p)
           k == Child(n, p, c)
           m == Len(v.parts)
<1>1. /\ v \in Nodes /\ p.at \in 1..m /\ p.at - 1 \in 0..m /\ p.at - 1 \in Nat /\ (p.at - 1) + 1 = p.at
      /\ v.kind = "map" => p.order \in Orders(v)
      /\ v.kind # "map" => Visits(p)[p.at] = p.at /\ Order(v)[p.at] = p.at
      /\ u \in Nodes /\ k \in Contexts(n)
  BY InsideFacts
<1>2. k.ind \in Nat /\ c.pre \in Texts /\ c.ind + n \in Nat
  BY <1>1, ContextFacts
<1>3. Text(n)[u][k.ind] \in Texts
  <2> HIDE DEF u, k
  <2> QED BY <1>1, <1>2, TextOfParts
<1>4. ASSUME v.kind = "map" PROVE k.pre \o Text(n)[u][k.ind] = SubUpto(n, v, p.order)[p.at]
  <2> DEFINE i == p.order[p.at]
             a == SubUpto(n, v, p.order)[p.at - 1]
             b == Label(n, v, i)
             t == Text(n)[u][0]
  <2>1. i \in DOMAIN v.parts /\ u = v.parts[i]
    BY <1>1, <1>4, OrdersFacts DEF ChildVal, Visits
  <2>2. k.pre = a \o b /\ k.ind = 0
    BY <1>4 DEF Child
  <2>3. a \in Texts
    <3>1. SubUpto(n, v, p.order) \in [0..m -> Texts]
      BY <1>1, <1>4, SubUptoIs
    <3> QED BY <1>1, <3>1
  <2>4. b \in Texts
    BY <1>1, <2>1, LabelText
  <2>5. t \in Texts
    BY <1>3, <2>2
  <2>6. Member(n, v, i) = b \o t
    BY <2>1 DEF Member
  <2>7. SubUpto(n, v, p.order)[p.at] = a \o Member(n, v, i)
    BY <1>1, <1>4, SubUptoIs
  <2>8. Text(n)[u][k.ind] = t
    BY <2>2
  <2> HIDE DEF a, b, t, i, k, u
  <2>9. (a \o b) \o t = a \o (b \o t)
    BY <2>3, <2>4, <2>5, ConcatTexts
  <2> QED BY <2>2, <2>6, <2>7, <2>8, <2>9
<1>5. ASSUME v.kind # "map" PROVE k.pre \o Text(n)[u][k.ind] = c.pre \o Upto(n, v, c.ind + n)[p.at]
  <2> DEFINE x == c.ind + n
             a == Upto(n, v, x)[p.at - 1]
             b == Lead(n, v, p.at, x)
             t == Text(n)[u][x]
  <2>1. u = v.parts[p.at] /\ u = v.parts[Order(v)[p.at]]
    BY <1>1, <1>5 DEF ChildVal
  <2>2. k.pre = c.pre \o (a \o b) /\ k.ind = x
    BY <1>5 DEF Child
  <2>3. x \in Nat
    BY <1>2
  <2> HIDE DEF x, u, k
  <2>4. Upto(n, v, x) \in [0..m -> Texts]
    BY <1>1, <2>3, UptoIs
  <2>5. a \in Texts
    BY <1>1, <2>4
  <2>6. b \in Texts /\ t \in Texts /\ Upto(n, v, x)[p.at] = a \o (b \o t)
    <3> DEFINE y == Text(n)[v.parts[Order(v)[p.at]]][x]
    <3>1. b \in Texts /\ y \in Texts /\ Upto(n, v, x)[p.at] = a \o (b \o y)
      BY <1>1, <2>3, UptoIs
    <3>2. y = t
      BY <2>1
    <3> HIDE DEF y, a, b, t
    <3> QED BY <3>1, <3>2
  <2>7. Text(n)[u][k.ind] = t
    BY <2>2
  <2> HIDE DEF a, b, t
  <2>8. (c.pre \o (a \o b)) \o t = c.pre \o (a \o (b \o t))
    <3>1. c.pre \in Texts /\ a \o b \in Texts
      BY <1>2, <2>5, <2>6, ConcatTexts
    <3>2. (c.pre \o (a \o b)) \o t = c.pre \o ((a \o b) \o t)
      BY <2>6, <3>1, ConcatTexts
    <3>3. (a \o b) \o t = a \o (b \o t)
      BY <2>5, <2>6, ConcatTexts
    <3> QED BY <3>2, <3>3
  <2> QED BY <2>2, <2>6, <2>7, <2>8 DEF x
<1>6. k.bad \/ Bad(u) <=> (v.kind # "map" /\ c.bad) \/ BadTo(v, Visits(p), p.at)
  <2>1. BadTo(v, Visits(p), (p.at - 1) + 1) <=> BadTo(v, Visits(p), p.at - 1) \/ Bad(v.parts[Visits(p)[(p.at - 1) + 1]])
    BY <1>1, BadToIs
  <2>2. BadTo(v, Visits(p), p.at) <=> BadTo(v, Visits(p), p.at - 1) \/ Bad(u)
    BY <1>1, <2>1 DEF ChildVal
  <2>3. k.bad <=> (v.kind # "map" /\ c.bad) \/ BadTo(v, Visits(p), p.at - 1)
    BY DEF Child, Visits
  <2> QED BY <2>2, <2>3
<1> QED BY <1>3, <1>4, <1>5, <1>6

\* Where a call has written all before its next part: what it was given is what
\* the context of that part, or of its end, says.
LEMMA FrameBegins ==
  ASSUME NEW n \in Nat, NEW u, GoodFrame(n, u), u.at = 0, u.sub = None, NEW c \in Contexts(n),
         NEW out, Before(c, out)
  PROVE  Describes(n, u, c, out)
<1>1. u.val \in Nodes /\ c.pre \in Texts /\ c.ind + n \in Nat /\ c.ind \in Nat /\ c.bad \in BOOLEAN
  BY ContextFacts DEF GoodFrame
<1>2. Done(n, u, c.ind) = <<>>
  <2>1. Upto(n, u.val, c.ind + n)[0] = <<>>
    BY <1>1, UptoIs
  <2> QED BY <2>1 DEF Done
<1>3. c.pre \o Done(n, u, c.ind) = c.pre
  BY <1>1, <1>2, ConcatTexts
<1>4. ~BadTo(u.val, Visits(u), 0)
  BY <1>1, BadToIs
<1>5. ((out.err # "nil") <=> c.bad) => ErrorIs(u, c, out.err)
  BY <1>4 DEF ErrorIs
<1>6. ~Opened(u)
  BY DEF Opened
<1>7. out.indention = c.ind
  BY DEF Before
<1> QED BY <1>1, <1>3, <1>5, <1>6, <1>7 DEF Before, Describes

\* A call that goes on.
LEMMA ReplaceExplains ==
  ASSUME NEW S, NEW s \in Seq(S), s # <<>>, NEW n, NEW w, NEW id, NEW v, NEW pre, NEW out,
         Nested(n, s, w, id, v, pre), Outer(n, s, w, out, 2),
         NEW u, u.val = s[1].val, u.on = s[1].on, GoodFrame(n, u), NEW out2,
         \A i \in 2..Len(s) : s[i].val.kind = "map" => out2[s[i].on] = out[s[i].on]
  PROVE  LET t == <<u>> \o Tail(s) IN
         /\ Nested(n, t, w, id, v, pre) /\ Outer(n, t, w, out2, 2) /\ t[1] = u
         /\ Describes(n, u, w[1], out2[u.on]) /\ (u.sub # None => DescribesSub(n, u, out2[u.sub]))
              => Explains(n, t, w, id, v, pre, out2)
<1> DEFINE t == <<u>> \o Tail(s)
<1>1. Nested(n, t, w, id, v, pre) /\ Len(t) = Len(s) /\ t[1] = u /\ \A i \in 2..Len(s) : t[i] = s[i]
  BY NestedReplace
<1> HIDE DEF t
<1>2. Outer(n, t, w, out2, 2)
  BY <1>1 DEF Outer
<1> QED BY <1>1, <1>2 DEF Explains, t

\* A call that begins a part: s is the stack with the call in the middle of it.
LEMMA PushExplains ==
  ASSUME NEW S, NEW s \in Seq(S), s # <<>>, NEW n \in Nat, NEW w, NEW id, NEW v \in Nodes,
         NEW pre \in Texts, NEW out, Nested(n, s, w, id, v, pre), Outer(n, s, w, out, 1), Inside(s[1]),
         NEW u, u.val = ChildVal(s[1]), u.on = ChildOn(s[1]), u.at = 0, u.sub = None,
         \A i \in 1..Len(s) : s[i].val.kind = "map" => u.on # s[i].on,
         s[1].val.kind = "map" => s[1].sub # id,
         Before(Child(n, s[1], w[1]), out[u.on])
  PROVE  Explains(n, <<u>> \o s, <<Child(n, s[1], w[1])>> \o w, id, v, pre, out)
<1> DEFINE p == s[1]
           c == w[1]
           k == Child(n, p, c)
           t == <<u>> \o s
           x == <<k>> \o w
<1>1. Len(s) \in Nat /\ 1 \in 1..Len(s)
  BY EmptySeq
<1>2. GoodFrame(n, p) /\ c \in Contexts(n)
  BY <1>1 DEF Nested
<1>3. /\ k \in Contexts(n) /\ u.val \in Nodes /\ (n # 0 => Indents(u.val))
      /\ p.val \in Nodes /\ p.val.kind \in {"array", "object", "map"} /\ p.at \in 0..Len(p.val.parts)
  <2> HIDE DEF p, c
  <2>1. u.val = ChildVal(p)
    BY DEF p
  <2>2. Inside(p)
    BY DEF p
  <2> QED BY <1>2, <2>1, <2>2, InsideFacts
<1>4. GoodFrame(n, u)
  <2>1. Len(u.val.parts) \in Nat
    BY <1>3, NodeFacts
  <2>2. 0 \in 0..Len(u.val.parts)
    BY <2>1
  <2> HIDE DEF p, c, k
  <2> QED BY <1>3, <2>2 DEF GoodFrame
<1>5. IsPartOf(n, u, k, p, c)
  BY DEF IsPartOf
<1>6. ASSUME u.on = id PROVE IsBegun(n, u, k, All(n, v, pre))
  <2>1. p.val.kind # "map"
    BY <1>6 DEF ChildOn
  <2>2. p.on = id
    BY <1>6, <2>1 DEF ChildOn
  <2>3. IsBegun(n, p, c, All(n, v, pre))
    BY <1>1, <2>2 DEF Nested
  <2> DEFINE b == Text(n)[p.val][c.ind]
             a == Upto(n, p.val, c.ind + n)[p.at]
  <2>4. /\ k.pre \o Text(n)[u.val][k.ind] = c.pre \o a /\ c.pre \in Texts /\ c.ind \in Nat
        /\ c.ind + n \in Nat /\ b \in Texts
    <3>1. k.pre \o Text(n)[u.val][k.ind] = c.pre \o a
      <4> HIDE DEF p, c, k, a
      <4>1. u.val = ChildVal(p) /\ Inside(p)
        BY DEF p
      <4> QED BY <1>2, <2>1, <4>1, ChildText DEF k, a
    <3>2. c.pre \in Texts /\ c.ind \in Nat /\ c.ind + n \in Nat
      BY <1>2, ContextFacts
    <3> HIDE DEF p, c
    <3>3. b \in Texts
      BY <1>3, <3>2, TextOfParts
    <3> QED BY <3>1, <3>2, <3>3
  <2> HIDE DEF p, c, k
  <2>5. a \in Texts
    <3>1. Upto(n, p.val, c.ind + n) \in [0..Len(p.val.parts) -> Texts]
      BY <1>3, <2>4, UptoIs
    <3> QED BY <1>3, <3>1
  <2>6. IsPrefixOf(a, b)
    BY <1>3, <2>4, UptoBegins
  <2> DEFINE all == All(n, v, pre)
  <2>7. all \in Texts
    <3>1. Text(n)[v][0] \in Texts
      BY TextOfParts
    <3> QED BY <3>1, ConcatTexts DEF All
  <2>8. IsPrefixOf(c.pre \o b, all)
    BY <2>3 DEF IsBegun
  <2> HIDE DEF a, b, all
  <2>9. IsPrefixOf(c.pre \o a, c.pre \o b) /\ c.pre \o a \in Texts /\ c.pre \o b \in Texts
    BY <2>4, <2>5, <2>6, BeginningAfter, ConcatTexts
  <2>10. IsPrefixOf(c.pre \o a, all)
    BY <2>7, <2>8, <2>9, Beginnings
  <2> QED BY <2>4, <2>10 DEF IsBegun, all
<1> HIDE DEF p, c, k
<1>7. /\ Nested(n, t, x, id, v, pre) /\ Len(t) = Len(s) + 1 /\ t[1] = u /\ x[1] = k
      /\ Follows(s, t) /\ Follows(w, x) /\ Len(x) = Len(t)
  <2>1. IsPartOf(n, u, k, s[1], w[1])
    BY <1>5 DEF p, c
  <2>2. u.on = id => IsBegun(n, u, k, All(n, v, pre))
    BY <1>6
  <2>3. k \in Contexts(n)
    BY <1>3
  <2> QED BY <1>4, <2>1, <2>2, <2>3, NestedPush
<1> HIDE DEF t, x
<1>8. Outer(n, t, x, out, 2)
  <2>1. ASSUME NEW i \in 2..Len(t), t[i].val.kind = "map" PROVE Describes(n, t[i], x[i], out[t[i].on])
    <3>1. i - 1 \in 1..Len(s) /\ (i - 1) + 1 = i /\ Len(t) - 1 = Len(s) /\ Len(x) - 1 = Len(s)
      BY <1>1, <1>7
    <3>2. t[i] = s[i - 1] /\ x[i] = w[i - 1]
      BY <1>7, <3>1 DEF Follows
    <3> QED BY <2>1, <3>1, <3>2 DEF Outer
  <2> QED BY <2>1 DEF Outer
<1>9. Describes(n, u, k, out[u.on])
  BY <1>3, <1>4, FrameBegins DEF p, c, k
<1> QED BY <1>7, <1>8, <1>9 DEF Explains, t, x, p, c, k

\* The call that ends a part: its text is what the call around it has written.
LEMMA PopExplains ==
  ASSUME NEW S, NEW s \in Seq(S), s # <<>>, NEW n \in Nat, NEW w, NEW id, NEW v, NEW pre, NEW out,
         Nested(n, s, w, id, v, pre), Outer(n, s, w, out, 2), NEW out2,
         \A i \in 2..Len(s) : s[i].val.kind = "map" => out2[s[i].on] = out[s[i].on],
         \A i \in 2..Len(s) : s[i].sub # None => out2[s[i].sub].known,
         Finished(n, s[1].val, w[1], out2[s[1].on])
  PROVE  IF Tail(s) = <<>> THEN Finished(n, v, Starts(pre), out2[id])
         ELSE Explains(n, Tail(s), Tail(w), id, v, pre, out2)
<1>1. Len(s) \in Nat /\ 1 \in 1..Len(s) /\ Len(Tail(s)) = Len(s) - 1 /\ Tail(s) \in Seq(S)
  <2>1. Len(s) \in Nat /\ 1 \in 1..Len(s)
    BY EmptySeq
  <2>2. Len(Tail(s)) = Len(s) - 1 /\ Tail(s) \in Seq(S)
    BY HeadTailProperties
  <2> QED BY <2>1, <2>2
<1>2. CASE Len(s) = 1
  <2>1. Tail(s) = <<>>
    <3> DEFINE r == Tail(s)
    <3>1. r \in Seq(S) /\ Len(r) = 0
      BY <1>1, <1>2
    <3> HIDE DEF r
    <3>2. r = <<>>
      BY <3>1, EmptySeq
    <3> QED BY <3>2 DEF r
  <2>2. w[1] = Starts(pre) /\ s[1].val = v /\ s[1].on = id
    BY <1>1, <1>2 DEF Nested
  <2> QED BY <2>1, <2>2
<1>3. CASE Len(s) # 1
  <2> DEFINE t == Tail(s)
             x == Tail(w)
             p == s[2]
             c == w[2]
             o == out2[s[1].on]
  <2>1. Len(s) > 1 /\ 2 \in 2..Len(s) /\ 2 \in 1..Len(s)
    BY <1>1, <1>3
  <2>2. /\ Nested(n, t, x, id, v, pre) /\ t # <<>> /\ t[1] = p /\ x[1] = c /\ Len(t) = Len(s) - 1
        /\ Follows(t, s) /\ Follows(x, w) /\ Len(w) = Len(s)
    BY <2>1, NestedTail
  <2> HIDE DEF t, x
  <2>3. GoodFrame(n, p) /\ c \in Contexts(n)
    BY <2>1 DEF Nested
  <2>4. IsPartOf(n, s[1], w[1], p, c)
    <3>1. IsPartOf(n, s[1], w[1], s[1 + 1], w[1 + 1])
      BY <1>1, <1>3 DEF Nested
    <3> QED BY <3>1
  <2>5. Outer(n, t, x, out2, 2)
    <3>1. ASSUME NEW i \in 2..Len(t), t[i].val.kind = "map" PROVE Describes(n, t[i], x[i], out2[t[i].on])
      <4>1. i \in 1..(Len(s) - 1) /\ i + 1 \in 2..Len(s)
        BY <1>1, <2>2
      <4>2. t[i] = s[i + 1] /\ x[i] = w[i + 1]
        BY <2>2, <4>1 DEF Follows
      <4> QED BY <3>1, <4>1, <4>2 DEF Outer
    <3> QED BY <3>1 DEF Outer
  <2>6. p.val.kind = "map" => Describes(n, p, c, out2[p.on])
    BY <2>1 DEF Outer
  <2>7. Inside(p) /\ w[1] = Child(n, p, c) /\ s[1].val = ChildVal(p) /\ s[1].on = ChildOn(p)
    BY <2>4 DEF IsPartOf
  <2>8. p.sub # None => out2[p.sub].known
    BY <2>1
  <2>9. Finished(n, ChildVal(p), Child(n, p, c), o)
    BY <2>7
  <2>10. s[1].on = ChildOn(p)
    BY <2>7
  <2> HIDE DEF p, c
  <2> DEFINE k == Child(n, p, c)
             u == ChildVal(p)
  <2>11. /\ p.val.kind = "map" => k.pre \o Text(n)[u][k.ind] = SubUpto(n, p.val, p.order)[p.at]
         /\ p.val.kind # "map" => k.pre \o Text(n)[u][k.ind] = c.pre \o Upto(n, p.val, c.ind + n)[p.at]
         /\ k.bad \/ Bad(u) <=> (p.val.kind # "map" /\ c.bad) \/ BadTo(p.val, Visits(p), p.at)
    BY <2>3, <2>7, ChildText
  <2>12. /\ o.indention = k.ind
         /\ o.known => o.text = k.pre \o Text(n)[u][k.ind] /\ ((o.err # "nil") <=> (k.bad \/ Bad(u)))
    BY <2>9 DEF Finished
  <2>13. CASE p.val.kind = "map"
    <3>1. p.sub # None /\ ~p.sorted /\ s[1].on = p.sub
      BY <2>7, <2>10, <2>13 DEF Inside, ChildOn
    <3>2. k.ind = 0 /\ Visits(p) = p.order
      BY <2>13 DEF Child, Visits
    <3>3. o = out2[p.sub]
      BY <3>1
    <3> HIDE DEF o, k, u
    <3>4. DescribesSub(n, p, o)
      BY <2>8, <2>11, <2>12, <2>13, <3>1, <3>2, <3>3 DEF DescribesSub
    <3> QED BY <2>2, <2>5, <2>6, <2>13, <3>3, <3>4 DEF Explains, t, x, p, c
  <2>14. CASE p.val.kind # "map"
    <3>1. p.sub = None /\ s[1].on = p.on /\ p.at # 0
      BY <2>3, <2>7, <2>10, <2>14 DEF GoodFrame, HasMembers, Inside, ChildOn
    <3>2. k.ind = c.ind + n
      BY <2>14 DEF Child
    <3>3. Done(n, p, c.ind) = Upto(n, p.val, c.ind + n)[p.at] /\ Opened(p)
      BY <2>14, <3>1 DEF Done, Opened
    <3>4. ErrorIs(p, c, o.err) <=> ((o.err # "nil") <=> (c.bad \/ BadTo(p.val, Visits(p), p.at)))
      BY <2>14 DEF ErrorIs
    <3>5. o = out2[p.on]
      BY <3>1
    <3> HIDE DEF o, k, u
    <3>6. Describes(n, p, c, o)
      BY <2>11, <2>12, <2>14, <3>2, <3>3, <3>4 DEF Describes
    <3> QED BY <2>2, <2>5, <3>1, <3>5, <3>6 DEF Explains, t, x, p, c
  <2> QED BY <1>1, <1>3, <2>2, <2>13, <2>14 DEF t, x
<1> QED BY <1>2, <1>3

\* An API call begins.
LEMMA StartExplains ==
  ASSUME NEW n \in Nat, NEW v \in Nodes, n # 0 => Indents(v), NEW id, NEW pre \in Texts,
         NEW u, u.val = v, u.on = id, u.at = 0, u.sub = None,
         NEW out, Before(Starts(pre), out[id])
  PROVE  Explains(n, <<u>>, <<Starts(pre)>>, id, v, pre, out)
<1> DEFINE s == <<u>>
           w == <<Starts(pre)>>
           c == Starts(pre)
<1>1. Len(s) = 1 /\ Len(w) = 1 /\ s[1] = u /\ w[1] = c
  OBVIOUS
<1>2. c \in Contexts(n) /\ c.pre = pre /\ c.ind = 0
  BY DEF Starts, Contexts
<1>3. w \in Seq(Contexts(n))
  <2> HIDE DEF c
  <2> QED BY <1>2 DEF c
<1>4. GoodFrame(n, u)
  <2>1. Len(v.parts) \in Nat
    BY NodeFacts
  <2>2. 0 \in 0..Len(v.parts)
    BY <2>1
  <2> QED BY <2>2 DEF GoodFrame
<1>5. IsBegun(n, u, c, All(n, v, pre))
  <2>1. Text(n)[v][0] \in Texts
    BY TextOfParts
  <2>2. All(n, v, pre) \in Texts
    BY <2>1, ConcatTexts DEF All
  <2> QED BY <1>2, <2>2, Beginnings DEF IsBegun, All
<1>6. Describes(n, u, c, out[id])
  BY <1>2, <1>4, FrameBegins
<1> HIDE DEF s, w, c
<1>7. Nested(n, s, w, id, v, pre)
  <2>1. \A i \in 1..Len(s) : i = 1
    BY <1>1
  <2>2. \A i, j \in 1..Len(s) : ~(j < i)
    BY <2>1
  <2>3. w[1] = Starts(pre) /\ s[1].val = v /\ s[1].on = id
    BY <1>1 DEF c
  <2>4. IsBegun(n, s[1], w[1], All(n, v, pre)) /\ GoodFrame(n, s[1])
    BY <1>1, <1>4, <1>5
  <2> QED BY <1>1, <1>3, <2>1, <2>2, <2>3, <2>4 DEF Nested
<1>8. Outer(n, s, w, out, 2)
  <2>1. \A i \in 2..Len(s) : FALSE
    BY <1>1
  <2> QED BY <2>1 DEF Outer
<1> QED BY <1>1, <1>6, <1>7, <1>8 DEF Explains, s, w, c

----------------------------------------------------------------------------
(* The inductive invariant.                                                *)

\* What a stream has been given, by its writer or in its buffer; known is FALSE
\* for the stream of an Encoder that has failed.
Outputs ==
  [id \in Made |->
    [text |-> (IF HasWriter(id) THEN written[id] ELSE <<>>) \o streams[id].buf,
     err |-> streams[id].err, indention |-> streams[id].indention,
     known |-> HasWriter(id) => Clean(sent[id])]]

\* What goroutine g is in the middle of, what its Marshal returned and what the
\* writer of its Encoder has.
Earlier(g) ==
  IF call[g].name = "Encode" THEN Lines(step, sent[g])[Len(sent[g]) - 1] ELSE <<>>
Encodes(g) ==
  IF stack[g] = <<>> THEN Finished(step, call[g].val, Starts(Earlier(g)), Outputs[call[g].stream])
  ELSE \E w : Explains(step, stack[g], w, call[g].stream, call[g].val, Earlier(g), Outputs)
Rests(g) ==
  /\ streams[g].indention = 0
  /\ Clean(sent[g]) => /\ streams[g].err = "nil" /\ streams[g].buf = <<>>
                       /\ written[g] = Lines(step, sent[g])[Len(sent[g])]
HasResult(n, r) ==
  /\ r.val \in Nodes /\ (r.err = "nil") = ~Bad(r.val) /\ r.slice.of = None
  /\ r.err = "nil" => r.slice.bytes = Text(n)[r.val][0]
HasBeginning(g) == Clean(sent[g]) => IsPrefixOf(written[g], Lines(step, sent[g])[Len(sent[g])])
Delivers(g) ==
  /\ result[g] # None => HasResult(step, result[g])
  /\ ~Idle(g) => call[g].val \in Values[step] /\ Encodes(g)
  /\ call[g].name # "Encode" => Rests(g)
  /\ call[g].name = "Encode" =>
       sent[g] # <<>> /\ sent[g][Len(sent[g])] = [val |-> call[g].val, err |-> "running"]
  /\ HasBeginning(g)

\* The invariant.
TextInv ==
  /\ Inv
  /\ \A id \in pool : streams[id].indention = 0 /\ streams[id].err = "nil"
  /\ step = 0 => \A id \in Made : streams[id].indention = 0
  /\ step # 0 => \A v \in Values[step] : Indents(v)
  /\ DOMAIN written = Goroutines /\ DOMAIN result = Goroutines
  /\ \A g \in Goroutines : written[g] \in Texts /\ Delivers(g)
  /\ \A id \in Made : streams[id].buf \in Texts

\* The two properties are in it.
LEMMA TextInvImplies == TextInv => MarshalIsText /\ WriterGetsLines
<1> SUFFICES ASSUME TextInv PROVE MarshalIsText /\ WriterGetsLines
  OBVIOUS
<1>1. \A g \in Goroutines : Delivers(g) /\ IsCall(g)
  BY DEF TextInv, Inv
<1>2. MarshalIsText
  <2>1. ASSUME NEW g \in Goroutines, result[g] # None
        PROVE  /\ (result[g].err = "nil") = ~Has(result[g].val, {"bad"})
               /\ result[g].err = "nil" => BytesOf(result[g].slice) = Text(step)[result[g].val][0]
    <3>1. HasResult(step, result[g])
      BY <1>1, <2>1 DEF Delivers
    <3> QED BY <3>1 DEF HasResult, BytesOf, Bad
  <2> QED BY <2>1 DEF MarshalIsText
<1>3. WriterGetsLines
  <2>1. ASSUME NEW g \in Goroutines, Clean(sent[g])
        PROVE  /\ IsPrefixOf(written[g], Lines(step, sent[g])[Len(sent[g])])
               /\ Idle(g) => written[g] = Lines(step, sent[g])[Len(sent[g])]
    <3>1. Idle(g) => Rests(g)
      BY <1>1 DEF Delivers, Idle
    <3> QED BY <1>1, <2>1, <3>1 DEF Delivers, HasBeginning, Rests
  <2> QED BY <2>1 DEF WriterGetsLines
<1> QED BY <1>2, <1>3

\* What the calls of a goroutine have written depends on their streams only.
LEMMA ExplainsSame ==
  ASSUME NEW n, NEW s, NEW w, NEW id, NEW v, NEW pre, NEW out, NEW out2, 1 \in 1..Len(s),
         \A i \in 1..Len(s) : out2[s[i].on] = out[s[i].on],
         s[1].sub # None => out2[s[1].sub] = out[s[1].sub],
         Explains(n, s, w, id, v, pre, out)
  PROVE  Explains(n, s, w, id, v, pre, out2)
<1>1. Outer(n, s, w, out2, 2)
  <2>1. \A i \in 2..Len(s) : i \in 1..Len(s)
    OBVIOUS
  <2> QED BY <2>1 DEF Explains, Outer
<1> QED BY <1>1 DEF Explains

LEMMA OutputIs ==
  ASSUME NEW id \in Made
  PROVE  /\ Outputs[id].text = (IF HasWriter(id) THEN written[id] ELSE <<>>) \o streams[id].buf
         /\ Outputs[id].err = streams[id].err /\ Outputs[id].indention = streams[id].indention
         /\ Outputs[id].known <=> (HasWriter(id) => Clean(sent[id]))
BY DEF Outputs

\* The calls of a goroutine and the streams they write on.
LEMMA StackFacts ==
  ASSUME Inv, NEW h \in Goroutines, stack[h] # <<>>
  PROVE  /\ \E S : stack[h] \in Seq(S)
         /\ 1 \in 1..Len(stack[h]) /\ Len(stack[h]) \in Nat /\ Top(h) = stack[h][1]
         /\ \A i \in 1..Len(stack[h]) :
              /\ stack[h][i].on \in Held(h) /\ stack[h][i].on \in Made
              /\ stack[h][i].sub # None =>
                   stack[h][i].sub \in Held(h) /\ stack[h][i].sub \in StreamIds /\ stack[h][i].sub \in Made
<1> DEFINE s == stack[h]
<1>1. IsStack(s, call[h].stream) /\ IsCall(h)
  BY DEF Inv
<1>2. PICK S : s \in Seq(S)
  BY <1>1 DEF IsStack
<1>3. Len(s) \in Nat /\ 1 \in 1..Len(s) /\ Top(h) = s[1]
  BY <1>2, EmptySeq, HeadTailProperties DEF Top
<1>4. ~Idle(h) /\ call[h].stream # None
  BY <1>1, ValuesAssumption DEF IsCall, Idle
<1>5. Held(h) \subseteq Made
  <2>1. Held(h) \subseteq InUse(h) \cup {h} /\ InUse(h) \subseteq Made
    BY InUseFacts
  <2>2. Goroutines \subseteq Made
    BY DEF Inv
  <2> QED BY <2>1, <2>2
<1>6. ASSUME NEW i \in 1..Len(s)
      PROVE  s[i].on \in Held(h) /\ (s[i].sub # None => s[i].sub \in Held(h) /\ s[i].sub \in StreamIds)
  <2>1. IsFrame(s[i], call[h].stream, SubsAfter(s, i))
    BY <1>1 DEF IsStack
  <2>2. SubsAfter(s, i) \subseteq Subs(h)
    BY <1>3 DEF SubsAfter, Subs
  <2>3. s[i].sub # None => s[i].sub \in Subs(h)
    BY DEF Subs
  <2> QED BY <1>4, <2>1, <2>2, <2>3 DEF Held, IsFrame
<1> QED BY <1>2, <1>3, <1>5, <1>6

\* The streams of two goroutines are different.
LEMMA ApartFacts ==
  ASSUME Inv, NEW g \in Goroutines, NEW h \in Goroutines, h # g, NEW id \in Held(h) \cup {h}
  PROVE  id \notin Held(g) /\ id \notin CanBorrow /\ id \in Made /\ id # g /\ (HasWriter(id) => id = h)
<1>1. \A k \in {g, h} : /\ Held(k) \subseteq InUse(k) \cup {k} /\ InUse(k) \subseteq StreamIds
                        /\ InUse(k) \subseteq Made /\ InUse(k) \cap pool = {}
  BY InUseFacts
<1>2. InUse(g) \cap InUse(h) = {} /\ Goroutines \subseteq Made
  BY DEF Inv, PoolBalance
<1> QED BY <1>1, <1>2, ValuesAssumption DEF HasWriter, CanBorrow

\* When goroutine g makes a step, the others have what they had.
LEMMA OthersDeliver ==
  ASSUME TextInv, NEW g \in Goroutines, NEW h \in Goroutines, h # g, step' = step,
         /\ stack'[h] = stack[h] /\ call'[h] = call[h] /\ sent'[h] = sent[h]
         /\ written'[h] = written[h] /\ result'[h] = result[h],
         \A id \in Made : id \notin Held(g) /\ id \notin CanBorrow /\ id # g =>
            id \in Made' /\ streams'[id] = streams[id]
  PROVE  Delivers(h)'
<1>1. Inv /\ Delivers(h) /\ IsCall(h)
  BY DEF TextInv, Inv
<1>2. ASSUME NEW id \in Held(h) \cup {h}
      PROVE  id \in Made /\ id \in Made' /\ streams'[id] = streams[id] /\ Outputs'[id] = Outputs[id]
  <2>1. id \in Made /\ id \in Made' /\ streams'[id] = streams[id] /\ (HasWriter(id) => id = h)
    BY <1>1, ApartFacts
  <2>2. Outputs[id] = [text |-> (IF HasWriter(id) THEN written[id] ELSE <<>>) \o streams[id].buf,
                       err |-> streams[id].err, indention |-> streams[id].indention,
                       known |-> HasWriter(id) => Clean(sent[id])]
    BY <2>1 DEF Outputs
  <2>3. Outputs'[id] = [text |-> (IF HasWriter(id) THEN written'[id] ELSE <<>>) \o streams'[id].buf,
                        err |-> streams'[id].err, indention |-> streams'[id].indention,
                        known |-> HasWriter(id) => Clean(sent'[id])]
    BY <2>1 DEF Outputs, HasWriter
  <2>4. CASE HasWriter(id)
    BY <2>1, <2>2, <2>3, <2>4
  <2>5. CASE ~HasWriter(id)
    BY <2>1, <2>2, <2>3, <2>5
  <2> QED BY <2>1, <2>4, <2>5
<1>3. Earlier(h)' = Earlier(h)
  BY DEF Earlier
<1>4. ~Idle(h) => call[h].stream \in Held(h)
  BY <1>1, ValuesAssumption DEF IsCall, Idle, Held
<1>5. ASSUME ~Idle(h) PROVE Encodes(h)'
  <2>1. Encodes(h)
    BY <1>1, <1>5 DEF Delivers
  <2>2. CASE stack[h] = <<>>
    <3>1. Outputs'[call'[h].stream] = Outputs[call[h].stream]
      BY <1>2, <1>4, <1>5
    <3> QED BY <1>3, <2>1, <2>2, <3>1 DEF Encodes
  <2>3. CASE stack[h] # <<>>
    <3>1. PICK w : Explains(step, stack[h], w, call[h].stream, call[h].val, Earlier(h), Outputs)
      BY <2>1, <2>3 DEF Encodes
    <3>2. 1 \in 1..Len(stack[h])
      BY <1>1, <2>3, StackFacts
    <3>3. /\ \A i \in 1..Len(stack[h]) : Outputs'[stack[h][i].on] = Outputs[stack[h][i].on]
          /\ stack[h][1].sub # None => Outputs'[stack[h][1].sub] = Outputs[stack[h][1].sub]
      BY <1>1, <1>2, <2>3, <3>2, StackFacts
    <3>4. Explains(step, stack[h], w, call[h].stream, call[h].val, Earlier(h), Outputs')
      BY <3>1, <3>2, <3>3, ExplainsSame
    <3> QED BY <1>3, <2>3, <3>4 DEF Encodes
  <2> QED BY <2>2, <2>3
<1>6. Rests(h) => Rests(h)'
  BY <1>2 DEF Rests
<1>7. HasBeginning(h)' <=> HasBeginning(h)
  BY DEF HasBeginning
<1> QED BY <1>1, <1>5, <1>6, <1>7 DEF Delivers, Idle

\* A step of goroutine g.
LEMMA TextStepOfOne ==
  ASSUME TextInv, Inv', NEW g \in Goroutines, step' = step,
         \A h \in Goroutines \ {g} :
           /\ stack'[h] = stack[h] /\ call'[h] = call[h] /\ sent'[h] = sent[h]
           /\ written'[h] = written[h] /\ result'[h] = result[h],
         DOMAIN written' = Goroutines, DOMAIN result' = Goroutines, written'[g] \in Texts,
         \A id \in Made : id \notin Held(g) /\ id \notin CanBorrow /\ id # g =>
            id \in Made' /\ streams'[id] = streams[id],
         \A id \in Made' : \/ id \in Made /\ streams'[id] = streams[id]
                           \/ streams'[id].buf \in Texts /\ (step = 0 => streams'[id].indention = 0),
         \A id \in pool' : \/ id \in pool /\ streams'[id] = streams[id]
                           \/ streams'[id].indention = 0 /\ streams'[id].err = "nil",
         Delivers(g)'
  PROVE  TextInv'
<1>1. \A h \in Goroutines : Delivers(h)'
  <2>1. ASSUME NEW h \in Goroutines, h # g PROVE Delivers(h)'
    <3>1. /\ stack'[h] = stack[h] /\ call'[h] = call[h] /\ sent'[h] = sent[h]
          /\ written'[h] = written[h] /\ result'[h] = result[h]
      BY <2>1
    <3> QED BY <2>1, <3>1, OthersDeliver
  <2> QED BY <2>1
<1>2. \A h \in Goroutines : written'[h] \in Texts
  BY DEF TextInv
<1>3. \A id \in Made' : streams'[id].buf \in Texts /\ (step = 0 => streams'[id].indention = 0)
  BY DEF TextInv
<1>4. \A id \in pool' : streams'[id].indention = 0 /\ streams'[id].err = "nil"
  BY DEF TextInv
<1>5. step' # 0 => \A v \in Values[step'] : Indents(v)
  BY DEF TextInv
<1> QED BY <1>1, <1>2, <1>3, <1>4, <1>5 DEF TextInv

----------------------------------------------------------------------------
(* Steps of a goroutine that is in a call.                                 *)

\* The lines of an Encoder, and those before the value it is encoding.
LEMMA LinesText ==
  ASSUME TextInv, NEW g \in Goroutines
  PROVE  /\ Lines(step, sent[g]) \in [0..Len(sent[g]) -> Texts] /\ Len(sent[g]) \in Nat /\ step \in Nat
         /\ Earlier(g) \in Texts
         /\ ~Idle(g) => /\ call[g].val \in Nodes /\ call[g].val \in Values[step]
                        /\ step # 0 => Indents(call[g].val)
         /\ call[g].name = "Encode" =>
              /\ Len(sent[g]) # 0 /\ Len(sent[g]) - 1 \in 0..Len(sent[g])
              /\ Lines(step, sent[g])[Len(sent[g])]
                 = Earlier(g) \o (Text(step)[call[g].val][0] \o <<"\n">>)
              /\ Text(step)[call[g].val][0] \o <<"\n">> \in Texts
<1> DEFINE q == sent[g]
           ts == [i \in DOMAIN q |-> Text(step)[q[i].val][0] \o <<"\n">>]
<1>1. /\ Inv /\ Delivers(g) /\ step \in Nat /\ Values[step] \subseteq Nodes
      /\ q \in Seq([val : Values[step], err : Errors])
      /\ (step # 0 => \A v \in Values[step] : Indents(v))
  <2>1. step \in Steps /\ q \in Seq([val : Values[step], err : Errors])
    BY DEF TextInv, Inv
  <2> QED BY <2>1, ValuesAssumption, NodesAssumption DEF TextInv
<1>2. Len(q) \in Nat /\ DOMAIN q = 1..Len(q)
  BY <1>1
<1>3. \A i \in DOMAIN q : Text(step)[q[i].val][0] \o <<"\n">> \in Texts
  <2>1. ASSUME NEW i \in DOMAIN q PROVE Text(step)[q[i].val][0] \o <<"\n">> \in Texts
    <3>1. q[i].val \in Nodes
      <4> DEFINE R == [val : Values[step], err : Errors]
      <4>1. q[i] \in R
        <5> HIDE DEF R, q
        <5>1. q \in Seq(R) /\ i \in 1..Len(q)
          BY <1>1, <1>2 DEF R
        <5> QED BY <5>1
      <4> QED BY <1>1, <4>1
    <3> DEFINE v == q[i].val
    <3> HIDE DEF v
    <3>2. Text(step)[v][0] \in Texts
      BY <1>1, <3>1, TextOfParts DEF v
    <3>3. <<"\n">> \in Texts
      BY MarksAreLetters DEF Marks
    <3>4. Text(step)[v][0] \o <<"\n">> \in Texts
      BY <3>2, <3>3, ConcatTexts
    <3> QED BY <3>4 DEF v
  <2> QED BY <2>1
<1>4. ts \in Seq(Texts) /\ Len(ts) = Len(q)
  <2> DEFINE t(i) == Text(step)[q[i].val][0] \o <<"\n">>
  <2>1. \A i \in 1..Len(q) : t(i) \in Texts
    BY <1>2, <1>3
  <2> HIDE DEF t
  <2>2. [i \in 1..Len(q) |-> t(i)] \in Seq(Texts) /\ Len([i \in 1..Len(q) |-> t(i)]) = Len(q)
    BY <1>2, <2>1
  <2> QED BY <1>2, <2>2 DEF t
<1>5. Lines(step, q) = Joined(ts)
  BY DEF Lines
<1> HIDE DEF ts
<1>6. /\ Joined(ts) \in [0..Len(ts) -> Texts] /\ Joined(ts)[0] = <<>>
      /\ \A k \in 1..Len(ts) : Joined(ts)[k] = Joined(ts)[k - 1] \o ts[k]
  BY <1>4, JoinedIs
<1>7. Lines(step, q) \in [0..Len(q) -> Texts]
  BY <1>4, <1>5, <1>6
<1>8. ~Idle(g) => call[g].val \in Nodes /\ call[g].val \in Values[step] /\ (step # 0 => Indents(call[g].val))
  BY <1>1 DEF Delivers
<1>9. ASSUME call[g].name = "Encode"
      PROVE  /\ Len(q) # 0 /\ Len(q) - 1 \in 0..Len(q)
             /\ Lines(step, q)[Len(q)] = Earlier(g) \o (Text(step)[call[g].val][0] \o <<"\n">>)
             /\ Text(step)[call[g].val][0] \o <<"\n">> \in Texts /\ Earlier(g) \in Texts
  <2>1. q # <<>> /\ q[Len(q)] = [val |-> call[g].val, err |-> "running"]
    BY <1>1, <1>9 DEF Delivers
  <2>2. Len(q) # 0
    BY <1>1, <2>1, EmptySeq
  <2>3. Len(q) \in 1..Len(q) /\ Len(q) - 1 \in 0..Len(q) /\ Len(q) \in DOMAIN q
    BY <1>2, <2>2
  <2>4. ts[Len(q)] = Text(step)[call[g].val][0] \o <<"\n">>
    <3> DEFINE l == Len(q)
    <3>1. l \in DOMAIN q /\ q[l].val = call[g].val
      BY <2>1, <2>3
    <3> HIDE DEF l
    <3>2. ts[l] = Text(step)[q[l].val][0] \o <<"\n">>
      BY <3>1 DEF ts
    <3> QED BY <3>1, <3>2 DEF l
  <2>5. Joined(ts)[Len(q)] = Joined(ts)[Len(q) - 1] \o ts[Len(q)]
    BY <1>4, <1>6, <2>3
  <2>6. Earlier(g) = Joined(ts)[Len(q) - 1]
    BY <1>5, <1>9 DEF Earlier
  <2>7. Joined(ts)[Len(q) - 1] \in Texts
    BY <1>4, <1>6, <2>3
  <2>8. ts[Len(q)] \in Texts
    BY <1>4, <2>3
  <2> QED BY <1>5, <2>2, <2>3, <2>4, <2>5, <2>6, <2>7, <2>8
<1>10. call[g].name # "Encode" => Earlier(g) \in Texts
  BY ConcatTexts DEF Earlier
<1> QED BY <1>1, <1>2, <1>7, <1>8, <1>9, <1>10

\* A step of a goroutine that stays in its API call.
LEMMA TextStepInCall ==
  ASSUME TextInv, Inv', NEW g \in Goroutines, ~Idle(g), UNCHANGED <<step, call, result, sent>>,
         \A h \in Goroutines \ {g} : stack'[h] = stack[h] /\ written'[h] = written[h],
         DOMAIN written' = Goroutines, written'[g] \in Texts,
         \A id \in Made : id \notin Held(g) /\ id \notin CanBorrow => id \in Made' /\ streams'[id] = streams[id],
         \A id \in Made' : \/ id \in Made /\ streams'[id] = streams[id]
                           \/ streams'[id].buf \in Texts /\ (step = 0 => streams'[id].indention = 0),
         \A id \in pool' : \/ id \in pool /\ streams'[id] = streams[id]
                           \/ streams'[id].indention = 0 /\ streams'[id].err = "nil",
         call[g].name # "Encode" => written'[g] = written[g],
         HasBeginning(g)', Encodes(g)'
  PROVE  TextInv'
<1>1. Delivers(g) /\ Inv /\ IsCall(g) /\ DOMAIN result = Goroutines
  BY DEF TextInv, Inv
<1>2. ASSUME call[g].name # "Encode" PROVE Rests(g)'
  <2>1. Rests(g)
    BY <1>1, <1>2 DEF Delivers
  <2>2. call[g].name = "Marshal" /\ call[g].stream \in StreamIds
    BY <1>1, <1>2 DEF IsCall, Idle
  <2>3. Held(g) \subseteq StreamIds
    <3>1. InUse(g) \subseteq StreamIds
      BY <1>1, InUseFacts
    <3>2. Subs(g) \subseteq InUse(g)
      BY DEF InUse
    <3> QED BY <2>2, <3>1, <3>2 DEF Held
  <2>4. g \in Made /\ g \notin Held(g) /\ g \notin CanBorrow
    BY <1>1, <2>3, ValuesAssumption DEF CanBorrow, Inv
  <2>5. streams'[g] = streams[g] /\ written'[g] = written[g] /\ sent'[g] = sent[g] /\ step' = step
    BY <1>2, <2>4
  <2> QED BY <2>1, <2>5 DEF Rests
<1>3. Delivers(g)'
  BY <1>1, <1>2 DEF Delivers, Idle
<1>4. DOMAIN result' = Goroutines /\ step' = step
  BY <1>1
<1>5. \A h \in Goroutines \ {g} :
        /\ stack'[h] = stack[h] /\ call'[h] = call[h] /\ sent'[h] = sent[h]
        /\ written'[h] = written[h] /\ result'[h] = result[h]
  OBVIOUS
<1> QED BY <1>3, <1>4, <1>5, TextStepOfOne

\* The call a goroutine is in, with its context.
Context(g, w) ==
  Explains(step, stack[g], w, call[g].stream, call[g].val, Earlier(g), Outputs)
LEMMA CallFacts ==
  ASSUME TextInv, NEW g \in Goroutines, stack[g] # <<>>
  PROVE  /\ \E w : Context(g, w)
         /\ ~Idle(g) /\ Inv /\ step \in Nat
         /\ \E S : stack[g] \in Seq(S)
         /\ 1 \in 1..Len(stack[g]) /\ Len(stack[g]) \in Nat
         /\ \A w : Context(g, w) =>
              /\ Nested(step, stack[g], w, call[g].stream, call[g].val, Earlier(g))
              /\ Outer(step, stack[g], w, Outputs, 2)
              /\ GoodFrame(step, Top(g)) /\ w[1] \in Contexts(step) /\ Top(g) = stack[g][1]
              /\ Describes(step, Top(g), w[1], Outputs[Top(g).on])
              /\ Top(g).sub # None => DescribesSub(step, Top(g), Outputs[Top(g).sub])
         /\ Top(g).on \in Held(g) /\ Top(g).on \in Made /\ streams[Top(g).on].buf \in Texts
         /\ IsStream(streams[Top(g).on])
         /\ Top(g).sub # None =>
              /\ Top(g).sub \in Held(g) /\ Top(g).sub \in Made /\ Top(g).sub # Top(g).on
              /\ Top(g).sub \in StreamIds /\ ~HasWriter(Top(g).sub)
              /\ streams[Top(g).sub].buf \in Texts /\ IsStream(streams[Top(g).sub])
<1>1. Inv /\ Delivers(g) /\ IsCall(g) /\ \A id \in Made : IsStream(streams[id]) /\ streams[id].buf \in Texts
  BY DEF TextInv, Inv
<1>2. ~Idle(g) /\ step \in Nat
  BY <1>1, TopFacts
<1>3. /\ \E S : stack[g] \in Seq(S)
      /\ 1 \in 1..Len(stack[g]) /\ Len(stack[g]) \in Nat /\ Top(g) = stack[g][1]
      /\ stack[g][1].on \in Held(g) /\ stack[g][1].on \in Made
      /\ stack[g][1].sub # None =>
           stack[g][1].sub \in Held(g) /\ stack[g][1].sub \in StreamIds /\ stack[g][1].sub \in Made
  BY <1>1, StackFacts
<1>4. \E w : Context(g, w)
  BY <1>1, <1>2 DEF Delivers, Encodes, Context
<1>5. Top(g).sub # None => Top(g).sub # Top(g).on
  BY <1>1, TopFacts
<1>6. \A id \in StreamIds : ~HasWriter(id)
  BY ValuesAssumption DEF HasWriter
<1>7. ASSUME NEW w, Context(g, w)
      PROVE  /\ Nested(step, stack[g], w, call[g].stream, call[g].val, Earlier(g))
             /\ Outer(step, stack[g], w, Outputs, 2)
             /\ GoodFrame(step, Top(g)) /\ w[1] \in Contexts(step) /\ Top(g) = stack[g][1]
             /\ Describes(step, Top(g), w[1], Outputs[Top(g).on])
             /\ Top(g).sub # None => DescribesSub(step, Top(g), Outputs[Top(g).sub])
  <2>1. /\ Nested(step, stack[g], w, call[g].stream, call[g].val, Earlier(g))
        /\ Outer(step, stack[g], w, Outputs, 2)
        /\ Describes(step, stack[g][1], w[1], Outputs[stack[g][1].on])
        /\ stack[g][1].sub # None => DescribesSub(step, stack[g][1], Outputs[stack[g][1].sub])
    BY <1>7 DEF Context, Explains
  <2>2. GoodFrame(step, stack[g][1]) /\ w[1] \in Contexts(step)
    BY <1>3, <2>1 DEF Nested
  <2> QED BY <1>3, <2>1, <2>2
<1> QED BY <1>1, <1>2, <1>3, <1>4, <1>5, <1>6, <1>7

\* The calls around the one that makes a step have what they had.
LEMMA OuterSame ==
  ASSUME TextInv, NEW g \in Goroutines, stack[g] # <<>>, NEW w, Context(g, w), UNCHANGED sent,
         Made \subseteq Made',
         \A id \in Held(g) : id # Top(g).on /\ id # Top(g).sub => streams'[id] = streams[id],
         \A h \in Goroutines : h # Top(g).on => written'[h] = written[h]
  PROVE  /\ \A i \in 2..Len(stack[g]) :
              stack[g][i].val.kind = "map" => Outputs'[stack[g][i].on] = Outputs[stack[g][i].on]
         /\ \A i \in 2..Len(stack[g]) : stack[g][i].sub # None => Outputs'[stack[g][i].sub].known
<1> DEFINE s == stack[g]
<1>1. /\ Inv /\ Top(g) = s[1] /\ 1 \in 1..Len(s) /\ Len(s) \in Nat
      /\ Nested(step, s, w, call[g].stream, call[g].val, Earlier(g))
  BY CallFacts
<1>2. IsStack(s, call[g].stream)
  BY <1>1 DEF Inv
<1>3. \A id \in Made' : Outputs'[id].known <=> (HasWriter(id) => Clean(sent[id]))
  BY DEF Outputs, HasWriter
<1>4. ASSUME NEW id \in Made, streams'[id] = streams[id], HasWriter(id) => written'[id] = written[id]
      PROVE  Outputs'[id] = Outputs[id]
  <2>1. Outputs[id] = [text |-> (IF HasWriter(id) THEN written[id] ELSE <<>>) \o streams[id].buf,
                       err |-> streams[id].err, indention |-> streams[id].indention,
                       known |-> HasWriter(id) => Clean(sent[id])]
    BY DEF Outputs
  <2>2. Outputs'[id] = [text |-> (IF HasWriter(id) THEN written'[id] ELSE <<>>) \o streams'[id].buf,
                        err |-> streams'[id].err, indention |-> streams'[id].indention,
                        known |-> HasWriter(id) => Clean(sent'[id])]
    BY DEF Outputs, HasWriter
  <2>3. CASE HasWriter(id)
    BY <1>4, <2>1, <2>2, <2>3
  <2>4. CASE ~HasWriter(id)
    BY <1>4, <2>1, <2>2, <2>4
  <2> QED BY <2>3, <2>4
<1>5. ASSUME NEW i \in 2..Len(s) PROVE i \in 1..Len(s) /\ 1 < i
  BY <1>1
<1>6. ASSUME NEW i \in 2..Len(s), s[i].val.kind = "map" PROVE Outputs'[s[i].on] = Outputs[s[i].on]
  <2>1. s[1].on # s[i].on
    BY <1>1, <1>5, <1>6 DEF Nested
  <2>2. s[i].on \in Held(g) /\ s[i].on \in Made
    BY <1>1, <1>5, StackFacts
  <2>3. s[1].sub = None \/ s[1].sub # s[i].on
    <3>1. IsFrame(s[1], call[g].stream, SubsAfter(s, 1)) /\ IsFrame(s[i], call[g].stream, SubsAfter(s, i))
      BY <1>1, <1>2, <1>5 DEF IsStack
    <3>2. SubsAfter(s, i) \subseteq SubsAfter(s, 1)
      BY <1>1, <1>5 DEF SubsAfter
    <3> QED BY <3>1, <3>2 DEF IsFrame
  <2>4. s[i].on # s[1].sub
    <3>1. s[i].on # None
      BY <1>1, <2>2, ValuesAssumption DEF Inv
    <3> QED BY <2>3, <3>1
  <2>5. streams'[s[i].on] = streams[s[i].on] /\ (HasWriter(s[i].on) => written'[s[i].on] = written[s[i].on])
    BY <1>1, <2>1, <2>2, <2>4 DEF HasWriter
  <2> QED BY <1>4, <2>2, <2>5
<1>7. ASSUME NEW i \in 2..Len(s), s[i].sub # None PROVE Outputs'[s[i].sub].known
  <2>1. s[i].sub \in StreamIds /\ s[i].sub \in Made
    BY <1>1, <1>5, <1>7, StackFacts
  <2>2. ~HasWriter(s[i].sub) /\ s[i].sub \in Made'
    BY <2>1, ValuesAssumption DEF HasWriter
  <2> QED BY <1>3, <2>2
<1> QED BY <1>6, <1>7

\* A step that writes on stream on, and on a subStream sub that it borrows, uses
\* or returns.
Touches(g, on, sub) ==
  /\ UNCHANGED <<step, call, result, sent>>
  /\ \A h \in Goroutines \ {g} : stack'[h] = stack[h]
  /\ DOMAIN written' = Goroutines /\ \A h \in Goroutines \ {on} : written'[h] = written[h]
  /\ written'[g] \in Texts
  /\ Made' = Made \cup ({sub} \ {None})
  /\ \A id \in Made \ {on, sub} : streams'[id] = streams[id]
  /\ \A id \in {on} \cup ({sub} \ {None}) :
       streams'[id].buf \in Texts /\ (step = 0 => streams'[id].indention = 0)
  /\ pool' \subseteq pool \cup ({sub} \ {None})
  /\ sub \in pool' => streams'[sub].indention = 0 /\ streams'[sub].err = "nil"

LEMMA BeginningKept ==
  ASSUME TextInv, NEW g \in Goroutines, UNCHANGED <<step, sent>>, written'[g] = written[g]
  PROVE  HasBeginning(g)' /\ written'[g] \in Texts
<1>1. Delivers(g) /\ written[g] \in Texts
  BY DEF TextInv
<1> QED BY <1>1 DEF Delivers, HasBeginning

LEMMA TouchesText ==
  ASSUME TextInv, Inv', NEW g \in Goroutines, stack[g] # <<>>, NEW on, on = Top(g).on,
         NEW sub, sub = Top(g).sub \/ (Top(g).sub = None /\ sub \in CanBorrow), Touches(g, on, sub),
         HasBeginning(g)', Encodes(g)'
  PROVE  TextInv'
<1>1. /\ ~Idle(g) /\ Inv /\ on \in Held(g) /\ on \in Made
      /\ sub \in Held(g) \/ sub = None \/ sub \in CanBorrow
  BY CallFacts
<1>2. /\ IsCall(g) /\ None \notin StreamIds /\ Held(g) \subseteq InUse(g) \cup {g}
      /\ InUse(g) \subseteq StreamIds /\ InUse(g) \cap pool = {} /\ pool \subseteq StreamIds
  BY <1>1, InUseFacts, ValuesAssumption DEF Inv
<1>3. \A h \in Goroutines \ {g} : h # on
  BY <1>1, <1>2, ValuesAssumption
<1>4. on \notin pool
  BY <1>1, <1>2, ValuesAssumption
<1>5. call[g].name # "Encode" => on # g
  <2>1. ASSUME call[g].name # "Encode" PROVE g \notin Held(g)
    <3>1. call[g].stream \in StreamIds
      BY <1>1, <1>2, <2>1 DEF IsCall, Idle
    <3>2. Held(g) \subseteq StreamIds
      BY <1>2, <3>1 DEF Held, InUse
    <3> QED BY <3>2, ValuesAssumption
  <2> QED BY <1>1, <2>1
<1>6. \A h \in Goroutines \ {g} : stack'[h] = stack[h] /\ written'[h] = written[h]
  BY <1>3 DEF Touches
<1>7. call[g].name # "Encode" => written'[g] = written[g]
  BY <1>5 DEF Touches
<1>8. \A id \in Made : id \notin Held(g) /\ id \notin CanBorrow => id \in Made' /\ streams'[id] = streams[id]
  <2>1. \A id \in Made : id \notin Held(g) /\ id \notin CanBorrow => id # on /\ (sub = None \/ id # sub)
    BY <1>1
  <2>2. \A id \in Made : id # None
    BY <1>1, ValuesAssumption DEF Inv
  <2> QED BY <2>1, <2>2 DEF Touches
<1>9. \A id \in Made' : \/ id \in Made /\ streams'[id] = streams[id]
                        \/ streams'[id].buf \in Texts /\ (step = 0 => streams'[id].indention = 0)
  <2>1. ASSUME NEW id \in Made', id \notin {on} \cup ({sub} \ {None}) PROVE id \in Made /\ streams'[id] = streams[id]
    <3>1. id \in Made
      BY <2>1 DEF Touches
    <3>2. id # None
      BY <1>1, <3>1, ValuesAssumption DEF Inv
    <3>3. id \in Made \ {on, sub}
      BY <2>1, <3>1, <3>2
    <3> QED BY <3>1, <3>3 DEF Touches
  <2> QED BY <2>1 DEF Touches
<1>10. \A id \in pool' : \/ id \in pool /\ streams'[id] = streams[id]
                         \/ streams'[id].indention = 0 /\ streams'[id].err = "nil"
  <2>1. ASSUME NEW id \in pool', id # sub PROVE id \in pool /\ streams'[id] = streams[id]
    <3>1. id \in pool
      BY <2>1 DEF Touches
    <3>2. id \in Made
      BY <1>1, <3>1 DEF Inv, PoolBalance
    <3> QED BY <1>4, <2>1, <3>1, <3>2 DEF Touches
  <2> QED BY <2>1 DEF Touches
<1>11. UNCHANGED <<step, call, result, sent>> /\ DOMAIN written' = Goroutines /\ written'[g] \in Texts
  BY DEF Touches
<1> QED BY <1>1, <1>6, <1>7, <1>8, <1>9, <1>10, <1>11, TextStepInCall

\* The calls around it have what they had.
LEMMA TouchesOuter ==
  ASSUME TextInv, NEW g \in Goroutines, stack[g] # <<>>, NEW on, on = Top(g).on,
         NEW sub, sub = Top(g).sub \/ (Top(g).sub = None /\ sub \in CanBorrow), Touches(g, on, sub),
         NEW w, Context(g, w)
  PROVE  /\ \A i \in 2..Len(stack[g]) :
              stack[g][i].val.kind = "map" => Outputs'[stack[g][i].on] = Outputs[stack[g][i].on]
         /\ \A i \in 2..Len(stack[g]) : stack[g][i].sub # None => Outputs'[stack[g][i].sub].known
         /\ step' = step /\ call' = call /\ sent' = sent /\ Earlier(g)' = Earlier(g)
<1>1. Inv /\ Held(g) \subseteq InUse(g) \cup {g} /\ InUse(g) \subseteq Made /\ InUse(g) \cap pool = {}
      /\ InUse(g) \subseteq StreamIds
  <2>1. Inv
    BY CallFacts
  <2> QED BY <2>1, InUseFacts
<1>2. Held(g) \cap CanBorrow = {} /\ Held(g) \subseteq Made
  <2>1. g \in Made
    BY <1>1 DEF Inv
  <2> QED BY <1>1, <2>1, ValuesAssumption DEF CanBorrow
<1>3. \A id \in Held(g) : id # Top(g).on /\ id # Top(g).sub => streams'[id] = streams[id]
  BY <1>2 DEF Touches
<1>4. Made \subseteq Made' /\ UNCHANGED sent /\ \A h \in Goroutines : h # Top(g).on => written'[h] = written[h]
  BY DEF Touches
<1>5. Earlier(g)' = Earlier(g)
  BY DEF Touches, Earlier
<1>6. step' = step /\ call' = call /\ sent' = sent
  BY DEF Touches
<1> QED BY <1>3, <1>4, <1>5, <1>6, OuterSame

\* The call returns.
LEMMA TextPop ==
  ASSUME TextInv, Inv', NEW g \in Goroutines, stack[g] # <<>>, NEW on, on = Top(g).on,
         NEW sub, sub = Top(g).sub, Touches(g, on, sub), HasBeginning(g)',
         NEW w, Context(g, w), Pop(g), Finished(step, Top(g).val, w[1], Outputs'[on])
  PROVE  TextInv'
<1> DEFINE s == stack[g]
           id == call[g].stream
           v == call[g].val
           pre == Earlier(g)
<1>1. /\ step \in Nat /\ \E S : s \in Seq(S)
      /\ Nested(step, s, w, id, v, pre) /\ Outer(step, s, w, Outputs, 2) /\ Top(g) = s[1] /\ ~Idle(g)
  BY CallFacts
<1>2. /\ \A i \in 2..Len(s) : s[i].val.kind = "map" => Outputs'[s[i].on] = Outputs[s[i].on]
      /\ \A i \in 2..Len(s) : s[i].sub # None => Outputs'[s[i].sub].known
      /\ step' = step /\ call' = call /\ Earlier(g)' = Earlier(g)
  BY TouchesOuter
<1>3. stack'[g] = Tail(s)
  BY DEF Pop, TextInv, Inv
<1>4. Finished(step, s[1].val, w[1], Outputs'[s[1].on])
  BY <1>1
<1>5. s # <<>>
  OBVIOUS
<1>6. PICK S : s \in Seq(S)
  BY <1>1
<1> DEFINE out == Outputs
           out2 == Outputs'
<1>7. IF Tail(s) = <<>> THEN Finished(step, v, Starts(pre), out2[id])
      ELSE Explains(step, Tail(s), Tail(w), id, v, pre, out2)
  <2>1. /\ \A i \in 2..Len(s) : s[i].val.kind = "map" => out2[s[i].on] = out[s[i].on]
        /\ \A i \in 2..Len(s) : s[i].sub # None => out2[s[i].sub].known
        /\ Finished(step, s[1].val, w[1], out2[s[1].on])
        /\ Nested(step, s, w, id, v, pre) /\ Outer(step, s, w, out, 2) /\ step \in Nat
    BY <1>1, <1>2, <1>4
  <2> HIDE DEF s, id, v, pre, out, out2
  <2> QED BY <1>5, <1>6, <2>1, PopExplains
<1>8. Encodes(g)'
  <2>1. CASE Tail(s) = <<>>
    <3>1. Finished(step, v, Starts(pre), Outputs'[id])
      BY <1>7, <2>1
    <3> QED BY <1>2, <1>3, <2>1, <3>1 DEF Encodes
  <2>2. CASE Tail(s) # <<>>
    <3>1. Explains(step, Tail(s), Tail(w), id, v, pre, Outputs')
      BY <1>7, <2>2
    <3> QED BY <1>2, <1>3, <2>2, <3>1 DEF Encodes
  <2> QED BY <2>1, <2>2
<1> QED BY <1>8, TouchesText

\* The call goes on.
LEMMA TextReplace ==
  ASSUME TextInv, Inv', NEW g \in Goroutines, stack[g] # <<>>, NEW on, on = Top(g).on,
         NEW sub, sub = Top(g).sub \/ (Top(g).sub = None /\ sub \in CanBorrow), Touches(g, on, sub),
         HasBeginning(g)', NEW w, Context(g, w),
         NEW u, Replace(g, u), u.val = Top(g).val, u.on = on, GoodFrame(step, u),
         Describes(step, u, w[1], Outputs'[on]), u.sub # None => DescribesSub(step, u, Outputs'[u.sub])
  PROVE  TextInv'
<1> DEFINE s == stack[g]
           t == <<u>> \o Tail(s)
           id == call[g].stream
           v == call[g].val
           pre == Earlier(g)
           out == Outputs
           out2 == Outputs'
<1>1. /\ step \in Nat /\ \E S : s \in Seq(S)
      /\ Nested(step, s, w, id, v, pre) /\ Outer(step, s, w, Outputs, 2) /\ Top(g) = s[1] /\ ~Idle(g)
  BY CallFacts
<1>2. /\ \A i \in 2..Len(s) : s[i].val.kind = "map" => out2[s[i].on] = out[s[i].on]
      /\ step' = step /\ call' = call /\ Earlier(g)' = Earlier(g)
  BY TouchesOuter
<1>3. stack'[g] = t
  BY DEF Replace, TextInv, Inv
<1>4. PICK S : s \in Seq(S)
  BY <1>1
<1>5. Explains(step, t, w, id, v, pre, out2)
  <2>1. /\ Nested(step, s, w, id, v, pre) /\ Outer(step, s, w, out, 2) /\ s # <<>>
        /\ u.val = s[1].val /\ u.on = s[1].on
        /\ Describes(step, u, w[1], out2[u.on]) /\ (u.sub # None => DescribesSub(step, u, out2[u.sub]))
    BY <1>1
  <2> HIDE DEF s, id, v, pre, out, out2
  <2> QED BY <1>2, <1>4, <2>1, ReplaceExplains
<1>6. t # <<>>
  <2>1. Nested(step, t, w, id, v, pre) /\ t[1] = u /\ Tail(s) \in Seq(S)
    BY <1>4, <1>5, HeadTailProperties DEF Explains
  <2>2. <<u>> \o Tail(s) \in Seq(S \cup {u}) /\ Len(<<u>> \o Tail(s)) = Len(Tail(s)) + 1 /\ Len(Tail(s)) \in Nat
    <3> DEFINE r == Tail(s)
    <3>1. r \in Seq(S \cup {u})
      <4>1. S \subseteq S \cup {u} /\ r \in Seq(S)
        BY <2>1
      <4> HIDE DEF r
      <4> QED BY <4>1, SeqMonotonic
    <3> HIDE DEF r
    <3>2. <<u>> \o r \in Seq(S \cup {u}) /\ Len(<<u>> \o r) = Len(r) + 1 /\ Len(r) \in Nat
      BY <3>1, ConsProperties
    <3> QED BY <3>2 DEF r
  <2> HIDE DEF t
  <2>3. t \in Seq(S \cup {u}) /\ Len(t) # 0
    BY <2>2 DEF t
  <2> QED BY <2>3, EmptySeq
<1>7. Encodes(g)'
  <2>1. Explains(step, t, w, id, v, pre, Outputs')
    BY <1>5
  <2> HIDE DEF t
  <2> QED BY <1>2, <1>3, <1>6, <2>1 DEF Encodes
<1> QED BY <1>7, TouchesText

\* A stream of a map is not one that its calls or those around it write on.
LEMMA SubApart ==
  ASSUME Inv, NEW g \in Goroutines, stack[g] # <<>>, Top(g).sub # None
  PROVE  Top(g).sub # call[g].stream /\ \A i \in 1..Len(stack[g]) : stack[g][i].on # Top(g).sub
<1> DEFINE s == stack[g]
           c == call[g].stream
<1>1. IsStack(s, c) /\ 1 \in 1..Len(s) /\ Len(s) \in Nat /\ Top(g) = s[1]
  BY StackFacts DEF Inv
<1>2. IsFrame(s[1], c, SubsAfter(s, 1))
  BY <1>1 DEF IsStack
<1>3. ASSUME NEW i \in 1..Len(s) PROVE s[i].on # s[1].sub
  <2>1. IsFrame(s[i], c, SubsAfter(s, i))
    BY <1>1 DEF IsStack
  <2>2. SubsAfter(s, i) \subseteq SubsAfter(s, 1)
    BY <1>1 DEF SubsAfter
  <2> QED BY <1>1, <1>2, <2>1, <2>2 DEF IsFrame
<1> QED BY <1>1, <1>2, <1>3 DEF IsFrame

\* The call begins a part.
LEMMA TextPush ==
  ASSUME TextInv, Inv', NEW g \in Goroutines, stack[g] # <<>>, NEW on, on = Top(g).on,
         NEW sub, sub = Top(g).sub, Touches(g, on, sub), HasBeginning(g)', NEW w, Context(g, w),
         NEW u, u.val = Top(g).val, u.on = on, u.sub = sub, GoodFrame(step, u), Inside(u),
         Push(g, u, ChildVal(u), ChildOn(u)),
         Before(Child(step, u, w[1]), Outputs'[ChildOn(u)]),
         u.val.kind = "map" => Describes(step, u, w[1], Outputs'[on])
  PROVE  TextInv'
<1> DEFINE s == stack[g]
           t == <<u>> \o Tail(s)
           b == Frame(ChildVal(u), ChildOn(u))
           id == call[g].stream
           v == call[g].val
           pre == Earlier(g)
           out == Outputs
           out2 == Outputs'
<1>1. /\ step \in Nat /\ \E S : s \in Seq(S) /\ Inv
      /\ Nested(step, s, w, id, v, pre) /\ Outer(step, s, w, Outputs, 2) /\ Top(g) = s[1] /\ ~Idle(g)
      /\ Len(s) \in Nat
  BY CallFacts
<1>2. /\ \A i \in 2..Len(s) : s[i].val.kind = "map" => out2[s[i].on] = out[s[i].on]
      /\ step' = step /\ call' = call /\ Earlier(g)' = Earlier(g)
  BY TouchesOuter
<1>3. v \in Nodes /\ pre \in Texts
  BY <1>1, LinesText
<1>4. PICK S : s \in Seq(S)
  BY <1>1
<1>5. /\ Nested(step, t, w, id, v, pre) /\ Outer(step, t, w, out2, 2) /\ t[1] = u
      /\ Len(t) = Len(s) /\ \A i \in 2..Len(s) : t[i] = s[i]
  <2>1. /\ Nested(step, s, w, id, v, pre) /\ Outer(step, s, w, out, 2) /\ s # <<>>
        /\ u.val = s[1].val /\ u.on = s[1].on
    BY <1>1
  <2>2. Nested(step, t, w, id, v, pre) /\ Outer(step, t, w, out2, 2) /\ t[1] = u
    <3> HIDE DEF s, id, v, pre, out, out2
    <3> QED BY <1>2, <1>4, <2>1, ReplaceExplains
  <2>3. Len(t) = Len(s) /\ \A i \in 2..Len(s) : t[i] = s[i]
    <3> HIDE DEF s, id, v, pre, out, out2
    <3> QED BY <1>4, <2>1, NestedReplace
  <2> QED BY <2>2, <2>3
<1>6. /\ \E R : t \in Seq(R)
      /\ <<b, u>> \o Tail(s) = <<b>> \o t
  <2> DEFINE r == Tail(s)
             R == S \cup {u}
  <2>1. r \in Seq(R)
    <3>1. S \subseteq R /\ r \in Seq(S)
      BY <1>4, HeadTailProperties
    <3> HIDE DEF r, R
    <3> QED BY <3>1, SeqMonotonic
  <2> HIDE DEF r
  <2>2. <<u>> \o r \in Seq(R) /\ <<b, u>> \o r = <<b>> \o (<<u>> \o r)
    <3>1. u \in R
      OBVIOUS
    <3> HIDE DEF R, b
    <3> QED BY <2>1, <3>1, ConsProperties, ConsTwo
  <2> QED BY <2>2 DEF r
<1>7. Len(s) # 0 /\ t # <<>> /\ 1 \in 1..Len(s)
  BY <1>4, <1>5, <1>6, EmptySeq
<1>8. \A i \in 1..Len(t) : i = 1 \/ (i \in 2..Len(s) /\ i \in 1..Len(s))
  BY <1>1, <1>5
<1>9. \A i \in 1..Len(t) : t[i].val.kind = "map" => ChildOn(u) # t[i].on
  <2>1. CASE u.val.kind = "map"
    <3>1. ChildOn(u) = Top(g).sub /\ Top(g).sub # None
      BY <2>1 DEF ChildOn, Inside
    <3>2. \A i \in 1..Len(s) : s[i].on # Top(g).sub
      BY <1>1, <3>1, SubApart
    <3>3. \A i \in 1..Len(t) : t[i].on = s[i].on /\ i \in 1..Len(s)
      BY <1>1, <1>5, <1>7, <1>8
    <3> QED BY <3>1, <3>2, <3>3
  <2>2. CASE u.val.kind # "map"
    <3>1. ChildOn(u) = t[1].on /\ t[1].val.kind # "map"
      BY <1>5, <2>2 DEF ChildOn
    <3>2. \A i, j \in 1..Len(t) : j < i /\ t[i].val.kind = "map" => t[j].on # t[i].on
      BY <1>5 DEF Nested
    <3>3. \A i \in 1..Len(t) : i = 1 \/ 1 < i
      BY <1>8
    <3>4. 1 \in 1..Len(t)
      BY <1>5, <1>7
    <3> HIDE DEF t
    <3> QED BY <3>1, <3>2, <3>3, <3>4
  <2> QED BY <2>1, <2>2
<1>10. u.val.kind = "map" => u.sub # id
  <2>1. ASSUME u.val.kind = "map" PROVE u.sub # id
    <3>1. Top(g).sub # None /\ u.sub = Top(g).sub
      BY <2>1 DEF Inside
    <3> QED BY <1>1, <3>1, SubApart
  <2> QED BY <2>1
<1>11. Outer(step, t, w, out2, 1)
  <2>1. u.val.kind = "map" => Describes(step, t[1], w[1], out2[t[1].on])
    BY <1>5
  <2> HIDE DEF out2, t
  <2>2. \A i \in 1..Len(t) : i = 1 \/ i \in 2..Len(t)
    BY <1>5, <1>8
  <2> QED BY <1>5, <2>1, <2>2 DEF Outer
<1>12. b.val = ChildVal(u) /\ b.on = ChildOn(u) /\ b.at = 0 /\ b.sub = None
  BY DEF Frame
<1>13. PICK R : t \in Seq(R)
  BY <1>6
<1>14. Explains(step, <<b>> \o t, <<Child(step, u, w[1])>> \o w, id, v, pre, out2)
  <2>1. /\ t # <<>> /\ Inside(t[1]) /\ b.val = ChildVal(t[1]) /\ b.on = ChildOn(t[1])
        /\ \A i \in 1..Len(t) : t[i].val.kind = "map" => b.on # t[i].on
        /\ t[1].val.kind = "map" => t[1].sub # id
        /\ Before(Child(step, t[1], w[1]), out2[b.on])
        /\ Nested(step, t, w, id, v, pre) /\ step \in Nat /\ t[1] = u
    BY <1>1, <1>5, <1>7, <1>9, <1>10, <1>12
  <2> HIDE DEF t, b, out2, id, v, pre
  <2>2. Explains(step, <<b>> \o t, <<Child(step, t[1], w[1])>> \o w, id, v, pre, out2)
    BY <1>3, <1>11, <1>12, <1>13, <2>1, PushExplains
  <2> QED BY <2>1, <2>2
<1>15. stack'[g] = <<b>> \o t
  <2>1. stack'[g] = <<b, u>> \o Tail(s)
    BY DEF Push, TextInv, Inv
  <2> HIDE DEF b, t
  <2> QED BY <1>6, <2>1
<1>16. <<b>> \o t # <<>>
  <2> HIDE DEF b, t
  <2>1. t \in Seq(R \cup {b})
    <3>1. R \subseteq R \cup {b}
      OBVIOUS
    <3> QED BY <1>13, <3>1, SeqMonotonic
  <2> QED BY <2>1, ConsProperties
<1>17. Encodes(g)'
  <2>1. Explains(step, <<b>> \o t, <<Child(step, u, w[1])>> \o w, id, v, pre, Outputs')
    BY <1>14
  <2> HIDE DEF t, b
  <2> QED BY <1>2, <1>15, <1>16, <2>1 DEF Encodes
<1> QED BY <1>17, TouchesText

----------------------------------------------------------------------------
(* What the operations of a Stream add to it.                              *)

LEMMA ThreeTexts ==
  ASSUME NEW a \in Texts, NEW b \in Texts, NEW c \in Texts
  PROVE  (a \o b) \o c = a \o (b \o c) /\ a \o b \in Texts /\ b \o c \in Texts /\ a \o (b \o c) \in Texts
<1>1. a \o b \in Texts /\ b \o c \in Texts
  BY ConcatTexts
<1>2. a \o (b \o c) \in Texts
  BY <1>1, ConcatTexts
<1> QED BY <1>1, <1>2, ConcatTexts

LEMMA PutText ==
  ASSUME NEW s, IsStream(s), NEW bytes
  PROVE  LET t == Put(s, bytes) IN
         t.buf = s.buf \o bytes /\ t.err = s.err /\ t.indention = s.indention /\ IsStream(t)
BY PutStream DEF IsStream, Put

LEMMA IndentionText ==
  ASSUME NEW n \in Nat, NEW s, IsStream(s), s.buf \in Texts, NEW delta \in Nat, delta <= s.indention,
         n = 0 <=> s.indention = 0
  PROVE  LET t == WriteIndention(s, delta) IN
         /\ t.buf = s.buf \o NewLine(n, s.indention - delta) /\ NewLine(n, s.indention - delta) \in Texts
         /\ t.err = s.err /\ t.indention = s.indention /\ IsStream(t)
<1>1. s.indention \in Nat
  BY DEF IsStream
<1>2. s.indention - delta \in Nat
  BY <1>1
<1>3. NewLine(n, s.indention - delta) \in Texts
  BY <1>2, NewLineText
<1>4. CASE n = 0
  <2>1. WriteIndention(s, delta) = s
    BY <1>4 DEF WriteIndention
  <2>2. NewLine(n, s.indention - delta) = <<>>
    BY <1>4 DEF NewLine
  <2>3. s.buf \o <<>> = s.buf
    BY ConcatTexts
  <2> QED BY <1>3, <2>1, <2>2, <2>3
<1>5. CASE n # 0
  <2>1. WriteIndention(s, delta) = Put(s, NewLine(n, s.indention - delta))
    BY <1>5 DEF WriteIndention, NewLine
  <2> QED BY <1>3, <2>1, PutText
<1> QED BY <1>4, <1>5

LEMMA StartText ==
  ASSUME step \in Nat, NEW s, IsStream(s), s.buf \in Texts, NEW b, <<b>> \in Texts,
         NEW ind \in Nat, s.indention = ind, step = 0 => ind = 0
  PROVE  LET t == WriteStart(s, b) IN
         /\ t.buf = s.buf \o (<<b>> \o NewLine(step, ind + step)) /\ <<b>> \o NewLine(step, ind + step) \in Texts
         /\ t.err = s.err /\ t.indention = ind + step /\ IsStream(t)
<1> DEFINE r == [s EXCEPT !.indention = @ + step]
           p == Put(r, <<b>>)
<1>1. IsStream(r) /\ r.buf = s.buf /\ r.err = s.err /\ r.indention = ind + step
  BY DEF IsStream
<1>2. IsStream(p) /\ p.buf = s.buf \o <<b>> /\ p.err = s.err /\ p.indention = ind + step
  <2> HIDE DEF r
  <2> QED BY <1>1, PutText
<1>3. WriteStart(s, b) = WriteIndention(p, 0)
  BY DEF WriteStart
<1> HIDE DEF p
<1>4. p.buf \in Texts
  BY <1>2, ConcatTexts
<1>5. 0 \in Nat /\ 0 <= p.indention /\ p.indention - 0 = ind + step /\ (step = 0 <=> p.indention = 0)
  BY <1>2
<1>6. LET t == WriteIndention(p, 0) IN
      /\ t.buf = p.buf \o NewLine(step, p.indention - 0) /\ NewLine(step, p.indention - 0) \in Texts
      /\ t.err = p.err /\ t.indention = p.indention /\ IsStream(t)
  BY <1>2, <1>4, <1>5, IndentionText
<1>7. (s.buf \o <<b>>) \o NewLine(step, ind + step) = s.buf \o (<<b>> \o NewLine(step, ind + step))
      /\ <<b>> \o NewLine(step, ind + step) \in Texts
  <2> DEFINE x == s.buf
             y == <<b>>
             z == NewLine(step, ind + step)
  <2>1. x \in Texts /\ y \in Texts /\ z \in Texts
    BY <1>5, <1>6
  <2> HIDE DEF x, y, z
  <2>2. (x \o y) \o z = x \o (y \o z)
    BY <2>1, ConcatTexts
  <2>3. y \o z \in Texts
    BY <2>1, ConcatTexts
  <2> QED BY <2>2, <2>3 DEF x, y, z
<1> QED BY <1>2, <1>3, <1>5, <1>6, <1>7

LEMMA MoreText ==
  ASSUME step \in Nat, NEW s, IsStream(s), s.buf \in Texts,
         NEW ind \in Nat, s.indention = ind + step, step = 0 => ind = 0
  PROVE  LET t == WriteMore(s) IN
         /\ t.buf = s.buf \o (<<",">> \o NewLine(step, ind + step)) /\ <<",">> \o NewLine(step, ind + step) \in Texts
         /\ t.err = s.err /\ t.indention = ind + step /\ IsStream(t)
<1> DEFINE p == Put(s, <<",">>)
<1>1. IsStream(p) /\ p.buf = s.buf \o <<",">> /\ p.err = s.err /\ p.indention = ind + step
  BY PutText
<1>2. WriteMore(s) = WriteIndention(p, 0)
  BY DEF WriteMore
<1> HIDE DEF p
<1>3. <<",">> \in Texts
  BY MarksAreLetters DEF Marks
<1>4. p.buf \in Texts
  BY <1>1, <1>3, ConcatTexts
<1>5. 0 \in Nat /\ 0 <= p.indention /\ p.indention - 0 = ind + step /\ (step = 0 <=> p.indention = 0)
  <2>1. p.indention = ind + step
    BY <1>1
  <2> QED BY <2>1
<1>6. LET t == WriteIndention(p, 0) IN
      /\ t.buf = p.buf \o NewLine(step, p.indention - 0) /\ NewLine(step, p.indention - 0) \in Texts
      /\ t.err = p.err /\ t.indention = p.indention /\ IsStream(t)
  BY <1>1, <1>4, <1>5, IndentionText
<1>7. (s.buf \o <<",">>) \o NewLine(step, ind + step) = s.buf \o (<<",">> \o NewLine(step, ind + step))
      /\ <<",">> \o NewLine(step, ind + step) \in Texts
  <2> DEFINE x == s.buf
             y == <<",">>
             z == NewLine(step, ind + step)
  <2>1. x \in Texts /\ y \in Texts /\ z \in Texts
    BY <1>3, <1>5, <1>6
  <2> HIDE DEF x, y, z
  <2>2. (x \o y) \o z = x \o (y \o z)
    BY <2>1, ConcatTexts
  <2>3. y \o z \in Texts
    BY <2>1, ConcatTexts
  <2> QED BY <2>2, <2>3 DEF x, y, z
<1> QED BY <1>1, <1>2, <1>5, <1>6, <1>7

LEMMA EndText ==
  ASSUME step \in Nat, NEW s, IsStream(s), s.buf \in Texts, NEW b, <<b>> \in Texts,
         NEW ind \in Nat, s.indention = ind + step, step = 0 => ind = 0
  PROVE  LET t == WriteEnd(s, b) IN
         /\ t.buf = s.buf \o (NewLine(step, ind) \o <<b>>) /\ NewLine(step, ind) \o <<b>> \in Texts
         /\ t.err = s.err /\ t.indention = ind /\ IsStream(t)
<1> DEFINE p == WriteIndention(s, step)
           r == [p EXCEPT !.indention = @ - step]
<1>1. step \in Nat /\ step <= s.indention /\ s.indention - step = ind /\ (step = 0 <=> s.indention = 0)
  OBVIOUS
<1>2. /\ p.buf = s.buf \o NewLine(step, ind) /\ NewLine(step, ind) \in Texts
      /\ p.err = s.err /\ p.indention = ind + step /\ IsStream(p)
  BY <1>1, IndentionText
<1>3. WriteEnd(s, b) = Put(r, <<b>>)
  BY DEF WriteEnd
<1> HIDE DEF p
<1>4. r.buf = p.buf /\ r.err = p.err /\ r.indention = ind /\ IsStream(r)
  <2>1. p = [buf |-> p.buf, err |-> p.err, indention |-> p.indention] /\ p.err \in {"nil", "bad", "write"}
    BY <1>2 DEF IsStream
  <2>2. p.indention - step = ind /\ ind \in Nat
    BY <1>2
  <2>3. r = [buf |-> p.buf, err |-> p.err, indention |-> ind]
    BY <2>1, <2>2
  <2> HIDE DEF r
  <2> QED BY <2>1, <2>2, <2>3 DEF IsStream
<1> HIDE DEF r
<1>5. LET t == Put(r, <<b>>) IN
      t.buf = r.buf \o <<b>> /\ t.err = r.err /\ t.indention = r.indention /\ IsStream(t)
  BY <1>4, PutText
<1>6. (s.buf \o NewLine(step, ind)) \o <<b>> = s.buf \o (NewLine(step, ind) \o <<b>>)
      /\ NewLine(step, ind) \o <<b>> \in Texts
  BY <1>2, ConcatTexts
<1> QED BY <1>2, <1>3, <1>4, <1>5, <1>6

\* The name of a member, as the code writes it on a stream with that indention.
LEMMA ColonText ==
  ASSUME step \in Nat, NEW s, NEW ind \in Nat, s.indention = ind + step, step = 0 => ind = 0,
         NEW v, v.kind # "array", NEW i
  PROVE  <<Names[v.names[i]]>> \o Colon(s) = Label(step, v, i)
<1>1. s.indention > 0 <=> step > 0
  OBVIOUS
<1> QED BY <1>1 DEF Colon, Label

----------------------------------------------------------------------------
(* What a step adds to the output of a stream.                             *)

\* A step that only writes s on the stream of the innermost call, and then returns
\* from this call or goes on.
OnlyOn(on) == Made' = Made /\ \A id \in Made \ {on} : streams'[id] = streams[id]
Stays(g) ==
  /\ UNCHANGED <<step, pool, call, result, sent>>
  /\ \A h \in Goroutines \ {g} : stack'[h] = stack[h]
Emits(g, s) == Emit(g, s) /\ Stays(g)
OnlyWriter(g, on) ==
  /\ DOMAIN written' = Goroutines /\ \A h \in Goroutines \ {on} : written'[h] = written[h]
  /\ written'[g] \in Texts

LEMMA EmitTouches ==
  ASSUME TextInv, NEW g \in Goroutines, stack[g] # <<>>, NEW on, on = Top(g).on, NEW sub, sub = Top(g).sub,
         NEW s, s.buf \in Texts, step = 0 => s.indention = 0, Emits(g, s), OnlyWriter(g, on)
  PROVE  Touches(g, on, sub) /\ streams'[on] = s /\ on \in Made /\ OnlyOn(on)
<1>1. /\ on \in Made /\ Inv
      /\ sub # None => sub \in Held(g) /\ sub \in Made /\ sub # on /\ sub \in StreamIds
  BY CallFacts
<1>2. sub \notin pool
  <2>1. pool \subseteq StreamIds /\ Held(g) \subseteq InUse(g) \cup {g} /\ InUse(g) \cap pool = {}
    BY <1>1, InUseFacts DEF Inv
  <2> QED BY <1>1, <2>1, ValuesAssumption
<1>3. streams'[on] = s /\ Made' = Made /\ \A id \in Made \ {on} : streams'[id] = streams[id]
  BY <1>1 DEF Emits, Emit, Inv, Made
<1>4. sub # None => streams'[sub].buf \in Texts /\ (step = 0 => streams'[sub].indention = 0)
  BY <1>1, <1>3 DEF TextInv
<1>5. Made' = Made \cup ({sub} \ {None})
  BY <1>1, <1>3
<1>6. \A id \in {on} \cup ({sub} \ {None}) :
        streams'[id].buf \in Texts /\ (step = 0 => streams'[id].indention = 0)
  BY <1>3, <1>4
<1>7. \A id \in Made \ {on, sub} : streams'[id] = streams[id]
  BY <1>3
<1>8. pool' \subseteq pool \cup ({sub} \ {None}) /\ sub \notin pool'
  BY <1>2 DEF Emits, Stays
<1>9. /\ UNCHANGED <<step, call, result, sent>> /\ \A h \in Goroutines \ {g} : stack'[h] = stack[h]
      /\ DOMAIN written' = Goroutines /\ \A h \in Goroutines \ {on} : written'[h] = written[h]
      /\ written'[g] \in Texts
  BY DEF Emits, Stays, OnlyWriter
<1> QED BY <1>1, <1>3, <1>5, <1>6, <1>7, <1>8, <1>9 DEF Touches, OnlyOn

\* What the writer has had of a stream.
LEMMA HadText ==
  ASSUME TextInv, NEW id \in Made
  PROVE  /\ (IF HasWriter(id) THEN written[id] ELSE <<>>) \in Texts
         /\ streams[id].buf \in Texts /\ Outputs[id].text \in Texts
         /\ Outputs[id].text = (IF HasWriter(id) THEN written[id] ELSE <<>>) \o streams[id].buf
<1>1. (IF HasWriter(id) THEN written[id] ELSE <<>>) \in Texts
  BY ConcatTexts DEF TextInv, HasWriter
<1>2. streams[id].buf \in Texts
  BY DEF TextInv
<1> DEFINE a == IF HasWriter(id) THEN written[id] ELSE <<>>
<1>3. Outputs[id].text = a \o streams[id].buf
  BY OutputIs
<1> HIDE DEF a
<1>4. a \o streams[id].buf \in Texts
  <2>1. a \in Texts
    BY <1>1 DEF a
  <2> QED BY <1>2, <2>1, ConcatTexts
<1> QED BY <1>1, <1>2, <1>3, <1>4 DEF a

\* Bytes that join the buffer join the output.
Gains(on, x, err, indention) ==
  /\ Outputs'[on].text = Outputs[on].text \o x
  /\ Outputs'[on].err = err /\ Outputs'[on].indention = indention
  /\ Outputs'[on].known <=> Outputs[on].known
LEMMA AddedText ==
  ASSUME TextInv, NEW id \in Made, id \in Made', NEW x \in Texts,
         streams'[id].buf = streams[id].buf \o x,
         HasWriter(id) => written'[id] = written[id], UNCHANGED sent
  PROVE  /\ Gains(id, x, streams'[id].err, streams'[id].indention)
         /\ Outputs[id].err = streams[id].err /\ Outputs[id].indention = streams[id].indention
         /\ streams'[id].buf \in Texts
<1> DEFINE a == IF HasWriter(id) THEN written[id] ELSE <<>>
           b == streams[id].buf
<1>1. a \in Texts /\ b \in Texts /\ Outputs[id].text = a \o b
  BY HadText
<1>2. /\ Outputs'[id].text = (IF HasWriter(id) THEN written'[id] ELSE <<>>) \o streams'[id].buf
      /\ Outputs'[id].err = streams'[id].err /\ Outputs'[id].indention = streams'[id].indention
      /\ Outputs'[id].known <=> (HasWriter(id) => Clean(sent'[id]))
  BY DEF Outputs, HasWriter
<1>3. Outputs'[id].text = a \o (b \o x)
  BY <1>2
<1>4. Outputs'[id].known <=> Outputs[id].known
  BY <1>2, OutputIs
<1> HIDE DEF a
<1>5. a \o (b \o x) = (a \o b) \o x /\ b \o x \in Texts
  BY <1>1, ConcatTexts
<1> QED BY <1>1, <1>2, <1>3, <1>4, <1>5, OutputIs DEF Gains

\* What the writer takes of the buffer is output already.
InOutput(g, on) ==
  /\ on = g => IsPrefixOf(written'[g], Outputs'[on].text)
  /\ on # g => written'[g] = written[g]
Leaves(g, indention) == \E t : Emit(g, t) /\ t.buf \in Texts /\ t.indention = indention
LEMMA OfferText ==
  ASSUME TextInv, NEW g \in Goroutines, stack[g] # <<>>, NEW on, on = Top(g).on,
         NEW s, IsStream(s), NEW x \in Texts, s.buf = streams[on].buf \o x, NEW bytes \in Texts,
         Offer(g, s, bytes), UNCHANGED sent
  PROVE  /\ Leaves(g, s.indention) /\ OnlyWriter(g, on) /\ written'[g] \in Texts
         /\ Gains(on, x \o bytes, s.err, s.indention) /\ InOutput(g, on)
<1> DEFINE a == IF HasWriter(on) THEN written[on] ELSE <<>>
           b == streams[on].buf
           all == s.buf \o bytes
<1>1. /\ on \in Made /\ Inv /\ DOMAIN written = Goroutines /\ written[g] \in Texts
      /\ a \in Texts /\ b \in Texts /\ Outputs[on].text = a \o b
  <2>1. on \in Made /\ Inv
    BY CallFacts
  <2>2. DOMAIN written = Goroutines /\ written[g] \in Texts
    BY DEF TextInv
  <2> QED BY <2>1, <2>2, HadText
<1>2. HasWriter(on) <=> on = g
  <2>1. on \in Held(g)
    BY CallFacts
  <2>2. Held(g) \subseteq InUse(g) \cup {g} /\ InUse(g) \subseteq StreamIds
    BY <1>1, InUseFacts
  <2> QED BY <2>1, <2>2, ValuesAssumption DEF HasWriter
<1>3. s.buf \in Texts /\ all \in Texts /\ Len(all) = Len(s.buf) + Len(bytes) /\ Len(all) \in Nat
  BY <1>1, ConcatTexts
<1>4. PICK n \in Taken(on, Len(s.buf) + Len(bytes)) :
        /\ Emit(g, Write(s, bytes, n))
        /\ written' = IF HasWriter(on) THEN [written EXCEPT ![g] = @ \o SubSeq(s.buf \o bytes, 1, n)] ELSE written
  BY DEF Offer
<1>5. n \in 0..Len(all) /\ (~HasWriter(on) => n = 0)
  BY <1>3, <1>4 DEF Taken
<1> DEFINE p == SubSeq(all, 1, n)
           r == SubSeq(all, n + 1, Len(all))
           t == Write(s, bytes, n)
<1>6. t.buf = r /\ t.err = s.err /\ t.indention = s.indention
  BY <1>3 DEF Write, IsStream
<1>7. p \in Texts /\ r \in Texts /\ p \o r = all /\ Len(p) = n
  <2> HIDE DEF all
  <2> QED BY <1>3, <1>5, CutText
<1>8. streams'[on] = t /\ Made' = Made
  BY <1>1, <1>4 DEF Emit, Inv, Made
<1> HIDE DEF t, p, r
<1>9. ~HasWriter(on) => p = <<>>
  <2>1. ASSUME ~HasWriter(on) PROVE p = <<>>
    <3>1. Len(p) = 0
      BY <1>5, <1>7, <2>1
    <3> QED BY <1>7, <3>1, EmptySeq DEF Texts
  <2> QED BY <2>1
<1>10. DOMAIN written' = Goroutines /\ (on = g => written'[g] = written[g] \o p) /\ (on # g => written' = written)
  BY <1>1, <1>2, <1>4 DEF p
<1>11. (IF HasWriter(on) THEN written'[on] ELSE <<>>) = a \o p
  <2>1. CASE HasWriter(on)
    BY <1>2, <1>10, <2>1
  <2>2. CASE ~HasWriter(on)
    BY <1>9, <2>2, ConcatTexts
  <2> QED BY <2>1, <2>2
<1>12. /\ Outputs'[on].text = (IF HasWriter(on) THEN written'[on] ELSE <<>>) \o streams'[on].buf
       /\ Outputs'[on].err = streams'[on].err /\ Outputs'[on].indention = streams'[on].indention
       /\ Outputs'[on].known <=> (HasWriter(on) => Clean(sent'[on]))
  BY <1>1, <1>8 DEF Outputs, HasWriter
<1>13. Outputs'[on].known <=> Outputs[on].known
  BY <1>1, <1>12, OutputIs
<1>14. Outputs'[on].text = (a \o p) \o r
  BY <1>6, <1>8, <1>11, <1>12
<1>15. (a \o p) \o r = a \o all /\ a \o p \in Texts
  <2>1. a \in Texts /\ p \in Texts /\ r \in Texts /\ p \o r = all
    BY <1>1, <1>7
  <2> HIDE DEF a, all
  <2>2. (a \o p) \o r = a \o (p \o r)
    BY <2>1, ConcatTexts
  <2>3. a \o p \in Texts
    BY <2>1, ConcatTexts
  <2> QED BY <2>1, <2>2, <2>3
<1>16. a \o all = (a \o b) \o (x \o bytes) /\ x \o bytes \in Texts
  <2>1. b \in Texts /\ all = (b \o x) \o bytes
    BY <1>1
  <2> HIDE DEF a, all, b
  <2>2. all = b \o (x \o bytes) /\ x \o bytes \in Texts
    BY <2>1, ThreeTexts
  <2>3. a \in Texts
    BY <1>1 DEF a
  <2> DEFINE y == x \o bytes
  <2>4. y \in Texts /\ all = b \o y
    BY <2>2
  <2> HIDE DEF y
  <2>5. (a \o b) \o y = a \o (b \o y)
    BY <2>1, <2>3, <2>4, ThreeTexts, ZenonT(60)
  <2> QED BY <2>4, <2>5 DEF y
<1>17. on = g => IsPrefixOf(written'[g], Outputs'[on].text)
  <2>1. ASSUME on = g PROVE IsPrefixOf(written'[g], Outputs'[on].text)
    <3>1. written'[g] = a \o p
      BY <1>2, <1>11, <2>1
    <3> DEFINE z == a \o p
    <3>2. z \in Texts /\ r \in Texts
      BY <1>7, <1>15
    <3> HIDE DEF z
    <3>3. IsPrefixOf(z, z \o r)
      BY <3>2, Beginnings
    <3> QED BY <1>14, <3>1, <3>3 DEF z
  <2> QED BY <2>1
<1>18. written'[g] \in Texts
  <2>1. CASE on = g
    <3>1. written'[g] = written[g] \o p /\ written[g] \in Texts /\ p \in Texts
      BY <1>1, <1>7, <1>10, <2>1
    <3> QED BY <3>1, ConcatTexts
  <2>2. CASE on # g
    BY <1>1, <1>10, <2>2
  <2> QED BY <2>1, <2>2
<1>19. \A h \in Goroutines \ {on} : written'[h] = written[h]
  BY <1>1, <1>2, <1>4
<1>20. Emit(g, t) /\ t.buf \in Texts
  BY <1>4, <1>6, <1>7 DEF t
<1>21. Outputs'[on].text = Outputs[on].text \o (x \o bytes)
  BY <1>1, <1>14, <1>15, <1>16
<1>22. Outputs'[on].err = s.err /\ Outputs'[on].indention = s.indention
  BY <1>6, <1>8, <1>12
<1>23. Leaves(g, s.indention) /\ OnlyWriter(g, on)
  BY <1>6, <1>10, <1>18, <1>19, <1>20 DEF Leaves, OnlyWriter
<1>24. InOutput(g, on)
  BY <1>10, <1>17 DEF InOutput
<1> QED BY <1>13, <1>18, <1>21, <1>22, <1>23, <1>24 DEF Gains

\* What the writer of an Encoder has, when the output of a call is a beginning of
\* the text of its value.
LEMMA OfferBegins ==
  ASSUME TextInv, NEW g \in Goroutines, stack[g] # <<>>, NEW on, on = Top(g).on,
         NEW w, Context(g, w), UNCHANGED <<step, sent>>,
         written'[g] \in Texts, NEW out, out \in Texts, on = g => IsPrefixOf(written'[g], out),
         on # g => written'[g] = written[g],
         Outputs[on].known => IsPrefixOf(out, w[1].pre \o Text(step)[Top(g).val][w[1].ind])
  PROVE  HasBeginning(g)'
<1>1. CASE on # g
  BY <1>1, BeginningKept
<1>2. CASE on = g
  <2> DEFINE f == Top(g)
             c == w[1]
             all == All(step, call[g].val, Earlier(g))
             b == c.pre \o Text(step)[f.val][c.ind]
             line == Lines(step, sent[g])[Len(sent[g])]
  <2>1. /\ Nested(step, stack[g], w, call[g].stream, call[g].val, Earlier(g)) /\ ~Idle(g) /\ Inv
        /\ f = stack[g][1] /\ 1 \in 1..Len(stack[g]) /\ c \in Contexts(step) /\ step \in Nat
        /\ GoodFrame(step, f) /\ on \in Made /\ on \in Held(g)
    BY CallFacts
  <2>2. call[g].name = "Encode" /\ call[g].stream = g
    <3>1. IsCall(g)
      BY <2>1 DEF Inv
    <3>2. ASSUME call[g].name # "Encode" PROVE FALSE
      <4>1. call[g].stream \in StreamIds
        BY <2>1, <3>1, <3>2 DEF IsCall, Idle
      <4>2. InUse(g) \subseteq StreamIds
        BY <2>1, InUseFacts
      <4>3. Held(g) \subseteq StreamIds
        BY <4>1, <4>2 DEF Held, InUse
      <4> QED BY <1>2, <2>1, <4>3, ValuesAssumption
    <3> QED BY <3>1, <3>2 DEF IsCall
  <2>3. IsBegun(step, f, c, all)
    BY <1>2, <2>1, <2>2 DEF Nested
  <2>4. IsPrefixOf(b, all)
    BY <2>3 DEF IsBegun
  <2>5. /\ Earlier(g) \in Texts /\ call[g].val \in Nodes
        /\ line = Earlier(g) \o (Text(step)[call[g].val][0] \o <<"\n">>)
        /\ Text(step)[call[g].val][0] \o <<"\n">> \in Texts
    BY <2>1, <2>2, LinesText
  <2>6. Text(step)[call[g].val][0] \in Texts /\ <<"\n">> \in Texts
    BY <2>1, <2>5, TextOfParts, MarksAreLetters DEF Marks
  <2>7. all \in Texts /\ line = all \o <<"\n">> /\ line \in Texts
    <3> DEFINE e == Earlier(g)
               t == Text(step)[call[g].val][0]
               nl == <<"\n">>
    <3>1. all = e \o t
      BY DEF All
    <3>2. e \in Texts /\ t \in Texts /\ nl \in Texts /\ line = e \o (t \o nl)
      BY <2>5, <2>6
    <3> HIDE DEF e, t, nl, all, line
    <3>3. (e \o t) \o nl = e \o (t \o nl) /\ e \o t \in Texts
      BY <3>2, ConcatTexts
    <3>4. (e \o t) \o nl \in Texts
      BY <3>2, <3>3, ConcatTexts
    <3> QED BY <3>1, <3>2, <3>3, <3>4 DEF nl
  <2>8. b \in Texts
    <3>1. c.pre \in Texts /\ c.ind \in Nat /\ f.val \in Nodes
      BY <2>1, ContextFacts DEF GoodFrame
    <3>2. Text(step)[f.val][c.ind] \in Texts
      <4> HIDE DEF c, f
      <4> QED BY <2>1, <3>1, TextOfParts
    <3> HIDE DEF c, f
    <3> QED BY <3>1, <3>2, ConcatTexts DEF b
  <2>9. ASSUME Clean(sent[g]) PROVE IsPrefixOf(written'[g], line)
    <3>1. Outputs[on].known
      BY <1>2, <2>1, <2>9, OutputIs
    <3>2. IsPrefixOf(written'[g], out) /\ IsPrefixOf(out, b)
      BY <1>2, <3>1
    <3>3. IsPrefixOf(all, line)
      BY <2>6, <2>7, Beginnings
    <3> HIDE DEF all, b, line
    <3>4. IsPrefixOf(written'[g], b)
      BY <2>8, <3>2, Beginnings
    <3>5. IsPrefixOf(written'[g], all)
      BY <2>4, <2>7, <2>8, <3>4, Beginnings
    <3> QED BY <2>7, <3>3, <3>5, Beginnings
  <2> QED BY <2>9 DEF HasBeginning
<1> QED BY <1>1, <1>2

----------------------------------------------------------------------------
(* The steps of an encoder keep the invariant.                             *)

LEMMA EmitText ==
  ASSUME TextInv, NEW g \in Goroutines, stack[g] # <<>>, NEW on, on = Top(g).on,
         NEW s, NEW x \in Texts, s.buf = streams[on].buf \o x, step = 0 => s.indention = 0, Emits(g, s),
         UNCHANGED written
  PROVE  /\ Touches(g, on, Top(g).sub) /\ HasBeginning(g)'
         /\ Gains(on, x, s.err, s.indention) /\ OnlyOn(on)
<1>1. on \in Made /\ streams[on].buf \in Texts
  BY CallFacts
<1>2. s.buf \in Texts
  BY <1>1, ConcatTexts
<1>3. DOMAIN written' = Goroutines /\ written'[g] \in Texts /\ HasBeginning(g)'
  BY BeginningKept DEF TextInv, Emits, Stays
<1>4. Touches(g, on, Top(g).sub) /\ streams'[on] = s /\ OnlyOn(on)
  <2>1. OnlyWriter(g, on)
    BY <1>3 DEF OnlyWriter
  <2> QED BY <1>2, <2>1, EmitTouches
<1>5. Gains(on, x, streams'[on].err, streams'[on].indention)
  <2>1. on \in Made' /\ streams'[on].buf = streams[on].buf \o x /\ UNCHANGED sent
        /\ (HasWriter(on) => written'[on] = written[on])
    BY <1>1, <1>4 DEF OnlyOn, Emits, Stays
  <2> QED BY <1>1, <2>1, AddedText
<1> QED BY <1>3, <1>4, <1>5

LEMMA OfferAll ==
  ASSUME TextInv, NEW g \in Goroutines, stack[g] # <<>>, NEW on, on = Top(g).on,
         NEW s, IsStream(s), NEW x \in Texts, s.buf = streams[on].buf \o x, NEW bytes \in Texts,
         step = 0 => s.indention = 0, Offer(g, s, bytes), Stays(g), NEW w, Context(g, w),
         Outputs[on].known =>
           IsPrefixOf(Outputs[on].text \o (x \o bytes), w[1].pre \o Text(step)[Top(g).val][w[1].ind])
  PROVE  /\ Touches(g, on, Top(g).sub) /\ HasBeginning(g)'
         /\ Gains(on, x \o bytes, s.err, s.indention) /\ OnlyOn(on)
<1>1. UNCHANGED sent /\ UNCHANGED <<step, sent>>
  BY DEF Stays
<1>2. /\ Leaves(g, s.indention) /\ OnlyWriter(g, on) /\ written'[g] \in Texts
      /\ Gains(on, x \o bytes, s.err, s.indention) /\ InOutput(g, on)
  BY <1>1, OfferText
<1>3. PICK t : Emit(g, t) /\ t.buf \in Texts /\ t.indention = s.indention
  BY <1>2 DEF Leaves
<1>4. OnlyWriter(g, on) /\ Emits(g, t)
  BY <1>2, <1>3 DEF Emits
<1>5. Touches(g, on, Top(g).sub) /\ OnlyOn(on)
  BY <1>3, <1>4, EmitTouches
<1>6. Outputs[on].text \in Texts
  BY CallFacts, HadText
<1> DEFINE out == Outputs[on].text \o (x \o bytes)
<1>7. out \in Texts
  BY <1>6, ThreeTexts
<1>8. HasBeginning(g)'
  <2>1. /\ Outputs[on].known => IsPrefixOf(out, w[1].pre \o Text(step)[Top(g).val][w[1].ind])
        /\ on = g => IsPrefixOf(written'[g], out)
        /\ on # g => written'[g] = written[g]
        /\ written'[g] \in Texts
    BY <1>2 DEF Gains, InOutput
  <2> HIDE DEF out
  <2> QED BY <1>1, <1>7, <2>1, OfferBegins
<1> QED BY <1>2, <1>5, <1>8

\* The call of a value with no parts.
LEMMA LeafFacts ==
  ASSUME NEW n \in Nat, NEW f, GoodFrame(n, f), f.val.kind \notin {"array", "object", "map"},
         NEW c \in Contexts(n), NEW out, Describes(n, f, c, out)
  PROVE  /\ out.indention = c.ind /\ c.ind \in Nat /\ (n = 0 => c.ind = 0) /\ c.pre \in Texts
         /\ out.known => out.text = c.pre /\ ((out.err # "nil") <=> c.bad)
         /\ Bad(f.val) <=> f.val.kind = "bad"
         /\ f.val \in Nodes /\ Text(n)[f.val][c.ind] \in Texts
<1>1. f.val \in Nodes /\ f.at \in 0..Len(f.val.parts) /\ c.pre \in Texts /\ c.ind \in Nat /\ c.ind + n \in Nat
      /\ (n = 0 => c.ind = 0)
  BY ContextFacts DEF GoodFrame
<1>2. f.val.parts = <<>> /\ f.at = 0
  BY <1>1, NodeFacts
<1>3. Upto(n, f.val, c.ind + n)[0] = <<>>
  BY <1>1, UptoIs
<1>4. Done(n, f, c.ind) = <<>> /\ ~Opened(f)
  BY <1>2, <1>3 DEF Done, Opened
<1>5. c.pre \o <<>> = c.pre
  BY <1>1, ConcatTexts
<1>6. ~BadTo(f.val, Visits(f), 0)
  BY <1>1, BadToIs
<1>7. Bad(f.val) <=> f.val.kind = "bad"
  BY <1>1, <1>2, BadOfParts
<1>8. Text(n)[f.val][c.ind] \in Texts
  BY <1>1, TextOfParts
<1>9. ErrorIs(f, c, out.err) <=> ((out.err # "nil") <=> c.bad)
  BY <1>2, <1>6 DEF ErrorIs
<1>10. out.indention = c.ind + 0
  BY <1>4 DEF Describes
<1> QED BY <1>1, <1>4, <1>5, <1>7, <1>8, <1>9, <1>10 DEF Describes

LEMMA EncodeScalarText == ASSUME TextInv, NEW g \in Goroutines, EncodeScalar(g) PROVE TextInv'
<1> DEFINE f == Top(g)
           on == f.on
           s == Put(On(g), <<"1">>)
<1>1. /\ stack[g] # <<>> /\ f.val.kind = "scalar" /\ Inv' /\ Emit(g, s) /\ Pop(g)
      /\ UNCHANGED <<step, pool, call, result, sent, written>>
  BY EncodeScalarInv DEF EncodeScalar, Encoding, TextInv
<1>2. PICK w : Context(g, w)
  BY <1>1, CallFacts
<1> DEFINE c == w[1]
<1>3. /\ GoodFrame(step, f) /\ c \in Contexts(step) /\ Describes(step, f, c, Outputs[on]) /\ step \in Nat
      /\ on \in Made /\ streams[on].buf \in Texts /\ IsStream(On(g))
  BY <1>1, <1>2, CallFacts DEF On
<1>4. /\ Outputs[on].indention = c.ind /\ (step = 0 => c.ind = 0) /\ c.pre \in Texts
      /\ Outputs[on].known => Outputs[on].text = c.pre /\ ((Outputs[on].err # "nil") <=> c.bad)
      /\ ~Bad(f.val) /\ f.val \in Nodes /\ c.ind \in Nat
  <2> DEFINE o == Outputs[on]
  <2>1. f.val.kind \notin {"array", "object", "map"} /\ Describes(step, f, c, o) /\ f.val.kind # "bad"
    BY <1>1, <1>3
  <2> HIDE DEF f, c, o
  <2> QED BY <1>3, <2>1, LeafFacts DEF o
<1>5. s.buf = streams[on].buf \o <<"1">> /\ s.err = streams[on].err /\ s.indention = streams[on].indention
  BY <1>3, PutText DEF On
<1>6. Outputs[on].err = streams[on].err /\ Outputs[on].indention = streams[on].indention
  BY <1>3, OutputIs
<1>7. <<"1">> \in Texts
  BY MarksAreLetters DEF Marks
<1>8. Emits(g, s)
  BY <1>1 DEF Pop, TextInv, Inv, Emits, Stays
<1>9. /\ Touches(g, on, f.sub) /\ HasBeginning(g)'
      /\ Gains(on, <<"1">>, s.err, s.indention)
  <2>1. step = 0 => s.indention = 0
    BY <1>4, <1>5, <1>6
  <2> HIDE DEF s
  <2> QED BY <1>1, <1>5, <1>7, <1>8, <2>1, EmitText
<1>10. Text(step)[f.val][c.ind] = <<"1">>
  <2> HIDE DEF c, f
  <2> QED BY <1>1, <1>3, <1>4, TextOfParts DEF f
<1>11. Finished(step, f.val, c, Outputs'[on])
  <2> HIDE DEF c, f, on, s
  <2> QED BY <1>4, <1>5, <1>6, <1>9, <1>10 DEF Finished, Gains
<1> QED BY <1>1, <1>2, <1>9, <1>11, TextPop

LEMMA EncodeBadText == ASSUME TextInv, NEW g \in Goroutines, EncodeBad(g) PROVE TextInv'
<1> DEFINE f == Top(g)
           on == f.on
           s == [On(g) EXCEPT !.err = "bad"]
<1>1. /\ stack[g] # <<>> /\ f.val.kind = "bad" /\ Inv' /\ Emit(g, s) /\ Pop(g)
      /\ UNCHANGED <<step, pool, call, result, sent, written>>
  BY EncodeBadInv DEF EncodeBad, Encoding, TextInv
<1>2. PICK w : Context(g, w)
  BY <1>1, CallFacts
<1> DEFINE c == w[1]
<1>3. /\ GoodFrame(step, f) /\ c \in Contexts(step) /\ Describes(step, f, c, Outputs[on]) /\ step \in Nat
      /\ on \in Made /\ streams[on].buf \in Texts /\ IsStream(On(g))
  BY <1>1, <1>2, CallFacts DEF On
<1>4. /\ Outputs[on].indention = c.ind /\ (step = 0 => c.ind = 0) /\ c.pre \in Texts
      /\ Outputs[on].known => Outputs[on].text = c.pre
      /\ Bad(f.val) /\ f.val \in Nodes /\ c.ind \in Nat
  <2> DEFINE o == Outputs[on]
  <2>1. f.val.kind \notin {"array", "object", "map"} /\ Describes(step, f, c, o) /\ f.val.kind = "bad"
    BY <1>1, <1>3
  <2> HIDE DEF f, c, o
  <2> QED BY <1>3, <2>1, LeafFacts DEF o
<1>5. s.buf = streams[on].buf \o <<>> /\ s.err = "bad" /\ s.indention = streams[on].indention
  <2>1. s.buf = streams[on].buf /\ s.err = "bad" /\ s.indention = streams[on].indention
    BY <1>3 DEF On, IsStream
  <2> QED BY <1>3, <2>1, ConcatTexts
<1>6. Outputs[on].indention = streams[on].indention
  BY <1>3, OutputIs
<1>7. <<>> \in Texts
  BY ConcatTexts
<1>8. Emits(g, s)
  BY <1>1 DEF Pop, TextInv, Inv, Emits, Stays
<1>9. /\ Touches(g, on, f.sub) /\ HasBeginning(g)'
      /\ Gains(on, <<>>, s.err, s.indention)
  <2>1. step = 0 => s.indention = 0
    BY <1>4, <1>5, <1>6
  <2> HIDE DEF s
  <2> QED BY <1>1, <1>5, <1>7, <1>8, <2>1, EmitText
<1>10. Text(step)[f.val][c.ind] = <<>>
  <2> HIDE DEF c, f
  <2> QED BY <1>1, <1>3, <1>4, TextOfParts DEF f
<1>11. Finished(step, f.val, c, Outputs'[on])
  <2> HIDE DEF c, f, on, s
  <2> QED BY <1>4, <1>5, <1>6, <1>9, <1>10 DEF Finished, Gains
<1> QED BY <1>1, <1>2, <1>9, <1>11, TextPop

LEMMA EncodeMarshalerText == ASSUME TextInv, NEW g \in Goroutines, EncodeMarshaler(g) PROVE TextInv'
<1> DEFINE f == Top(g)
           on == f.on
           s == On(g)
<1>1. /\ stack[g] # <<>> /\ f.val.kind = "marshaler" /\ Inv' /\ Offer(g, s, <<"m">>) /\ Pop(g)
      /\ UNCHANGED <<step, pool, call, result, sent>>
  BY EncodeMarshalerInv DEF EncodeMarshaler, Encoding, TextInv
<1>2. PICK w : Context(g, w)
  BY <1>1, CallFacts
<1> DEFINE c == w[1]
<1>3. /\ GoodFrame(step, f) /\ c \in Contexts(step) /\ Describes(step, f, c, Outputs[on]) /\ step \in Nat
      /\ on \in Made /\ streams[on].buf \in Texts /\ IsStream(s)
  BY <1>1, <1>2, CallFacts DEF On
<1>4. /\ Outputs[on].indention = c.ind /\ (step = 0 => c.ind = 0) /\ c.pre \in Texts
      /\ Outputs[on].known => Outputs[on].text = c.pre /\ ((Outputs[on].err # "nil") <=> c.bad)
      /\ ~Bad(f.val) /\ f.val \in Nodes /\ c.ind \in Nat
  <2> DEFINE o == Outputs[on]
  <2>1. f.val.kind \notin {"array", "object", "map"} /\ Describes(step, f, c, o) /\ f.val.kind # "bad"
    BY <1>1, <1>3
  <2> HIDE DEF f, c, o
  <2> QED BY <1>3, <2>1, LeafFacts DEF o
<1>5. s.buf = streams[on].buf \o <<>> /\ s.err = streams[on].err /\ s.indention = streams[on].indention
  BY <1>3, ConcatTexts DEF On
<1>6. Outputs[on].err = streams[on].err /\ Outputs[on].indention = streams[on].indention
  BY <1>3, OutputIs
<1>7. <<"m">> \in Texts /\ <<>> \in Texts /\ <<>> \o <<"m">> = <<"m">>
  <2> DEFINE m == <<"m">>
  <2>1. m \in Texts
    BY MarksAreLetters DEF Marks
  <2> HIDE DEF m
  <2>2. <<>> \o m = m /\ <<>> \in Texts
    BY <2>1, ConcatTexts
  <2> QED BY <2>1, <2>2 DEF m
<1>8. Stays(g)
  BY <1>1 DEF Pop, TextInv, Inv, Stays
<1>9. Text(step)[f.val][c.ind] = <<"m">>
  <2> HIDE DEF c, f
  <2> QED BY <1>1, <1>3, <1>4, TextOfParts DEF f
<1>10. Outputs[on].known =>
         IsPrefixOf(Outputs[on].text \o (<<>> \o <<"m">>), c.pre \o Text(step)[f.val][c.ind])
  <2> DEFINE m == <<"m">>
             b == c.pre \o m
  <2>1. b \in Texts
    <3>1. m \in Texts
      BY <1>7
    <3> HIDE DEF m, c
    <3> QED BY <1>4, <3>1, ConcatTexts
  <2>2. IsPrefixOf(b, b)
    BY <2>1, Beginnings
  <2> QED BY <1>4, <1>7, <1>9, <2>2
<1>11. /\ Touches(g, on, f.sub) /\ HasBeginning(g)'
       /\ Gains(on, <<>> \o <<"m">>, s.err, s.indention)
  <2>1. step = 0 => s.indention = 0
    BY <1>4, <1>5, <1>6
  <2> DEFINE m == <<"m">>
             e == <<>>
             k == Outputs[on].known
  <2>2. /\ e \in Texts /\ m \in Texts /\ s.buf = streams[on].buf \o e /\ Offer(g, s, m) /\ IsStream(s)
        /\ k => IsPrefixOf(Outputs[on].text \o (e \o m), w[1].pre \o Text(step)[Top(g).val][w[1].ind])
    BY <1>1, <1>3, <1>5, <1>7, <1>10
  <2> HIDE DEF s, m, e
  <2>3. /\ Touches(g, on, Top(g).sub) /\ HasBeginning(g)'
        /\ Gains(on, e \o m, s.err, s.indention)
    BY <1>1, <1>2, <1>8, <2>1, <2>2, OfferAll
  <2> QED BY <2>3 DEF m, e
<1>12. Finished(step, f.val, c, Outputs'[on])
  <2> HIDE DEF c, f, on, s
  <2> QED BY <1>4, <1>5, <1>6, <1>7, <1>9, <1>11 DEF Finished, Gains
<1> QED BY <1>1, <1>2, <1>11, <1>12, TextPop

LEMMA EmptyParts ==
  ASSUME NEW v \in Nodes
  PROVE  Len(v.parts) = 0 <=> v.parts = <<>>
<1>1. v.parts \in Seq(Nodes)
  BY NodesAssumption
<1> QED BY <1>1, EmptySeq

\* Stream t is s with x added and another indention.
Adds(t, s, x, indention) ==
  x \in Texts /\ t.buf = s.buf \o x /\ t.err = s.err /\ t.indention = indention /\ IsStream(t)

LEMMA PutAdds ==
  ASSUME NEW s, IsStream(s), NEW x \in Texts, NEW t, t = Put(s, x)
  PROVE  Adds(t, s, x, s.indention)
BY PutText DEF Adds

LEMMA StartAdds ==
  ASSUME step \in Nat, NEW s, IsStream(s), s.buf \in Texts, NEW b, <<b>> \in Texts,
         NEW ind \in Nat, s.indention = ind, step = 0 => ind = 0,
         NEW t, t = WriteStart(s, b), NEW x, x = <<b>> \o NewLine(step, ind + step)
  PROVE  Adds(t, s, x, ind + step)
BY StartText DEF Adds

LEMMA MoreAdds ==
  ASSUME step \in Nat, NEW s, IsStream(s), s.buf \in Texts,
         NEW ind \in Nat, s.indention = ind + step, step = 0 => ind = 0,
         NEW t, t = WriteMore(s), NEW x, x = <<",">> \o NewLine(step, ind + step)
  PROVE  Adds(t, s, x, ind + step)
BY MoreText DEF Adds

LEMMA EndAdds ==
  ASSUME step \in Nat, NEW s, IsStream(s), s.buf \in Texts, NEW b, <<b>> \in Texts,
         NEW ind \in Nat, s.indention = ind + step, step = 0 => ind = 0,
         NEW t, t = WriteEnd(s, b), NEW x, x = NewLine(step, ind) \o <<b>>
  PROVE  Adds(t, s, x, ind)
<1>1. /\ t.buf = s.buf \o (NewLine(step, ind) \o <<b>>) /\ NewLine(step, ind) \o <<b>> \in Texts
      /\ t.err = s.err /\ t.indention = ind /\ IsStream(t)
  BY EndText, ZenonT(60)
<1> QED BY <1>1 DEF Adds

LEMMA AddsTwice ==
  ASSUME NEW s, s.buf \in Texts, NEW t, NEW x, NEW i, Adds(t, s, x, i), NEW u, NEW y, NEW j, Adds(u, t, y, j),
         NEW z, z = x \o y
  PROVE  Adds(u, s, z, j)
<1>1. z \in Texts /\ (s.buf \o x) \o y = s.buf \o z
  BY ConcatTexts DEF Adds
<1> QED BY <1>1 DEF Adds

\* What the code writes before a part of an array or a struct.
LEMMA BegunText ==
  ASSUME step \in Nat, NEW s, IsStream(s), s.buf \in Texts, NEW v \in Nodes, v.kind \in {"array", "object"},
         NEW i \in 1..Len(v.parts), NEW ind \in Nat, step = 0 => ind = 0,
         s.indention = ind + (IF i = 1 THEN 0 ELSE step),
         NEW b, b = (IF i = 1 THEN WriteStart(s, Bracket(v)[1]) ELSE WriteMore(s)),
         NEW t, t = (IF v.kind = "object" THEN WriteObjectField(b, v.names[i]) ELSE b)
  PROVE  Adds(t, s, Lead(step, v, i, ind + step), ind + step)
<1> DEFINE x == IF i = 1 THEN Opening(step, v, ind + step) ELSE <<",">> \o NewLine(step, ind + step)
           l == Label(step, v, i)
           z == Lead(step, v, i, ind + step)
<1>1. i \in DOMAIN v.parts /\ Order(v)[i] = i /\ ind + step \in Nat
  BY NodeFacts DEF Order
<1>2. z = x \o l
  <2> DEFINE k == ind + step
  <2>1. k \in Nat
    BY <1>1
  <2>2. i = 1 => x = Opening(step, v, k)
    OBVIOUS
  <2>3. i # 1 => x = <<",">> \o NewLine(step, k)
    OBVIOUS
  <2>4. z = Lead(step, v, i, k)
    OBVIOUS
  <2> HIDE DEF k, x, z
  <2>5. i = 1 => Lead(step, v, i, k) = Opening(step, v, k) \o Label(step, v, Order(v)[i])
    BY <2>1, LeadIs
  <2>6. i # 1 => Lead(step, v, i, k) = (<<",">> \o NewLine(step, k)) \o Label(step, v, Order(v)[i])
    BY <2>1, LeadIs
  <2> QED BY <1>1, <2>2, <2>3, <2>4, <2>5, <2>6
<1>3. Adds(b, s, x, ind + step)
  <2>1. CASE i = 1
    <3>1. <<Bracket(v)[1]>> \in Texts
      BY BracketText, ConcatTexts
    <3>2. s.indention = ind
      BY <2>1
    <3>3. b = WriteStart(s, Bracket(v)[1]) /\ x = <<Bracket(v)[1]>> \o NewLine(step, ind + step)
      BY <2>1 DEF Opening
    <3> HIDE DEF x
    <3> QED BY <3>1, <3>2, <3>3, StartAdds
  <2>2. CASE i # 1
    <3>1. s.indention = ind + step
      BY <2>2
    <3>2. b = WriteMore(s) /\ x = <<",">> \o NewLine(step, ind + step)
      BY <2>2
    <3> HIDE DEF x
    <3> QED BY <3>1, <3>2, MoreAdds
  <2> QED BY <2>1, <2>2
<1>4. l \in Texts
  BY <1>1, LabelText
<1> HIDE DEF x, z
<1>5. Adds(t, b, l, ind + step)
  <2>1. IsStream(b) /\ b.indention = ind + step
    BY <1>3 DEF Adds
  <2>2. CASE v.kind = "object"
    <3>1. <<Names[v.names[i]]>> \o Colon(b) = l
      BY <2>1, <2>2, ColonText
    <3>2. t = Put(b, l)
      BY <2>2, <3>1 DEF WriteObjectField
    <3> HIDE DEF l
    <3> QED BY <1>4, <2>1, <3>2, PutAdds
  <2>3. CASE v.kind # "object"
    <3>1. t = b /\ l = <<>>
      BY <2>3 DEF Label
    <3> HIDE DEF l
    <3>2. b.buf \o <<>> = b.buf
      BY <1>3, ConcatTexts DEF Adds
    <3> QED BY <1>4, <2>1, <3>1, <3>2 DEF Adds
  <2> QED BY <2>2, <2>3
<1> HIDE DEF l
<1>6. Adds(t, s, z, ind + step)
  BY <1>2, <1>3, <1>5, AddsTwice
<1> QED BY <1>6 DEF z

\* A call of an array or a struct between two parts.
IsList(n, f, c, out, upto) ==
  /\ f.val \in Nodes /\ f.at \in 0..Len(f.val.parts) /\ Len(f.val.parts) \in Nat
  /\ out.indention = c.ind + (IF f.at = 0 THEN 0 ELSE n)
  /\ c.ind \in Nat /\ (n = 0 => c.ind = 0) /\ c.pre \in Texts /\ upto \in Texts
  /\ out.known => out.text = c.pre \o upto
  /\ out.known => ((out.err # "nil") <=> (c.bad \/ BadTo(f.val, Visits(f), f.at)))
  /\ Visits(f) = [i \in DOMAIN f.val.parts |-> i]
  /\ f.sub = None /\ (n # 0 => Indents(f.val))

LEMMA ListFacts ==
  ASSUME NEW n \in Nat, NEW f, GoodFrame(n, f), f.val.kind \in {"array", "object"},
         NEW c \in Contexts(n), NEW out, Describes(n, f, c, out)
  PROVE  IsList(n, f, c, out, Upto(n, f.val, c.ind + n)[f.at])
<1>1. /\ f.val \in Nodes /\ f.at \in 0..Len(f.val.parts) /\ c.pre \in Texts /\ c.ind \in Nat /\ c.ind + n \in Nat
      /\ (n = 0 => c.ind = 0) /\ (n # 0 => Indents(f.val)) /\ f.sub = None
  BY ContextFacts DEF GoodFrame, HasMembers
<1>2. Len(f.val.parts) \in Nat
  BY <1>1, NodeFacts
<1>3. Upto(n, f.val, c.ind + n)[f.at] \in Texts
  <2> DEFINE k == c.ind + n
             q == Upto(n, f.val, k)
  <2>1. k \in Nat /\ f.val \in Nodes
    BY <1>1
  <2> HIDE DEF k
  <2>2. q \in [0..Len(f.val.parts) -> Texts]
    BY <2>1, UptoIs
  <2> HIDE DEF q
  <2>3. q[f.at] \in Texts
    BY <1>1, <2>2
  <2> QED BY <2>3 DEF q, k
<1>4. Done(n, f, c.ind) = Upto(n, f.val, c.ind + n)[f.at]
  BY DEF Done
<1>5. Opened(f) <=> f.at # 0
  BY DEF Opened
<1>6. ErrorIs(f, c, out.err) <=> ((out.err # "nil") <=> (c.bad \/ BadTo(f.val, Visits(f), f.at)))
  BY DEF ErrorIs
<1>7. Visits(f) = [i \in DOMAIN f.val.parts |-> i]
  BY DEF Visits
<1>8. out.indention = c.ind + (IF f.at = 0 THEN 0 ELSE n)
  BY <1>5 DEF Describes
<1>9. out.known => out.text = c.pre \o Upto(n, f.val, c.ind + n)[f.at]
  BY <1>4 DEF Describes
<1>10. out.known => ((out.err # "nil") <=> (c.bad \/ BadTo(f.val, Visits(f), f.at)))
  BY <1>6 DEF Describes
<1> QED BY <1>1, <1>2, <1>3, <1>7, <1>8, <1>9, <1>10 DEF IsList

LEMMA EncodeEndText == ASSUME TextInv, NEW g \in Goroutines, EncodeEnd(g) PROVE TextInv'
<1> DEFINE f == Top(g)
           on == f.on
           v == f.val
           s == IF Len(v.parts) = 0 THEN Put(On(g), Bracket(v)) ELSE WriteEnd(On(g), Bracket(v)[2])
<1>1. /\ stack[g] # <<>> /\ v.kind \in {"array", "object"} /\ f.at = Len(v.parts) /\ Inv' /\ Emit(g, s) /\ Pop(g)
      /\ UNCHANGED <<step, pool, call, result, sent, written>>
  BY EncodeEndInv DEF EncodeEnd, Encoding, TextInv
<1>2. PICK w : Context(g, w)
  BY <1>1, CallFacts
<1> DEFINE c == w[1]
           out == Outputs[on]
           upto == Upto(step, v, c.ind + step)[f.at]
<1>3. /\ GoodFrame(step, f) /\ c \in Contexts(step) /\ Describes(step, f, c, out) /\ step \in Nat
      /\ on \in Made /\ streams[on].buf \in Texts /\ IsStream(On(g))
  BY <1>1, <1>2, CallFacts DEF On
<1>4. /\ v \in Nodes /\ Len(v.parts) \in Nat /\ f.at \in 0..Len(v.parts)
      /\ out.indention = c.ind + (IF f.at = 0 THEN 0 ELSE step)
      /\ c.ind \in Nat /\ (step = 0 => c.ind = 0) /\ c.pre \in Texts /\ upto \in Texts
      /\ out.known => out.text = c.pre \o upto
      /\ out.known => ((out.err # "nil") <=> (c.bad \/ BadTo(v, Visits(f), f.at)))
      /\ Visits(f) = [k \in DOMAIN v.parts |-> k]
      /\ f.sub = None /\ (step # 0 => Indents(v)) /\ c.ind + step \in Nat
  <2>1. f.val.kind \in {"array", "object"}
    BY <1>1
  <2>2. IsList(step, f, c, out, upto)
    <3> HIDE DEF f, c, out
    <3> QED BY <1>3, <2>1, ListFacts DEF upto, v
  <2> HIDE DEF f, c, out, upto
  <2>3. c.ind \in Nat
    BY <2>2 DEF IsList
  <2> QED BY <1>3, <2>2, <2>3 DEF IsList, v
<1>5. out.err = streams[on].err /\ out.indention = streams[on].indention
  BY <1>3, OutputIs
<1>6. BadTo(v, Visits(f), f.at) <=> Bad(v)
  BY <1>1, <1>4, BadToIs
<1>7. Emits(g, s)
  BY <1>1 DEF Pop, TextInv, Inv, Emits, Stays
<1>8. \E x \in Texts : /\ s.buf = streams[on].buf \o x /\ s.err = streams[on].err /\ s.indention = c.ind
                       /\ Text(step)[v][c.ind] = upto \o x
  <2>1. CASE Len(v.parts) = 0
    <3>1. v.parts = <<>> /\ f.at = 0
      BY <1>1, <1>4, <2>1, EmptyParts
    <3>2. Upto(step, v, c.ind + step)[0] = <<>>
      BY <1>3, <1>4, UptoIs
    <3>3. upto = <<>>
      BY <3>1, <3>2
    <3>4. Text(step)[v][c.ind] = Bracket(v)
      <4> HIDE DEF c, v
      <4> QED BY <1>1, <1>3, <1>4, <3>1, TextOfParts, ZenonT(60)
    <3> DEFINE x == Bracket(v)
    <3>5. x \in Texts
      BY BracketText
    <3>6. s.buf = streams[on].buf \o x /\ s.err = streams[on].err /\ s.indention = streams[on].indention
      <4>1. s = Put(On(g), x)
        BY <2>1
      <4> HIDE DEF s, x
      <4> QED BY <1>3, <4>1, PutText DEF On
    <3>7. s.indention = c.ind
      BY <1>4, <1>5, <3>1, <3>6
    <3> HIDE DEF x, s, upto
    <3>8. <<>> \o x = x
      BY <3>5, ConcatTexts
    <3> QED BY <3>3, <3>4, <3>5, <3>6, <3>7, <3>8 DEF x
  <2>2. CASE Len(v.parts) # 0
    <3>1. v.parts # <<>> /\ f.at # 0
      BY <1>1, <1>4, <2>2, EmptyParts
    <3>2. On(g).indention = c.ind + step
      BY <1>4, <1>5, <3>1 DEF On
    <3> DEFINE x == Closing(step, v, c.ind)
    <3>3. <<Bracket(v)[2]>> \in Texts
      BY BracketText, ConcatTexts
    <3>4. s.buf = streams[on].buf \o x /\ x \in Texts /\ s.err = streams[on].err /\ s.indention = c.ind
      <4>1. s = WriteEnd(On(g), Bracket(v)[2]) /\ x = NewLine(step, c.ind) \o <<Bracket(v)[2]>>
        BY <2>2 DEF Closing
      <4>2. On(g) = streams[on]
        BY DEF On
      <4> HIDE DEF s, x, c, v, on
      <4>3. Adds(s, On(g), x, c.ind)
        BY <1>3, <1>4, <3>2, <3>3, <4>1, <4>2, EndAdds
      <4> QED BY <4>2, <4>3 DEF Adds
    <3>5. Text(step)[v][c.ind] = upto \o x
      <4>1. Text(step)[v][c.ind] = Upto(step, v, c.ind + step)[Len(v.parts)] \o Closing(step, v, c.ind)
        <5> HIDE DEF c, v
        <5> QED BY <1>1, <1>3, <1>4, <3>1, TextOfParts
      <4> QED BY <1>1, <4>1
    <3> QED BY <3>4, <3>5
  <2> QED BY <2>1, <2>2
<1>9. PICK x \in Texts : /\ s.buf = streams[on].buf \o x /\ s.err = streams[on].err /\ s.indention = c.ind
                         /\ Text(step)[v][c.ind] = upto \o x
  BY <1>8
<1>10. Touches(g, on, f.sub) /\ HasBeginning(g)' /\ Gains(on, x, s.err, s.indention)
  <2>1. step = 0 => s.indention = 0
    BY <1>4, <1>9
  <2> HIDE DEF s
  <2> QED BY <1>1, <1>7, <1>9, <2>1, EmitText
<1>11. Finished(step, v, c, Outputs'[on])
  <2> HIDE DEF c, f, v, on, s, upto
  <2>1. (c.pre \o upto) \o x = c.pre \o (upto \o x)
    BY <1>4, ConcatTexts
  <2> QED BY <1>4, <1>5, <1>6, <1>9, <1>10, <2>1 DEF Finished, Gains, out
<1> QED BY <1>1, <1>2, <1>10, <1>11, TextPop

LEMMA EncodePartText == ASSUME TextInv, NEW g \in Goroutines, EncodePart(g) PROVE TextInv'
<1> DEFINE f == Top(g)
           on == f.on
           v == f.val
           i == f.at + 1
           b == IF i = 1 THEN WriteStart(On(g), Bracket(v)[1]) ELSE WriteMore(On(g))
           s == IF v.kind = "object" THEN WriteObjectField(b, v.names[i]) ELSE b
           u == [f EXCEPT !.at = i]
<1>1. /\ stack[g] # <<>> /\ v.kind \in {"array", "object"} /\ f.at < Len(v.parts) /\ Inv' /\ Emit(g, s)
      /\ Push(g, u, v.parts[i], on)
      /\ UNCHANGED <<step, pool, call, result, sent, written>>
  BY EncodePartInv DEF EncodePart, Encoding, TextInv
<1>2. PICK w : Context(g, w)
  BY <1>1, CallFacts
<1> DEFINE c == w[1]
           out == Outputs[on]
           upto == Upto(step, v, c.ind + step)[f.at]
           x == Lead(step, v, i, c.ind + step)
<1>3. /\ GoodFrame(step, f) /\ c \in Contexts(step) /\ Describes(step, f, c, out) /\ step \in Nat
      /\ on \in Made /\ streams[on].buf \in Texts /\ IsStream(On(g))
  BY <1>1, <1>2, CallFacts DEF On
<1>4. /\ v \in Nodes /\ Len(v.parts) \in Nat /\ f.at \in 0..Len(v.parts)
      /\ out.indention = c.ind + (IF f.at = 0 THEN 0 ELSE step)
      /\ c.ind \in Nat /\ (step = 0 => c.ind = 0) /\ c.pre \in Texts /\ upto \in Texts
      /\ out.known => out.text = c.pre \o upto
      /\ out.known => ((out.err # "nil") <=> (c.bad \/ BadTo(v, Visits(f), f.at)))
      /\ Visits(f) = [k \in DOMAIN v.parts |-> k]
      /\ f.sub = None /\ (step # 0 => Indents(v)) /\ c.ind + step \in Nat
  <2>1. f.val.kind \in {"array", "object"}
    BY <1>1
  <2>2. IsList(step, f, c, out, upto)
    <3> HIDE DEF f, c, out
    <3> QED BY <1>3, <2>1, ListFacts DEF upto, v
  <2> HIDE DEF f, c, out, upto
  <2>3. c.ind \in Nat
    BY <2>2 DEF IsList
  <2> QED BY <1>3, <2>2, <2>3 DEF IsList, v
<1>5. out.err = streams[on].err /\ out.indention = streams[on].indention
  BY <1>3, OutputIs
<1>6. i \in 1..Len(v.parts) /\ i - 1 = f.at /\ i # 0 /\ (i = 1 <=> f.at = 0) /\ i \in 0..Len(v.parts) /\ i \in Nat
  BY <1>1, <1>4
<1>7. u.val = v /\ u.on = on /\ u.at = i /\ u.sub = None
  <2>1. \E c0, subs : IsFrame(f, c0, subs)
    BY <1>1, TopFacts DEF TextInv
  <2>2. f = [val |-> f.val, on |-> f.on, at |-> f.at, order |-> f.order, sub |-> f.sub,
             subAt |-> f.subAt, members |-> f.members, sorted |-> f.sorted]
    BY <2>1 DEF IsFrame
  <2> QED BY <1>4, <2>2
<1> HIDE DEF u
<1>8. /\ GoodFrame(step, u) /\ Inside(u) /\ Visits(u) = [k \in DOMAIN v.parts |-> k]
      /\ ChildVal(u) = v.parts[i] /\ ChildOn(u) = on
  <2>1. Visits(u) = [k \in DOMAIN v.parts |-> k] /\ ChildOn(u) = on /\ v.kind # "map"
    BY <1>1, <1>7 DEF Visits, ChildOn
  <2>2. i \in DOMAIN v.parts
    BY <1>4, <1>6, NodeFacts
  <2>3. ChildVal(u) = v.parts[i]
    BY <1>7, <2>1, <2>2 DEF ChildVal
  <2> HIDE DEF i, v
  <2> QED BY <1>4, <1>6, <1>7, <2>1, <2>3 DEF GoodFrame, Inside
<1>9. s.buf = streams[on].buf \o x /\ s.err = streams[on].err /\ s.indention = c.ind + step
  <2>1. On(g) = streams[on]
    BY DEF On
  <2>2. On(g).indention = c.ind + (IF i = 1 THEN 0 ELSE step)
    BY <1>4, <1>5, <1>6, <2>1
  <2>3. s = IF v.kind = "object" THEN WriteObjectField(b, v.names[i]) ELSE b
    OBVIOUS
  <2>4. b = IF i = 1 THEN WriteStart(On(g), Bracket(v)[1]) ELSE WriteMore(On(g))
    OBVIOUS
  <2> HIDE DEF c, v, on, i, s, b
  <2>5. Adds(s, On(g), x, c.ind + step)
    BY <1>1, <1>3, <1>4, <1>6, <2>1, <2>2, <2>3, <2>4, BegunText
  <2> QED BY <2>1, <2>5 DEF Adds
<1>10. x \in Texts
  BY <1>3, <1>4, <1>6, LeadText
<1>11. Emits(g, s)
  BY <1>1 DEF Push, TextInv, Inv, Emits, Stays
<1>12. Touches(g, on, f.sub) /\ HasBeginning(g)' /\ Gains(on, x, s.err, s.indention)
  <2>1. step = 0 => s.indention = 0
    <3> HIDE DEF s, c
    <3> QED BY <1>4, <1>9
  <2> HIDE DEF s, x
  <2> QED BY <1>1, <1>9, <1>10, <1>11, <2>1, EmitText
<1>13. Before(Child(step, u, c), Outputs'[on])
  <2> DEFINE e == c.bad \/ BadTo(v, Visits(f), f.at)
  <2>1. Child(step, u, c) = [pre |-> c.pre \o (upto \o x), ind |-> c.ind + step, bad |-> e]
    <3>1. v.kind # "map"
      BY <1>1
    <3> QED BY <1>4, <1>6, <1>7, <1>8, <3>1 DEF Child
  <2> HIDE DEF c, f, v, on, s, upto, x, i, e
  <2>2. (c.pre \o upto) \o x = c.pre \o (upto \o x)
    BY <1>4, <1>10, ConcatTexts
  <2>7. /\ Child(step, u, c).pre = c.pre \o (upto \o x) /\ Child(step, u, c).ind = c.ind + step
        /\ Child(step, u, c).bad = e
    <3> DEFINE d == Child(step, u, c)
               q == c.pre \o (upto \o x)
               m == c.ind + step
    <3>1. d = [pre |-> q, ind |-> m, bad |-> e]
      BY <2>1
    <3> HIDE DEF d, q, m
    <3>2. d.pre = q /\ d.ind = m
      BY <3>1
    <3>3. d.bad = e
      BY <3>1
    <3> QED BY <3>2, <3>3 DEF d, q, m
  <2>3. out.known => Outputs'[on].text = c.pre \o (upto \o x)
    BY <1>4, <1>12, <2>2 DEF Gains, out
  <2>4. Outputs'[on].indention = c.ind + step
    BY <1>9, <1>12 DEF Gains
  <2>5. out.known => ((Outputs'[on].err # "nil") <=> e)
    BY <1>4, <1>5, <1>9, <1>12 DEF Gains, e
  <2>6. Outputs'[on].known <=> out.known
    BY <1>12 DEF Gains, out
  <2> HIDE DEF out
  <2> QED BY <2>3, <2>4, <2>5, <2>6, <2>7 DEF Before
<1>14. Push(g, u, ChildVal(u), ChildOn(u)) /\ Before(Child(step, u, w[1]), Outputs'[ChildOn(u)])
  <2>1. Push(g, u, v.parts[i], on)
    BY <1>1 DEF u
  <2> QED BY <1>8, <1>13, <2>1
<1>15. u.val = Top(g).val /\ u.on = on /\ u.sub = f.sub /\ u.val.kind # "map"
  BY <1>1, <1>4, <1>7
<1> HIDE DEF i, s
<1> QED BY <1>1, <1>2, <1>8, <1>12, <1>14, <1>15, TextPush

\* Stream on becomes s and stream sub, which may be new, becomes t.
Becomes(on, s, sub, t) ==
  streams' = [id \in Made \cup {sub} |-> IF id = on THEN s ELSE IF id = sub THEN t ELSE streams[id]]
\* The step is one of goroutine g, in a call and without its writer; a stream it
\* gives back is as new.
Works(g, sub, t) ==
  /\ UNCHANGED <<step, call, result, sent, written>>
  /\ \A h \in Goroutines \ {g} : stack'[h] = stack[h]
  /\ pool' \subseteq pool \cup {sub}
  /\ sub \in pool' => t.indention = 0 /\ t.err = "nil"

LEMMA BecomesTouches ==
  ASSUME TextInv, NEW g \in Goroutines, stack[g] # <<>>, NEW on, on = Top(g).on,
         NEW sub, sub = Top(g).sub \/ (Top(g).sub = None /\ sub \in CanBorrow), sub # None,
         NEW s, s.buf \in Texts, step = 0 => s.indention = 0,
         NEW t, t.buf \in Texts, step = 0 => t.indention = 0,
         Becomes(on, s, sub, t), Works(g, sub, t)
  PROVE  /\ Touches(g, on, sub) /\ HasBeginning(g)'
         /\ on \in Made /\ on \in Made' /\ streams'[on] = s /\ written' = written
         /\ sub \in Made' /\ ~HasWriter(sub) /\ (sub # on => streams'[sub] = t)
<1>1. /\ on \in Made /\ on \in Held(g) /\ Inv /\ DOMAIN written = Goroutines /\ written[g] \in Texts
      /\ Top(g).sub # None => ~HasWriter(Top(g).sub) /\ Top(g).sub # on
  BY CallFacts DEF TextInv
<1>2. ~HasWriter(sub) /\ sub # on
  <2>1. CASE sub = Top(g).sub
    BY <1>1, <2>1
  <2>2. CASE sub \in CanBorrow
    <3>1. sub \in StreamIds
      BY <2>2 DEF CanBorrow
    <3>2. InUse(g) \cap pool = {} /\ InUse(g) \subseteq Made /\ Held(g) \subseteq InUse(g) \cup {g}
      BY <1>1, InUseFacts
    <3> QED BY <1>1, <2>2, <3>1, <3>2, ValuesAssumption DEF CanBorrow, HasWriter
  <2> QED BY <2>1, <2>2
<1>3. /\ Made' = Made \cup {sub} /\ streams'[on] = s /\ streams'[sub] = t
      /\ \A id \in Made \ {on, sub} : streams'[id] = streams[id]
  BY <1>1, <1>2 DEF Becomes, Made
<1>4. HasBeginning(g)' /\ written'[g] \in Texts /\ written' = written
  <2>1. UNCHANGED <<step, sent>> /\ written'[g] = written[g] /\ written' = written
    BY DEF Works
  <2> QED BY <2>1, BeginningKept
<1>5. /\ UNCHANGED <<step, call, result, sent>>
      /\ \A h \in Goroutines \ {g} : stack'[h] = stack[h]
      /\ \A h \in Goroutines \ {on} : written'[h] = written[h]
      /\ pool' \subseteq pool \cup {sub}
      /\ sub \in pool' => t.indention = 0 /\ t.err = "nil"
  BY DEF Works
<1>6. Touches(g, on, sub)
  BY <1>1, <1>3, <1>4, <1>5 DEF Touches
<1> QED BY <1>1, <1>2, <1>3, <1>4, <1>6

\* What is on a stream that has no writer.
LEMMA SubOutput ==
  ASSUME NEW id \in Made', ~HasWriter(id), NEW t, streams'[id] = t, t.buf \in Texts
  PROVE  /\ Outputs'[id].text = t.buf /\ Outputs'[id].err = t.err
         /\ Outputs'[id].indention = t.indention /\ Outputs'[id].known
<1>1. /\ Outputs'[id].text = (IF HasWriter(id) THEN written'[id] ELSE <<>>) \o streams'[id].buf
      /\ Outputs'[id].err = streams'[id].err /\ Outputs'[id].indention = streams'[id].indention
      /\ Outputs'[id].known <=> (HasWriter(id) => Clean(sent'[id]))
  BY DEF Outputs, HasWriter
<1>2. <<>> \o t.buf = t.buf
  BY ConcatTexts
<1> QED BY <1>1, <1>2
LEMMA SubOutputNow ==
  ASSUME NEW id \in Made, ~HasWriter(id), streams[id].buf \in Texts
  PROVE  /\ Outputs[id].text = streams[id].buf /\ Outputs[id].err = streams[id].err
         /\ Outputs[id].indention = streams[id].indention /\ Outputs[id].known
<1>1. <<>> \o streams[id].buf = streams[id].buf
  BY ConcatTexts
<1> QED BY <1>1, OutputIs

\* A call of a map.
IsMap(n, f, c, out) ==
  /\ f.val \in Nodes /\ f.val.kind = "map" /\ f.at \in 0..Len(f.val.parts) /\ Len(f.val.parts) \in Nat
  /\ c.ind \in Nat /\ (n = 0 => c.ind = 0) /\ c.pre \in Texts /\ c.ind + n \in Nat
  /\ n # 0 => Indents(f.val)
  /\ out.indention = c.ind + (IF f.sub = None THEN 0 ELSE n)
  /\ out.known => out.text = c.pre \o Done(n, f, c.ind)
  /\ out.known => (out.err # "nil" => c.bad \/ Bad(f.val)) /\ (c.bad => out.err # "nil")
  /\ Done(n, f, c.ind) \in Texts
  /\ f.sub = None => f.at = 0
  /\ f.sub # None => HasMembers(n, f) /\ f.order \in Orders(f.val)

LEMMA MapIs ==
  ASSUME NEW n \in Nat, NEW f, GoodFrame(n, f), f.val.kind = "map",
         NEW c \in Contexts(n), NEW out, Describes(n, f, c, out)
  PROVE  IsMap(n, f, c, out)
<1>1. /\ f.val \in Nodes /\ f.at \in 0..Len(f.val.parts) /\ c.pre \in Texts /\ c.ind \in Nat /\ c.ind + n \in Nat
      /\ (n = 0 => c.ind = 0) /\ (n # 0 => Indents(f.val))
      /\ f.sub = None => f.at = 0
      /\ f.sub # None => HasMembers(n, f) /\ f.order \in Orders(f.val)
  BY ContextFacts DEF GoodFrame, HasMembers
<1>2. Len(f.val.parts) \in Nat
  BY <1>1, NodeFacts
<1>3. Done(n, f, c.ind) \in Texts
  <2> DEFINE k == c.ind + n
             q == Upto(n, f.val, k)
  <2>1. k \in Nat /\ f.val \in Nodes
    BY <1>1
  <2>2. Done(n, f, c.ind) \in {q[f.at], <<>>, Opening(n, f.val, k)}
    BY DEF Done
  <2> HIDE DEF k
  <2>3. q \in [0..Len(f.val.parts) -> Texts]
    BY <2>1, UptoIs
  <2> HIDE DEF q
  <2>4. q[f.at] \in Texts
    BY <1>1, <2>3
  <2>5. Opening(n, f.val, k) \in Texts
    BY <2>1, OpeningText
  <2>6. <<>> \in Texts
    BY ConcatTexts
  <2> QED BY <2>2, <2>4, <2>5, <2>6
<1>4. out.indention = c.ind + (IF f.sub = None THEN 0 ELSE n)
  BY DEF Describes, Opened
<1>5. out.known => out.text = c.pre \o Done(n, f, c.ind)
  BY DEF Describes
<1>6. out.known => (out.err # "nil" => c.bad \/ Bad(f.val)) /\ (c.bad => out.err # "nil")
  BY DEF Describes, ErrorIs
<1> QED BY <1>1, <1>2, <1>3, <1>4, <1>5, <1>6 DEF IsMap

\* How a map's stream is described: by what is written on it and its error.
LEMMA MapDescribes ==
  ASSUME NEW n, NEW f, f.val.kind = "map", NEW c, NEW out,
         out.indention = c.ind + (IF f.sub = None THEN 0 ELSE n),
         out.known => out.text = c.pre \o Done(n, f, c.ind),
         out.known => (out.err # "nil" => c.bad \/ Bad(f.val)) /\ (c.bad => out.err # "nil")
  PROVE  Describes(n, f, c, out)
BY DEF Describes, Opened, ErrorIs

\* The fields of a call.
LEMMA FrameFields ==
  ASSUME TextInv, NEW g \in Goroutines, stack[g] # <<>>
  PROVE  LET f == Top(g) IN
         /\ f = [val |-> f.val, on |-> f.on, at |-> f.at, order |-> f.order, sub |-> f.sub,
                 subAt |-> f.subAt, members |-> f.members, sorted |-> f.sorted]
         /\ f.sub = None => ~f.sorted
<1>1. \E c0, subs : IsFrame(Top(g), c0, subs)
  BY TopFacts DEF TextInv
<1> QED BY <1>1 DEF IsFrame

\* A stream from the pool is as new.
LEMMA BorrowedIs ==
  ASSUME TextInv, NEW id \in CanBorrow
  PROVE  LET t == Borrowed(id) IN t.buf = <<>> /\ t.err = "nil" /\ t.indention = 0
<1>1. id \in Made => IsStream(streams[id]) /\ id \in pool /\ streams[id].indention = 0 /\ streams[id].err = "nil"
  BY DEF TextInv, Inv, CanBorrow
<1> QED BY <1>1 DEF Borrowed, NewStream, IsStream

LEMMA MapStartText == ASSUME TextInv, NEW g \in Goroutines, MapStart(g) PROVE TextInv'
<1> DEFINE f == Top(g)
           on == f.on
           v == f.val
           s == WriteStart(On(g), "{")
<1>1. /\ stack[g] # <<>> /\ v.kind = "map" /\ f.sub = None /\ Inv'
      /\ UNCHANGED <<step, call, result, sent, written>>
  BY MapStartInv DEF MapStart, Encoding, TextInv
<1>2. PICK id \in CanBorrow, o \in Orders(v) :
        /\ streams' = [Borrow(id) EXCEPT ![on] = WriteStart(@, "{")]
        /\ pool' = pool \ {id}
        /\ Replace(g, [f EXCEPT !.sub = id, !.order = o])
  BY DEF MapStart
<1> DEFINE t == Borrowed(id)
           u == [f EXCEPT !.sub = id, !.order = o]
<1>3. PICK w : Context(g, w)
  BY <1>1, CallFacts
<1> DEFINE c == w[1]
           out == Outputs[on]
<1>4. /\ GoodFrame(step, f) /\ c \in Contexts(step) /\ Describes(step, f, c, out) /\ step \in Nat
      /\ on \in Made /\ on \in Held(g) /\ streams[on].buf \in Texts /\ IsStream(On(g)) /\ Inv
  BY <1>1, <1>3, CallFacts DEF On
<1>5. IsMap(step, f, c, out)
  <2> HIDE DEF f, c, out
  <2> QED BY <1>1, <1>4, MapIs DEF v
<1>6. out.err = streams[on].err /\ out.indention = streams[on].indention
  BY <1>4, OutputIs
<1>7. id \in StreamIds /\ id # None /\ id # on /\ id \notin pool'
  <2>1. InUse(g) \cap pool = {} /\ InUse(g) \subseteq Made /\ Held(g) \subseteq InUse(g) \cup {g}
    BY <1>4, InUseFacts
  <2> QED BY <1>2, <1>4, <2>1, ValuesAssumption DEF CanBorrow
<1>8. t.buf = <<>> /\ t.err = "nil" /\ t.indention = 0
  BY BorrowedIs
<1> DEFINE x == Opening(step, v, c.ind + step)
<1>9. Adds(s, On(g), x, c.ind + step)
  <2>1. <<"{">> \in Texts
    BY MarksAreLetters DEF Marks
  <2>2. Bracket(v)[1] = "{"
    BY <1>1 DEF Bracket
  <2>3. x = <<"{">> \o NewLine(step, c.ind + step)
    BY <2>2 DEF Opening
  <2>4. On(g).indention = c.ind /\ c.ind \in Nat /\ (step = 0 => c.ind = 0)
    BY <1>1, <1>5, <1>6 DEF IsMap, On
  <2>5. On(g).buf \in Texts
    BY <1>4 DEF On
  <2> HIDE DEF x, s, c
  <2> QED BY <1>4, <2>1, <2>3, <2>4, <2>5, StartAdds DEF s
<1>10. Becomes(on, s, id, t) /\ Works(g, id, t)
  <2>1. Becomes(on, s, id, t)
    BY <1>2, <1>4, <1>7 DEF Becomes, Borrow, On
  <2>2. \A h \in Goroutines \ {g} : stack'[h] = stack[h]
    BY <1>2, <1>4 DEF Replace, Inv
  <2> QED BY <1>1, <1>2, <1>7, <2>1, <2>2 DEF Works
<1>11. /\ Touches(g, on, id) /\ HasBeginning(g)'
       /\ on \in Made' /\ streams'[on] = s /\ written' = written
       /\ id \in Made' /\ ~HasWriter(id) /\ streams'[id] = t
  <2>1. s.buf \in Texts /\ (step = 0 => s.indention = 0)
    <3> HIDE DEF s, c, x
    <3>1. s.buf \in Texts
      BY <1>4, <1>9, ConcatTexts DEF Adds, On
    <3>2. step = 0 => c.ind = 0
      BY <1>5 DEF IsMap
    <3> QED BY <1>9, <3>1, <3>2 DEF Adds
  <2>2. t.buf \in Texts
    BY <1>8, ConcatTexts
  <2> HIDE DEF s, t
  <2> QED BY <1>1, <1>7, <1>8, <1>10, <2>1, <2>2, BecomesTouches
<1>12. Gains(on, x, s.err, s.indention)
  <2>1. x \in Texts /\ streams'[on].buf = streams[on].buf \o x
    <3> HIDE DEF s, x
    <3> QED BY <1>9, <1>11 DEF Adds, On
  <2>2. UNCHANGED sent /\ (HasWriter(on) => written'[on] = written[on])
    BY <1>1
  <2> HIDE DEF s, x
  <2> QED BY <1>4, <1>11, <2>1, <2>2, AddedText
<1>13. u.val = v /\ u.on = on /\ u.sub = id /\ u.order = o /\ u.at = 0 /\ ~u.sorted
  <2>1. f = [val |-> f.val, on |-> f.on, at |-> f.at, order |-> f.order, sub |-> f.sub,
             subAt |-> f.subAt, members |-> f.members, sorted |-> f.sorted] /\ ~f.sorted
    BY <1>1, FrameFields
  <2>2. f.at = 0
    BY <1>1, <1>5 DEF IsMap
  <2> QED BY <2>1, <2>2
<1>14. Replace(g, u)
  BY <1>2
<1> HIDE DEF u, s, t
<1>15. GoodFrame(step, u)
  BY <1>1, <1>5, <1>7, <1>13 DEF GoodFrame, HasMembers, IsMap
<1>16. Describes(step, u, c, Outputs'[on])
  <2>1. Done(step, u, c.ind) = x
    BY <1>1, <1>7, <1>13 DEF Done
  <2>2. Done(step, f, c.ind) = <<>>
    BY <1>1 DEF Done
  <2> HIDE DEF x, f, on, c, out
  <2>3. out.known => out.text = c.pre
    <3>1. c.pre \o <<>> = c.pre
      BY <1>5, ConcatTexts DEF IsMap
    <3> QED BY <1>5, <2>2, <3>1 DEF IsMap
  <2>4. Outputs'[on].known => Outputs'[on].text = c.pre \o Done(step, u, c.ind)
    BY <1>12, <2>1, <2>3 DEF Gains, out
  <2>5. Outputs'[on].indention = c.ind + step
    BY <1>9, <1>12 DEF Adds, Gains
  <2>6. Outputs'[on].known => (Outputs'[on].err # "nil" => c.bad \/ Bad(u.val)) /\ (c.bad => Outputs'[on].err # "nil")
    <3>1. Outputs'[on].err = out.err /\ (Outputs'[on].known <=> out.known)
      BY <1>6, <1>9, <1>12 DEF Adds, Gains, out, On, on, f
    <3> QED BY <1>5, <1>13, <3>1 DEF IsMap, v
  <2> QED BY <1>1, <1>7, <1>13, <2>4, <2>5, <2>6, MapDescribes
<1>17. DescribesSub(step, u, Outputs'[u.sub])
  <2>1. t.buf \in Texts
    BY <1>8, ConcatTexts
  <2>2. Outputs'[id].text = <<>> /\ Outputs'[id].err = "nil" /\ Outputs'[id].indention = 0 /\ Outputs'[id].known
    BY <1>8, <1>11, <2>1, SubOutput
  <2>3. SubUpto(step, v, o)[0] = <<>> /\ ~BadTo(v, o, 0)
    BY <1>4, <1>5, SubUptoIs, BadToIs DEF IsMap
  <2> HIDE DEF v, on, f
  <2> QED BY <1>13, <2>2, <2>3 DEF DescribesSub
<1> QED BY <1>1, <1>3, <1>11, <1>13, <1>14, <1>15, <1>16, <1>17, TextReplace

\* One more element of a sequence.
LEMMA AppendIs ==
  ASSUME NEW m \in Nat, NEW e, NEW a, a = [k \in 1..m |-> e[k]], NEW x, NEW b, b = Append(a, x)
  PROVE  b = [k \in 1..(m + 1) |-> IF k = m + 1 THEN x ELSE e[k]]
<1> DEFINE S == {e[k] : k \in 1..m} \cup {x}
<1>1. a \in Seq(S) /\ Len(a) = m
  <2>1. a \in [1..m -> S]
    OBVIOUS
  <2> HIDE DEF S
  <2> QED BY <2>1
<1>2. x \in S
  OBVIOUS
<1> HIDE DEF S
<1>3. /\ b \in Seq(S) /\ Len(b) = m + 1
      /\ \A i \in 1..m : b[i] = a[i]
      /\ b[m + 1] = x
  BY <1>1, <1>2, AppendProperties
<1>4. DOMAIN b = 1..(m + 1) /\ b = [k \in DOMAIN b |-> b[k]]
  BY <1>3
<1>5. \A k \in 1..(m + 1) : b[k] = IF k = m + 1 THEN x ELSE e[k]
  <2>1. \A k \in 1..(m + 1) : k = m + 1 \/ k \in 1..m
    OBVIOUS
  <2> QED BY <1>3, <2>1
<1> QED BY <1>4, <1>5

\* The members that are complete are the first ones in the order of the call.
LEMMA MembersAre ==
  ASSUME NEW n \in Nat, NEW f, f.val \in Nodes, HasMembers(n, f), ~f.sorted, f.at \in 0..Len(f.val.parts),
         streams[f.sub].buf = SubUpto(n, f.val, f.order)[f.at]
  PROVE  Members(f) = [k \in 1..f.at |-> Entry(n, f.val, f.order[k])]
<1> DEFINE v == f.val
           o == f.order
           b == SubUpto(n, v, o)
           e == [k \in 1..f.at |-> Entry(n, v, o[k])]
<1>1. o \in Orders(v) /\ v.kind = "map" /\ f.at \in Nat
  BY NodeFacts DEF HasMembers
<1>2. CASE f.at = 0
  <2>1. Members(f) = <<>>
    BY <1>2 DEF Members
  <2>2. \A h : [k \in 1..0 |-> h[k]] = <<>>
    OBVIOUS
  <2>3. e = [k \in 1..0 |-> e[k]]
    BY <1>2
  <2> QED BY <2>1, <2>2, <2>3
<1>3. CASE f.at # 0
  <2> DEFINE m == f.at - 1
             i == o[f.at]
             mb == Member(n, v, i)
  <2>1. m \in Nat /\ m + 1 = f.at /\ f.at \in 1..Len(v.parts) /\ m \in 0..Len(v.parts)
    BY <1>1, <1>3
  <2>2. /\ f.members = [k \in 1..m |-> Entry(n, v, o[k])] /\ f.subAt = Len(b[m])
    BY <1>3 DEF HasMembers
  <2>3. b[m] \in Texts /\ b[f.at] = b[m] \o mb
    <3>1. /\ b \in [0..Len(v.parts) -> Texts]
          /\ \A k \in 1..Len(v.parts) : b[k] = b[k - 1] \o Member(n, v, o[k])
      BY <1>1, SubUptoIs
    <3> HIDE DEF b
    <3>2. b[m] \in Texts
      BY <2>1, <3>1
    <3> QED BY <2>1, <3>1, <3>2
  <2>4. i \in DOMAIN v.parts
    BY <1>1, <2>1, OrdersFacts
  <2>5. mb \in Texts
    BY <2>4, MemberText
  <2> DEFINE a == b[m]
             buf == streams[f.sub].buf
  <2>6. buf = a \o mb /\ f.subAt = Len(a) /\ a \in Texts
    BY <2>2, <2>3
  <2> DEFINE y == SubSeq(buf, f.subAt + 1, Len(buf))
  <2>7. y = mb
    <3> HIDE DEF a, mb, buf
    <3> QED BY <2>5, <2>6, PartsOfConcat
  <2> DEFINE r == [name |-> v.names[i], bytes |-> y]
  <2>8. Members(f) = Append(f.members, r)
    BY <1>3 DEF Members
  <2>9. r = Entry(n, v, i)
    BY <2>7 DEF Entry
  <2>10. f.members = [k \in 1..m |-> e[k]]
    BY <2>1, <2>2
  <2>11. e[f.at] = Entry(n, v, i)
    BY <2>1
  <2> HIDE DEF r, m, i
  <2>12. Members(f) = [k \in 1..(m + 1) |-> IF k = m + 1 THEN r ELSE e[k]]
    <3> DEFINE d == Members(f)
               q == f.members
    <3>1. d = Append(q, r) /\ q = [k \in 1..m |-> e[k]]
      BY <2>8, <2>10
    <3> HIDE DEF d, q, e
    <3>2. d = [k \in 1..(m + 1) |-> IF k = m + 1 THEN r ELSE e[k]]
      BY <2>1, <3>1, AppendIs
    <3> QED BY <3>2 DEF d
  <2>13. \A k \in 1..f.at : (IF k = m + 1 THEN r ELSE e[k]) = e[k]
    <3> HIDE DEF e
    <3> QED BY <2>1, <2>9, <2>11
  <2>14. Members(f) = [k \in 1..f.at |-> e[k]]
    <3> HIDE DEF e
    <3> QED BY <2>1, <2>12, <2>13
  <2> QED BY <2>14
<1> QED BY <1>2, <1>3

\* The error of the subStream is that of the members encoded.
LEMMA InheritText ==
  ASSUME NEW s, IsStream(s), NEW sub, NEW t, t = Inherit(s, sub)
  PROVE  /\ t.buf = s.buf /\ t.indention = s.indention
         /\ t.err # "nil" <=> s.err # "nil" \/ sub.err # "nil"
BY DEF Inherit, IsStream

LEMMA MapMemberText == ASSUME TextInv, NEW g \in Goroutines, MapMember(g) PROVE TextInv'
<1> DEFINE f == Top(g)
           on == f.on
           sub == f.sub
           v == f.val
           o == f.order
           i == o[f.at + 1]
           s == Inherit(streams[on], streams[sub])
           y == <<Names[v.names[i]]>> \o Colon(On(g))
           t == Put(streams[sub], y)
           u == [f EXCEPT !.at = @ + 1, !.members = Members(f), !.subAt = Len(streams[sub].buf)]
<1>1. /\ stack[g] # <<>> /\ v.kind = "map" /\ sub # None /\ ~f.sorted /\ f.at < Len(v.parts) /\ Inv'
      /\ UNCHANGED <<step, pool, call, result, sent, written>>
      /\ streams' = [streams EXCEPT ![on] = Inherit(@, streams[sub]), ![sub] = Put(@, y)]
      /\ Push(g, u, v.parts[i], sub)
  BY MapMemberInv DEF MapMember, Encoding, TextInv
<1>2. PICK w : Context(g, w)
  BY <1>1, CallFacts
<1> DEFINE c == w[1]
           out == Outputs[on]
           b == SubUpto(step, v, o)
<1>3. /\ GoodFrame(step, f) /\ c \in Contexts(step) /\ Describes(step, f, c, out) /\ step \in Nat
      /\ DescribesSub(step, f, Outputs[sub]) /\ Inv
      /\ on \in Made /\ streams[on].buf \in Texts /\ IsStream(streams[on])
      /\ sub \in Made /\ sub # on /\ ~HasWriter(sub) /\ streams[sub].buf \in Texts /\ IsStream(streams[sub])
  BY <1>1, <1>2, CallFacts
<1>4. IsMap(step, f, c, out)
  <2> HIDE DEF f, c, out
  <2> QED BY <1>1, <1>3, MapIs DEF v
<1>5. out.err = streams[on].err /\ out.indention = streams[on].indention
  BY <1>3, OutputIs
<1>6. /\ streams[sub].buf = b[f.at] /\ streams[sub].indention = 0
      /\ (streams[sub].err # "nil") <=> BadTo(v, o, f.at)
  <2> HIDE DEF b, on
  <2> QED BY <1>1, <1>3, SubOutputNow DEF DescribesSub, b
<1>7. /\ f.at \in Nat /\ f.at + 1 \in 1..Len(v.parts) /\ f.at + 1 \in 0..Len(v.parts) /\ (f.at + 1) - 1 = f.at
      /\ i \in DOMAIN v.parts /\ f.at \in 0..Len(v.parts) /\ v \in Nodes /\ o \in Orders(v)
  <2>1. /\ f.at \in Nat /\ f.at + 1 \in 1..Len(v.parts) /\ f.at + 1 \in 0..Len(v.parts) /\ (f.at + 1) - 1 = f.at
        /\ f.at \in 0..Len(v.parts) /\ v \in Nodes /\ o \in Orders(v)
    <3> DEFINE m == Len(v.parts)
               a == f.at
    <3>1. m \in Nat /\ a \in 0..m /\ a < m /\ v \in Nodes /\ o \in Orders(v)
      BY <1>1, <1>4 DEF IsMap
    <3> HIDE DEF m, a
    <3>2. a \in Nat /\ a + 1 \in 1..m /\ a + 1 \in 0..m /\ (a + 1) - 1 = a
      BY <3>1
    <3> QED BY <3>1, <3>2 DEF m, a
  <2> HIDE DEF f
  <2> QED BY <2>1, OrdersFacts
<1>8. y = Label(step, v, i) /\ y \in Texts
  <2>1. On(g).indention = c.ind + step /\ c.ind \in Nat /\ (step = 0 => c.ind = 0)
    BY <1>1, <1>4, <1>5 DEF IsMap, On
  <2> DEFINE q == On(g)
             k == c.ind
  <2>2. q.indention = k + step /\ k \in Nat /\ (step = 0 => k = 0) /\ y = <<Names[v.names[i]]>> \o Colon(q)
        /\ v.kind # "array"
    BY <1>1, <2>1
  <2> HIDE DEF q, k, v, i, y
  <2>3. y = Label(step, v, i)
    BY <1>3, <2>2, ColonText
  <2> QED BY <1>3, <1>7, <2>3, LabelText
<1>9. Becomes(on, s, sub, t) /\ Works(g, sub, t)
  <2>1. Becomes(on, s, sub, t)
    <3> DEFINE p == Inherit(streams[on], streams[sub])
    <3>1. streams' = [streams EXCEPT ![on] = p, ![sub] = Put(@, y)]
      BY <1>1
    <3>2. s = p /\ t = Put(streams[sub], y) /\ on # sub /\ DOMAIN streams = Made /\ on \in Made /\ sub \in Made
      BY <1>3 DEF Made
    <3> HIDE DEF p, s, t, y, on, sub
    <3>3. streams' = [id \in Made |-> IF id = on THEN p ELSE IF id = sub THEN Put(streams[sub], y) ELSE streams[id]]
      BY <3>1, <3>2
    <3>4. Made \cup {sub} = Made
      BY <3>2
    <3> QED BY <3>2, <3>3, <3>4 DEF Becomes
  <2>2. \A h \in Goroutines \ {g} : stack'[h] = stack[h]
    BY <1>1, <1>3 DEF Push, Inv
  <2>3. sub \notin pool
    <3>1. sub \in InUse(g)
      BY <1>1, <1>3, TopFacts, ValuesAssumption DEF InUse, Held, HasWriter
    <3> QED BY <1>3, <3>1, InUseFacts
  <2> QED BY <1>1, <2>1, <2>2, <2>3 DEF Works
<1>10. /\ s.buf = streams[on].buf /\ s.indention = streams[on].indention
       /\ s.err # "nil" <=> streams[on].err # "nil" \/ streams[sub].err # "nil"
  <2> HIDE DEF s
  <2> QED BY <1>3, InheritText DEF s
<1>11. t.buf = b[f.at] \o y /\ t.err = streams[sub].err /\ t.indention = 0 /\ b[f.at] \in Texts /\ t.buf \in Texts
  <2>1. t.buf = streams[sub].buf \o y /\ t.err = streams[sub].err /\ t.indention = streams[sub].indention
    <3> HIDE DEF t, y
    <3> QED BY <1>3, PutText DEF t
  <2> HIDE DEF t, y, b
  <2>2. streams[sub].buf \o y \in Texts
    BY <1>3, <1>8, ConcatTexts
  <2> QED BY <1>3, <1>6, <2>1, <2>2
<1>12. /\ Touches(g, on, sub) /\ HasBeginning(g)'
       /\ on \in Made' /\ streams'[on] = s /\ written' = written
       /\ sub \in Made' /\ ~HasWriter(sub) /\ streams'[sub] = t
  <2>1. step = 0 => s.indention = 0
    <3>1. out.indention = c.ind + step /\ (step = 0 => c.ind = 0)
      BY <1>1, <1>4 DEF IsMap
    <3> HIDE DEF s, c, out
    <3> QED BY <1>5, <1>10, <3>1
  <2>2. sub = Top(g).sub /\ on = Top(g).on /\ s.buf \in Texts
    BY <1>3, <1>10
  <2>3. t.buf \in Texts /\ (step = 0 => t.indention = 0) /\ sub # None /\ sub # on
    BY <1>1, <1>3, <1>11
  <2> HIDE DEF s, t, on, sub
  <2>4. /\ Touches(g, on, sub) /\ HasBeginning(g)'
        /\ on \in Made /\ on \in Made' /\ streams'[on] = s /\ written' = written
        /\ sub \in Made' /\ ~HasWriter(sub) /\ (sub # on => streams'[sub] = t)
    <3>1. stack[g] # <<>> /\ on = Top(g).on /\ (sub = Top(g).sub \/ (Top(g).sub = None /\ sub \in CanBorrow))
      BY <1>1, <2>2
    <3> HIDE DEF f
    <3>2. Becomes(on, s, sub, t) /\ Works(g, sub, t)
      BY <1>9
    <3> QED BY <2>1, <2>2, <2>3, <3>1, <3>2, BecomesTouches
  <2> QED BY <2>3, <2>4
<1>13. /\ Outputs'[on].text = out.text /\ Outputs'[on].err = s.err /\ Outputs'[on].indention = out.indention
       /\ Outputs'[on].known <=> out.known
  <2> DEFINE e == <<>>
  <2>1. e \in Texts /\ streams'[on].buf = streams[on].buf \o e
    <3> HIDE DEF s
    <3> QED BY <1>3, <1>10, <1>12, ConcatTexts
  <2>2. UNCHANGED sent /\ (HasWriter(on) => written'[on] = written[on])
    BY <1>1
  <2>3. out.text \in Texts
    BY <1>3, HadText
  <2> HIDE DEF s, e, out
  <2>4. Gains(on, e, s.err, s.indention)
    BY <1>3, <1>12, <2>1, <2>2, AddedText
  <2>5. out.text \o e = out.text
    BY <2>3, ConcatTexts DEF e
  <2> QED BY <1>5, <1>10, <2>4, <2>5 DEF Gains, out
<1>14. /\ Outputs'[sub].text = t.buf /\ Outputs'[sub].err = t.err
       /\ Outputs'[sub].indention = t.indention /\ Outputs'[sub].known
  <2> HIDE DEF t, sub
  <2> QED BY <1>11, <1>12, SubOutput
<1>15. /\ u.val = v /\ u.on = on /\ u.sub = sub /\ u.order = o /\ u.at = f.at + 1 /\ ~u.sorted
       /\ u.members = Members(f) /\ u.subAt = Len(streams[sub].buf)
  <2>1. f = [val |-> f.val, on |-> f.on, at |-> f.at, order |-> f.order, sub |-> f.sub,
             subAt |-> f.subAt, members |-> f.members, sorted |-> f.sorted] /\ ~f.sorted
    BY <1>1, FrameFields
  <2> QED BY <2>1
<1> HIDE DEF u, s, t
<1>16. Members(f) = [k \in 1..f.at |-> Entry(step, v, o[k])]
  <2>1. f.val \in Nodes /\ HasMembers(step, f) /\ ~f.sorted /\ f.at \in 0..Len(f.val.parts)
        /\ streams[f.sub].buf = SubUpto(step, f.val, f.order)[f.at]
    BY <1>1, <1>4, <1>6 DEF IsMap
  <2> HIDE DEF f
  <2> QED BY <1>3, <2>1, MembersAre
<1>17. GoodFrame(step, u) /\ Inside(u)
  <2>1. HasMembers(step, u)
    BY <1>1, <1>6, <1>7, <1>15, <1>16, SMTT(30) DEF HasMembers
  <2>2. u.val \in Nodes /\ (step # 0 => Indents(u.val)) /\ u.at \in 0..Len(u.val.parts) /\ u.sub # None /\ u.at # 0
    <3>1. f.val \in Nodes /\ (step # 0 => Indents(f.val)) /\ f.val = v
      BY <1>4 DEF IsMap
    <3>2. u.at = f.at + 1 /\ u.at \in 0..Len(v.parts)
      BY <1>7, <1>15
    <3>3. u.at # 0
      BY <1>7, <3>2
    <3> QED BY <1>1, <1>15, <3>1, <3>2, <3>3
  <2> QED BY <1>15, <2>1, <2>2 DEF GoodFrame, Inside
<1>18. Describes(step, u, c, Outputs'[on])
  <2>1. Done(step, u, c.ind) = Done(step, f, c.ind)
    BY <1>1, <1>15 DEF Done
  <2>2. streams[sub].err # "nil" => Bad(v)
    <3>1. v.kind # "bad"
      BY <1>1
    <3> HIDE DEF v, o, sub, f
    <3> QED BY <1>6, <1>7, <3>1, BadToIs
  <2> HIDE DEF f, on, c, out
  <2>3. Outputs'[on].known => (Outputs'[on].err # "nil" => c.bad \/ Bad(u.val)) /\ (c.bad => Outputs'[on].err # "nil")
    BY <1>4, <1>5, <1>10, <1>13, <1>15, <2>2 DEF IsMap, v
  <2>4. Outputs'[on].indention = c.ind + (IF u.sub = None THEN 0 ELSE step)
    BY <1>4, <1>13, <1>15 DEF IsMap, sub
  <2>5. Outputs'[on].known => Outputs'[on].text = c.pre \o Done(step, u, c.ind)
    BY <1>4, <1>13, <2>1 DEF IsMap
  <2> QED BY <1>1, <1>15, <2>3, <2>4, <2>5, MapDescribes
<1>19. ChildVal(u) = v.parts[i] /\ ChildOn(u) = sub
  BY <1>1, <1>15 DEF ChildVal, ChildOn, Visits
<1>20. Before(Child(step, u, c), Outputs'[sub])
  <2> DEFINE e == BadTo(v, o, f.at)
             x == b[f.at] \o y
             d == Child(step, u, c)
  <2>1. d = [pre |-> x, ind |-> 0, bad |-> e]
    <3> HIDE DEF y, e
    <3>1. u.at - 1 = f.at /\ u.order[u.at] = i
      BY <1>7, <1>15
    <3> QED BY <1>1, <1>8, <1>15, <3>1 DEF Child, e
  <2>2. Outputs'[sub].text = x /\ Outputs'[sub].indention = 0 /\ ((Outputs'[sub].err # "nil") <=> e)
    BY <1>6, <1>11, <1>14
  <2> HIDE DEF e, x, d, sub
  <2>3. d.pre = x /\ d.ind = 0
    BY <2>1
  <2>4. d.bad = e
    BY <2>1
  <2>5. Before(d, Outputs'[sub])
    BY <2>2, <2>3, <2>4 DEF Before
  <2> QED BY <2>5 DEF d
<1>21. Push(g, u, ChildVal(u), ChildOn(u)) /\ Before(Child(step, u, w[1]), Outputs'[ChildOn(u)])
  BY <1>1, <1>19, <1>20 DEF u
<1>22. u.val = Top(g).val /\ u.on = on /\ u.sub = sub /\ on = Top(g).on /\ sub = Top(g).sub
  BY <1>15
<1> HIDE DEF on, sub, i
<1> QED BY <1>1, <1>2, <1>12, <1>17, <1>18, <1>21, <1>22, TextPush

LEMMA MapSortText == ASSUME TextInv, NEW g \in Goroutines, MapSort(g) PROVE TextInv'
<1> DEFINE f == Top(g)
           on == f.on
           sub == f.sub
           v == f.val
           o == f.order
           s == streams[on]
           t == streams[sub]
           u == [f EXCEPT !.sorted = TRUE, !.at = 0, !.members = Sorted(Members(f))]
<1>1. /\ stack[g] # <<>> /\ v.kind = "map" /\ sub # None /\ ~f.sorted /\ f.at = Len(v.parts) /\ Inv'
      /\ UNCHANGED <<step, streams, pool, call, result, sent, written>>
      /\ Replace(g, u)
  BY MapSortInv DEF MapSort, Encoding, TextInv
<1>2. PICK w : Context(g, w)
  BY <1>1, CallFacts
<1> DEFINE c == w[1]
           out == Outputs[on]
<1>3. /\ GoodFrame(step, f) /\ c \in Contexts(step) /\ Describes(step, f, c, out) /\ step \in Nat
      /\ DescribesSub(step, f, Outputs[sub]) /\ Inv
      /\ on \in Made /\ streams[on].buf \in Texts /\ IsStream(streams[on])
      /\ sub \in Made /\ sub # on /\ ~HasWriter(sub) /\ streams[sub].buf \in Texts /\ IsStream(streams[sub])
  BY <1>1, <1>2, CallFacts
<1>4. IsMap(step, f, c, out)
  <2> HIDE DEF f, c, out
  <2> QED BY <1>1, <1>3, MapIs DEF v
<1>5. Outputs' = Outputs
  BY <1>1 DEF Outputs, Made, HasWriter
<1>6. Touches(g, on, sub) /\ HasBeginning(g)'
  <2>1. HasBeginning(g)' /\ written'[g] \in Texts
    <3>1. UNCHANGED <<step, sent>> /\ written'[g] = written[g]
      BY <1>1
    <3> QED BY <3>1, BeginningKept
  <2>2. \A h \in Goroutines \ {g} : stack'[h] = stack[h]
    BY <1>1, <1>3 DEF Replace, Inv
  <2>3. Made' = Made /\ Made = Made \cup ({sub} \ {None}) /\ DOMAIN written' = Goroutines
    BY <1>1, <1>3 DEF Made, TextInv
  <2>4. \A id \in Made : streams'[id].buf \in Texts /\ (step = 0 => streams'[id].indention = 0)
    BY <1>1 DEF TextInv
  <2>5. sub \notin pool'
    <3>1. sub \in InUse(g)
      BY <1>1, <1>3, TopFacts, ValuesAssumption DEF InUse, Held, HasWriter
    <3> QED BY <1>1, <1>3, <3>1, InUseFacts
  <2> QED BY <1>1, <1>3, <2>1, <2>2, <2>3, <2>4, <2>5 DEF Touches
<1>7. /\ u.val = v /\ u.on = on /\ u.sub = sub /\ u.order = o /\ u.at = 0 /\ u.sorted = TRUE
      /\ u.members = Sorted(Members(f))
  <2>1. f = [val |-> f.val, on |-> f.on, at |-> f.at, order |-> f.order, sub |-> f.sub,
             subAt |-> f.subAt, members |-> f.members, sorted |-> f.sorted]
    BY <1>1, FrameFields
  <2> QED BY <2>1
<1> HIDE DEF u
<1>8. u.members = [k \in 1..Len(v.parts) |-> Entry(step, v, Order(v)[k])]
  <2>1. f.val \in Nodes /\ HasMembers(step, f) /\ ~f.sorted /\ f.at \in 0..Len(f.val.parts)
        /\ streams[f.sub].buf = SubUpto(step, f.val, f.order)[f.at] /\ o \in Orders(v)
    <3>1. Outputs[sub].text = streams[sub].buf
      <4> HIDE DEF sub
      <4> QED BY <1>3, SubOutputNow
    <3> QED BY <1>1, <1>3, <1>4, <3>1 DEF IsMap, DescribesSub
  <2>2. Members(f) = [k \in 1..f.at |-> Entry(step, v, o[k])]
    <3> HIDE DEF f
    <3> QED BY <1>3, <2>1, MembersAre DEF v, o
  <2>3. Members(f) = [k \in 1..Len(v.parts) |-> Entry(step, v, o[k])]
    BY <1>1, <2>2
  <2>4. Sorted([k \in 1..Len(v.parts) |-> Entry(step, v, o[k])]) = [k \in 1..Len(v.parts) |-> Entry(step, v, Order(v)[k])]
    <3>1. v \in Nodes /\ v.kind = "map" /\ o \in Orders(v)
      BY <1>1, <2>1
    <3> HIDE DEF v, o
    <3> QED BY <3>1, SortedEntries
  <2> QED BY <1>7, <2>3, <2>4
<1>9. GoodFrame(step, u)
  <2>1. HasMembers(step, u)
    BY <1>1, <1>4, <1>7, <1>8 DEF HasMembers, IsMap
  <2>2. u.val \in Nodes /\ (step # 0 => Indents(u.val)) /\ u.at \in 0..Len(u.val.parts) /\ u.sub # None
    BY <1>1, <1>4, <1>7 DEF IsMap
  <2> QED BY <2>1, <2>2 DEF GoodFrame
<1>10. Describes(step, u, c, Outputs'[on])
  <2>1. Done(step, u, c.ind) = Done(step, f, c.ind)
    BY <1>1, <1>7 DEF Done
  <2>2. Outputs'[on] = out
    BY <1>5
  <2> HIDE DEF f, on, c, out
  <2>3. out.known => (out.err # "nil" => c.bad \/ Bad(u.val)) /\ (c.bad => out.err # "nil")
    BY <1>4, <1>7 DEF IsMap, v
  <2>4. out.indention = c.ind + (IF u.sub = None THEN 0 ELSE step)
    BY <1>4, <1>7 DEF IsMap, sub
  <2>5. out.known => out.text = c.pre \o Done(step, u, c.ind)
    BY <1>4, <2>1 DEF IsMap
  <2> QED BY <1>1, <1>7, <2>2, <2>3, <2>4, <2>5, MapDescribes
<1>11. DescribesSub(step, u, Outputs'[u.sub])
  <2> HIDE DEF on
  <2> QED BY <1>1, <1>3, <1>5, <1>7 DEF DescribesSub
<1> QED BY <1>1, <1>2, <1>6, <1>7, <1>9, <1>10, <1>11, TextReplace

LEMMA OneBefore == ASSUME NEW m \in Nat, NEW k \in 1..m PROVE k - 1 \in 0..m
OBVIOUS

\* A sorted map writes one member more.
Completes(d, x, y, all) == d \o (x \o y) = all /\ d \in Texts /\ x \in Texts /\ y \in Texts
LEMMA MemberWritten ==
  ASSUME NEW n \in Nat, NEW v \in Nodes, v.kind = "map", n # 0 => Indents(v),
         NEW k \in 1..Len(v.parts), NEW ind \in Nat, n = 0 => ind = 0,
         NEW d, d = (IF k = 1 THEN Opening(n, v, ind) ELSE Upto(n, v, ind)[k - 1]),
         NEW x, x = (IF k = 1 THEN <<>> ELSE <<",">> \o NewLine(n, ind)),
         NEW y, y = Member(n, v, Order(v)[k])
  PROVE  Completes(d, x, y, Upto(n, v, ind)[k])
<1> DEFINE q == Upto(n, v, ind)
           i == Order(v)[k]
           l == Label(n, v, i)
           p == Text(n)[v.parts[i]][ind]
           e == Lead(n, v, k, ind)
           a == Opening(n, v, ind)
           b == <<",">> \o NewLine(n, ind)
<1>1. /\ q \in [0..Len(v.parts) -> Texts] /\ q[0] = <<>>
      /\ q[k] = q[k - 1] \o (e \o p) /\ i \in DOMAIN v.parts /\ p \in Texts
  BY UptoIs
<1>2. l \in Texts /\ y \in Texts
  <2> HIDE DEF i
  <2> QED BY <1>1, MemberText DEF i
<1>3. y = l \o p
  <2>1. p = Text(n)[v.parts[i]][0]
    <3> HIDE DEF i
    <3> QED BY <1>1, FlatMember
  <2> QED BY <2>1 DEF Member
<1>4. (k = 1 => e = a \o l) /\ (k # 1 => e = b \o l)
  BY LeadIs
<1>5. a \in Texts /\ b \in Texts
  <2>1. a \in Texts
    BY OpeningText
  <2>2. <<",">> \in Texts /\ NewLine(n, ind) \in Texts
    BY MarksAreLetters, NewLineText DEF Marks
  <2> QED BY <2>1, <2>2, ConcatTexts
<1>6. q[k - 1] \in Texts
  <2>1. k - 1 \in 0..Len(v.parts) /\ q \in [0..Len(v.parts) -> Texts]
    <3> DEFINE m == Len(v.parts)
    <3>1. m \in Nat /\ k \in 1..m
      BY NodeFacts
    <3> HIDE DEF m
    <3>2. k - 1 \in 0..m
      BY <3>1, OneBefore
    <3> QED BY <1>1, <3>2 DEF m
  <2> HIDE DEF q
  <2> QED BY <2>1
<1>7. (k = 1 => d = a /\ x = <<>>) /\ (k # 1 => d = q[k - 1] /\ x = b)
  OBVIOUS
<1> DEFINE r == q[k - 1]
           z == q[k]
<1>8. z = r \o (e \o p) /\ r \in Texts /\ (k # 1 => d = r) /\ (k = 1 => r = <<>>)
  <2>1. k = 1 => r = <<>>
    <3> HIDE DEF q
    <3>1. k = 1 => k - 1 = 0
      OBVIOUS
    <3> QED BY <1>1, <3>1
  <2> HIDE DEF e, p, q
  <2> QED BY <1>1, <1>6, <1>7, <2>1 DEF r, z
<1>9. d \in Texts /\ x \in Texts
  BY <1>5, <1>6, <1>7, ConcatTexts
<1> HIDE DEF r, z, l, p, e, a, b
<1>10. CASE k = 1
  <2>1. e \o p = a \o (l \o p) /\ l \o p \in Texts
    <3>1. e = a \o l /\ a \in Texts /\ l \in Texts /\ p \in Texts
      BY <1>1, <1>2, <1>4, <1>5, <1>10
    <3>2. (a \o l) \o p = a \o (l \o p)
      BY <3>1, ConcatTexts
    <3>3. l \o p \in Texts
      BY <3>1, ConcatTexts
    <3> QED BY <3>1, <3>2, <3>3
  <2>2. z = a \o y
    <3>1. a \o y \in Texts
      BY <1>2, <1>5, ConcatTexts
    <3>2. <<>> \o (a \o y) = a \o y
      BY <3>1, ConcatTexts
    <3> QED BY <1>3, <1>8, <1>10, <2>1, <3>2
  <2>3. x \o y = y
    BY <1>2, <1>7, <1>10, ConcatTexts
  <2> QED BY <1>2, <1>7, <1>9, <1>10, <2>2, <2>3 DEF z, Completes
<1>11. CASE k # 1
  <2>1. e \o p = b \o (l \o p)
    <3>1. e = b \o l /\ b \in Texts /\ l \in Texts /\ p \in Texts
      BY <1>1, <1>2, <1>4, <1>5, <1>11
    <3>2. (b \o l) \o p = b \o (l \o p)
      BY <3>1, ConcatTexts
    <3> QED BY <3>1, <3>2
  <2> QED BY <1>2, <1>3, <1>7, <1>8, <1>9, <1>11, <2>1 DEF z, Completes
<1> QED BY <1>10, <1>11

LEMMA MapWriteText == ASSUME TextInv, NEW g \in Goroutines, MapWrite(g) PROVE TextInv'
<1> DEFINE f == Top(g)
           on == f.on
           sub == f.sub
           v == f.val
           k == f.at + 1
           s == IF f.at = 0 THEN On(g) ELSE WriteMore(On(g))
           y == f.members[k].bytes
           u == [f EXCEPT !.at = k]
<1>1. /\ stack[g] # <<>> /\ v.kind = "map" /\ f.sorted /\ f.at < Len(f.members) /\ Inv'
      /\ UNCHANGED <<step, pool, call, result, sent>>
      /\ Offer(g, s, y) /\ Replace(g, u)
  BY MapWriteInv DEF MapWrite, Encoding, TextInv
<1>2. PICK w : Context(g, w)
  BY <1>1, CallFacts
<1> DEFINE c == w[1]
           out == Outputs[on]
           b == Upto(step, v, c.ind + step)
           d == Done(step, f, c.ind)
           x == IF k = 1 THEN <<>> ELSE <<",">> \o NewLine(step, c.ind + step)
<1>3. sub # None
  BY <1>1, FrameFields
<1>4. /\ GoodFrame(step, f) /\ c \in Contexts(step) /\ Describes(step, f, c, out) /\ step \in Nat
      /\ DescribesSub(step, f, Outputs[sub]) /\ Inv
      /\ on \in Made /\ streams[on].buf \in Texts /\ IsStream(On(g))
      /\ sub \in Made /\ sub # on /\ ~HasWriter(sub)
  BY <1>1, <1>2, <1>3, CallFacts DEF On
<1>5. IsMap(step, f, c, out)
  <2> HIDE DEF f, c, out
  <2> QED BY <1>1, <1>4, MapIs DEF v
<1>6. out.err = streams[on].err /\ out.indention = streams[on].indention
  BY <1>4, OutputIs
<1>7. f.members = [j \in 1..Len(v.parts) |-> Entry(step, v, Order(v)[j])]
  BY <1>1, <1>3, <1>5 DEF IsMap, HasMembers
<1>8. k \in 1..Len(v.parts) /\ k \in 0..Len(v.parts) /\ k # 0 /\ (k = 1 <=> f.at = 0) /\ k - 1 = f.at
  <2> DEFINE m == Len(v.parts)
             a == f.at
             e == [j \in 1..m |-> Entry(step, v, Order(v)[j])]
  <2>1. m \in Nat /\ a \in 0..m /\ a < Len(e)
    BY <1>1, <1>5, <1>7 DEF IsMap
  <2>2. Len(e) = m
    <3> HIDE DEF m
    <3> QED BY <2>1
  <2> HIDE DEF m, a, e
  <2>3. a + 1 \in 1..m /\ a + 1 \in 0..m /\ a + 1 # 0 /\ (a + 1 = 1 <=> a = 0) /\ (a + 1) - 1 = a
    BY <2>1, <2>2
  <2> QED BY <2>3 DEF m, a
<1>9. y = Member(step, v, Order(v)[k])
  <2> HIDE DEF k, v
  <2> QED BY <1>7, <1>8 DEF Entry
<1>10. d \o (x \o y) = b[k] /\ d \in Texts /\ x \in Texts /\ y \in Texts
  <2> DEFINE z == c.ind + step
  <2>1. z \in Nat /\ (step = 0 => z = 0) /\ v \in Nodes /\ v.kind = "map" /\ (step # 0 => Indents(v))
    BY <1>1, <1>4, <1>5 DEF IsMap
  <2>2. d = IF k = 1 THEN Opening(step, v, z) ELSE Upto(step, v, z)[k - 1]
    BY <1>1, <1>3, <1>8 DEF Done
  <2>3. x = IF k = 1 THEN <<>> ELSE <<",">> \o NewLine(step, z)
    OBVIOUS
  <2>4. b = Upto(step, v, z)
    OBVIOUS
  <2> HIDE DEF k, d, x, y, v, z, b
  <2>5. Completes(d, x, y, Upto(step, v, z)[k])
    BY <1>4, <1>8, <1>9, <2>1, <2>2, <2>3, MemberWritten
  <2> QED BY <2>4, <2>5 DEF Completes
<1>11. s.buf = streams[on].buf \o x /\ s.err = streams[on].err /\ s.indention = c.ind + step /\ IsStream(s)
  <2>1. On(g) = streams[on] /\ On(g).indention = c.ind + step /\ c.ind \in Nat /\ (step = 0 => c.ind = 0)
    BY <1>3, <1>5, <1>6 DEF IsMap, On
  <2>2. CASE k = 1
    <3>1. s = On(g) /\ x = <<>>
      BY <1>8, <2>2
    <3> HIDE DEF s, x, c, on, k
    <3> QED BY <1>4, <2>1, <3>1, ConcatTexts
  <2>3. CASE k # 1
    <3>1. s = WriteMore(On(g)) /\ x = <<",">> \o NewLine(step, c.ind + step)
      BY <1>8, <2>3
    <3> HIDE DEF s, x, c, on, k
    <3>2. Adds(s, On(g), x, c.ind + step)
      BY <1>4, <2>1, <3>1, MoreAdds
    <3> QED BY <2>1, <3>2 DEF Adds
  <2> QED BY <2>2, <2>3
<1>12. out.known => IsPrefixOf(out.text \o (x \o y), c.pre \o Text(step)[v][c.ind])
  <2> DEFINE a == c.pre
             t == Text(step)[v][c.ind]
  <2>1. a \in Texts /\ t \in Texts /\ b[k] \in Texts /\ IsPrefixOf(b[k], t)
    <3> DEFINE z == c.ind
    <3>1. z \in Nat /\ v \in Nodes /\ v.kind = "map" /\ a \in Texts
      BY <1>1, <1>5 DEF IsMap
    <3> HIDE DEF z, v, k, a
    <3>2. Text(step)[v][z] \in Texts
      BY <1>4, <3>1, TextOfParts
    <3>3. IsPrefixOf(Upto(step, v, z + step)[k], Text(step)[v][z])
      BY <1>4, <1>8, <3>1, UptoBegins
    <3>4. b[k] \in Texts
      <4> HIDE DEF b, x, y, d
      <4>1. x \o y \in Texts
        BY <1>10, ConcatTexts
      <4>2. d \o (x \o y) \in Texts
        BY <1>10, <4>1, ConcatTexts
      <4> QED BY <1>10, <4>2
    <3> QED BY <3>1, <3>2, <3>3, <3>4 DEF z
  <2>2. out.known => out.text = a \o d
    BY <1>5 DEF IsMap
  <2> HIDE DEF a, t, b, d, x, y, k, out
  <2>3. (a \o d) \o (x \o y) = a \o b[k]
    <3>1. x \o y \in Texts
      BY <1>10, ConcatTexts
    <3>2. (a \o d) \o (x \o y) = a \o (d \o (x \o y))
      BY <1>10, <2>1, <3>1, ConcatTexts
    <3> QED BY <1>10, <3>2
  <2>4. IsPrefixOf(a \o b[k], a \o t)
    BY <2>1, BeginningAfter
  <2>5. out.known => IsPrefixOf(out.text \o (x \o y), a \o t)
    BY <2>2, <2>3, <2>4
  <2> QED BY <2>5 DEF a, t
<1>13. Stays(g)
  BY <1>1, <1>4 DEF Replace, Inv, Stays
<1>14. /\ Touches(g, on, sub) /\ HasBeginning(g)'
       /\ Gains(on, x \o y, s.err, s.indention) /\ OnlyOn(on)
  <2>1. step = 0 => s.indention = 0
    <3>1. step = 0 => c.ind = 0
      BY <1>5 DEF IsMap
    <3>2. s.indention = c.ind + step
      BY <1>11
    <3> HIDE DEF s, c
    <3> QED BY <3>1, <3>2
  <2> HIDE DEF s, x, y
  <2>2. Offer(g, s, y)
    BY <1>1
  <2> QED BY <1>1, <1>2, <1>10, <1>11, <1>12, <1>13, <2>1, <2>2, OfferAll
<1>15. u.val = v /\ u.on = on /\ u.sub = sub /\ u.order = f.order /\ u.at = k /\ u.sorted = f.sorted /\ u.members = f.members
  <2>1. f = [val |-> f.val, on |-> f.on, at |-> f.at, order |-> f.order, sub |-> f.sub,
             subAt |-> f.subAt, members |-> f.members, sorted |-> f.sorted]
    BY <1>1, FrameFields
  <2> QED BY <2>1
<1> HIDE DEF u
<1>16. GoodFrame(step, u)
  <2>1. HasMembers(step, u)
    BY <1>1, <1>3, <1>5, <1>15 DEF HasMembers, IsMap
  <2>2. u.val \in Nodes /\ (step # 0 => Indents(u.val)) /\ u.at \in 0..Len(u.val.parts) /\ u.sub # None
    <3> HIDE DEF k
    <3> QED BY <1>3, <1>5, <1>8, <1>15 DEF IsMap
  <2> QED BY <2>1, <2>2 DEF GoodFrame
<1>17. Describes(step, u, c, Outputs'[on])
  <2>1. Done(step, u, c.ind) = b[k]
    BY <1>1, <1>3, <1>8, <1>15 DEF Done
  <2>2. out.known => out.text = c.pre \o d
    BY <1>5 DEF IsMap
  <2>8. c.pre \in Texts
    BY <1>5 DEF IsMap
  <2>3. out.known => (out.err # "nil" => c.bad \/ Bad(u.val)) /\ (c.bad => out.err # "nil")
    BY <1>5, <1>15 DEF IsMap
  <2> HIDE DEF f, on, c, b, k, d, x, y, s
  <2>4. (c.pre \o d) \o (x \o y) = c.pre \o b[k]
    <3> DEFINE a == c.pre
               z == x \o y
    <3>1. z \in Texts /\ a \in Texts /\ d \in Texts
      BY <1>10, <2>8, ConcatTexts
    <3> HIDE DEF a, z
    <3>2. (a \o d) \o z = a \o (d \o z)
      BY <3>1, ConcatTexts
    <3> QED BY <1>10, <3>2 DEF a, z
  <2>5. Outputs'[on].known => Outputs'[on].text = c.pre \o Done(step, u, c.ind)
    BY <1>14, <2>1, <2>2, <2>4 DEF Gains, out
  <2>6. Outputs'[on].indention = c.ind + (IF u.sub = None THEN 0 ELSE step)
    BY <1>3, <1>11, <1>14, <1>15 DEF Gains
  <2>7. Outputs'[on].known => (Outputs'[on].err # "nil" => c.bad \/ Bad(u.val)) /\ (c.bad => Outputs'[on].err # "nil")
    <3>1. Outputs'[on].err = out.err /\ (Outputs'[on].known <=> out.known)
      BY <1>6, <1>11, <1>14 DEF Gains, out
    <3> HIDE DEF out
    <3> QED BY <2>3, <3>1
  <2> QED BY <1>1, <1>15, <2>5, <2>6, <2>7, MapDescribes
<1>18. DescribesSub(step, u, Outputs'[u.sub])
  <2>1. Outputs'[sub] = Outputs[sub]
    <3>1. Made' = Made /\ streams'[sub] = streams[sub]
      BY <1>4, <1>14 DEF OnlyOn
    <3> HIDE DEF sub
    <3> QED BY <1>4, <3>1 DEF Outputs, HasWriter
  <2>2. DescribesSub(step, u, Outputs[sub])
    <3> HIDE DEF sub, k, on
    <3> QED BY <1>1, <1>4, <1>15 DEF DescribesSub
  <2> QED BY <1>15, <2>1, <2>2
<1> HIDE DEF k, s, y
<1> QED BY <1>1, <1>2, <1>14, <1>15, <1>16, <1>17, <1>18, TextReplace

\* The text of a map is complete with its closing bracket; one without members has
\* no indention.
Closes(d, x, all) == d \o x = all
LEMMA MapClosed ==
  ASSUME NEW n \in Nat, NEW v \in Nodes, v.kind = "map", n # 0 => Indents(v), NEW ind \in Nat, n = 0 => ind = 0,
         NEW d, d = (IF Len(v.parts) # 0 THEN Upto(n, v, ind + n)[Len(v.parts)] ELSE Opening(n, v, ind + n))
  PROVE  Closes(d, Closing(n, v, ind), Text(n)[v][ind])
<1>1. Len(v.parts) \in Nat /\ (Len(v.parts) = 0 <=> v.parts = <<>>)
  BY NodeFacts, EmptyParts
<1>2. Text(n)[v][ind] = IF v.parts = <<>> THEN Bracket(v)
                        ELSE Upto(n, v, ind + n)[Len(v.parts)] \o Closing(n, v, ind)
  BY TextOfParts
<1>3. CASE Len(v.parts) # 0
  BY <1>1, <1>2, <1>3 DEF Closes
<1>4. CASE Len(v.parts) = 0
  <2>1. n = 0
    BY <1>1, <1>4, IndentsOfParts
  <2> DEFINE a == <<Bracket(v)[1]>>
             b == <<Bracket(v)[2]>>
             k == ind + n
  <2>2. d = a \o <<>> /\ Closing(n, v, ind) = <<>> \o b
    BY <1>4, <2>1 DEF Opening, Closing, NewLine
  <2>3. a \in Texts /\ b \in Texts /\ Bracket(v) = a \o b
    BY BracketText, ConcatTexts
  <2> HIDE DEF a, b
  <2>4. d = a /\ Closing(n, v, ind) = b
    BY <2>2, <2>3, ConcatTexts
  <2> QED BY <1>1, <1>2, <1>4, <2>3, <2>4 DEF Closes
<1> QED BY <1>3, <1>4

LEMMA MapEndText == ASSUME TextInv, NEW g \in Goroutines, MapEnd(g) PROVE TextInv'
<1> DEFINE f == Top(g)
           on == f.on
           sub == f.sub
           v == f.val
           r == Inherit(streams[on], streams[sub])
           s == WriteEnd(r, "}")
           t == Returned(streams[sub])
<1>1. /\ stack[g] # <<>> /\ v.kind = "map" /\ f.sorted /\ f.at = Len(f.members) /\ Inv' /\ Pop(g)
      /\ UNCHANGED <<step, call, result, sent, written>> /\ pool' = pool \cup {sub}
      /\ streams' = [streams EXCEPT ![on] = WriteEnd(Inherit(@, streams[sub]), "}"), ![sub] = Returned(@)]
  BY MapEndInv DEF MapEnd, Encoding, TextInv
<1>2. PICK w : Context(g, w)
  BY <1>1, CallFacts
<1> DEFINE c == w[1]
           out == Outputs[on]
           d == Done(step, f, c.ind)
           x == Closing(step, v, c.ind)
<1>3. sub # None
  BY <1>1, FrameFields
<1>4. /\ GoodFrame(step, f) /\ c \in Contexts(step) /\ Describes(step, f, c, out) /\ step \in Nat
      /\ DescribesSub(step, f, Outputs[sub]) /\ Inv
      /\ on \in Made /\ streams[on].buf \in Texts /\ IsStream(streams[on])
      /\ sub \in Made /\ sub # on /\ ~HasWriter(sub) /\ streams[sub].buf \in Texts /\ IsStream(streams[sub])
  BY <1>1, <1>2, <1>3, CallFacts
<1>5. IsMap(step, f, c, out)
  <2> HIDE DEF f, c, out
  <2> QED BY <1>1, <1>4, MapIs DEF v
<1>6. out.err = streams[on].err /\ out.indention = streams[on].indention
  BY <1>4, OutputIs
<1>7. f.at = Len(v.parts) /\ Len(v.parts) \in Nat
  <2> DEFINE m == Len(v.parts)
             e == [j \in 1..m |-> Entry(step, v, Order(v)[j])]
  <2>1. m \in Nat /\ f.members = e
    BY <1>1, <1>3, <1>5 DEF IsMap, HasMembers
  <2>2. Len(e) = m
    <3> HIDE DEF m
    <3> QED BY <2>1
  <2> QED BY <1>1, <2>1, <2>2
<1>8. /\ streams[sub].indention = 0
      /\ (streams[sub].err # "nil") <=> Bad(v)
  <2>1. Outputs[sub].err = streams[sub].err /\ Outputs[sub].indention = streams[sub].indention
    <3> HIDE DEF sub
    <3> QED BY <1>4, OutputIs
  <2>2. v \in Nodes /\ v.kind # "bad" /\ f.order \in Orders(v)
    BY <1>1, <1>3, <1>5 DEF IsMap
  <2>3. BadTo(v, f.order, Len(v.parts)) <=> Bad(v)
    <3> DEFINE o == f.order
    <3>1. o \in Orders(v)
      BY <2>2
    <3> HIDE DEF o, v
    <3>2. BadTo(v, o, Len(v.parts)) <=> Bad(v)
      BY <2>2, <3>1, BadToIs
    <3> QED BY <3>2 DEF o, v
  <2>4. (Outputs[sub].err # "nil") <=> BadTo(v, f.order, Len(v.parts))
    BY <1>1, <1>4 DEF DescribesSub
  <2>5. Outputs[sub].indention = 0
    BY <1>4 DEF DescribesSub
  <2> QED BY <2>1, <2>3, <2>4, <2>5
<1>9. /\ r.buf = streams[on].buf /\ r.indention = c.ind + step /\ IsStream(r)
      /\ r.err # "nil" <=> streams[on].err # "nil" \/ streams[sub].err # "nil"
  <2>1. streams[on].indention = c.ind + step
    BY <1>3, <1>5, <1>6 DEF IsMap
  <2> HIDE DEF r, c, on, sub
  <2>2. /\ r.buf = streams[on].buf /\ r.indention = streams[on].indention
        /\ r.err # "nil" <=> streams[on].err # "nil" \/ streams[sub].err # "nil"
    BY <1>4, InheritText DEF r
  <2>3. IsStream(r)
    BY <1>4, InheritStream DEF r
  <2> QED BY <2>1, <2>2, <2>3
<1>10. Adds(s, r, x, c.ind)
  <2> DEFINE b == "}"
  <2>1. <<b>> \in Texts
    BY MarksAreLetters DEF Marks
  <2>2. x = NewLine(step, c.ind) \o <<b>>
    BY <1>1 DEF Closing, Bracket
  <2>3. c.ind \in Nat /\ (step = 0 => c.ind = 0)
    BY <1>5 DEF IsMap
  <2>4. s = WriteEnd(r, b) /\ r.buf \in Texts
    BY <1>4, <1>9
  <2> HIDE DEF b, s, r, x, c
  <2> QED BY <1>4, <1>9, <2>1, <2>2, <2>3, <2>4, EndAdds
<1>11. s.buf = streams[on].buf \o x /\ s.err = r.err /\ s.indention = c.ind /\ x \in Texts /\ s.buf \in Texts
  <2>1. s.buf = streams[on].buf \o x /\ s.err = r.err /\ s.indention = c.ind /\ x \in Texts
    BY <1>9, <1>10 DEF Adds
  <2>2. streams[on].buf \o x \in Texts
    <3> HIDE DEF x
    <3> QED BY <1>4, <2>1, ConcatTexts
  <2> HIDE DEF s, x
  <2> QED BY <2>1, <2>2
<1>12. t.buf = streams[sub].buf /\ t.err = "nil" /\ t.indention = 0
  BY <1>4, <1>8 DEF Returned, IsStream
<1>13. Becomes(on, s, sub, t) /\ Works(g, sub, t)
  <2>1. Becomes(on, s, sub, t)
    <3>1. streams' = [streams EXCEPT ![on] = s, ![sub] = Returned(@)]
      BY <1>1
    <3>2. on # sub /\ DOMAIN streams = Made /\ on \in Made /\ sub \in Made
      BY <1>4 DEF Made
    <3> HIDE DEF s, on, sub
    <3>3. streams' = [id \in Made |-> IF id = on THEN s ELSE IF id = sub THEN Returned(streams[sub]) ELSE streams[id]]
      BY <3>1, <3>2
    <3>4. Made \cup {sub} = Made
      BY <3>2
    <3> QED BY <3>2, <3>3, <3>4 DEF Becomes
  <2>2. \A h \in Goroutines \ {g} : stack'[h] = stack[h]
    BY <1>1, <1>4 DEF Pop, Inv
  <2> QED BY <1>1, <1>12, <2>1, <2>2 DEF Works
<1>14. /\ Touches(g, on, sub) /\ HasBeginning(g)'
       /\ on \in Made' /\ streams'[on] = s /\ written' = written
  <2>1. step = 0 => s.indention = 0
    <3>1. step = 0 => c.ind = 0
      BY <1>5 DEF IsMap
    <3>2. s.indention = c.ind
      BY <1>11
    <3> HIDE DEF s, c
    <3> QED BY <3>1, <3>2
  <2>2. stack[g] # <<>> /\ on = Top(g).on /\ (sub = Top(g).sub \/ (Top(g).sub = None /\ sub \in CanBorrow))
    BY <1>1
  <2>3. t.buf \in Texts /\ (step = 0 => t.indention = 0) /\ s.buf \in Texts
    BY <1>4, <1>11, <1>12
  <2> HIDE DEF s, t, on, sub, f
  <2> QED BY <1>3, <1>13, <2>1, <2>2, <2>3, BecomesTouches
<1>15. Gains(on, x, s.err, s.indention)
  <2>1. streams'[on].buf = streams[on].buf \o x
    BY <1>11, <1>14
  <2>2. UNCHANGED sent /\ (HasWriter(on) => written'[on] = written[on])
    BY <1>1
  <2> HIDE DEF s, x
  <2> QED BY <1>4, <1>11, <1>14, <2>1, <2>2, AddedText
<1>16. d \o x = Text(step)[v][c.ind] /\ d \in Texts
  <2> DEFINE i == c.ind
  <2>1. i \in Nat /\ (step = 0 => i = 0) /\ v \in Nodes /\ v.kind = "map" /\ (step # 0 => Indents(v)) /\ d \in Texts
    BY <1>1, <1>5 DEF IsMap
  <2>2. d = IF Len(v.parts) # 0 THEN Upto(step, v, i + step)[Len(v.parts)] ELSE Opening(step, v, i + step)
    BY <1>1, <1>3, <1>7 DEF Done
  <2> HIDE DEF i, v, d
  <2>3. Closes(d, Closing(step, v, i), Text(step)[v][i])
    BY <1>4, <2>1, <2>2, MapClosed
  <2> QED BY <2>1, <2>3 DEF i, Closes
<1>17. Finished(step, v, c, Outputs'[on])
  <2>1. out.known => out.text = c.pre \o d
    BY <1>5 DEF IsMap
  <2>2. out.known => ((s.err # "nil") <=> (c.bad \/ Bad(v)))
    <3> HIDE DEF c, out, s, r, f
    <3> QED BY <1>5, <1>6, <1>8, <1>9, <1>11 DEF IsMap, v
  <2>3. (c.pre \o d) \o x = c.pre \o Text(step)[v][c.ind]
    <3> DEFINE a == c.pre
    <3>1. a \in Texts
      BY <1>5 DEF IsMap
    <3> HIDE DEF a, d, x
    <3>2. (a \o d) \o x = a \o (d \o x)
      BY <1>11, <1>16, <3>1, ConcatTexts
    <3> QED BY <1>16, <3>2 DEF a
  <2> HIDE DEF c, d, x, s, v, on
  <2> QED BY <1>11, <1>15, <2>1, <2>2, <2>3 DEF Finished, Gains, out
<1> HIDE DEF v
<1> QED BY <1>1, <1>2, <1>14, <1>17, TextPop DEF v

----------------------------------------------------------------------------
(* The lines of an Encoder.                                                *)

IsSent(n, q) == n \in Steps /\ q \in Seq([val : Values[n], err : Errors])

LEMMA SentFacts ==
  ASSUME NEW n, NEW q, IsSent(n, q)
  PROVE  /\ n \in Nat /\ Len(q) \in Nat /\ DOMAIN q = 1..Len(q)
         /\ \A k \in 1..Len(q) : q[k].val \in Nodes /\ q[k].err \in Errors /\ q[k] = [val |-> q[k].val, err |-> q[k].err]
<1> DEFINE R == [val : Values[n], err : Errors]
<1>1. n \in Nat /\ Values[n] \subseteq Nodes /\ q \in Seq(R)
  BY ValuesAssumption, NodesAssumption DEF IsSent
<1>2. Len(q) \in Nat /\ DOMAIN q = 1..Len(q)
  <2> HIDE DEF R
  <2> QED BY <1>1
<1>3. \A k \in 1..Len(q) : q[k] \in R
  <2> HIDE DEF R
  <2> QED BY <1>1
<1> QED BY <1>1, <1>2, <1>3

LineTexts(n, q) == [i \in 1..Len(q) |-> Text(n)[q[i].val][0] \o <<"\n">>]

LEMMA LineTextsAre ==
  ASSUME NEW n, NEW q, IsSent(n, q)
  PROVE  /\ Lines(n, q) = Joined(LineTexts(n, q)) /\ LineTexts(n, q) \in Seq(Texts)
         /\ Len(LineTexts(n, q)) = Len(q) /\ Len(q) \in Nat
<1> DEFINE t(i) == Text(n)[q[i].val][0] \o <<"\n">>
           ts == [i \in 1..Len(q) |-> t(i)]
<1>1. n \in Nat /\ Len(q) \in Nat /\ DOMAIN q = 1..Len(q) /\ \A k \in 1..Len(q) : q[k].val \in Nodes
  BY SentFacts
<1>2. ASSUME NEW i \in 1..Len(q) PROVE t(i) \in Texts
  <2> DEFINE v == q[i].val
  <2>1. v \in Nodes
    BY <1>1
  <2> HIDE DEF v
  <2>2. Text(n)[v][0] \in Texts
    BY <1>1, <2>1, TextOfParts DEF v
  <2>3. <<"\n">> \in Texts
    BY MarksAreLetters DEF Marks
  <2>4. Text(n)[v][0] \o <<"\n">> \in Texts
    BY <2>2, <2>3, ConcatTexts
  <2> QED BY <2>4 DEF v
<1>3. Lines(n, q) = Joined(ts) /\ LineTexts(n, q) = ts
  BY <1>1 DEF Lines, LineTexts
<1> HIDE DEF t
<1>4. ts \in Seq(Texts) /\ Len(ts) = Len(q)
  BY <1>1, <1>2
<1> QED BY <1>1, <1>3, <1>4

LEMMA LinesAre ==
  ASSUME NEW n, NEW q, IsSent(n, q)
  PROVE  /\ Lines(n, q) \in [0..Len(q) -> Texts] /\ Lines(n, q)[0] = <<>>
         /\ \A k \in 1..Len(q) : Lines(n, q)[k] = Lines(n, q)[k - 1] \o LineTexts(n, q)[k]
         /\ \A k \in 1..Len(q) : /\ LineTexts(n, q)[k] = Text(n)[q[k].val][0] \o <<"\n">>
                                  /\ LineTexts(n, q)[k] \in Texts
<1> DEFINE ts == LineTexts(n, q)
<1>1. Lines(n, q) = Joined(ts) /\ ts \in Seq(Texts) /\ Len(ts) = Len(q)
  BY LineTextsAre
<1>2. \A k \in 1..Len(q) : ts[k] = Text(n)[q[k].val][0] \o <<"\n">>
  BY DEF LineTexts
<1> HIDE DEF ts
<1>3. /\ Joined(ts) \in [0..Len(ts) -> Texts] /\ Joined(ts)[0] = <<>>
      /\ \A k \in 1..Len(ts) : Joined(ts)[k] = Joined(ts)[k - 1] \o ts[k]
  BY <1>1, JoinedIs
<1>4. \A k \in 1..Len(q) : ts[k] \in Texts
  BY <1>1
<1> QED BY <1>1, <1>2, <1>3, <1>4 DEF ts

\* The lines depend on the values only.
SameValues(q, r, m) == m <= Len(q) /\ m <= Len(r) /\ \A k \in 1..m : r[k].val = q[k].val
LEMMA LinesSame ==
  ASSUME NEW n, NEW q, IsSent(n, q), NEW r, IsSent(n, r), NEW m \in Nat, SameValues(q, r, m)
  PROVE  Lines(n, r)[m] = Lines(n, q)[m]
<1> DEFINE a == LineTexts(n, r)
           b == LineTexts(n, q)
<1>1. /\ Lines(n, r) = Joined(a) /\ a \in Seq(Texts) /\ Len(a) = Len(r)
      /\ Lines(n, q) = Joined(b) /\ b \in Seq(Texts) /\ Len(b) = Len(q)
      /\ Len(q) \in Nat /\ Len(r) \in Nat
  BY LineTextsAre
<1>2. \A k \in 1..m : a[k] = b[k]
  <2>1. \A k \in 1..m : k \in 1..Len(q) /\ k \in 1..Len(r) /\ r[k].val = q[k].val
    BY <1>1 DEF SameValues
  <2> QED BY <2>1 DEF LineTexts
<1>3. m <= Len(a) /\ m <= Len(b)
  BY <1>1 DEF SameValues
<1> HIDE DEF a, b
<1> QED BY <1>1, <1>2, <1>3, JoinedSame

\* One value more is given to an Encoder.
Sends(q, v, r) == r = Append(q, [val |-> v, err |-> "running"])
LastIs(r, v) == r # <<>> /\ r[Len(r)] = [val |-> v, err |-> "running"]
LEMMA SentMore ==
  ASSUME NEW n, NEW q, IsSent(n, q), NEW v \in Values[n], NEW r, Sends(q, v, r)
  PROVE  /\ IsSent(n, r) /\ Len(r) = Len(q) + 1 /\ Len(r) - 1 = Len(q) /\ LastIs(r, v)
         /\ Clean(r) => Clean(q)
         /\ Lines(n, r)[Len(q)] = Lines(n, q)[Len(q)]
<1> DEFINE R == [val : Values[n], err : Errors]
           e == [val |-> v, err |-> "running"]
<1>1. q \in Seq(R) /\ e \in R /\ n \in Steps
  BY DEF IsSent, Errors
<1>2. Len(q) \in Nat /\ DOMAIN q = 1..Len(q)
  BY SentFacts
<1> HIDE DEF R, e
<1>3. /\ r \in Seq(R) /\ Len(r) = Len(q) + 1 /\ \A k \in 1..Len(q) : r[k] = q[k]
      /\ r[Len(q) + 1] = e
  BY <1>1, AppendProperties DEF e, Sends
<1>4. IsSent(n, r)
  BY <1>1, <1>3 DEF IsSent, R
<1>5. Len(r) - 1 = Len(q) /\ r # <<>> /\ Len(q) <= Len(q) /\ Len(q) <= Len(r)
  BY <1>2, <1>3
<1>6. Clean(r) => Clean(q)
  <2>1. DOMAIN r = 1..Len(r) /\ \A k \in 1..Len(q) : k \in 1..Len(r)
    BY <1>2, <1>3, <1>4, SentFacts
  <2> QED BY <1>2, <1>3, <2>1 DEF Clean
<1>7. Lines(n, r)[Len(q)] = Lines(n, q)[Len(q)]
  <2>1. SameValues(q, r, Len(q))
    BY <1>3, <1>5 DEF SameValues
  <2> QED BY <1>2, <1>4, <2>1, LinesSame
<1> QED BY <1>3, <1>4, <1>5, <1>6, <1>7 DEF e, LastIs

\* The last value given to an Encoder has its result.
HasError(q, e, r) == r = [q EXCEPT ![Len(q)].err = e]
LEMMA SentResult ==
  ASSUME NEW n, NEW q, IsSent(n, q), NEW v, LastIs(q, v), NEW e \in Errors, NEW r, HasError(q, e, r)
  PROVE  /\ IsSent(n, r) /\ Len(r) = Len(q) /\ Len(q) \in 1..Len(q)
         /\ q[Len(q)].val = v
         /\ Clean(r) => Clean(q) /\ e \in {"nil", "running"} /\ ~Bad(v)
         /\ Lines(n, r)[Len(q)] = Lines(n, q)[Len(q)]
<1> DEFINE R == [val : Values[n], err : Errors]
           m == Len(q)
<1>0. q # <<>> /\ q[m].val = v /\ q[m].err = "running"
  BY DEF LastIs
<1>1. q \in Seq(R) /\ n \in Steps
  BY DEF IsSent
<1>2. /\ m \in Nat /\ DOMAIN q = 1..m
      /\ \A k \in 1..m : q[k] = [val |-> q[k].val, err |-> q[k].err]
  BY SentFacts
<1>3. m \in 1..m
  <2>1. m # 0
    <3> HIDE DEF R
    <3> QED BY <1>0, <1>1, EmptySeq
  <2> HIDE DEF m
  <2> QED BY <1>2, <2>1
<1>4. q[m] \in R
  <2> HIDE DEF R
  <2> QED BY <1>1, <1>3
<1> DEFINE x == [val |-> q[m].val, err |-> e]
<1>5. x \in R
  BY <1>4
<1>6. r = [k \in 1..m |-> IF k = m THEN x ELSE q[k]]
  <2> DEFINE y == q[m]
  <2>1. [y EXCEPT !.err = e] = x
    <3>1. y = [val |-> y.val, err |-> y.err]
      BY <1>2, <1>3
    <3> QED BY <3>1
  <2> HIDE DEF x
  <2> QED BY <1>2, <1>3, <2>1 DEF HasError
<1> HIDE DEF R, m
<1>7. r \in Seq(R) /\ Len(r) = m
  <2>1. \A k \in 1..m : q[k] \in R
    BY <1>1 DEF m
  <2>2. r \in [1..m -> R]
    BY <1>5, <1>6, <2>1
  <2>3. r \in Seq(R) /\ DOMAIN r = 1..m
    <3>1. m \in Nat /\ r \in [1..m -> R]
      BY <1>2, <2>2
    <3>2. DOMAIN r = 1..m
      BY <3>1
    <3>3. r \in Seq(R)
      BY <3>1, SeqDef
    <3> QED BY <3>2, <3>3
  <2> HIDE DEF x
  <2> QED BY <1>2, <2>3, LenProperties
<1>8. IsSent(n, r)
  BY <1>1, <1>7 DEF IsSent, R
<1>9. r[m].err = e /\ r[m].val = q[m].val /\ \A k \in 1..m : r[k].val = q[k].val /\ (k # m => r[k] = q[k])
  BY <1>3, <1>6
<1>10. Clean(r) => Clean(q) /\ e \in {"nil", "running"} /\ ~Bad(q[m].val)
  <2>1. ASSUME Clean(r) PROVE Clean(q) /\ e \in {"nil", "running"} /\ ~Bad(q[m].val)
    <3>1. \A k \in 1..m : r[k].err \in {"nil", "running"} /\ ~Has(r[k].val, {"bad", "panic"})
      BY <1>6, <2>1 DEF Clean
    <3>2. \A k \in 1..m : q[k].err \in {"nil", "running"} /\ ~Has(q[k].val, {"bad", "panic"})
      BY <1>0, <1>9, <3>1 DEF m
    <3>3. Clean(q)
      BY <1>2, <3>2 DEF Clean
    <3>4. ~Bad(q[m].val)
      BY <1>3, <3>2 DEF Bad, Has
    <3> QED BY <1>0, <1>3, <1>9, <3>1, <3>3, <3>4
  <2> QED BY <2>1
<1>11. Lines(n, r)[m] = Lines(n, q)[m]
  <2>1. m <= Len(q) /\ m <= Len(r)
    BY <1>2, <1>7 DEF m
  <2>2. SameValues(q, r, m)
    BY <1>9, <2>1 DEF SameValues
  <2> QED BY <1>2, <1>8, <2>2, LinesSame
<1> QED BY <1>0, <1>3, <1>7, <1>8, <1>9, <1>10, <1>11 DEF m

----------------------------------------------------------------------------
(* Calls of Marshal and Encode.                                            *)

\* What holds of a goroutine, and of the values its Encoder was given.
LEMMA RestFacts ==
  ASSUME TextInv, NEW g \in Goroutines
  PROVE  /\ Inv /\ Delivers(g) /\ IsSent(step, sent[g]) /\ step \in Nat /\ step \in Steps
         /\ g \in Made /\ HasWriter(g) /\ IsStream(streams[g]) /\ streams[g].buf \in Texts
         /\ written[g] \in Texts /\ DOMAIN written = Goroutines /\ DOMAIN result = Goroutines
         /\ \A v \in Values[step] : v \in Nodes /\ (step # 0 => Indents(v))
BY ValuesAssumption, NodesAssumption DEF TextInv, Inv, IsSent, HasWriter

LEMMA MarshalText ==
  ASSUME TextInv, NEW g \in Goroutines, NEW v \in Values[step], Marshal(g, v)
  PROVE  TextInv'
<1>1. PICK id \in CanBorrow :
        /\ streams' = Borrow(id) /\ pool' = pool \ {id}
        /\ call' = [call EXCEPT ![g] = [name |-> "Marshal", val |-> v, stream |-> id]]
        /\ stack' = [stack EXCEPT ![g] = <<Frame(v, id)>>]
  BY DEF Marshal
<1>2. Idle(g) /\ UNCHANGED <<step, result, sent, written>> /\ Inv'
  BY MarshalInv DEF Marshal, TextInv
<1>3. /\ Inv /\ Delivers(g) /\ step \in Nat /\ v \in Nodes /\ (step # 0 => Indents(v))
      /\ written[g] \in Texts /\ DOMAIN written = Goroutines /\ DOMAIN result = Goroutines
  BY RestFacts
<1>4. id \in StreamIds /\ id # g /\ ~HasWriter(id)
  BY ValuesAssumption DEF CanBorrow, HasWriter
<1> DEFINE t == Borrowed(id)
           u == Frame(v, id)
<1>5. t.buf = <<>> /\ t.err = "nil" /\ t.indention = 0 /\ t.buf \in Texts
  BY BorrowedIs, ConcatTexts
<1>6. /\ Made' = Made \cup {id} /\ streams'[id] = t /\ \A i \in Made : i # id => streams'[i] = streams[i]
      /\ id \in Made' /\ id \notin pool'
  BY <1>1 DEF Borrow, Made
<1>7. /\ stack'[g] = <<u>> /\ call'[g] = [name |-> "Marshal", val |-> v, stream |-> id]
      /\ \A h \in Goroutines \ {g} : stack'[h] = stack[h] /\ call'[h] = call[h]
  BY <1>1, <1>3 DEF Inv
<1> HIDE DEF t
<1>8. Before(Starts(<<>>), Outputs'[id])
  <2>1. Outputs'[id].text = <<>> /\ Outputs'[id].err = "nil" /\ Outputs'[id].indention = 0 /\ Outputs'[id].known
    BY <1>4, <1>5, <1>6, SubOutput
  <2> QED BY <2>1 DEF Before, Starts
<1>9. Encodes(g)'
  <2>1. u.val = v /\ u.on = id /\ u.at = 0 /\ u.sub = None
    BY DEF Frame
  <2>2. <<>> \in Texts
    BY ConcatTexts
  <2> HIDE DEF u
  <2>3. Explains(step, <<u>>, <<Starts(<<>>)>>, id, v, <<>>, Outputs')
    BY <1>3, <1>8, <2>1, <2>2, StartExplains
  <2>4. Earlier(g)' = <<>>
    BY <1>7 DEF Earlier
  <2>5. Explains(step', stack'[g], <<Starts(<<>>)>>, call'[g].stream, call'[g].val, Earlier(g)', Outputs')
    BY <1>2, <1>7, <2>3, <2>4
  <2>6. stack'[g] # <<>>
    BY <1>7
  <2> QED BY <2>5, <2>6 DEF Encodes
<1>10. Delivers(g)'
  <2>1. Rests(g)'
    <3>1. Rests(g) /\ g \in Made
      BY <1>2, <1>3 DEF Delivers, Idle, Inv
    <3>2. streams'[g] = streams[g]
      BY <1>4, <1>6, <3>1
    <3> QED BY <1>2, <3>1, <3>2 DEF Rests
  <2>2. HasBeginning(g)'
    BY <1>2, BeginningKept
  <2>3. call'[g].name = "Marshal" /\ call'[g].val \in Values[step']
    BY <1>2, <1>7
  <2>4. result'[g] # None => HasResult(step', result'[g])
    BY <1>2, <1>3 DEF Delivers
  <2> QED BY <1>9, <2>1, <2>2, <2>3, <2>4 DEF Delivers
<1>11. \A i \in Made' : \/ i \in Made /\ streams'[i] = streams[i]
                        \/ streams'[i].buf \in Texts /\ (step = 0 => streams'[i].indention = 0)
  BY <1>5, <1>6
<1>12. \A i \in pool' : i \in pool /\ streams'[i] = streams[i]
  <2>1. pool \subseteq Made
    BY <1>3 DEF Inv, PoolBalance
  <2> QED BY <1>1, <1>6, <2>1
<1>13. \A i \in Made : i \notin Held(g) /\ i \notin CanBorrow /\ i # g => i \in Made' /\ streams'[i] = streams[i]
  BY <1>6
<1> QED BY <1>2, <1>3, <1>7, <1>10, <1>11, <1>12, <1>13, TextStepOfOne

LEMMA MarshalReturnsText == ASSUME TextInv, NEW g \in Goroutines, MarshalReturns(g) PROVE TextInv'
<1> DEFINE id == call[g].stream
           v == call[g].val
           r == [val |-> v, err |-> streams[id].err, slice |-> Copy(id)]
           t == Returned(streams[id])
<1>1. /\ call[g].name = "Marshal" /\ stack[g] = <<>> /\ Inv'
      /\ result' = [result EXCEPT ![g] = r] /\ pool' = pool \cup {id}
      /\ streams' = [streams EXCEPT ![id] = Returned(@)]
      /\ call' = [call EXCEPT ![g] = NoCall]
      /\ UNCHANGED <<step, stack, sent, written>>
  BY MarshalReturnsInv DEF MarshalReturns, TextInv
<1>2. /\ Inv /\ Delivers(g) /\ step \in Nat /\ IsCall(g)
      /\ written[g] \in Texts /\ DOMAIN written = Goroutines /\ DOMAIN result = Goroutines
      /\ \A x \in Values[step] : x \in Nodes
  BY RestFacts DEF Inv
<1>3. id \in StreamIds /\ id # g /\ ~HasWriter(id) /\ id \in Made /\ id # None /\ id \in Held(g)
  <2>1. id \in StreamIds
    BY <1>1, <1>2 DEF IsCall
  <2>2. id # g /\ id # None /\ ~HasWriter(id)
    BY <2>1, ValuesAssumption DEF HasWriter
  <2>3. id \in InUse(g) /\ id \in Held(g)
    BY <2>2 DEF InUse, Held
  <2> QED BY <1>2, <2>1, <2>2, <2>3, InUseFacts
<1>4. streams[id].buf \in Texts /\ IsStream(streams[id])
  BY <1>2, <1>3 DEF TextInv, Inv
<1>5. /\ v \in Values[step] /\ v \in Nodes /\ streams[id].indention = 0
      /\ streams[id].buf = Text(step)[v][0] /\ ((streams[id].err # "nil") <=> Bad(v))
  <2>1. v \in Values[step] /\ Encodes(g) /\ v \in Nodes
    BY <1>1, <1>2 DEF Delivers, Idle
  <2>2. Earlier(g) = <<>>
    BY <1>1 DEF Earlier
  <2>3. Finished(step, v, Starts(<<>>), Outputs[id])
    BY <1>1, <2>1, <2>2 DEF Encodes
  <2>4. /\ Outputs[id].text = streams[id].buf /\ Outputs[id].err = streams[id].err
        /\ Outputs[id].indention = streams[id].indention /\ Outputs[id].known
    <3> HIDE DEF id
    <3> QED BY <1>3, <1>4, SubOutputNow
  <2>5. Starts(<<>>).pre = <<>> /\ Starts(<<>>).ind = 0 /\ Starts(<<>>).bad = FALSE
    BY DEF Starts
  <2>6. <<>> \o Text(step)[v][0] = Text(step)[v][0]
    <3> HIDE DEF v
    <3>1. Text(step)[v][0] \in Texts
      BY <1>2, <2>1, TextOfParts
    <3> QED BY <3>1, ConcatTexts
  <2> HIDE DEF id, v
  <2> QED BY <2>1, <2>3, <2>4, <2>5, <2>6 DEF Finished
<1>6. HasResult(step, r)
  <2>1. r.slice.of = None /\ r.slice.bytes = streams[id].buf /\ r.val = v /\ r.err = streams[id].err
    BY DEF Copy
  <2> HIDE DEF r, id, v
  <2> QED BY <1>5, <2>1 DEF HasResult
<1>7. /\ Made' = Made /\ streams'[id] = t /\ \A i \in Made : i # id => streams'[i] = streams[i]
  BY <1>1, <1>3 DEF Made
<1>8. t.buf = streams[id].buf /\ t.err = "nil" /\ t.indention = 0
  BY <1>4, <1>5 DEF Returned, IsStream
<1>9. /\ result'[g] = r /\ call'[g] = NoCall /\ DOMAIN result' = Goroutines
      /\ \A h \in Goroutines \ {g} : result'[h] = result[h] /\ call'[h] = call[h]
  BY <1>1, <1>2 DEF Inv
<1> HIDE DEF r, t
<1>10. Delivers(g)'
  <2>1. Rests(g)'
    <3>1. Rests(g) /\ g \in Made
      BY <1>1, <1>2 DEF Delivers, Inv
    <3>2. streams'[g] = streams[g]
      BY <1>3, <1>7, <3>1
    <3> QED BY <1>1, <3>1, <3>2 DEF Rests
  <2>2. HasBeginning(g)'
    BY <1>1, BeginningKept
  <2>3. call'[g].name = "none" /\ Idle(g)'
    BY <1>9 DEF NoCall, Idle
  <2>4. HasResult(step', result'[g])
    BY <1>1, <1>6, <1>9
  <2> QED BY <2>1, <2>2, <2>3, <2>4 DEF Delivers
<1>11. \A i \in Made' : \/ i \in Made /\ streams'[i] = streams[i]
                        \/ streams'[i].buf \in Texts /\ (step = 0 => streams'[i].indention = 0)
  BY <1>4, <1>7, <1>8
<1>12. \A i \in pool' : \/ i \in pool /\ streams'[i] = streams[i]
                        \/ streams'[i].indention = 0 /\ streams'[i].err = "nil"
  <2>1. pool \subseteq Made
    BY <1>2 DEF Inv, PoolBalance
  <2> QED BY <1>1, <1>7, <1>8, <2>1
<1>13. \A i \in Made : i \notin Held(g) /\ i \notin CanBorrow /\ i # g => i \in Made' /\ streams'[i] = streams[i]
  BY <1>3, <1>7
<1> HIDE DEF id
<1> QED BY <1>1, <1>2, <1>9, <1>10, <1>11, <1>12, <1>13, TextStepOfOne

LEMMA EncodeText ==
  ASSUME TextInv, NEW g \in Goroutines, NEW v \in Values[step], Encode(g, v)
  PROVE  TextInv'
<1> DEFINE q == sent[g]
           r == Append(q, [val |-> v, err |-> "running"])
           u == Frame(v, g)
           pre == Lines(step, q)[Len(q)]
<1>1. /\ Idle(g) /\ Inv'
      /\ call' = [call EXCEPT ![g] = [name |-> "Encode", val |-> v, stream |-> g]]
      /\ stack' = [stack EXCEPT ![g] = <<u>>]
      /\ sent' = [sent EXCEPT ![g] = r]
      /\ UNCHANGED <<step, streams, pool, result, written>>
  BY EncodeInv DEF Encode, TextInv
<1>2. /\ Inv /\ Delivers(g) /\ step \in Nat /\ v \in Nodes /\ (step # 0 => Indents(v))
      /\ written[g] \in Texts /\ DOMAIN written = Goroutines /\ DOMAIN result = Goroutines
      /\ IsSent(step, q) /\ g \in Made /\ HasWriter(g) /\ streams[g].buf \in Texts
  BY RestFacts
<1>3. /\ stack'[g] = <<u>> /\ call'[g] = [name |-> "Encode", val |-> v, stream |-> g] /\ sent'[g] = r
      /\ \A h \in Goroutines \ {g} : stack'[h] = stack[h] /\ call'[h] = call[h] /\ sent'[h] = sent[h]
  BY <1>1, <1>2 DEF Inv
<1>4. Made' = Made
  BY <1>1 DEF Made
<1>5. /\ IsSent(step, r) /\ r # <<>> /\ Len(r) - 1 = Len(q) /\ Len(r) = Len(q) + 1
      /\ r[Len(r)] = [val |-> v, err |-> "running"]
      /\ Clean(r) => Clean(q)
      /\ Lines(step, r)[Len(q)] = pre
  <2>1. Sends(q, v, r) /\ IsSent(step, q)
    BY <1>2 DEF Sends
  <2> HIDE DEF q, r
  <2>2. /\ IsSent(step, r) /\ LastIs(r, v) /\ Len(r) - 1 = Len(q) /\ Len(r) = Len(q) + 1
        /\ Clean(r) => Clean(q)
        /\ Lines(step, r)[Len(q)] = Lines(step, q)[Len(q)]
    BY <2>1, SentMore
  <2> QED BY <2>2 DEF q, LastIs
<1>6. Rests(g) /\ HasBeginning(g)
  BY <1>1, <1>2 DEF Delivers, Idle
<1>7. pre \in Texts /\ Len(q) \in Nat
  <2> HIDE DEF q
  <2>1. Len(q) \in Nat
    BY <1>2, SentFacts
  <2>2. Lines(step, q) \in [0..Len(q) -> Texts]
    BY <1>2, LinesAre
  <2> QED BY <2>1, <2>2
<1>8. Lines(step, r)[Len(r)] = pre \o LineTexts(step, r)[Len(r)] /\ LineTexts(step, r)[Len(r)] \in Texts
  <2> HIDE DEF r, q
  <2>1. \A k \in 1..Len(r) : /\ Lines(step, r)[k] = Lines(step, r)[k - 1] \o LineTexts(step, r)[k]
                              /\ LineTexts(step, r)[k] \in Texts
    BY <1>5, LinesAre, ZenonT(60)
  <2>2. Len(r) \in 1..Len(r)
    BY <1>5, <1>7
  <2>3. /\ Lines(step, r)[Len(r)] = Lines(step, r)[Len(r) - 1] \o LineTexts(step, r)[Len(r)]
        /\ LineTexts(step, r)[Len(r)] \in Texts
    BY <2>1, <2>2
  <2> QED BY <1>5, <2>3
<1> HIDE DEF r, u
<1>9. Earlier(g)' = pre
  BY <1>1, <1>3, <1>5 DEF Earlier
<1>10. Before(Starts(pre), Outputs'[g])
  <2>1. /\ Outputs'[g].text = written[g] \o streams[g].buf
        /\ Outputs'[g].err = streams[g].err /\ Outputs'[g].indention = streams[g].indention
        /\ Outputs'[g].known <=> Clean(r)
    BY <1>1, <1>2, <1>3, <1>4 DEF Outputs, HasWriter
  <2>2. streams[g].indention = 0
    BY <1>6 DEF Rests
  <2>3. ASSUME Clean(r) PROVE Outputs'[g].text = pre /\ streams[g].err = "nil"
    <3>1. streams[g].err = "nil" /\ streams[g].buf = <<>> /\ written[g] = pre
      BY <1>5, <1>6, <2>3 DEF Rests
    <3>2. written[g] \o <<>> = written[g]
      BY <1>2, ConcatTexts
    <3> QED BY <2>1, <3>1, <3>2
  <2> HIDE DEF pre
  <2> QED BY <2>1, <2>2, <2>3 DEF Before, Starts
<1>11. Encodes(g)'
  <2>1. u.val = v /\ u.on = g /\ u.at = 0 /\ u.sub = None
    BY DEF Frame, u
  <2> HIDE DEF pre
  <2>2. Explains(step, <<u>>, <<Starts(pre)>>, g, v, pre, Outputs')
    BY <1>2, <1>7, <1>10, <2>1, StartExplains
  <2>3. Explains(step', stack'[g], <<Starts(pre)>>, call'[g].stream, call'[g].val, Earlier(g)', Outputs')
    BY <1>1, <1>3, <1>9, <2>2
  <2>4. stack'[g] # <<>>
    BY <1>3
  <2> QED BY <2>3, <2>4 DEF Encodes
<1>12. HasBeginning(g)'
  <2>1. ASSUME Clean(r) PROVE IsPrefixOf(written[g], Lines(step, r)[Len(r)])
    <3>1. written[g] = pre
      BY <1>5, <1>6, <2>1 DEF Rests
    <3> HIDE DEF pre
    <3> QED BY <1>7, <1>8, <3>1, Beginnings
  <2> QED BY <1>1, <1>3, <2>1 DEF HasBeginning
<1>13. Delivers(g)'
  <2>1. result'[g] # None => HasResult(step', result'[g])
    BY <1>1, <1>2 DEF Delivers
  <2>2. call'[g].name = "Encode" /\ call'[g].val = v /\ v \in Values[step']
    BY <1>1, <1>3
  <2>3. sent'[g] # <<>> /\ sent'[g][Len(sent'[g])] = [val |-> call'[g].val, err |-> "running"]
    BY <1>3, <1>5, <2>2
  <2> QED BY <1>11, <1>12, <2>1, <2>2, <2>3 DEF Delivers
<1> QED BY <1>1, <1>2, <1>3, <1>4, <1>13, TextStepOfOne

\* What the writer of an Encoder takes of all that is buffered.
LEMMA FlushedText ==
  ASSUME NEW s, IsStream(s), s.buf \in Texts, NEW n, s.err = "nil" => n \in 0..Len(s.buf), s.err # "nil" => n = 0,
         NEW taken, taken = SubSeq(s.buf, 1, n)
  PROVE  /\ Flushed(s, n).indention = s.indention /\ Flushed(s, n).err \in {"nil", "bad", "write"}
         /\ Flushed(s, n).buf \in Texts /\ taken \in Texts
         /\ Flushed(s, n).err = "nil" => taken = s.buf /\ Flushed(s, n).buf = <<>>
<1>1. n \in 0..Len(s.buf) /\ Len(s.buf) \in Nat /\ <<>> \in Texts
  <2>1. Len(s.buf) \in Nat
    BY ConcatTexts
  <2> QED BY <2>1, ConcatTexts
<1>2. taken \in Texts
  <2> DEFINE b == s.buf
  <2> HIDE DEF b
  <2>1. b \in Texts /\ n \in 0..Len(b) /\ taken = SubSeq(b, 1, n)
    BY <1>1 DEF b
  <2> QED BY <2>1, CutText
<1>3. n = Len(s.buf) => taken = s.buf
  BY DEF Texts
<1>4. /\ Flushed(s, n).indention = s.indention
      /\ Flushed(s, n).err = (IF s.err # "nil" THEN s.err ELSE IF n # Len(s.buf) THEN "write" ELSE s.err)
      /\ Flushed(s, n).buf = (IF s.err = "nil" /\ n = Len(s.buf) THEN <<>> ELSE s.buf)
  BY DEF Flushed, IsStream
<1> QED BY <1>1, <1>2, <1>3, <1>4 DEF IsStream

LEMMA EncodeReturnsText == ASSUME TextInv, NEW g \in Goroutines, EncodeReturns(g) PROVE TextInv'
<1> DEFINE s == Put(streams[g], <<"\n">>)
           q == sent[g]
           v == call[g].val
           pre == Earlier(g)
           nl == <<"\n">>
<1>1. PICK n \in IF s.err = "nil" THEN Taken(g, Len(s.buf)) ELSE {0} :
        /\ streams' = [streams EXCEPT ![g] = Flushed(s, n)]
        /\ written' = [written EXCEPT ![g] = @ \o SubSeq(s.buf, 1, n)]
        /\ sent' = [sent EXCEPT ![g][Len(sent[g])].err = Flushed(s, n).err]
  BY DEF EncodeReturns
<1>2. /\ call[g].name = "Encode" /\ stack[g] = <<>> /\ call' = [call EXCEPT ![g] = NoCall]
      /\ UNCHANGED <<step, pool, stack, result>> /\ Inv'
  BY EncodeReturnsInv DEF EncodeReturns, TextInv
<1>3. /\ Inv /\ Delivers(g) /\ step \in Nat /\ IsCall(g) /\ IsSent(step, q)
      /\ g \in Made /\ HasWriter(g) /\ IsStream(streams[g]) /\ streams[g].buf \in Texts
      /\ written[g] \in Texts /\ DOMAIN written = Goroutines /\ DOMAIN result = Goroutines
      /\ DOMAIN sent = Goroutines /\ DOMAIN call = Goroutines
  BY RestFacts DEF Inv
<1> DEFINE t == Flushed(s, n)
           e == t.err
           taken == SubSeq(s.buf, 1, n)
           r == sent'[g]
           T == Text(step)[v][0]
<1>4. call[g].stream = g /\ ~Idle(g) /\ nl \in Texts
  BY <1>2, <1>3, MarksAreLetters DEF IsCall, Idle, Marks
<1>5. s.buf = streams[g].buf \o nl /\ s.err = streams[g].err /\ s.indention = streams[g].indention /\ IsStream(s)
      /\ s.buf \in Texts
  <2>1. s.buf = streams[g].buf \o nl /\ s.err = streams[g].err /\ s.indention = streams[g].indention /\ IsStream(s)
    BY <1>3, PutText
  <2>2. streams[g].buf \o nl \in Texts
    BY <1>3, <1>4, ConcatTexts
  <2> QED BY <2>1, <2>2
<1> HIDE DEF s
<1>6. /\ t.indention = s.indention /\ e \in {"nil", "bad", "write"} /\ t.buf \in Texts /\ taken \in Texts
      /\ e = "nil" => taken = s.buf /\ t.buf = <<>>
  <2>1. (s.err = "nil" => n \in 0..Len(s.buf)) /\ (s.err # "nil" => n = 0)
    <3>1. Len(s.buf) \in Nat
      BY <1>5, ConcatTexts
    <3> QED BY <1>1, <1>3, <3>1 DEF Taken
  <2> QED BY <1>5, <2>1, FlushedText
<1>7. /\ pre \in Texts /\ v \in Nodes /\ v \in Values[step] /\ Len(q) \in Nat
      /\ Lines(step, q)[Len(q)] = pre \o (T \o nl)
  BY <1>2, <1>4, LinesText
<1>8. T \in Texts
  BY <1>3, <1>7, TextOfParts
<1>9. LastIs(q, v)
  BY <1>2, <1>3 DEF Delivers, LastIs
<1>10. HasError(q, e, r) /\ e \in Errors
  BY <1>1, <1>3, <1>6 DEF HasError, Errors
<1>11. /\ streams'[g] = t /\ written'[g] = written[g] \o taken /\ Made' = Made
       /\ DOMAIN written' = Goroutines /\ call'[g] = NoCall
       /\ \A id \in Made : id # g => streams'[id] = streams[id]
       /\ \A h \in Goroutines \ {g} : written'[h] = written[h] /\ sent'[h] = sent[h] /\ call'[h] = call[h]
  BY <1>1, <1>2, <1>3 DEF Made
<1> HIDE DEF t, taken
<1>12. written'[g] \in Texts
  <2>1. written[g] \o taken \in Texts
    BY <1>3, <1>6, ConcatTexts
  <2> QED BY <1>11, <2>1
<1>13. Finished(step, v, Starts(pre), Outputs[g])
  BY <1>2, <1>3, <1>4 DEF Delivers, Encodes
<1>14. /\ IsSent(step, r) /\ Len(r) = Len(q)
       /\ Clean(r) => Clean(q) /\ e \in {"nil", "running"} /\ ~Bad(v)
       /\ Lines(step, r)[Len(q)] = Lines(step, q)[Len(q)]
  <2> HIDE DEF q, e, r, v
  <2> QED BY <1>3, <1>9, <1>10, SentResult
<1>15. streams[g].indention = 0 /\ (Clean(q) => written[g] \o streams[g].buf = pre \o T)
  <2>1. /\ Outputs[g].text = written[g] \o streams[g].buf /\ Outputs[g].indention = streams[g].indention
        /\ Outputs[g].known <=> Clean(q)
    BY <1>3, OutputIs
  <2>2. Starts(pre).pre = pre /\ Starts(pre).ind = 0
    BY DEF Starts
  <2> HIDE DEF pre, v
  <2> QED BY <1>13, <2>1, <2>2 DEF Finished
<1>16. ASSUME Clean(r) PROVE written'[g] = Lines(step, r)[Len(r)] /\ t.err = "nil" /\ t.buf = <<>>
  <2>1. e = "nil" /\ Clean(q)
    BY <1>6, <1>14, <1>16
  <2>2. taken = s.buf /\ t.buf = <<>>
    BY <1>6, <2>1
  <2> DEFINE a == written[g]
             b == streams[g].buf
  <2>3. a \in Texts /\ b \in Texts /\ a \o b = pre \o T /\ written'[g] = a \o (b \o nl)
    BY <1>3, <1>5, <1>11, <1>15, <2>1, <2>2
  <2>4. Lines(step, r)[Len(r)] = pre \o (T \o nl)
    BY <1>7, <1>14
  <2> HIDE DEF a, b, nl, T, pre
  <2>5. a \o (b \o nl) = (a \o b) \o nl
    BY <1>4, <2>3, ConcatTexts
  <2>6. pre \o (T \o nl) = (pre \o T) \o nl
    BY <1>4, <1>7, <1>8, ConcatTexts
  <2> QED BY <2>1, <2>2, <2>3, <2>4, <2>5, <2>6
<1>17. Rests(g)'
  <2>1. streams'[g].indention = 0
    BY <1>5, <1>6, <1>11, <1>15
  <2>2. Clean(r) => streams'[g].err = "nil" /\ streams'[g].buf = <<>> /\ written'[g] = Lines(step', r)[Len(r)]
    BY <1>2, <1>11, <1>16
  <2> QED BY <2>1, <2>2 DEF Rests
<1>18. HasBeginning(g)'
  <2>1. IsPrefixOf(written'[g], written'[g])
    BY <1>12, Beginnings
  <2>2. Clean(r) => IsPrefixOf(written'[g], Lines(step', r)[Len(r)])
    BY <1>2, <1>16, <2>1
  <2> QED BY <2>2 DEF HasBeginning
<1>19. Delivers(g)'
  <2>1. call'[g].name = "none" /\ Idle(g)'
    BY <1>11 DEF NoCall, Idle
  <2>2. result'[g] # None => HasResult(step', result'[g])
    BY <1>2, <1>3 DEF Delivers
  <2> QED BY <1>17, <1>18, <2>1, <2>2 DEF Delivers
<1>20. \A id \in Made' : \/ id \in Made /\ streams'[id] = streams[id]
                         \/ streams'[id].buf \in Texts /\ (step = 0 => streams'[id].indention = 0)
  BY <1>5, <1>6, <1>11, <1>15
<1>21. \A id \in pool' : id \in pool /\ streams'[id] = streams[id]
  <2>1. pool \subseteq Made /\ g \notin pool
    BY <1>3, ValuesAssumption DEF Inv, PoolBalance
  <2> QED BY <1>2, <1>11, <2>1
<1> QED BY <1>2, <1>3, <1>11, <1>12, <1>19, <1>20, <1>21, TextStepOfOne

LEMMA PanicText == ASSUME TextInv, NEW g \in Goroutines, Panic(g) PROVE TextInv'
<1> DEFINE q == sent[g]
           r == sent'[g]
           v == call[g].val
<1>1. /\ Encoding(g, {"panic"}) /\ Inv'
      /\ streams' = [id \in Made \ Subs(g) |-> IF id \in InUse(g) THEN Returned(streams[id]) ELSE streams[id]]
      /\ pool' = pool \cup (InUse(g) \ Subs(g))
      /\ stack' = [stack EXCEPT ![g] = <<>>] /\ call' = [call EXCEPT ![g] = NoCall]
      /\ sent' = IF call[g].name = "Encode" THEN [sent EXCEPT ![g][Len(sent[g])].err = "panic"] ELSE sent
      /\ UNCHANGED <<step, result, written>>
  BY PanicInv DEF Panic, TextInv
<1>2. stack[g] # <<>> /\ Top(g).val.kind = "panic"
  BY <1>1 DEF Encoding
<1>3. /\ Inv /\ Delivers(g) /\ step \in Nat /\ IsCall(g) /\ IsSent(step, q)
      /\ g \in Made /\ HasWriter(g)
      /\ written[g] \in Texts /\ DOMAIN written = Goroutines /\ DOMAIN result = Goroutines
      /\ DOMAIN sent = Goroutines /\ DOMAIN call = Goroutines
  BY RestFacts DEF Inv
<1>4. step = 0
  <2>1. GoodFrame(step, Top(g))
    BY <1>2, CallFacts
  <2>2. Top(g).val \in Nodes /\ (step # 0 => Indents(Top(g).val))
    BY <2>1 DEF GoodFrame
  <2> QED BY <1>2, <2>2, IndentsOfParts
<1>5. /\ InUse(g) \subseteq StreamIds /\ InUse(g) \subseteq Made /\ Subs(g) \subseteq InUse(g)
      /\ Subs(g) \subseteq Held(g) /\ InUse(g) \subseteq Held(g) /\ g \notin InUse(g)
  <2>1. InUse(g) \subseteq StreamIds /\ InUse(g) \subseteq Made
    BY <1>3, InUseFacts
  <2>2. InUse(g) \subseteq Held(g) /\ Subs(g) \subseteq InUse(g) /\ Subs(g) \subseteq Held(g)
    BY DEF InUse, Held
  <2> QED BY <2>1, <2>2, ValuesAssumption
<1>6. /\ Made' = Made \ Subs(g)
      /\ \A id \in Made' : streams'[id] = IF id \in InUse(g) THEN Returned(streams[id]) ELSE streams[id]
  BY <1>1 DEF Made
<1>7. ASSUME NEW id \in Made
      PROVE  /\ Returned(streams[id]).buf = streams[id].buf /\ Returned(streams[id]).err = "nil"
             /\ Returned(streams[id]).indention = 0 /\ streams[id].buf \in Texts
  BY <1>3, <1>4 DEF TextInv, Inv, IsStream, Returned
<1>8. /\ call'[g] = NoCall
      /\ \A h \in Goroutines \ {g} : stack'[h] = stack[h] /\ call'[h] = call[h] /\ sent'[h] = sent[h]
  BY <1>1, <1>3 DEF Inv
<1>9. g \in Made' /\ streams'[g] = streams[g]
  BY <1>3, <1>5, <1>6
<1>10. Rests(g)' /\ HasBeginning(g)'
  <2>1. CASE call[g].name = "Encode"
    <3>1. ~Clean(r)
      <4>1. LastIs(q, v) /\ HasError(q, "panic", r) /\ "panic" \in Errors
        BY <1>1, <1>3, <2>1 DEF Delivers, LastIs, HasError, Errors
      <4>2. Clean(r) => "panic" \in {"nil", "running"}
        <5> HIDE DEF q, r, v
        <5> QED BY <1>3, <4>1, SentResult
      <4> QED BY <4>2
    <3>2. streams'[g].indention = 0
      BY <1>3, <1>4, <1>9 DEF TextInv
    <3> QED BY <3>1, <3>2 DEF Rests, HasBeginning
  <2>2. CASE call[g].name # "Encode"
    <3>1. Rests(g) /\ sent' = sent
      BY <1>1, <1>3, <2>2 DEF Delivers
    <3>2. HasBeginning(g)'
      BY <1>1, <3>1, BeginningKept
    <3> QED BY <1>1, <1>9, <3>1, <3>2 DEF Rests
  <2> QED BY <2>1, <2>2
<1>11. Delivers(g)'
  <2>1. call'[g].name = "none" /\ Idle(g)'
    BY <1>8 DEF NoCall, Idle
  <2>2. result'[g] # None => HasResult(step', result'[g])
    BY <1>1, <1>3 DEF Delivers
  <2> QED BY <1>10, <2>1, <2>2 DEF Delivers
<1>12. \A id \in Made' : \/ id \in Made /\ streams'[id] = streams[id]
                         \/ streams'[id].buf \in Texts /\ (step = 0 => streams'[id].indention = 0)
  BY <1>6, <1>7
<1>13. \A id \in pool' : \/ id \in pool /\ streams'[id] = streams[id]
                         \/ streams'[id].indention = 0 /\ streams'[id].err = "nil"
  <2>1. pool \subseteq Made /\ InUse(g) \cap pool = {}
    BY <1>3, InUseFacts DEF Inv, PoolBalance
  <2>2. ASSUME NEW id \in pool PROVE streams'[id] = streams[id]
    <3>1. id \in Made /\ id \notin InUse(g) /\ id \in Made'
      BY <1>5, <1>6, <2>1, <2>2
    <3> QED BY <1>6, <3>1
  <2>3. ASSUME NEW id \in InUse(g) \ Subs(g) PROVE streams'[id].indention = 0 /\ streams'[id].err = "nil"
    <3>1. id \in Made /\ id \in Made'
      BY <1>5, <1>6
    <3> QED BY <1>6, <1>7, <3>1
  <2> QED BY <1>1, <2>2, <2>3
<1>14. \A id \in Made : id \notin Held(g) /\ id \notin CanBorrow /\ id # g => id \in Made' /\ streams'[id] = streams[id]
  <2>1. \A id \in Made : id \notin Held(g) => id \in Made' /\ id \notin InUse(g)
    BY <1>5, <1>6
  <2> QED BY <1>6, <2>1
<1> QED BY <1>1, <1>3, <1>8, <1>11, <1>12, <1>13, <1>14, TextStepOfOne

----------------------------------------------------------------------------
(* The theorems.                                                           *)

LEMMA InitText == PlainlyIndented /\ Init => TextInv
<1> SUFFICES ASSUME PlainlyIndented, Init PROVE TextInv
  OBVIOUS
<1>1. Inv
  BY InitInv
<1>2. /\ step \in Steps /\ pool = {} /\ DOMAIN written = Goroutines /\ DOMAIN result = Goroutines
      /\ Made = Goroutines
  BY DEF Init, Made
<1>3. \A id \in Made : streams[id].buf = <<>> /\ streams[id].err = "nil" /\ streams[id].indention = 0
  BY <1>2 DEF Init, NewStream
<1>4. <<>> \in Texts
  BY ConcatTexts
<1>5. ASSUME NEW g \in Goroutines PROVE written[g] \in Texts /\ Delivers(g)
  <2>1. /\ result[g] = None /\ sent[g] = <<>> /\ written[g] = <<>>
        /\ call[g].name = "none" /\ Idle(g) /\ g \in Made
    BY <1>2 DEF Init, NoCall, Idle
  <2>2. Lines(step, sent[g])[Len(sent[g])] = <<>>
    <3>1. IsSent(step, <<>>) /\ Len(<<>>) = 0
      BY <1>2 DEF IsSent
    <3>2. Lines(step, <<>>)[0] = <<>>
      BY <3>1, LinesAre
    <3> QED BY <2>1, <3>1, <3>2
  <2>3. Rests(g)
    BY <1>3, <2>1, <2>2 DEF Rests
  <2>4. HasBeginning(g)
    <3>1. IsPrefixOf(<<>>, <<>>)
      BY <1>4, Beginnings
    <3> QED BY <2>1, <2>2, <3>1 DEF HasBeginning
  <2> QED BY <1>4, <2>1, <2>3, <2>4 DEF Delivers
<1>6. step # 0 => \A v \in Values[step] : Indents(v)
  BY <1>2 DEF PlainlyIndented
<1> QED BY <1>1, <1>2, <1>3, <1>4, <1>5, <1>6 DEF TextInv

LEMMA NextText == TextInv /\ [Next]_vars => TextInv'
<1>1. ASSUME TextInv, UNCHANGED vars PROVE TextInv'
  <2>1. /\ UNCHANGED <<step, streams, pool, stack, call, result, sent, written>>
        /\ Inv'
    BY <1>1, NextInv DEF vars, TextInv
  <2>2. Made' = Made /\ Outputs' = Outputs
    BY <2>1 DEF Made, Outputs
  <2>3. ASSUME NEW g \in Goroutines PROVE Delivers(g)'
    <3>1. Delivers(g)
      BY <1>1 DEF TextInv
    <3>2. Earlier(g)' = Earlier(g) /\ (Idle(g)' <=> Idle(g)) /\ (Rests(g)' <=> Rests(g))
          /\ (HasBeginning(g)' <=> HasBeginning(g))
      BY <2>1 DEF Earlier, Idle, Rests, HasBeginning
    <3>3. Encodes(g)' <=> Encodes(g)
      BY <2>1, <2>2, <3>2 DEF Encodes
    <3> QED BY <2>1, <3>1, <3>2, <3>3 DEF Delivers
  <2> QED BY <1>1, <2>1, <2>2, <2>3 DEF TextInv
<1>2. ASSUME TextInv, NEW g \in Goroutines, Run(g) PROVE TextInv'
  BY <1>2, EncodeScalarText, EncodeBadText, EncodeMarshalerText, EncodePartText, EncodeEndText,
     MapStartText, MapMemberText, MapSortText, MapWriteText, MapEndText,
     MarshalReturnsText, PanicText, EncodeReturnsText DEF Run
<1>3. ASSUME TextInv, NEW g \in Goroutines, NEW v \in Values[step], Marshal(g, v) \/ Encode(g, v) PROVE TextInv'
  BY <1>3, MarshalText, EncodeText
<1> QED BY <1>1, <1>2, <1>3 DEF Next

\* What Marshal returns is the text of its value, with the settings of the
\* configuration, and stays so whatever other goroutines and later calls do with
\* the stream it came from: the copy at config.go:306 is made before ReturnStream;
\* a call fails exactly when a part of its value cannot be encoded, and no error
\* is left on the stream for the next one (pool.go:25).
THEOREM MarshalledIsText == PlainlyIndented => (Spec => []MarshalIsText)
<1> SUFFICES ASSUME PlainlyIndented PROVE Spec => []MarshalIsText
  OBVIOUS
<1>1. Init => TextInv
  BY InitText
<1> QED BY <1>1, NextText, TextInvImplies, PTL DEF Spec

\* As long as no call of Encode fails, what the writer has taken is a
\* beginning of the lines of its values, and all of them between calls: whatever
\* part of the bytes it takes and however often it fails, nothing is written
\* twice and nothing is left out (stream.go:67, 99, reflect_map.go:325).
THEOREM WriterTakesLines == PlainlyIndented => (Spec => []WriterGetsLines)
<1> SUFFICES ASSUME PlainlyIndented PROVE Spec => []WriterGetsLines
  OBVIOUS
<1>1. Init => TextInv
  BY InitText
<1> QED BY <1>1, NextText, TextInvImplies, PTL DEF Spec
=============================================================================
