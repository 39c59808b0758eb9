----------------------------- MODULE DataLemmas -----------------------------
(* Lemmas about numbers, functions and sequences that the proofs of        *)
(* several components need.  Induction is stated with a set in place of a  *)
(* predicate, and recursion with functions in place of operators, so that  *)
(* each can be cited where it is needed.                                   *)
EXTENDS Integers, Sequences, FiniteSets, FiniteSetTheorems, SequenceTheorems, WellFoundedInduction, TLAPS

Less == {pair \in Nat \X Nat : pair[1] < pair[2]}

LEMMA LessIsWellFounded == IsWellFoundedOn(Less, Nat)
BY NatLessThanWellFounded DEF OpToRel, Less

\* A set of natural numbers has a least element.
LEMMA LeastNumber ==
  ASSUME NEW T \in SUBSET Nat, T # {}
  PROVE  \E m \in T : \A n \in T : m <= n
<1>1. PICK m \in T : \A n \in T : ~(<<n, m>> \in Less)
  BY LessIsWellFounded, WFMin
<1>2. \A n \in T : ~(n < m)
  BY <1>1 DEF Less
<1> QED BY <1>2

\* Induction: a set that has 0 and the successor of each of its numbers.
LEMMA Induction ==
  ASSUME NEW S, 0 \in S, \A n \in Nat : n \in S => n + 1 \in S
  PROVE  Nat \subseteq S
<1>1. SUFFICES ASSUME Nat \ S # {} PROVE FALSE
  OBVIOUS
<1>2. PICK m \in Nat \ S : \A n \in Nat \ S : m <= n
  BY <1>1, LeastNumber
<1>3. m - 1 \in Nat /\ m - 1 \in S
  BY <1>2
<1> QED BY <1>2, <1>3

\* Induction over a set of numbers where every number comes after the others.
LEMMA StrongInduction ==
  ASSUME NEW D \in SUBSET Nat, NEW S,
         \A n \in D : (\A k \in D : k < n => k \in S) => n \in S
  PROVE  D \subseteq S
<1>1. SUFFICES ASSUME D \ S # {} PROVE FALSE
  OBVIOUS
<1>2. PICK m \in D \ S : \A n \in D \ S : m <= n
  BY <1>1, LeastNumber
<1>3. \A k \in D : k < m => k \in S
  BY <1>2
<1> QED BY <1>2, <1>3

\* Induction up to a bound.
LEMMA BoundedInduction ==
  ASSUME NEW n \in Nat, NEW S, 0 \in S, \A k \in 0..(n - 1) : k \in S => k + 1 \in S
  PROVE  0..n \subseteq S
<1> DEFINE T == {k \in Nat : k <= n => k \in S}
<1>1. 0 \in T /\ \A k \in Nat : k \in T => k + 1 \in T
  <2>1. ASSUME NEW k \in Nat, k \in T, k + 1 <= n PROVE k + 1 \in S
    <3>1. k \in 0..(n - 1) /\ k \in S
      BY <2>1
    <3> QED BY <3>1
  <2> QED BY <2>1
<1>2. Nat \subseteq T
  <2> HIDE DEF T
  <2> QED BY <1>1, Induction
<1> QED BY <1>2

\* A nonempty bounded set of natural numbers has a greatest element.
LEMMA GreatestNumber ==
  ASSUME NEW n \in Nat, NEW T \in SUBSET (0..n), T # {}
  PROVE  \E m \in T : \A k \in T : k <= m
<1> DEFINE U == {n - k : k \in T}
<1>1. U \in SUBSET Nat /\ U # {}
  <2>1. \A k \in T : n - k \in Nat
    OBVIOUS
  <2>2. U \in SUBSET Nat
    BY <2>1
  <2>3. PICK k \in T : TRUE
    OBVIOUS
  <2>4. n - k \in U
    BY <2>3
  <2> QED BY <2>2, <2>4
<1>2. PICK u \in U : \A k \in U : u <= k
  <2> HIDE DEF U
  <2> QED BY <1>1, LeastNumber
<1>3. PICK m \in T : u = n - m
  BY <1>2
<1>4. ASSUME NEW k \in T PROVE k <= m
  <2>1. u <= n - k
    BY <1>2
  <2> QED BY <1>3, <2>1
<1> QED BY <1>4

\* A recursive definition over numbers: f[n] is b[n] for n in B, and else h of
\* f at an earlier number p[n].
Recursive(f, D, B, b, p, h) ==
  \A n \in D : f[n] = IF n \in B THEN b[n] ELSE h[<<f[p[n]], n>>]

LEMMA RecursionUnique ==
  ASSUME NEW D \in SUBSET Nat, NEW B, NEW b, NEW p, NEW h,
         \A n \in D \ B : p[n] \in D /\ p[n] < n,
         NEW f, NEW g, Recursive(f, D, B, b, p, h), Recursive(g, D, B, b, p, h)
  PROVE  \A n \in D : f[n] = g[n]
<1> DEFINE Same == {n \in D : f[n] = g[n]}
<1>1. ASSUME NEW n \in D, \A k \in D : k < n => k \in Same PROVE n \in Same
  <2>1. CASE n \in B
    BY <2>1 DEF Recursive
  <2>2. CASE n \notin B
    <3>1. f[p[n]] = g[p[n]]
      BY <1>1, <2>2
    <3> QED BY <2>2, <3>1 DEF Recursive
  <2> QED BY <2>1, <2>2
<1>2. D \subseteq Same
  <2> HIDE DEF Same
  <2> QED BY <1>1, StrongInduction
<1> QED BY <1>2

LEMMA RecursionExists ==
  ASSUME NEW S, NEW D \in SUBSET Nat, NEW B, NEW b, NEW p, NEW h \in [S \X D -> S],
         \A n \in D \cap B : b[n] \in S,
         \A n \in D \ B : p[n] \in D /\ p[n] < n
  PROVE  \E f \in [D -> S] : Recursive(f, D, B, b, p, h)
<1> DEFINE To(n) == {k \in D : k <= n}
           Upto(n) == {g \in [To(n) -> S] : Recursive(g, To(n), B, b, p, h)}
<1>0. \A n \in D : n \in Nat
  OBVIOUS
<1>a. ASSUME NEW n \in D PROVE n \in To(n) /\ To(n) \in SUBSET Nat
  <2>1. n \in Nat /\ n <= n
    BY <1>0
  <2> QED BY <1>0, <2>1
<1>b. ASSUME NEW m \in D, NEW n \in D, m <= n, NEW k \in To(m) PROVE k \in To(n)
  BY <1>0, <1>b
<1>c. ASSUME NEW n \in D, NEW k \in To(n), k \notin B
      PROVE  p[k] \in D /\ k \in D /\ p[k] \in To(n) /\ p[k] < k /\ p[k] <= k /\ k <= n /\ p[k] <= n
  <2>1. k \in D /\ p[k] \in D /\ p[k] < k /\ k <= n /\ k \in Nat /\ p[k] \in Nat /\ n \in Nat
    BY <1>0, <1>c
  <2> QED BY <2>1
<1>1. ASSUME NEW m \in D, NEW n \in D, m <= n, NEW g \in Upto(m), NEW e \in Upto(n)
      PROVE  g[m] = e[m]
  <2>1. Recursive(g, To(m), B, b, p, h) /\ Recursive(e, To(m), B, b, p, h)
    <3> HIDE DEF To
    <3> QED BY <1>b, <1>1 DEF Recursive
  <2>2. \A k \in To(m) \ B : p[k] \in To(m) /\ p[k] < k
    <3> HIDE DEF To
    <3> QED BY <1>c
  <2>3. To(m) \in SUBSET Nat /\ m \in To(m)
    BY <1>a
  <2> HIDE DEF To, Upto
  <2>4. \A k \in To(m) : g[k] = e[k]
    BY <2>1, <2>2, <2>3, RecursionUnique
  <2> QED BY <2>3, <2>4
<1>2. \A n \in D : Upto(n) # {}
  <2> DEFINE Some == {n \in D : Upto(n) # {}}
  <2>1. ASSUME NEW n \in D, \A k \in D : k < n => k \in Some PROVE n \in Some
    <3> DEFINE pick == [k \in D |-> CHOOSE g \in Upto(k) : TRUE]
               e == [k \in To(n) |-> IF k < n THEN pick[k][k]
                                     ELSE IF n \in B THEN b[n] ELSE h[<<pick[p[n]][p[n]], n>>]]
    <3>1. ASSUME NEW k \in D, k < n PROVE pick[k] \in Upto(k)
      <4> HIDE DEF Upto
      <4>1. Upto(k) # {}
        BY <2>1, <3>1
      <4> QED BY <4>1
    <3> HIDE DEF pick
    <3>2. ASSUME NEW k \in D, k < n PROVE pick[k][k] \in S /\ k \in To(k)
      <4> HIDE DEF To
      <4> QED BY <1>a, <3>1, <3>2
    <3>3. n \notin B => p[n] \in D /\ p[n] < n /\ pick[p[n]][p[n]] \in S
      BY <3>2
    <3>4. n \notin B => h[<<pick[p[n]][p[n]], n>>] \in S
      BY <3>3
    <3>5. \A k \in To(n) : k < n => pick[k][k] \in S
      BY <3>2
    <3>6. e \in [To(n) -> S]
      BY <3>4, <3>5
    <3>7. ASSUME NEW k \in To(n) PROVE e[k] = IF k \in B THEN b[k] ELSE h[<<e[p[k]], k>>]
      <4>1. CASE k = n
        <5>1. CASE n \in B
          <6>1. n \in To(n) /\ ~(n < n)
            <7> HIDE DEF To
            <7> QED BY <1>0, <1>a
          <6> HIDE DEF To
          <6> QED BY <4>1, <5>1, <6>1
        <5>2. CASE n \notin B
          <6>1. p[n] \in To(n) /\ p[n] < n
            <7> HIDE DEF To
            <7> QED BY <1>a, <1>c, <5>2
          <6>2. e[p[n]] = pick[p[n]][p[n]] /\ e[n] = h[<<pick[p[n]][p[n]], n>>]
            <7> HIDE DEF To
            <7>1. n \in To(n) /\ ~(n < n)
              BY <1>0, <1>a
            <7> QED BY <6>1, <5>2, <7>1
          <6> QED BY <4>1, <5>2, <6>2
        <5> QED BY <5>1, <5>2
      <4>2. CASE k # n
        <5>1. k \in D /\ k < n /\ e[k] = pick[k][k] /\ pick[k] \in Upto(k) /\ k \in To(k)
          <6>1. k \in D /\ k \in Nat /\ n \in Nat /\ k <= n
            BY <1>0
          <6>2. k < n
            BY <4>2, <6>1
          <6> HIDE DEF To, Upto
          <6> QED BY <1>a, <3>1, <6>1, <6>2
        <5>2. pick[k][k] = IF k \in B THEN b[k] ELSE h[<<pick[k][p[k]], k>>]
          BY <5>1 DEF Recursive
        <5>3. CASE k \notin B
          <6>1. p[k] \in To(n) /\ p[k] < n /\ p[k] \in D /\ p[k] <= k
            <7>1. p[k] \in To(n) /\ p[k] < k /\ p[k] \in D /\ p[k] <= k
              <8> HIDE DEF To
              <8> QED BY <1>c, <5>3
            <7>2. p[k] \in Nat /\ k \in Nat /\ n \in Nat
              BY <1>0, <5>1, <7>1
            <7> QED BY <5>1, <7>1, <7>2
          <6>2. e[p[k]] = pick[p[k]][p[k]] /\ pick[p[k]] \in Upto(p[k])
            BY <3>1, <6>1
          <6>3. pick[p[k]][p[k]] = pick[k][p[k]]
            <7> HIDE DEF Upto, To, e
            <7> QED BY <1>1, <5>1, <6>1, <6>2
          <6> HIDE DEF Upto, To, e
          <6> QED BY <5>1, <5>2, <6>2, <6>3
        <5> QED BY <5>1, <5>2, <5>3
      <4> QED BY <4>1, <4>2
    <3>8. e \in Upto(n)
      <4> HIDE DEF e, To
      <4> QED BY <3>6, <3>7 DEF Recursive
    <3> QED BY <3>8
  <2>2. D \subseteq Some
    <3> HIDE DEF Some
    <3> QED BY <2>1, StrongInduction
  <2> QED BY <2>2
<1> DEFINE pick == [n \in D |-> CHOOSE g \in Upto(n) : TRUE]
           f == [n \in D |-> pick[n][n]]
<1>3. \A n \in D : pick[n] \in Upto(n)
  <2> HIDE DEF Upto
  <2> QED BY <1>2
<1> HIDE DEF pick
<1>4. ASSUME NEW n \in D PROVE f[n] \in S /\ f[n] = IF n \in B THEN b[n] ELSE h[<<f[p[n]], n>>]
  <2>1. n \in To(n) /\ pick[n] \in [To(n) -> S] /\ f[n] = pick[n][n]
    BY <1>3
  <2>2. pick[n][n] = IF n \in B THEN b[n] ELSE h[<<pick[n][p[n]], n>>]
    BY <1>3, <2>1 DEF Recursive
  <2>3. CASE n \notin B
    <3>1. p[n] \in D /\ p[n] <= n /\ f[p[n]] = pick[p[n]][p[n]]
      <4>1. p[n] \in D /\ p[n] <= n
        <5> HIDE DEF To, f
        <5> QED BY <1>a, <1>c, <2>3
      <4> QED BY <4>1
    <3>2. pick[p[n]][p[n]] = pick[n][p[n]]
      <4> HIDE DEF Upto, To, f
      <4> QED BY <1>1, <1>3, <3>1
    <3> HIDE DEF f, To
    <3> QED BY <2>1, <2>2, <3>1, <3>2
  <2> QED BY <2>1, <2>2, <2>3
<1>5. f \in [D -> S]
  BY <1>4
<1>6. Recursive(f, D, B, b, p, h)
  <2> HIDE DEF f
  <2> QED BY <1>4 DEF Recursive
<1> QED
  <2> HIDE DEF f
  <2> QED BY <1>5, <1>6
\* The usual recursion: from the number before.
Iterates(f, D, b, h) == f[0] = b /\ \A k \in D \ {0} : f[k] = h[<<f[k - 1], k>>]

LEMMA Iteration ==
  ASSUME NEW S, NEW n \in Nat, NEW b \in S, NEW h \in [S \X (0..n) -> S]
  PROVE  \E f \in [0..n -> S] : Iterates(f, 0..n, b, h)
<1> DEFINE base == [k \in {0} |-> b]
           p == [k \in 0..n |-> k - 1]
<1>1. 0..n \in SUBSET Nat /\ (\A k \in (0..n) \cap {0} : base[k] \in S)
      /\ \A k \in (0..n) \ {0} : p[k] \in 0..n /\ p[k] < k
  OBVIOUS
<1>2. \E f \in [0..n -> S] : Recursive(f, 0..n, {0}, base, p, h)
  <2> HIDE DEF base, p
  <2> QED BY <1>1, RecursionExists
<1>3. PICK f \in [0..n -> S] : Recursive(f, 0..n, {0}, base, p, h)
  BY <1>2
<1>4. Iterates(f, 0..n, b, h)
  <2>1. 0 \in 0..n /\ 0 \in {0}
    OBVIOUS
  <2> QED BY <1>3, <2>1 DEF Recursive, Iterates
<1> QED BY <1>4

\* The same over all natural numbers.
LEMMA NatIteration ==
  ASSUME NEW S, NEW b \in S, NEW h \in [S \X Nat -> S]
  PROVE  \E f \in [Nat -> S] : Iterates(f, Nat, b, h)
<1> DEFINE base == [k \in {0} |-> b]
           p == [k \in Nat |-> k - 1]
<1>1. (\A k \in Nat \cap {0} : base[k] \in S) /\ \A k \in Nat \ {0} : p[k] \in Nat /\ p[k] < k
  OBVIOUS
<1>2. \E f \in [Nat -> S] : Recursive(f, Nat, {0}, base, p, h)
  <2> HIDE DEF base, p
  <2> QED BY <1>1, RecursionExists
<1>3. PICK f \in [Nat -> S] : Recursive(f, Nat, {0}, base, p, h)
  BY <1>2
<1>4. Iterates(f, Nat, b, h)
  BY <1>3 DEF Recursive, Iterates
<1> QED BY <1>4

\* Recursion over trees: h gives the value at a node from the values at the nodes
\* that are less deep.
IsTreeRule(h, X, N, depth) ==
  /\ depth \in [N -> Nat] /\ h \in [[N -> X] \X N -> X]
  /\ \A e, f \in [N -> X] : \A v \in N :
       (\A u \in N : depth[u] < depth[v] => e[u] = f[u]) => h[<<e, v>>] = h[<<f, v>>]
Solves(f, h, X, N) == f \in [N -> X] /\ \A v \in N : f[v] = h[<<f, v>>]

LEMMA TreeRecursion ==
  ASSUME NEW X, NEW x0 \in X, NEW N, NEW depth, NEW h, IsTreeRule(h, X, N, depth)
  PROVE  \E f : Solves(f, h, X, N)
<1> USE DEF IsTreeRule
<1> DEFINE F == [N -> X]
           zero == [v \in N |-> x0]
           next == [p \in F \X Nat |-> [v \in N |-> h[<<p[1], v>>]]]
<1>1. zero \in F /\ next \in [F \X Nat -> F]
  <2>1. zero \in F
    OBVIOUS
  <2>2. \A e \in F : \A v \in N : h[<<e, v>>] \in X
    OBVIOUS
  <2>3. \A e \in F : [v \in N |-> h[<<e, v>>]] \in F
    BY <2>2
  <2>4. \A p \in F \X Nat : p[1] \in F
    OBVIOUS
  <2> HIDE DEF F
  <2> QED BY <2>1, <2>3, <2>4
<1>2. PICK r \in [Nat -> F] : Iterates(r, Nat, zero, next)
  <2> HIDE DEF F, zero, next
  <2> QED BY <1>1, NatIteration
<1>3. ASSUME NEW k \in Nat PROVE r[k] \in F /\ \A v \in N : r[k + 1][v] = h[<<r[k], v>>]
  <2>1. k + 1 \in Nat \ {0} /\ (k + 1) - 1 = k /\ r[k] \in F
    BY <1>2
  <2>2. r[k + 1] = next[<<r[k], k + 1>>]
    <3> HIDE DEF next, F
    <3> QED BY <1>2, <2>1 DEF Iterates
  <2>3. <<r[k], k + 1>> \in F \X Nat
    BY <2>1
  <2>4. r[k + 1] = [v \in N |-> h[<<r[k], v>>]]
    <3> HIDE DEF F
    <3> QED BY <2>2, <2>3
  <2> QED BY <2>1, <2>4
\* after as many steps as a node is deep, its value is the last
<1> DEFINE Settled == {k \in Nat : \A v \in N : depth[v] < k => r[k + 1][v] = r[k][v]}
<1>4. Nat \subseteq Settled
  <2>1. 0 \in Settled
    OBVIOUS
  <2>2. ASSUME NEW k \in Nat, k \in Settled PROVE k + 1 \in Settled
    <3>1. ASSUME NEW v \in N, depth[v] < k + 1 PROVE r[k + 1 + 1][v] = r[k + 1][v]
      <4>0. k + 1 \in Nat
        OBVIOUS
      <4>1. r[k + 1 + 1][v] = h[<<r[k + 1], v>>] /\ r[k + 1][v] = h[<<r[k], v>>]
            /\ r[k + 1] \in F /\ r[k] \in F
        <5> HIDE DEF F
        <5> QED BY <1>3, <4>0
      <4>2. ASSUME NEW u \in N, depth[u] < depth[v] PROVE r[k + 1][u] = r[k][u]
        <5>1. depth[u] < k
          BY <3>1, <4>2
        <5> QED BY <2>2, <5>1
      <4>3. h[<<r[k + 1], v>>] = h[<<r[k], v>>]
        BY <4>1, <4>2
      <4> QED BY <4>1, <4>3
    <3> QED BY <3>1
  <2> HIDE DEF Settled
  <2> QED BY <2>1, <2>2, Induction
<1> DEFINE f == [v \in N |-> r[depth[v] + 1][v]]
           Same(u) == {k \in Nat : r[depth[u] + 1 + k][u] = f[u]}
<1>5. ASSUME NEW u \in N PROVE Nat \subseteq Same(u)
  <2> DEFINE d == depth[u] + 1
  <2>1. d \in Nat /\ depth[u] < d
    OBVIOUS
  <2>2. 0 \in Same(u)
    <3>1. depth[u] + 1 + 0 = depth[u] + 1
      OBVIOUS
    <3> QED BY <3>1
  <2>3. ASSUME NEW k \in Nat, k \in Same(u) PROVE k + 1 \in Same(u)
    <3>1. d + k \in Settled /\ depth[u] < d + k
      BY <1>4, <2>1
    <3>2. r[d + k + 1][u] = r[d + k][u]
      BY <3>1
    <3>3. d + k + 1 = d + (k + 1)
      BY <2>1
    <3> QED BY <2>3, <3>2, <3>3
  <2> DEFINE S == Same(u)
  <2> HIDE DEF S
  <2>4. 0 \in S /\ \A k \in Nat : k \in S => k + 1 \in S
    BY <2>2, <2>3 DEF S
  <2>5. Nat \subseteq S
    BY <2>4, Induction
  <2> QED BY <2>5 DEF S
<1>6. ASSUME NEW v \in N PROVE f[v] = h[<<f, v>>]
  <2> DEFINE d == depth[v]
  <2>1. d \in Nat /\ f[v] = h[<<r[d], v>>] /\ r[d] \in F
    BY <1>3
  <2>2. ASSUME NEW u \in N, depth[u] < depth[v] PROVE f[u] = r[d][u]
    <3>1. d - (depth[u] + 1) \in Nat /\ depth[u] + 1 + (d - (depth[u] + 1)) = d
      <4>1. depth[u] \in Nat /\ d \in Nat /\ depth[u] < d
        BY <2>2
      <4> HIDE DEF d
      <4> QED BY <4>1
    <3> DEFINE k == d - (depth[u] + 1)
    <3>2. k \in Same(u)
      BY <1>5, <3>1
    <3> QED BY <3>1, <3>2
  <2>3. f \in F
    <3>1. \A u \in N : depth[u] + 1 \in Nat
      OBVIOUS
    <3>2. \A u \in N : r[depth[u] + 1] \in F
      BY <1>3, <3>1
    <3> QED BY <3>2
  <2> HIDE DEF f, d
  <2>4. h[<<f, v>>] = h[<<r[d], v>>]
    BY <2>1, <2>2, <2>3
  <2> QED BY <2>1, <2>4
<1>7. f \in [N -> X]
  <2>1. \A u \in N : depth[u] + 1 \in Nat
    OBVIOUS
  <2>2. \A u \in N : r[depth[u] + 1] \in F
    BY <1>3, <2>1
  <2> QED BY <2>2
<1> HIDE DEF f
<1> QED BY <1>6, <1>7 DEF Solves

----------------------------------------------------------------------------
\* A sequence with an element in front.
LEMMA ConsProperties ==
  ASSUME NEW S, NEW f \in S, NEW s \in Seq(S)
  PROVE  /\ <<f>> \o s \in Seq(S)
         /\ Len(<<f>> \o s) = Len(s) + 1
         /\ <<f>> \o s # <<>>
         /\ (<<f>> \o s)[1] = f
         /\ Head(<<f>> \o s) = f
         /\ \A k \in 2..(Len(s) + 1) : (<<f>> \o s)[k] = s[k - 1]
<1>1. <<f>> \in Seq(S) /\ Len(<<f>>) = 1 /\ <<f>>[1] = f
  OBVIOUS
<1>2. /\ <<f>> \o s \in Seq(S)
      /\ Len(<<f>> \o s) = 1 + Len(s)
      /\ \A i \in 1..(1 + Len(s)) : (<<f>> \o s)[i] = IF i <= 1 THEN <<f>>[i] ELSE s[i - 1]
  BY <1>1, ConcatProperties
<1>3. Len(s) \in Nat
  OBVIOUS
<1>4. Head(<<f>> \o s) = (<<f>> \o s)[1]
  BY <1>2, <1>3
<1> QED BY <1>1, <1>2, <1>3, <1>4

LEMMA ConsHeadTail ==
  ASSUME NEW S, NEW s \in Seq(S), s # <<>>
  PROVE  s = <<Head(s)>> \o Tail(s) /\ Head(s) \in S /\ Tail(s) \in Seq(S)
<1>1. Head(s) \in S /\ Tail(s) \in Seq(S) /\ Len(Tail(s)) = Len(s) - 1
      /\ \A i \in 1..Len(Tail(s)) : Tail(s)[i] = s[i + 1]
      /\ Len(s) \in Nat /\ Len(s) >= 1 /\ Head(s) = s[1]
  BY HeadTailProperties
<1> DEFINE t == <<Head(s)>> \o Tail(s)
<1>2. t \in Seq(S) /\ Len(t) = Len(s) /\ t[1] = s[1] /\ \A k \in 2..Len(s) : t[k] = Tail(s)[k - 1]
  BY <1>1, ConsProperties
<1> HIDE DEF t
<1>3. ASSUME NEW k \in 1..Len(s) PROVE s[k] = t[k]
  <2>1. CASE k = 1
    BY <1>2, <2>1
  <2>2. CASE k # 1
    <3>1. k \in 2..Len(s) /\ k - 1 \in 1..Len(Tail(s)) /\ (k - 1) + 1 = k
      BY <1>1, <2>2
    <3> QED BY <1>1, <1>2, <3>1
  <2> QED BY <2>1, <2>2
<1>4. s = t
  BY <1>2, <1>3, SeqEqual
<1> QED BY <1>1, <1>4 DEF t

LEMMA TailOfCons ==
  ASSUME NEW S, NEW f \in S, NEW s \in Seq(S)
  PROVE  Tail(<<f>> \o s) = s
<1> DEFINE t == <<f>> \o s
<1>1. t \in Seq(S) /\ t # <<>> /\ Len(t) = Len(s) + 1 /\ \A k \in 2..(Len(s) + 1) : t[k] = s[k - 1]
  BY ConsProperties
<1> HIDE DEF t
<1>2. Tail(t) \in Seq(S) /\ Len(Tail(t)) = Len(t) - 1 /\ \A i \in 1..Len(Tail(t)) : Tail(t)[i] = t[i + 1]
  BY <1>1, HeadTailProperties
<1>3. \A i \in 1..Len(s) : Tail(t)[i] = s[i]
  <2>1. \A i \in 1..Len(s) : i + 1 \in 2..(Len(s) + 1) /\ (i + 1) - 1 = i
    OBVIOUS
  <2> QED BY <1>1, <1>2, <2>1
<1>4. Tail(t) = s
  BY <1>1, <1>2, <1>3, SeqEqual
<1> QED BY <1>4 DEF t

LEMMA PairIs ==
  ASSUME NEW a, NEW b
  PROVE  <<a>> \o <<b>> = <<a, b>>
<1> DEFINE T == {a, b}
           t == <<a, b>>
           u == <<a>> \o <<b>>
<1>1. a \in T /\ b \in T
  OBVIOUS
<1> HIDE DEF T
<1>2. t \in Seq(T) /\ Len(t) = 2 /\ t[1] = a /\ t[2] = b
  BY <1>1
<1>3. <<b>> \in Seq(T) /\ Len(<<b>>) = 1 /\ <<b>>[1] = b
  BY <1>1
<1>4. u \in Seq(T) /\ Len(u) = 2 /\ u[1] = a /\ u[2] = b
  BY <1>1, <1>3, ConsProperties
<1>5. \A i \in 1..2 : i = 1 \/ i = 2
  OBVIOUS
<1> HIDE DEF t, u
<1>6. \A i \in 1..Len(u) : u[i] = t[i]
  BY <1>2, <1>4, <1>5
<1>7. u = t
  BY <1>2, <1>4, <1>6, SeqEqual
<1> QED BY <1>7 DEF t, u

LEMMA ConsTwo ==
  ASSUME NEW S, NEW s \in Seq(S), NEW a, NEW b
  PROVE  <<a, b>> \o s = <<a>> \o (<<b>> \o s)
<1> DEFINE T == S \cup {a, b}
           t == <<a>>
           u == <<b>>
<1>1. S \subseteq T /\ a \in T /\ b \in T
  OBVIOUS
<1> HIDE DEF T
<1>2. s \in Seq(T) /\ t \in Seq(T) /\ u \in Seq(T)
  BY <1>1, SeqMonotonic
<1>3. t \o u = <<a, b>>
  BY PairIs
<1> HIDE DEF t, u
<1>4. (t \o u) \o s = t \o (u \o s)
  BY <1>2, ConcatAssociative
<1> QED BY <1>3, <1>4 DEF t, u

\* How many elements of a sequence are in a set A.
Count(s, A) == Cardinality({k \in 1..Len(s) : s[k] \in A})

LEMMA CountIsNat ==
  ASSUME NEW S, NEW s \in Seq(S), NEW A
  PROVE  /\ IsFiniteSet({k \in 1..Len(s) : s[k] \in A}) /\ Count(s, A) \in Nat
         /\ (\A k \in 1..Len(s) : s[k] \notin A) => Count(s, A) = 0
<1> DEFINE T == {k \in 1..Len(s) : s[k] \in A}
<1>1. Len(s) \in Nat /\ IsFiniteSet(1..Len(s)) /\ T \in SUBSET (1..Len(s))
  BY FS_Interval
<1>2. IsFiniteSet(T)
  <2> HIDE DEF T
  <2> QED BY <1>1, FS_Subset
<1>3. Cardinality(T) \in Nat
  <2> HIDE DEF T
  <2> QED BY <1>2, FS_CardinalityType
<1>4. (\A k \in 1..Len(s) : s[k] \notin A) => T = {}
  OBVIOUS
<1> QED BY <1>2, <1>3, <1>4, FS_EmptySet DEF Count

LEMMA CountCons ==
  ASSUME NEW S, NEW f \in S, NEW s \in Seq(S), NEW A
  PROVE  Count(<<f>> \o s, A) = Count(s, A) + (IF f \in A THEN 1 ELSE 0)
<1> DEFINE t == <<f>> \o s
           T == {k \in 1..Len(s) : s[k] \in A}
           U == {k \in 2..Len(t) : t[k] \in A}
           V == {k \in 1..Len(t) : t[k] \in A}
           shift == [k \in T |-> k + 1]
<1>1. t \in Seq(S) /\ Len(t) = Len(s) + 1 /\ t[1] = f /\ \A k \in 2..(Len(s) + 1) : t[k] = s[k - 1]
  BY ConsProperties
<1>2. Len(s) \in Nat /\ IsFiniteSet(T) /\ Cardinality(T) = Count(s, A) /\ Count(s, A) \in Nat
  <2>1. Len(s) \in Nat /\ IsFiniteSet(T) /\ Count(s, A) \in Nat
    BY CountIsNat
  <2> QED BY <2>1 DEF Count
<1> HIDE DEF t
<1>3. shift \in Bijection(T, U)
  <2>1. \A k \in T : k + 1 \in 2..Len(t) /\ (k + 1) - 1 = k
    BY <1>1
  <2>2. \A k \in T : k + 1 \in U
    BY <1>1, <2>1
  <2>3. \A k \in U : k - 1 \in T /\ (k - 1) + 1 = k
    BY <1>1, <1>2
  <2>4. \A k, j \in T : k + 1 = j + 1 => k = j
    OBVIOUS
  <2> HIDE DEF T, U
  <2>5. shift \in [T -> U] /\ \A k, j \in T : shift[k] = shift[j] => k = j
    BY <2>2, <2>4
  <2>6. \A u \in U : \E k \in T : shift[k] = u
    <3>1. ASSUME NEW u \in U PROVE shift[u - 1] = u
      BY <2>3
    <3> QED BY <2>3, <3>1
  <2> HIDE DEF shift
  <2> QED BY <2>5, <2>6 DEF Bijection, Injection, Surjection, IsInjective
<1>4. IsFiniteSet(U) /\ Cardinality(U) = Cardinality(T)
  <2> HIDE DEF T, U, shift
  <2>1. ExistsBijection(T, U)
    BY <1>3 DEF ExistsBijection
  <2> QED BY <1>2, <2>1, FS_Bijection
<1>5. CASE f \in A
  <2>1. V = U \cup {1} /\ 1 \notin U
    BY <1>1, <1>2, <1>5
  <2> HIDE DEF U, T
  <2>2. Cardinality(U \cup {1}) = Cardinality(U) + 1
    BY <1>4, <2>1, FS_AddElement
  <2>3. Count(t, A) = Cardinality(U) + 1
    BY <2>1, <2>2 DEF Count
  <2> QED BY <1>2, <1>4, <1>5, <2>3 DEF t
<1>6. CASE f \notin A
  <2>1. V = U
    BY <1>1, <1>2, <1>6
  <2> HIDE DEF U, T
  <2>2. Count(t, A) = Cardinality(U)
    BY <2>1 DEF Count
  <2> QED BY <1>2, <1>4, <1>6, <2>2 DEF t
<1> QED BY <1>5, <1>6

----------------------------------------------------------------------------
\* An order o of the indexes 1..n in which the keys do not fall.
Sorts(o, n, key) ==
  /\ o \in [1..n -> 1..n]
  /\ \A i, j \in 1..n : i < j => o[i] # o[j] /\ key[o[i]] <= key[o[j]]

LEMMA GreatestKey ==
  ASSUME NEW k \in Nat, NEW x \in [1..(k + 1) -> Nat]
  PROVE  \E m \in 1..(k + 1) : \A i \in 1..(k + 1) : x[i] <= x[m]
<1> DEFINE Is(j, m) == m \in 1..(j + 1) /\ \A i \in 1..(j + 1) : x[i] <= x[m]
           G == {j \in Nat : j <= k => \E m : Is(j, m)}
<1>1. 0 \in G
  <2>1. 1 \in 1..(0 + 1) /\ (\A i \in 1..(0 + 1) : i = 1) /\ x[1] \in Nat
    OBVIOUS
  <2>2. Is(0, 1)
    BY <2>1
  <2> QED BY <2>2
<1>2. ASSUME NEW j \in Nat, j \in G PROVE j + 1 \in G
  <2>1. SUFFICES ASSUME j + 1 <= k PROVE \E m : Is(j + 1, m)
    OBVIOUS
  <2>2. PICK m : Is(j, m)
    BY <1>2, <2>1
  <2>3. /\ j + 2 \in 1..(k + 1) /\ m \in 1..(k + 1)
        /\ \A i \in 1..(j + 1 + 1) : i \in 1..(k + 1) /\ (i = j + 2 \/ i \in 1..(j + 1))
    BY <2>1, <2>2
  <2>4. x[j + 2] \in Nat /\ x[m] \in Nat /\ \A i \in 1..(j + 1 + 1) : x[i] \in Nat
    BY <2>3
  <2>5. CASE x[m] <= x[j + 2]
    <3>1. \A i \in 1..(j + 1 + 1) : x[i] <= x[j + 2]
      BY <2>2, <2>3, <2>4, <2>5
    <3>2. Is(j + 1, j + 2)
      BY <3>1
    <3> QED BY <3>2
  <2>6. CASE ~(x[m] <= x[j + 2])
    <3>1. \A i \in 1..(j + 1 + 1) : x[i] <= x[m]
      BY <2>2, <2>3, <2>4, <2>6
    <3>2. Is(j + 1, m)
      BY <2>2, <3>1
    <3> QED BY <3>2
  <2> QED BY <2>5, <2>6
<1>3. k \in G
  <2> HIDE DEF G
  <2> QED BY <1>1, <1>2, Induction
<1> QED BY <1>3

LEMMA SortsExists ==
  ASSUME NEW n \in Nat, NEW key \in [1..n -> Nat]
  PROVE  \E o : Sorts(o, n, key)
<1> DEFINE T == {k \in Nat : \A x \in [1..k -> Nat] : \E o : Sorts(o, k, x)}
<1>1. 0 \in T
  <2>1. ASSUME NEW x \in [1..0 -> Nat] PROVE Sorts([i \in 1..0 |-> i], 0, x)
    BY DEF Sorts
  <2> QED BY <2>1
<1>2. ASSUME NEW k \in Nat, k \in T PROVE k + 1 \in T
  <2>1. ASSUME NEW x \in [1..(k + 1) -> Nat] PROVE \E o : Sorts(o, k + 1, x)
    \* the greatest key goes to the end, and the last key to its place
    <3>1. PICK m \in 1..(k + 1) : \A i \in 1..(k + 1) : x[i] <= x[m]
      BY GreatestKey
    <3> DEFINE last == k + 1
               y == [i \in 1..k |-> IF i = m THEN x[last] ELSE x[i]]
    <3>2. y \in [1..k -> Nat]
      <4>1. last \in 1..(k + 1) /\ \A i \in 1..k : i \in 1..(k + 1)
        OBVIOUS
      <4> QED BY <4>1
    <3>3. PICK p : Sorts(p, k, y)
      <4> HIDE DEF y
      <4> QED BY <1>2, <3>2
    <3> DEFINE place(i) == IF i = m THEN last ELSE i
               o == [i \in 1..(k + 1) |-> IF i = last THEN m ELSE place(p[i])]
    <3>4. ASSUME NEW i \in 1..k
          PROVE  /\ p[i] \in 1..k /\ i \in 1..(k + 1) /\ i # last
                 /\ o[i] = place(p[i]) /\ o[i] \in 1..(k + 1) /\ o[i] # m
                 /\ x[o[i]] = y[p[i]]
      <4>1. p[i] \in 1..k /\ i \in 1..(k + 1) /\ i # last
        <5> HIDE DEF o, y, place
        <5>1. p[i] \in 1..k
          BY <3>3 DEF Sorts
        <5> QED BY <5>1
      <4>2. o[i] = place(p[i]) /\ o[i] \in 1..(k + 1)
        BY <4>1
      <4>3. o[i] # m
        BY <3>1, <4>1, <4>2
      <4>4. x[o[i]] = y[p[i]]
        BY <4>1, <4>2
      <4> QED BY <4>1, <4>2, <4>3, <4>4
    <3>5. o[last] = m /\ last \in 1..(k + 1)
      OBVIOUS
    <3>6. o \in [1..(k + 1) -> 1..(k + 1)]
      <4>1. \A i \in 1..(k + 1) : i = last \/ i \in 1..k
        OBVIOUS
      <4>2. o = [i \in 1..(k + 1) |-> o[i]]
        OBVIOUS
      <4>3. \A i \in 1..(k + 1) : o[i] \in 1..(k + 1)
        <5> HIDE DEF o
        <5> QED BY <3>1, <3>4, <3>5, <4>1
      <4> HIDE DEF o
      <4> QED BY <4>2, <4>3
    <3>7. ASSUME NEW i \in 1..(k + 1), NEW j \in 1..(k + 1), i < j
          PROVE  o[i] # o[j] /\ x[o[i]] <= x[o[j]]
      <4>1. i \in 1..k
        BY <3>7
      <4>2. CASE j = last
        BY <3>1, <3>4, <3>5, <4>1, <4>2
      <4>3. CASE j # last
        <5>1. j \in 1..k
          BY <4>3
        <5>2. p[i] # p[j] /\ y[p[i]] <= y[p[j]]
          BY <3>3, <3>7, <4>1, <5>1 DEF Sorts
        <5>3. p[i] \in 1..k /\ p[j] \in 1..k /\ o[i] = place(p[i]) /\ o[j] = place(p[j])
              /\ x[o[i]] = y[p[i]] /\ x[o[j]] = y[p[j]]
          <6> HIDE DEF o, y, place
          <6> QED BY <3>4, <4>1, <5>1
        <5>4. place(p[i]) # place(p[j])
          BY <5>2, <5>3
        <5> HIDE DEF o, y, place
        <5> QED BY <5>2, <5>3, <5>4
      <4> QED BY <4>2, <4>3
    <3>8. Sorts(o, k + 1, x)
      <4> HIDE DEF o
      <4> QED BY <3>6, <3>7 DEF Sorts
    <3> QED BY <3>8
  <2> QED BY <2>1
<1>3. n \in T
  <2> HIDE DEF T
  <2> QED BY <1>1, <1>2, Induction
<1> QED BY <1>3

\* When no two keys are equal there is one such order.
LEMMA SortsUnique ==
  ASSUME NEW n \in Nat, NEW key \in [1..n -> Nat],
         \A i, j \in 1..n : key[i] = key[j] => i = j,
         NEW o, NEW p, Sorts(o, n, key), Sorts(p, n, key)
  PROVE  o = p
<1>1. ASSUME NEW q, Sorts(q, n, key), NEW m \in 1..n PROVE \E k \in 1..n : q[k] = m
  <2>1. q \in Injection(1..n, 1..n)
    BY <1>1 DEF Sorts, Injection, IsInjective
  <2>2. IsFiniteSet(1..n)
    BY FS_Interval
  <2>3. q \in Surjection(1..n, 1..n)
    BY <2>1, <2>2, FS_Injection
  <2> QED BY <2>3 DEF Surjection
\* the least of the rest comes next, in both
<1>2. ASSUME NEW a, NEW b, Sorts(a, n, key), Sorts(b, n, key), NEW j \in 1..n,
             \A k \in 1..n : k < j => a[k] = b[k]
      PROVE  key[a[j]] <= key[b[j]]
  <2>1. PICK k \in 1..n : a[k] = b[j]
    <3>1. b[j] \in 1..n
      BY <1>2 DEF Sorts
    <3> QED BY <1>1, <1>2, <3>1
  <2>2. k >= j
    <3>1. SUFFICES ASSUME k < j PROVE FALSE
      OBVIOUS
    <3>2. b[k] = b[j]
      BY <1>2, <2>1, <3>1
    <3> QED BY <1>2, <3>1, <3>2 DEF Sorts
  <2>3. key[a[j]] \in Nat
    BY <1>2 DEF Sorts
  <2> QED BY <1>2, <2>1, <2>2, <2>3 DEF Sorts
<1> DEFINE Same == {j \in 1..n : o[j] = p[j]}
<1>3. ASSUME NEW j \in 1..n, \A k \in 1..n : k < j => k \in Same PROVE j \in Same
  <2>1. \A k \in 1..n : k < j => o[k] = p[k] /\ p[k] = o[k]
    BY <1>3
  <2>2. key[o[j]] <= key[p[j]] /\ key[p[j]] <= key[o[j]]
    BY <1>2, <2>1
  <2>3. o[j] \in 1..n /\ p[j] \in 1..n
    BY DEF Sorts
  <2>4. key[o[j]] = key[p[j]]
    BY <2>2, <2>3
  <2> QED BY <2>3, <2>4
<1>4. 1..n \subseteq Same
  <2> HIDE DEF Same
  <2>1. 1..n \in SUBSET Nat
    OBVIOUS
  <2> QED BY <1>3, <2>1, StrongInduction
<1> QED BY <1>4 DEF Sorts
=============================================================================
