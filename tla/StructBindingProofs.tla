------------------------ MODULE StructBindingProofs ------------------------
(* What a struct binds its names to, and what comes back through its       *)
(* codecs: for all struct types, embedded to any depth, all configurations *)
(* and values.  Where three fields have one name, or a tag is on the wrong *)
(* one of two, the code does not keep what is promised; the theorems say   *)
(* of which types it does.                                                 *)
EXTENDS StructBinding, DataLemmas

----------------------------------------------------------------------------
(* The struct types of which the names are settled as in encoding/json.    *)

\* No three fields have one name.
PairedIn(f) ==
  \A i, j, k \in 1..Len(f) :
    f[i].names # {} /\ f[j].names = f[i].names /\ f[k].names = f[i].names => i = j \/ j = k \/ i = k
Paired == PairedIn(fields)

\* Of two fields with one name: when both or neither have a tag, and are of one
\* depth, both or neither have a name in it; when one has a tag, it is the later
\* one, and it is less deep or has a name in its tag.
TagNamed(b) == b.field.tag = "named"
Plainly(old, new) ==
  IF Tagged(old) = Tagged(new)
  THEN Len(old.levels) = Len(new.levels) => (TagNamed(old) <=> TagNamed(new))
  ELSE Len(new.levels) < Len(old.levels) \/ (Len(new.levels) = Len(old.levels) /\ TagNamed(new))
Plain ==
  /\ Paired
  /\ \A i, j \in 1..Len(fields) :
       i < j /\ fields[i].names # {} /\ fields[i].names = fields[j].names => Plainly(fields[i], fields[j])

----------------------------------------------------------------------------
(* The invariant.                                                          *)

Levels == Seq(Nat)
Binding ==
  {b \in [levels : Levels, field : FieldType, names : SUBSET Names, pointers : SUBSET Levels] :
     b.levels # <<>> /\ (b.names = {} \/ \E n \in Names : b.names = {n})}

Chain(s) == \A i, j \in 1..Len(s) : i < j => Before(s[i], s[j])
Apart(s, t) == \A i \in 1..Len(s), j \in 1..Len(t) : Before(s[i], t[j]) \/ Before(t[j], s[i])
Below(s, d) == \A i \in 1..Len(s) : s[i].levels[1] < d

\* What a call of describeStruct has collected of the fields before the d-th.
FrameType == [of : Structs, i : Nat, bindings : Seq(Binding), embedded : Seq(Binding)]
FrameOK(f, d) ==
  /\ f.i <= Len(f.of)
  /\ Chain(f.bindings) /\ Chain(f.embedded) /\ Apart(f.embedded, f.bindings)
  /\ Below(f.bindings, d) /\ Below(f.embedded, d)
Callers(s) == \A k \in 1..Len(s) : s[k].i >= 1 /\ FrameOK(s[k], s[k].i)
StackOK(s) == s # <<>> /\ FrameOK(Head(s), Head(s).i + 1) /\ Callers(Tail(s))

DescribeInv ==
  /\ cfg \in Configs /\ typ \in Structs /\ phase \in Phases
  /\ stack \in Seq(FrameType) /\ (phase = "describe" => StackOK(stack))
  /\ fields \in Seq(Binding) /\ Chain(fields)

\* A field that is not kept, of the first m: another one has its name and wins.
Rivals(f, i, k) == i # k /\ f[k].names # {} /\ f[i].names = f[k].names
Loses(f, k, m) ==
  \E i \in 1..m : Rivals(f, i, k) /\
    IF i < k THEN resolveConflictBinding(f[i], f[k])[2] ELSE resolveConflictBinding(f[k], f[i])[1]

\* The encoder after m fields.
Entry == [binding : Binding, name : Names, ignored : BOOLEAN]
Listed(o, f, m) ==
  /\ o \in Seq(Entry) /\ Len(o) <= m
  /\ \A j \in 1..Len(o) : \E k \in 1..m : o[j].binding = f[k] /\ f[k].names = {o[j].name}
  /\ \A k \in 1..m : f[k].names # {} => \E j \in 1..Len(o) : o[j].binding = f[k]
  /\ \A i, j \in 1..Len(o) : i < j => Before(o[i].binding, o[j].binding)
RightlyListed(o, f, m) ==
  \A j \in 1..Len(o), k \in 1..m : o[j].binding = f[k] => (o[j].ignored <=> Loses(f, k, m))

\* The decoder after m fields.
BoundTo(b, f, m) ==
  \A n \in DOMAIN b : n \in Names /\ \E k \in 1..m : b[n] = f[k] /\ f[k].names = {n}
RightlyBound(b, f, m) ==
  \A k \in 1..m, n \in Names :
    f[k].names = {n} => ((n \in DOMAIN b /\ b[n] = f[k]) <=> ~Loses(f, k, m))

Made == {"ready", "encode", "decode", "decodeOther"}
EncoderInv ==
  /\ at \in Nat /\ (phase \in {"to", "from", "ready"} => at <= Len(fields))
  /\ phase = "describe" => at = 0 /\ ordered = <<>>
  /\ LET m == IF phase \in {"describe", "to"} THEN at ELSE Len(fields) IN
     phase # "describe" =>  Listed(ordered, fields, m) /\ (Paired => RightlyListed(ordered, fields, m))
DecoderInv ==
  /\ phase \in {"describe", "to"} => DOMAIN bound = {}
  /\ LET m == IF phase = "from" THEN at ELSE Len(fields) IN
     phase \in Made \cup {"from"} => BoundTo(bound, fields, m) /\ (Paired => RightlyBound(bound, fields, m))

\* What createStructDecoder made.
TableInv == phase \in Made => \E table \in WithLower : decoder = DecoderOf(table)

\* The encoder has written m of its bindings; the decoder has read m members.
Written(ms, o, m) ==
  /\ ms \in Seq([name : Names, field : Levels]) /\ Len(ms) <= m
  /\ \A i \in 1..Len(ms) : \E j \in 1..m :
       ~o[j].ignored /\ ms[i] = [name |-> o[j].name, field |-> o[j].binding.levels]
  /\ \A i, j \in 1..Len(ms) : i < j => ms[i].field # ms[j].field
Read(found, o, e, unknown, m) ==
  /\ \A path \in DOMAIN o : o[path] \in 1..m /\ found[o[path]] # NoBinding /\ found[o[path]].levels = path
  /\ \A i \in 1..m : found[i] # NoBinding => found[i].levels \in DOMAIN o /\ o[found[i].levels] >= i
  /\ e = (unknown /\ \E i \in 1..m : found[i] = NoBinding)
FoundInDoc == [i \in 1..Len(doc) |-> Found(doc[i])]
ReadAll(m) == Read(FoundInDoc, out, error, cfg.disallowUnknownFields, m)

ValueInv ==
  /\ phase \in {"describe", "to", "from", "ready"} => members = <<>> 
  /\ phase \in Phases \ {"decode", "decodeOther"} => doc = <<>> /\ DOMAIN out = {} /\ error = FALSE
  /\ phase = "encode" => at <= Len(ordered) /\ Written(members, ordered, at)
  /\ phase \in {"decode", "decodeOther"} =>
       doc \in Seq(Names) /\ at <= Len(doc) /\ ReadAll(at) /\ Written(members, ordered, Len(ordered))
  /\ phase = "decode" => Len(doc) = Len(members) /\ \A i \in 1..Len(doc) : doc[i] = members[i].name
  /\ phase = "decodeOther" => Len(doc) <= DocSize

----------------------------------------------------------------------------
(* The order of the bindings.                                              *)

\* The first difference of two sequences of levels.
DiffersAt(p, q, k) ==
  /\ k \in 1..Len(p) /\ k <= Len(q) /\ p[k] < q[k]
  /\ \A i \in 1..(k - 1) : p[i] = q[i]

LEMMA PrefixesAgree ==
  ASSUME NEW p \in Levels, NEW q \in Levels, NEW k \in 1..Len(p), k <= Len(q)
  PROVE  SubSeq(p, 1, k - 1) = SubSeq(q, 1, k - 1) <=> \A i \in 1..(k - 1) : p[i] = q[i]
<1>1. Len(p) \in Nat /\ Len(q) \in Nat /\ k - 1 \in Nat
  BY DEF Levels
<1> DEFINE s == SubSeq(p, 1, k - 1)
           t == SubSeq(q, 1, k - 1)
<1>2. s = [i \in 1..(k - 1) |-> p[i]] /\ t = [i \in 1..(k - 1) |-> q[i]]
  BY <1>1, SMTT(30) DEF Levels
<1> HIDE DEF s, t
<1>3. ASSUME s = t, NEW i \in 1..(k - 1) PROVE p[i] = q[i]
  <2>1. s[i] = p[i] /\ t[i] = q[i]
    BY <1>2
  <2> QED BY <2>1, <1>3
<1>4. ASSUME \A i \in 1..(k - 1) : p[i] = q[i] PROVE s = t
  BY <1>2, <1>4
<1> QED BY <1>3, <1>4 DEF s, t

LEMMA BeforeIs ==
  ASSUME NEW b \in Binding, NEW c \in Binding
  PROVE  Before(b, c) <=> \E k \in Nat : DiffersAt(b.levels, c.levels, k)
<1> DEFINE p == b.levels
           q == c.levels
<1>1. p \in Levels /\ q \in Levels
  BY DEF Binding
<1>2. \A k \in 1..Len(p) : k \in Nat
  OBVIOUS
<1>3. \A k \in 1..Len(p) : k <= Len(q) =>
        (SubSeq(p, 1, k - 1) = SubSeq(q, 1, k - 1) <=> \A i \in 1..(k - 1) : p[i] = q[i])
  BY <1>1, PrefixesAgree
<1>4. Before(b, c) <=> \E k \in 1..Len(p) :
        k <= Len(q) /\ p[k] < q[k] /\ SubSeq(p, 1, k - 1) = SubSeq(q, 1, k - 1)
  BY Zenon DEF Before
<1> HIDE DEF p, q
<1>5. (\E k \in 1..Len(p) : k <= Len(q) /\ p[k] < q[k] /\ SubSeq(p, 1, k - 1) = SubSeq(q, 1, k - 1))
        <=> \E k \in Nat : DiffersAt(p, q, k)
  BY <1>2, <1>3, ZenonT(60) DEF DiffersAt
<1> QED BY <1>4, <1>5 DEF p, q

\* A binding is not before itself, nor before one that is before it.
LEMMA BeforeDiffers ==
  ASSUME NEW b \in Binding, NEW c \in Binding, Before(b, c)
  PROVE  b.levels # c.levels
<1>1. PICK k \in Nat : DiffersAt(b.levels, c.levels, k)
  BY BeforeIs
<1>2. b.levels[k] < c.levels[k] /\ b.levels[k] \in Nat
  BY <1>1 DEF DiffersAt, Binding, Levels
<1> QED BY <1>2

LEMMA DiffersTransitive ==
  ASSUME NEW p \in Levels, NEW q \in Levels, NEW r \in Levels,
         NEW k \in Nat, NEW m \in Nat, DiffersAt(p, q, k), DiffersAt(q, r, m)
  PROVE  \E n \in Nat : DiffersAt(p, r, n)
<1>1. CASE k <= m
  <2>1. k \in 1..Len(p) /\ k <= Len(q) /\ m <= Len(r) /\ p[k] < q[k] /\ q[m] < r[m] /\ m \in 1..Len(q)
    BY DEF DiffersAt
  <2>8. Len(p) \in Nat /\ Len(q) \in Nat /\ Len(r) \in Nat
    BY DEF Levels
  <2>9. k <= Len(r) /\ k \in 1..Len(q) /\ k \in 1..Len(r)
    BY <1>1, <2>1, <2>8
  <2>2. k <= Len(r) /\ p[k] \in Nat /\ q[k] \in Nat /\ r[k] \in Nat /\ Len(p) \in Nat
    BY <2>1, <2>8, <2>9, ElementOfSeq, Zenon DEF Levels
  <2>3. q[k] = r[k] \/ k = m
    BY <1>1, <2>1 DEF DiffersAt
  <2>4. p[k] < r[k]
    BY <2>1, <2>2, <2>3
  <2>5. \A i \in 1..(k - 1) : p[i] = r[i]
    BY <1>1, <2>1 DEF DiffersAt
  <2>6. DiffersAt(p, r, k)
    BY <2>1, <2>2, <2>4, <2>5 DEF DiffersAt
  <2> QED BY <2>6
<1>2. CASE m < k
  <2>1. DiffersAt(p, r, m)
    BY <1>2, SMTT(30) DEF DiffersAt, Levels
  <2> QED BY <2>1
<1> QED BY <1>1, <1>2

LEMMA BeforeTransitive ==
  ASSUME NEW b \in Binding, NEW c \in Binding, NEW d \in Binding, Before(b, c), Before(c, d)
  PROVE  Before(b, d)
<1>1. PICK k \in Nat : DiffersAt(b.levels, c.levels, k)
  BY BeforeIs
<1>2. PICK m \in Nat : DiffersAt(c.levels, d.levels, m)
  BY BeforeIs
<1>3. b.levels \in Levels /\ c.levels \in Levels /\ d.levels \in Levels
  BY DEF Binding
<1>4. \E n \in Nat : DiffersAt(b.levels, d.levels, n)
  BY <1>1, <1>2, <1>3, DiffersTransitive
<1> QED BY <1>4, BeforeIs

LEMMA BeforeOneWay ==
  ASSUME NEW b \in Binding, NEW c \in Binding, Before(b, c)
  PROVE  ~Before(c, b)
<1>1. Before(c, b) => Before(b, b)
  BY BeforeTransitive
<1> QED BY <1>1, BeforeDiffers

\* Whatever the rest, the first levels decide when they differ.
LEMMA BeforeByFirst ==
  ASSUME NEW b \in Binding, NEW c \in Binding, b.levels[1] < c.levels[1]
  PROVE  Before(b, c)
<1>1. b.levels \in Levels /\ c.levels \in Levels /\ b.levels # <<>> /\ c.levels # <<>>
  BY DEF Binding
<1>2. DiffersAt(b.levels, c.levels, 1)
  BY <1>1 DEF DiffersAt, Levels
<1> QED BY <1>2, BeforeIs

\* Only the levels count.
LEMMA BeforeByLevels ==
  ASSUME NEW b, NEW c, NEW d, NEW e, b.levels = d.levels, c.levels = e.levels
  PROVE  Before(b, c) <=> Before(d, e)
  BY DEF Before

----------------------------------------------------------------------------
(* Sorting.                                                                *)

Comparable(s) == \A i, j \in 1..Len(s) : i # j => Before(s[i], s[j]) \/ Before(s[j], s[i])

\* The number of bindings before one is its key.
LEMMA RankRises ==
  ASSUME NEW s \in Seq(Binding), NEW i \in 1..Len(s), NEW j \in 1..Len(s), Before(s[i], s[j])
  PROVE  Cardinality({k \in 1..Len(s) : Before(s[k], s[i])}) < Cardinality({k \in 1..Len(s) : Before(s[k], s[j])})
<1> DEFINE A == {k \in 1..Len(s) : Before(s[k], s[i])}
           B == {k \in 1..Len(s) : Before(s[k], s[j])}
<1>1. \A k \in 1..Len(s) : s[k] \in Binding
  OBVIOUS
<1>2. A \subseteq B
  BY <1>1, BeforeTransitive
<1>3. i \in B /\ i \notin A
  <2>1. ~Before(s[i], s[i])
    BY <1>1, BeforeDiffers
  <2> QED BY <2>1
<1>4. IsFiniteSet(1..Len(s))
  BY FS_Interval
<1>5. IsFiniteSet(B)
  BY <1>4, FS_Subset
<1>6. A # B
  BY <1>3
<1> HIDE DEF A, B
<1>7. Cardinality(A) \in Nat /\ Cardinality(B) \in Nat
  BY <1>2, <1>5, FS_Subset, FS_CardinalityType
<1>8. A \in SUBSET B
  BY <1>2
<1>9. Cardinality(A) <= Cardinality(B) /\ (Cardinality(B) = Cardinality(A) => B = A)
  BY <1>5, <1>8, FS_Subset, Zenon
<1> QED BY <1>6, <1>7, <1>9 DEF A, B

LEMMA RankIsNat ==
  ASSUME NEW s \in Seq(Binding), NEW j \in 1..Len(s)
  PROVE  Cardinality({k \in 1..Len(s) : Before(s[k], s[j])}) \in Nat
<1>1. IsFiniteSet(1..Len(s))
  BY FS_Interval
<1>2. IsFiniteSet({k \in 1..Len(s) : Before(s[k], s[j])})
  BY <1>1, FS_Subset
<1> QED BY <1>2, FS_CardinalityType

LEMMA OrderExists ==
  ASSUME NEW s \in Seq(Binding), Comparable(s)
  PROVE  \E o \in [1..Len(s) -> 1..Len(s)] : \A i, j \in 1..Len(s) : i < j => Before(s[o[i]], s[o[j]])
<1> DEFINE n == Len(s)
           rank == [j \in 1..n |-> Cardinality({k \in 1..n : Before(s[k], s[j])})]
<1>1. n \in Nat /\ rank \in [1..n -> Nat]
  BY RankIsNat
<1>2. \A i, j \in 1..n : Before(s[i], s[j]) => rank[i] < rank[j]
  BY RankRises
<1> HIDE DEF rank
<1>3. PICK o : Sorts(o, n, rank)
  BY <1>1, SortsExists
<1>4. o \in [1..n -> 1..n]
  BY <1>3 DEF Sorts
<1>5. ASSUME NEW i \in 1..n, NEW j \in 1..n, i < j PROVE Before(s[o[i]], s[o[j]])
  <2>1. o[i] # o[j] /\ rank[o[i]] <= rank[o[j]] /\ o[i] \in 1..n /\ o[j] \in 1..n
    BY <1>3, <1>5 DEF Sorts
  <2>2. Before(s[o[i]], s[o[j]]) \/ Before(s[o[j]], s[o[i]])
    BY <2>1 DEF Comparable
  <2>3. ~Before(s[o[j]], s[o[i]])
    <3>1. rank[o[i]] \in Nat /\ rank[o[j]] \in Nat
      BY <1>1, <2>1
    <3> QED BY <2>1, <1>2, <3>1, SMTT(30)
  <2> QED BY <2>2, <2>3
<1> QED BY <1>4, <1>5

LEMMA SortedIs ==
  ASSUME NEW s \in Seq(Binding), Comparable(s)
  PROVE  /\ Sorted(s) \in Seq(Binding) /\ Len(Sorted(s)) = Len(s) /\ Chain(Sorted(s))
         /\ \A i \in 1..Len(s) : \E k \in 1..Len(s) : Sorted(s)[i] = s[k]
<1> DEFINE n == Len(s)
           o == CHOOSE o \in [DOMAIN s -> DOMAIN s] : IsSorted(s, o)
<1>1. n \in Nat /\ DOMAIN s = 1..n
  OBVIOUS
<1>2. \E x \in [DOMAIN s -> DOMAIN s] : IsSorted(s, x)
  BY <1>1, OrderExists DEF IsSorted
<1>3. o \in [DOMAIN s -> DOMAIN s] /\ IsSorted(s, o)
  BY <1>2
<1>4. Sorted(s) = [i \in DOMAIN s |-> s[o[i]]]
  BY DEF Sorted
<1> HIDE DEF o
<1>5. \A i \in 1..n : o[i] \in 1..n /\ s[o[i]] \in Binding
  BY <1>1, <1>3
<1>6. Sorted(s) = [i \in 1..n |-> s[o[i]]]
  BY <1>1, <1>4
<1>7. Sorted(s) \in Seq(Binding) /\ Len(Sorted(s)) = n
  BY <1>1, <1>5, <1>6
<1>8. \A i \in 1..n : Sorted(s)[i] = s[o[i]]
  BY <1>6
<1>9. Chain(Sorted(s))
  BY <1>1, <1>3, <1>7, <1>8, SMTT(30) DEF Chain, IsSorted
<1> QED BY <1>5, <1>7, <1>8, <1>9

----------------------------------------------------------------------------
(* One call of describeStruct.                                             *)

LEMMA BindingIs ==
  ASSUME NEW b
  PROVE  b \in Binding <=>
           /\ b \in [levels : Levels, field : FieldType, names : SUBSET Names, pointers : SUBSET Levels]
           /\ b.levels # <<>>
           /\ b.names = {} \/ \E n \in Names : b.names = {n}
  BY Zenon DEF Binding

LEMMA BindingHas ==
  ASSUME NEW b \in Binding
  PROVE  /\ b.levels \in Levels /\ b.levels # <<>> /\ b.levels[1] \in Nat
         /\ b.field \in FieldType /\ b.names \in SUBSET Names
  BY BindingIs DEF Levels

LEMMA FieldIs ==
  ASSUME NEW s \in Structs, NEW i \in 1..Len(s)
  PROVE  s[i] \in FieldType /\ (s[i].tag = "named" => s[i].tagName \in Names) /\ s \in Seq(FieldType)
<1>1. s \in Seq(FieldType) /\ \A k \in 1..Len(s) : s[k].tag = "named" => s[k].tagName \in Names
  BY StructBindingAssumption
<1>2. s[i] \in FieldType
  BY <1>1, ElementOfSeq
<1> QED BY <1>1, <1>2

LEMMA NewBinding ==
  ASSUME NEW s \in Structs, NEW i \in Nat, i + 1 \in 1..Len(s), NEW b,
         b = [levels |-> <<i + 1>>, field |-> s[i + 1], names |-> FieldNames(s[i + 1]), pointers |-> {}]
  PROVE  b \in Binding /\ b.levels[1] = i + 1
<1> DEFINE f == s[i + 1]
<1>1. f \in FieldType /\ (f.tag = "named" => f.tagName \in Names)
  BY FieldIs
<1>2. f.name \in Names
  BY <1>1 DEF FieldType
<1>3. FieldNames(f) = {} \/ \E n \in Names : FieldNames(f) = {n}
  BY <1>1, <1>2, Zenon DEF FieldNames
<1> DEFINE ns == FieldNames(f)
           ls == <<i + 1>>
<1>4. ls \in Levels /\ ls # <<>> /\ ls[1] = i + 1
  BY DEF Levels
<1>5. ns \in SUBSET Names
  BY <1>3, Zenon
<1>6. b = [levels |-> ls, field |-> f, names |-> ns, pointers |-> {}]
  OBVIOUS
<1> HIDE DEF f, ns, ls
<1>7. b \in [levels : Levels, field : FieldType, names : SUBSET Names, pointers : SUBSET Levels]
  BY <1>1, <1>4, <1>5, <1>6
<1>8. b.levels = ls /\ b.names = ns
  BY <1>6
<1> QED BY <1>3, <1>4, <1>7, <1>8, BindingIs DEF ns

\* The extensions give a binding another name, and nothing else.
LEMMA NameReplaced ==
  ASSUME NEW b \in Binding, NEW n \in Names
  PROVE  [b EXCEPT !.names = {n}] \in Binding /\ [b EXCEPT !.names = {n}].levels = b.levels
         /\ [b EXCEPT !.names = {n}].field = b.field
<1> DEFINE c == [b EXCEPT !.names = {n}]
<1>1. b \in [levels : Levels, field : FieldType, names : SUBSET Names, pointers : SUBSET Levels] /\ b.levels # <<>>
  BY BindingIs
<1>2. {n} \in SUBSET Names
  OBVIOUS
<1>3. c \in [levels : Levels, field : FieldType, names : SUBSET Names, pointers : SUBSET Levels]
  BY <1>1, <1>2
<1>4. c.levels = b.levels /\ c.names = {n} /\ c.field = b.field
  BY <1>1
<1> HIDE DEF c
<1>5. c \in Binding
  BY <1>1, <1>3, <1>4, BindingIs
<1> QED BY <1>4, <1>5 DEF c

LEMMA ExtensionsKeep ==
  ASSUME NEW b \in Binding
  PROVE  WithPrivate(Renamed(b)) \in Binding /\ WithPrivate(Renamed(b)).levels = b.levels
<1>1. b.field \in FieldType /\ b.field.name \in Names
  BY BindingHas DEF FieldType
<1>2. Translate[b.field.name] \in Names
  BY <1>1, StructBindingAssumption
<1> DEFINE c == Renamed(b)
<1>3. c \in Binding /\ c.levels = b.levels /\ c.field = b.field
  BY <1>2, NameReplaced DEF Renamed
<1> HIDE DEF c
<1>4. WithPrivate(c) \in Binding /\ WithPrivate(c).levels = c.levels
  BY <1>1, <1>3, NameReplaced DEF WithPrivate
<1> QED BY <1>3, <1>4 DEF c

\* What a call returns: all bindings, in their order.
LEMMA MergedUnsortedIs ==
  ASSUME NEW f \in FrameType, NEW d \in Nat, FrameOK(f, d)
  PROVE  MergedUnsorted(f) \in Seq(Binding) /\ Comparable(MergedUnsorted(f)) /\ Below(MergedUnsorted(f), d)
<1> DEFINE e == f.embedded
           b == f.bindings
           c == [i \in DOMAIN b |-> WithPrivate(Renamed(b[i]))]
           m == e \o c
<1>1. e \in Seq(Binding) /\ b \in Seq(Binding) /\ Len(e) \in Nat /\ Len(b) \in Nat
  BY DEF FrameType
<1>2. \A i \in 1..Len(b) : b[i] \in Binding
  BY <1>1
<1>3. c = [i \in 1..Len(b) |-> WithPrivate(Renamed(b[i]))]
  BY <1>1
<1> HIDE DEF c
<1>4. c \in Seq(Binding) /\ Len(c) = Len(b)
  BY <1>1, <1>2, <1>3, ExtensionsKeep
<1>5. \A i \in 1..Len(b) : c[i].levels = b[i].levels
  BY <1>2, <1>3, ExtensionsKeep
<1>6. Chain(b) /\ Chain(e) /\ Apart(e, b) /\ Below(b, d) /\ Below(e, d)
  BY DEF FrameOK
<1> HIDE DEF e, b
<1>7. \A i, j \in 1..Len(c) : i < j => Before(c[i], c[j])
  BY <1>4, <1>5, <1>6, BeforeByLevels DEF Chain
<1>8. \A i \in 1..Len(e), j \in 1..Len(c) : Before(e[i], c[j]) \/ Before(c[j], e[i])
  BY <1>4, <1>5, <1>6, BeforeByLevels DEF Apart
<1>9. \A i, j \in 1..Len(e) : i < j => Before(e[i], e[j])
  BY <1>6 DEF Chain
<1>10. m \in Seq(Binding) /\ Len(m) = Len(e) + Len(c)
  BY <1>1, <1>4
<1>11. \A k \in 1..Len(m) : (k <= Len(e) /\ k \in 1..Len(e) /\ m[k] = e[k])
                          \/ (k > Len(e) /\ k - Len(e) \in 1..Len(c) /\ m[k] = c[k - Len(e)])
  BY <1>1, <1>4, <1>10
<1> HIDE DEF m
<1>12. Comparable(m)
  <2> SUFFICES ASSUME NEW i \in 1..Len(m), NEW j \in 1..Len(m), i # j
               PROVE  Before(m[i], m[j]) \/ Before(m[j], m[i])
    BY DEF Comparable
  <2>1. CASE i <= Len(e) /\ j <= Len(e)
    <3>1. i \in 1..Len(e) /\ j \in 1..Len(e) /\ m[i] = e[i] /\ m[j] = e[j] /\ (i < j \/ j < i)
      BY <1>1, <1>11, <2>1
    <3> QED BY <1>9, <3>1
  <2>2. CASE i <= Len(e) /\ j > Len(e)
    <3>1. i \in 1..Len(e) /\ j - Len(e) \in 1..Len(c) /\ m[i] = e[i] /\ m[j] = c[j - Len(e)]
      BY <1>1, <1>11, <2>2
    <3> QED BY <1>8, <3>1
  <2>3. CASE i > Len(e) /\ j <= Len(e)
    <3>1. j \in 1..Len(e) /\ i - Len(e) \in 1..Len(c) /\ m[j] = e[j] /\ m[i] = c[i - Len(e)]
      BY <1>1, <1>11, <2>3
    <3> QED BY <1>8, <3>1
  <2>4. CASE i > Len(e) /\ j > Len(e)
    <3>1. i - Len(e) \in 1..Len(c) /\ j - Len(e) \in 1..Len(c) /\ m[i] = c[i - Len(e)] /\ m[j] = c[j - Len(e)]
      BY <1>1, <1>11, <2>4
    <3>2. i - Len(e) < j - Len(e) \/ j - Len(e) < i - Len(e)
      BY <1>1
    <3> QED BY <1>7, <3>1, <3>2
  <2> QED BY <1>1, <2>1, <2>2, <2>3, <2>4
<1>13. Below(m, d)
  <2> SUFFICES ASSUME NEW k \in 1..Len(m) PROVE m[k].levels[1] < d
    BY DEF Below
  <2>1. \A i \in 1..Len(c) : c[i].levels[1] < d
    BY <1>4, <1>5, <1>6 DEF Below
  <2>2. \A i \in 1..Len(e) : e[i].levels[1] < d
    BY <1>6 DEF Below
  <2> QED BY <1>11, <2>1, <2>2
<1>14. MergedUnsorted(f) = m
  BY DEF MergedUnsorted, m, c, e, b
<1> QED BY <1>10, <1>12, <1>13, <1>14

LEMMA MergedIs ==
  ASSUME NEW f \in FrameType, NEW d \in Nat, FrameOK(f, d)
  PROVE  Merged(f) \in Seq(Binding) /\ Chain(Merged(f)) /\ Below(Merged(f), d)
<1> DEFINE m == MergedUnsorted(f)
<1>1. m \in Seq(Binding) /\ Comparable(m) /\ Below(m, d)
  BY MergedUnsortedIs
<1> HIDE DEF m
<1>2. Sorted(m) \in Seq(Binding) /\ Len(Sorted(m)) = Len(m) /\ Chain(Sorted(m))
  BY <1>1, SortedIs
<1>3. \A i \in 1..Len(m) : \E k \in 1..Len(m) : Sorted(m)[i] = m[k]
  BY <1>1, SortedIs
<1>4. Below(Sorted(m), d)
  BY <1>1, <1>2, <1>3 DEF Below
<1>5. Merged(f) = Sorted(m)
  BY DEF Merged, m
<1> QED BY <1>2, <1>4, <1>5

----------------------------------------------------------------------------
(* What is embedded as the i-th field.                                     *)

LEMMA PromotedIs ==
  ASSUME NEW b \in Binding, NEW i \in Nat, NEW pointer
  PROVE  /\ Promoted(b, i, pointer) \in Binding
         /\ Promoted(b, i, pointer).levels = <<i>> \o b.levels
         /\ Promoted(b, i, pointer).levels[1] = i
<1> DEFINE ls == <<i>> \o b.levels
           ps == {<<i>> \o p : p \in b.pointers} \cup IF pointer THEN {<<i>>} ELSE {}
           c == [b EXCEPT !.levels = ls, !.pointers = ps]
<1>1. b \in [levels : Levels, field : FieldType, names : SUBSET Names, pointers : SUBSET Levels]
  BY BindingIs
<1>2. b.levels \in Levels /\ b.pointers \in SUBSET Levels
  BY <1>1
<1>3. ls \in Levels /\ ls # <<>> /\ ls[1] = i
  BY <1>2, ConsProperties DEF Levels
<1>4. ps \in SUBSET Levels
  <2>1. \A p \in b.pointers : <<i>> \o p \in Levels
    BY <1>2, ConsProperties DEF Levels
  <2>2. <<i>> \in Levels
    BY DEF Levels
  <2> QED BY <2>1, <2>2
<1>5. Promoted(b, i, pointer) = c
  BY <1>1 DEF Promoted
<1> HIDE DEF ls, ps
<1>6. c = [levels |-> ls, field |-> b.field, names |-> b.names, pointers |-> ps]
  <2>1. DOMAIN b = {"levels", "field", "names", "pointers"} /\ b = [x \in DOMAIN b |-> b[x]]
    BY <1>1
  <2>2. c = [x \in {"levels", "field", "names", "pointers"} |->
               IF x = "pointers" THEN ps ELSE IF x = "levels" THEN ls ELSE b[x]]
    BY <2>1 DEF c
  <2> QED BY <2>2
<1> HIDE DEF c
<1>7. c \in [levels : Levels, field : FieldType, names : SUBSET Names, pointers : SUBSET Levels]
  BY <1>1, <1>3, <1>4, <1>6
<1>8. c.levels = ls /\ c.names = b.names
  BY <1>6
<1>9. c \in Binding
  BY <1>3, <1>7, <1>8, BindingIs
<1> QED BY <1>3, <1>5, <1>8, <1>9 DEF ls

LEMMA PromotedBefore ==
  ASSUME NEW b \in Binding, NEW c \in Binding, NEW i \in Nat, NEW pointer, Before(b, c)
  PROVE  Before(Promoted(b, i, pointer), Promoted(c, i, pointer))
<1> DEFINE p == b.levels
           q == c.levels
           r == <<i>> \o p
           s == <<i>> \o q
<1>1. p \in Seq(Nat) /\ q \in Seq(Nat)
  BY BindingHas DEF Levels
<1>2. PICK k \in Nat : DiffersAt(p, q, k)
  BY BeforeIs
<1>3. Len(r) = Len(p) + 1 /\ r[1] = i /\ \A j \in 2..(Len(p) + 1) : r[j] = p[j - 1]
  BY <1>1, ConsProperties
<1>4. Len(s) = Len(q) + 1 /\ s[1] = i /\ \A j \in 2..(Len(q) + 1) : s[j] = q[j - 1]
  BY <1>1, ConsProperties
<1> HIDE DEF p, q, r, s
<1>5. k \in 1..Len(p) /\ k <= Len(q) /\ p[k] < q[k] /\ \A j \in 1..(k - 1) : p[j] = q[j]
  BY <1>2 DEF DiffersAt
<1>6. Len(p) \in Nat /\ Len(q) \in Nat
  BY <1>1
<1>7. r[k + 1] = p[k] /\ s[k + 1] = q[k]
  <2>1. k + 1 \in 2..(Len(p) + 1) /\ k + 1 \in 2..(Len(q) + 1) /\ (k + 1) - 1 = k
    BY <1>5, <1>6
  <2> QED BY <2>1, <1>3, <1>4
<1>8. \A j \in 1..k : r[j] = s[j]
  <2> SUFFICES ASSUME NEW j \in 1..k PROVE r[j] = s[j]
    OBVIOUS
  <2>1. CASE j = 1
    BY <2>1, <1>3, <1>4
  <2>2. CASE j # 1
    <3>1. j \in 2..(Len(p) + 1) /\ j \in 2..(Len(q) + 1) /\ j - 1 \in 1..(k - 1)
      BY <2>2, <1>5, <1>6
    <3> QED BY <3>1, <1>3, <1>4, <1>5
  <2> QED BY <2>1, <2>2
<1>9. DiffersAt(r, s, k + 1)
  BY <1>3, <1>4, <1>5, <1>6, <1>7, <1>8 DEF DiffersAt
<1>10. Promoted(b, i, pointer).levels = r /\ Promoted(c, i, pointer).levels = s
  BY PromotedIs DEF r, s, p, q
<1>11. Promoted(b, i, pointer) \in Binding /\ Promoted(c, i, pointer) \in Binding
  BY PromotedIs, Zenon
<1>12. k + 1 \in Nat
  OBVIOUS
<1> QED BY <1>9, <1>10, <1>11, <1>12, BeforeIs

Starts(s, d) == \A k \in 1..Len(s) : s[k].levels[1] = d

\* Bindings of a later field come after those there are.
LEMMA ChainGrows ==
  ASSUME NEW s \in Seq(Binding), NEW t \in Seq(Binding), NEW d \in Nat,
         Chain(s), Chain(t), Below(s, d), Starts(t, d)
  PROVE  s \o t \in Seq(Binding) /\ Chain(s \o t) /\ Below(s \o t, d + 1)
<1> DEFINE m == s \o t
<1>1. Len(s) \in Nat /\ Len(t) \in Nat /\ m \in Seq(Binding) /\ Len(m) = Len(s) + Len(t)
  OBVIOUS
<1>2. \A k \in 1..Len(m) : (k <= Len(s) /\ k \in 1..Len(s) /\ m[k] = s[k])
                         \/ (k > Len(s) /\ k - Len(s) \in 1..Len(t) /\ m[k] = t[k - Len(s)])
  BY <1>1
<1> HIDE DEF m
<1>3. \A k \in 1..Len(s) : s[k] \in Binding /\ s[k].levels[1] < d /\ s[k].levels[1] \in Nat
  BY BindingHas, ElementOfSeq DEF Below
<1>4. \A k \in 1..Len(t) : t[k] \in Binding
  BY ElementOfSeq
<1>5. Below(m, d + 1)
  <2> SUFFICES ASSUME NEW k \in 1..Len(m) PROVE m[k].levels[1] < d + 1
    BY DEF Below
  <2>1. CASE k \in 1..Len(s) /\ m[k] = s[k]
    BY <2>1, <1>3
  <2>2. CASE k - Len(s) \in 1..Len(t) /\ m[k] = t[k - Len(s)]
    <3>1. m[k].levels[1] = d
      BY <2>2 DEF Starts
    <3> QED BY <3>1
  <2> QED BY <1>2, <2>1, <2>2
<1>6. Chain(m)
  <2> SUFFICES ASSUME NEW i \in 1..Len(m), NEW j \in 1..Len(m), i < j PROVE Before(m[i], m[j])
    BY DEF Chain
  <2>1. CASE j <= Len(s)
    <3>1. i \in 1..Len(s) /\ j \in 1..Len(s) /\ m[i] = s[i] /\ m[j] = s[j]
      BY <1>1, <1>2, <2>1
    <3> QED BY <3>1 DEF Chain
  <2>2. CASE i <= Len(s) /\ j > Len(s)
    <3>1. i \in 1..Len(s) /\ j - Len(s) \in 1..Len(t) /\ m[i] = s[i] /\ m[j] = t[j - Len(s)]
      BY <1>1, <1>2, <2>2
    <3>2. m[i] \in Binding /\ m[j] \in Binding /\ m[i].levels[1] < m[j].levels[1]
      BY <1>3, <1>4, <3>1 DEF Starts
    <3> QED BY <3>2, BeforeByFirst
  <2>3. CASE i > Len(s)
    <3>1. i - Len(s) \in 1..Len(t) /\ j - Len(s) \in 1..Len(t) /\ m[i] = t[i - Len(s)] /\ m[j] = t[j - Len(s)]
      BY <1>1, <1>2, <2>3
    <3>2. i - Len(s) < j - Len(s)
      BY <1>1
    <3> QED BY <3>1, <3>2 DEF Chain
  <2> QED BY <1>1, <2>1, <2>2, <2>3
<1> QED BY <1>1, <1>5, <1>6 DEF m

LEMMA ApartGrows ==
  ASSUME NEW s \in Seq(Binding), NEW t \in Seq(Binding), NEW u \in Seq(Binding), NEW d \in Nat,
         Apart(s, u) \/ Apart(u, s), Below(u, d), Starts(t, d)
  PROVE  Apart(s \o t, u) /\ Apart(u, s \o t)
<1> DEFINE m == s \o t
<1>1. Len(s) \in Nat /\ Len(t) \in Nat /\ Len(m) = Len(s) + Len(t)
  OBVIOUS
<1>2. \A k \in 1..Len(m) : (k \in 1..Len(s) /\ m[k] = s[k]) \/ (k - Len(s) \in 1..Len(t) /\ m[k] = t[k - Len(s)])
  BY <1>1
<1> HIDE DEF m
<1>3. \A j \in 1..Len(u), k \in 1..Len(t) : Before(u[j], t[k])
  <2> SUFFICES ASSUME NEW j \in 1..Len(u), NEW k \in 1..Len(t) PROVE Before(u[j], t[k])
    OBVIOUS
  <2>1. u[j] \in Binding /\ t[k] \in Binding /\ u[j].levels[1] < t[k].levels[1]
    BY ElementOfSeq DEF Below, Starts
  <2> QED BY <2>1, BeforeByFirst
<1>4. \A j \in 1..Len(u), k \in 1..Len(s) : Before(u[j], s[k]) \/ Before(s[k], u[j])
  BY DEF Apart
<1>5. \A j \in 1..Len(u), k \in 1..Len(m) : Before(u[j], m[k]) \/ Before(m[k], u[j])
  BY <1>2, <1>3, <1>4
<1> QED BY <1>5 DEF Apart, m

LEMMA BelowRises ==
  ASSUME NEW s \in Seq(Binding), NEW d \in Nat, Below(s, d)
  PROVE  Below(s, d + 1)
<1>1. \A k \in 1..Len(s) : s[k].levels[1] \in Nat
  BY BindingHas, ElementOfSeq
<1> QED BY <1>1 DEF Below

\* A frame that goes on to the next field, with what it has of this one.
LEMMA FrameSkips ==
  ASSUME NEW f \in FrameType, NEW d \in Nat, FrameOK(f, d), f.i < Len(f.of), NEW g, g = [f EXCEPT !.i = @ + 1]
  PROVE  /\ g \in FrameType /\ g.i = f.i + 1 /\ FrameOK(g, d) /\ FrameOK(g, d + 1)
         /\ g.of = f.of /\ g.bindings = f.bindings /\ g.embedded = f.embedded
<1>1. f.i \in Nat /\ f.bindings \in Seq(Binding) /\ f.embedded \in Seq(Binding)
  BY DEF FrameType
<1>2. g \in FrameType /\ g.i = f.i + 1 /\ g.of = f.of /\ g.bindings = f.bindings /\ g.embedded = f.embedded
  BY DEF FrameType
<1>3. Len(f.of) \in Nat
  BY StructBindingAssumption DEF FrameType
<1>4. Below(f.bindings, d + 1) /\ Below(f.embedded, d + 1)
  BY <1>1, BelowRises DEF FrameOK
<1> QED BY <1>1, <1>2, <1>3, <1>4 DEF FrameOK

LEMMA FrameBinds ==
  ASSUME NEW f \in FrameType, NEW d \in Nat, FrameOK(f, d), NEW b \in Binding, b.levels[1] = d,
         NEW g, g = [f EXCEPT !.bindings = Append(@, b)]
  PROVE  g \in FrameType /\ g.i = f.i /\ g.of = f.of /\ FrameOK(g, d + 1)
<1> DEFINE t == <<b>>
           s == f.bindings
           e == f.embedded
<1>1. s \in Seq(Binding) /\ e \in Seq(Binding) /\ f.i \in Nat
  BY DEF FrameType
<1>2. t \in Seq(Binding) /\ Len(t) = 1 /\ t[1] = b /\ Append(s, b) = s \o t
  BY <1>1, AppendIsConcat
<1>3. Append(s, b) \in Seq(Binding)
  BY <1>1
<1>4. g \in FrameType /\ g.i = f.i /\ g.of = f.of /\ g.bindings = s \o t /\ g.embedded = e
  BY <1>2, <1>3 DEF FrameType
<1>5. Chain(s) /\ Chain(e) /\ Apart(e, s) /\ Below(s, d) /\ Below(e, d) /\ f.i <= Len(f.of)
  BY DEF FrameOK
<1> HIDE DEF t, s, e
<1>6. Chain(t) /\ Starts(t, d)
  BY <1>2 DEF Chain, Starts
<1>7. Chain(s \o t) /\ Below(s \o t, d + 1)
  BY <1>1, <1>2, <1>5, <1>6, ChainGrows
<1>8. Apart(e, s \o t)
  BY <1>1, <1>2, <1>5, <1>6, ApartGrows
<1>9. Below(e, d + 1)
  BY <1>1, <1>5, BelowRises
<1> QED BY <1>4, <1>5, <1>7, <1>8, <1>9 DEF FrameOK

WithEmbedded(f, t) == [f EXCEPT !.embedded = @ \o t]
LEMMA FrameEmbeds ==
  ASSUME NEW f \in FrameType, NEW d \in Nat, FrameOK(f, d),
         NEW t \in Seq(Binding), Chain(t), Starts(t, d)
  PROVE  WithEmbedded(f, t) \in FrameType /\ WithEmbedded(f, t).i = f.i /\ FrameOK(WithEmbedded(f, t), d + 1)
<1> DEFINE g == WithEmbedded(f, t)
           s == f.bindings
           e == f.embedded
<1>1. s \in Seq(Binding) /\ e \in Seq(Binding) /\ f.i \in Nat
  BY DEF FrameType
<1>2. e \o t \in Seq(Binding)
  BY <1>1
<1>3. g \in FrameType /\ g.i = f.i /\ g.of = f.of /\ g.bindings = s /\ g.embedded = e \o t
  BY <1>2 DEF FrameType, WithEmbedded
<1> HIDE DEF g
<1>4. Chain(s) /\ Chain(e) /\ Apart(e, s) /\ Below(s, d) /\ Below(e, d) /\ f.i <= Len(f.of)
  BY DEF FrameOK
<1> HIDE DEF s, e
<1>5. Chain(e \o t) /\ Below(e \o t, d + 1)
  BY <1>1, <1>4, ChainGrows
<1>6. Apart(e \o t, s)
  BY <1>1, <1>4, ApartGrows
<1>7. Below(s, d + 1)
  BY <1>1, <1>4, BelowRises
<1> QED BY <1>3, <1>4, <1>5, <1>6, <1>7 DEF FrameOK, g

LEMMA PromotedChain ==
  ASSUME NEW b \in Seq(Binding), Chain(b), NEW i \in Nat, NEW p, NEW t,
         t = [k \in DOMAIN b |-> Promoted(b[k], i, p)]
  PROVE  t \in Seq(Binding) /\ Chain(t) /\ Starts(t, i)
<1>1. Len(b) \in Nat /\ \A k \in 1..Len(b) : b[k] \in Binding
  BY ElementOfSeq
<1>2. t = [k \in 1..Len(b) |-> Promoted(b[k], i, p)]
  OBVIOUS
<1>6. \A k \in 1..Len(b) : Promoted(b[k], i, p) \in Binding /\ Promoted(b[k], i, p).levels[1] = i
  BY <1>1, PromotedIs, Zenon
<1>3. t \in Seq(Binding) /\ Len(t) = Len(b)
  BY <1>1, <1>2, <1>6
<1>4. \A k \in 1..Len(t) : t[k] = Promoted(b[k], i, p) /\ t[k].levels[1] = i
  BY <1>2, <1>3, <1>6
<1>5. Chain(t)
  <2> SUFFICES ASSUME NEW j \in 1..Len(t), NEW k \in 1..Len(t), j < k PROVE Before(t[j], t[k])
    BY DEF Chain
  <2>1. Before(b[j], b[k]) /\ b[j] \in Binding /\ b[k] \in Binding
    BY <1>1, <1>3 DEF Chain
  <2> QED BY <1>4, <2>1, PromotedBefore
<1> QED BY <1>3, <1>4, <1>5 DEF Starts

----------------------------------------------------------------------------
(* describeStruct.                                                         *)

LEMMA NotEmpty == ASSUME NEW S, NEW s \in Seq(S), Len(s) > 0 PROVE s # <<>>
  OBVIOUS

LEMMA StackPush ==
  ASSUME NEW t \in Seq(FrameType), Callers(t), NEW h \in FrameType, FrameOK(h, h.i + 1)
  PROVE  <<h>> \o t \in Seq(FrameType) /\ StackOK(<<h>> \o t)
<1> DEFINE s == <<h>> \o t
<1>1. s \in Seq(FrameType) /\ s # <<>> /\ Head(s) = h
  BY ConsProperties
<1>2. Tail(s) = t
  BY TailOfCons
<1> HIDE DEF s
<1>3. StackOK(s)
  BY <1>1, <1>2 DEF StackOK
<1> QED BY <1>1, <1>3 DEF s

LEMMA CallersPush ==
  ASSUME NEW t \in Seq(FrameType), Callers(t), NEW h \in FrameType, h.i >= 1, FrameOK(h, h.i)
  PROVE  <<h>> \o t \in Seq(FrameType) /\ Callers(<<h>> \o t)
<1> DEFINE s == <<h>> \o t
<1>1. s \in Seq(FrameType) /\ s[1] = h /\ Len(s) = Len(t) + 1 /\ \A k \in 2..(Len(t) + 1) : s[k] = t[k - 1]
  BY ConsProperties
<1> HIDE DEF s
<1>2. \A k \in 1..Len(s) : s[k].i >= 1 /\ FrameOK(s[k], s[k].i)
  <2> SUFFICES ASSUME NEW k \in 1..Len(s) PROVE s[k].i >= 1 /\ FrameOK(s[k], s[k].i)
    OBVIOUS
  <2>1. CASE k = 1
    BY <1>1, <2>1
  <2>2. CASE k # 1
    <3>1. k \in 2..(Len(t) + 1) /\ k - 1 \in 1..Len(t)
      BY <1>1, <2>2
    <3> QED BY <1>1, <3>1 DEF Callers
  <2> QED BY <2>1, <2>2
<1> QED BY <1>1, <1>2 DEF Callers, s

LEMMA StackPop ==
  ASSUME NEW s \in Seq(FrameType), StackOK(s)
  PROVE  /\ Head(s) \in FrameType /\ FrameOK(Head(s), Head(s).i + 1) /\ Head(s).i \in Nat
         /\ Tail(s) \in Seq(FrameType) /\ Callers(Tail(s))
<1>1. Head(s) \in FrameType /\ Tail(s) \in Seq(FrameType)
  BY ConsHeadTail DEF StackOK
<1>2. Head(s).i \in Nat
  BY <1>1 DEF FrameType
<1> QED BY <1>1, <1>2 DEF StackOK

LEMMA CallersPop ==
  ASSUME NEW s \in Seq(FrameType), Callers(s), s # <<>>
  PROVE  /\ s[1] \in FrameType /\ s[1].i >= 1 /\ s[1].i \in Nat /\ FrameOK(s[1], s[1].i)
         /\ Tail(s) \in Seq(FrameType) /\ Callers(Tail(s))
<1>1. Len(s) \in Nat /\ Len(s) >= 1 /\ 1 \in 1..Len(s)
  BY EmptySeq
<1>2. s[1] \in FrameType /\ s[1].i >= 1 /\ FrameOK(s[1], s[1].i)
  BY <1>1 DEF Callers
<1>3. s[1].i \in Nat
  BY <1>2 DEF FrameType
<1>4. Tail(s) \in Seq(FrameType) /\ Len(Tail(s)) = Len(s) - 1 /\ \A k \in 1..Len(Tail(s)) : Tail(s)[k] = s[k + 1]
  BY <1>1
<1>5. \A k \in 1..Len(Tail(s)) : k + 1 \in 1..Len(s)
  BY <1>1, <1>4
<1>6. Callers(Tail(s))
  BY <1>4, <1>5 DEF Callers
<1> QED BY <1>2, <1>3, <1>4, <1>6

LEMMA NewFrame ==
  ASSUME NEW t \in Structs
  PROVE  Frame(t) \in FrameType /\ Frame(t).i = 0 /\ FrameOK(Frame(t), Frame(t).i + 1)
<1> DEFINE n == <<>>
<1>1. Frame(t) = [of |-> t, i |-> 0, bindings |-> n, embedded |-> n]
  BY DEF Frame
<1>2. n \in Seq(Binding) /\ Len(n) = 0
  OBVIOUS
<1> HIDE DEF n
<1>3. Chain(n) /\ Apart(n, n) /\ Below(n, 1)
  BY <1>2 DEF Chain, Apart, Below
<1>4. Len(t) \in Nat
  BY StructBindingAssumption
<1>5. Frame(t) \in FrameType
  BY <1>1, <1>2 DEF FrameType
<1> QED BY <1>1, <1>3, <1>4, <1>5 DEF FrameOK

\* A field that is taken: where the call is, and the call as it goes on.
LEMMA AtField ==
  ASSUME DescribeInv, Describing
  PROVE  /\ phase = "describe" /\ stack \in Seq(FrameType) /\ StackOK(stack)
         /\ Top \in FrameType /\ Top.i \in Nat /\ FrameOK(Top, Top.i + 1) /\ Top.i < Len(Top.of)
         /\ Tail(stack) \in Seq(FrameType) /\ Callers(Tail(stack))
         /\ Top.of \in Structs /\ Top.i + 1 \in 1..Len(Top.of) /\ Field = Top.of[Top.i + 1] /\ Field \in FieldType
<1>1. phase = "describe" /\ stack \in Seq(FrameType) /\ StackOK(stack) /\ Top.i < Len(Top.of)
  BY DEF DescribeInv, Describing
<1>2. /\ Top \in FrameType /\ Top.i \in Nat /\ FrameOK(Top, Top.i + 1)
      /\ Tail(stack) \in Seq(FrameType) /\ Callers(Tail(stack))
  BY <1>1, StackPop DEF Top
<1>3. Top.of \in Structs
  BY <1>2 DEF FrameType
<1>4. Len(Top.of) \in Nat
  BY <1>3, StructBindingAssumption
<1>5. Top.i + 1 \in 1..Len(Top.of)
  BY <1>1, <1>2, <1>4
<1>6. Field \in FieldType /\ Field = Top.of[Top.i + 1]
  BY <1>3, <1>5, FieldIs DEF Field
<1> QED BY <1>1, <1>2, <1>3, <1>5, <1>6

LEMMA AdvancedIs ==
  ASSUME DescribeInv, Describing
  PROVE  /\ Advanced \in FrameType /\ Advanced.i = Top.i + 1 /\ Advanced.of = Top.of
         /\ FrameOK(Advanced, Top.i + 1) /\ FrameOK(Advanced, (Top.i + 1) + 1)
<1> DEFINE f == Top
           g == [f EXCEPT !.i = @ + 1]
           d == f.i + 1
<1>1. f \in FrameType /\ FrameOK(f, d) /\ f.i < Len(f.of) /\ d \in Nat
  BY AtField
<1>2. Advanced = g
  BY DEF Advanced
<1> HIDE DEF f
<1>3. g \in FrameType /\ g.i = f.i + 1 /\ FrameOK(g, d) /\ FrameOK(g, d + 1) /\ g.of = f.of
  BY <1>1, FrameSkips
<1> QED BY <1>2, <1>3 DEF f

LEMMA SkipKeepsDescribe == DescribeInv /\ SkipField => DescribeInv'
<1> SUFFICES ASSUME DescribeInv, SkipField PROVE DescribeInv'
  OBVIOUS
<1>1. Describing /\ stack' = <<Advanced>> \o Tail(stack) /\ UNCHANGED <<cfg, typ, phase, fields>>
  BY DEF SkipField
<1>2. Tail(stack) \in Seq(FrameType) /\ Callers(Tail(stack))
  BY <1>1, AtField
<1>3. Advanced \in FrameType /\ FrameOK(Advanced, Advanced.i + 1)
  BY <1>1, AdvancedIs
<1>4. stack' \in Seq(FrameType) /\ StackOK(stack')
  BY <1>1, <1>2, <1>3, StackPush
<1> QED BY <1>1, <1>4 DEF DescribeInv

LEMMA EmbedKeepsDescribe == DescribeInv /\ Embed => DescribeInv'
<1> SUFFICES ASSUME DescribeInv, Embed PROVE DescribeInv'
  OBVIOUS
<1>1. /\ Describing /\ Embeds(Field) /\ stack' = <<Frame(Field.struct), Advanced>> \o Tail(stack)
      /\ UNCHANGED <<cfg, typ, phase, fields>>
  BY DEF Embed
<1>2. Tail(stack) \in Seq(FrameType) /\ Callers(Tail(stack)) /\ Top.i \in Nat /\ Field \in FieldType
  BY <1>1, AtField
<1>3. Field.struct \in Structs
  BY <1>1, <1>2 DEF Embeds, FieldType
<1>4. Advanced \in FrameType /\ FrameOK(Advanced, Advanced.i) /\ Advanced.i >= 1
  BY <1>1, <1>2, AdvancedIs
<1> DEFINE h == Frame(Field.struct)
           t == <<Advanced>> \o Tail(stack)
<1>5. h \in FrameType /\ FrameOK(h, h.i + 1)
  BY <1>3, NewFrame
<1>6. t \in Seq(FrameType) /\ Callers(t)
  BY <1>2, <1>4, CallersPush
<1>7. stack' = <<h>> \o t
  BY <1>1, <1>2, ConsTwo
<1> HIDE DEF h, t
<1>8. stack' \in Seq(FrameType) /\ StackOK(stack')
  BY <1>5, <1>6, <1>7, StackPush
<1> QED BY <1>1, <1>8 DEF DescribeInv

LEMMA BindKeepsDescribe == DescribeInv /\ BindField => DescribeInv'
<1> SUFFICES ASSUME DescribeInv, BindField PROVE DescribeInv'
  OBVIOUS
<1> DEFINE b == [levels |-> <<Top.i + 1>>, field |-> Field, names |-> FieldNames(Field), pointers |-> {}]
           a == Advanced
           g == [a EXCEPT !.bindings = Append(@, b)]
<1>1. Describing /\ stack' = <<g>> \o Tail(stack) /\ UNCHANGED <<cfg, typ, phase, fields>>
  BY DEF BindField
<1>2. Tail(stack) \in Seq(FrameType) /\ Callers(Tail(stack)) /\ Top.i \in Nat
  BY <1>1, AtField
<1>3. b \in Binding /\ b.levels[1] = Top.i + 1
  <2>1. Top.of \in Structs /\ Top.i \in Nat /\ Top.i + 1 \in 1..Len(Top.of) /\ Field = Top.of[Top.i + 1]
    BY <1>1, AtField
  <2> QED BY <2>1, NewBinding
<1> DEFINE d == Top.i + 1
<1>4. a \in FrameType /\ FrameOK(a, d) /\ a.i = d /\ d \in Nat
  BY <1>1, <1>2, AdvancedIs
<1> HIDE DEF b, a, d
<1>5. g \in FrameType /\ g.i = a.i /\ FrameOK(g, d + 1)
  BY <1>3, <1>4, FrameBinds DEF d
<1> HIDE DEF g
<1>6. stack' \in Seq(FrameType) /\ StackOK(stack')
  BY <1>1, <1>2, <1>4, <1>5, StackPush
<1> QED BY <1>1, <1>6 DEF DescribeInv

LEMMA ReturnKeepsDescribe == DescribeInv /\ DescribeReturns => DescribeInv'
<1> SUFFICES ASSUME DescribeInv, DescribeReturns PROVE DescribeInv'
  OBVIOUS
<1>1. phase = "describe" /\ stack \in Seq(FrameType) /\ StackOK(stack) /\ UNCHANGED <<cfg, typ>>
  BY DEF DescribeReturns, DescribeInv
<1>2. /\ Top \in FrameType /\ Top.i \in Nat /\ FrameOK(Top, Top.i + 1)
      /\ Tail(stack) \in Seq(FrameType) /\ Callers(Tail(stack))
  BY <1>1, StackPop DEF Top
<1> DEFINE b == Merged(Top)
<1>3. b \in Seq(Binding) /\ Chain(b)
  <2>1. Top.i + 1 \in Nat
    BY <1>2
  <2> QED BY <1>2, <2>1, MergedIs
<1>4. CASE Len(stack) = 1
  <2>1. stack' = <<>> /\ fields' = b /\ phase' = "to"
    BY <1>4 DEF DescribeReturns
  <2>2. stack' \in Seq(FrameType) /\ fields' \in Seq(Binding) /\ Chain(fields')
    BY <1>3, <2>1
  <2> QED BY <1>1, <2>1, <2>2 DEF DescribeInv, Phases
<1>5. CASE Len(stack) # 1
  <2> DEFINE c == stack[2]
             p == c.of[c.i].pointer
             t == [k \in DOMAIN b |-> Promoted(b[k], c.i, p)]
             g == [c EXCEPT !.embedded = @ \o t]
  <2>1. stack' = <<g>> \o Tail(Tail(stack)) /\ UNCHANGED <<fields, phase>>
    BY <1>5 DEF DescribeReturns
  <2>2. Tail(stack) # <<>> /\ Tail(stack)[1] = c
    <3>1. stack # <<>> /\ Len(stack) \in Nat
      BY <1>1 DEF StackOK
    <3>2. Len(stack) > 1
      BY <1>1, <1>5, <3>1, EmptySeq
    <3>3. Len(Tail(stack)) = Len(stack) - 1 /\ Tail(stack)[1] = stack[2]
      BY <1>1, <3>1, <3>2
    <3>4. Tail(stack) # <<>>
      <4>1. Len(Tail(stack)) > 0
        BY <3>1, <3>2, <3>3
      <4> QED BY <1>2, <4>1, NotEmpty
    <3> QED BY <3>3, <3>4
  <2> HIDE DEF c
  <2>3. c \in FrameType /\ FrameOK(c, c.i) /\ c.i \in Nat
    BY <1>2, <2>2, CallersPop
  <2>4. Tail(Tail(stack)) \in Seq(FrameType) /\ Callers(Tail(Tail(stack)))
    BY <1>2, <2>2, CallersPop
  <2> DEFINE d == c.i
  <2> HIDE DEF b, p
  <2>8. t = [k \in DOMAIN b |-> Promoted(b[k], d, p)] /\ d \in Nat /\ FrameOK(c, d)
    BY <2>3
  <2> HIDE DEF t, d
  <2>5. t \in Seq(Binding) /\ Chain(t) /\ Starts(t, d)
    BY <1>3, <2>8, PromotedChain, ZenonT(60)
  <2>9. g = WithEmbedded(c, t)
    BY DEF WithEmbedded
  <2> HIDE DEF g
  <2>6. g \in FrameType /\ g.i = c.i /\ FrameOK(g, d + 1)
    BY <2>3, <2>5, <2>8, <2>9, FrameEmbeds
  <2> HIDE DEF g
  <2>7. stack' \in Seq(FrameType) /\ StackOK(stack')
    BY <2>1, <2>4, <2>6, StackPush DEF d
  <2> QED BY <1>1, <2>1, <2>7 DEF DescribeInv
<1> QED BY <1>4, <1>5

\* After that nothing changes what has been described.
LEMMA OthersKeepDescribe ==
  ASSUME DescribeInv, phase # "describe", phase' \in Phases \ {"describe"}, UNCHANGED <<cfg, typ, stack, fields>>
  PROVE  DescribeInv'
  BY DEF DescribeInv

LEMMA LaterSteps ==
  ASSUME BindTo \/ EncoderMade \/ BindFrom \/ DecoderMade \/ StartEncode \/ EncodeField \/ StartDecode \/ DecodeMember,
         phase \in Phases
  PROVE  phase # "describe" /\ phase' \in Phases \ {"describe"} /\ UNCHANGED <<cfg, typ, stack, fields>>
<1>1. CASE BindTo
  BY <1>1 DEF BindTo, describing, value, Phases
<1>2. CASE EncoderMade
  BY <1>2 DEF EncoderMade, describing, value, Phases
<1>3. CASE BindFrom
  BY <1>3 DEF BindFrom, describing, value, Phases
<1>4. CASE DecoderMade
  BY <1>4 DEF DecoderMade, describing, value, Phases
<1>5. CASE StartEncode
  BY <1>5 DEF StartEncode, describing, value, Phases
<1>6. CASE EncodeField
  BY <1>6 DEF EncodeField, describing, value, Phases
<1>7. CASE StartDecode
  BY <1>7 DEF StartDecode, describing, value, Phases
<1>8. CASE DecodeMember
  BY <1>8 DEF DecodeMember, describing, value, Phases
<1> QED BY <1>1, <1>2, <1>3, <1>4, <1>5, <1>6, <1>7, <1>8

LEMMA DescribeHolds == Spec => []DescribeInv
<1>1. Init => DescribeInv
  <2> SUFFICES ASSUME Init PROVE DescribeInv
    OBVIOUS
  <2>1. cfg \in Configs /\ typ \in Structs /\ phase = "describe" /\ stack = <<Frame(typ)>> /\ fields = <<>>
    BY DEF Init
  <2> DEFINE h == Frame(typ)
             n == <<>>
  <2>2. h \in FrameType /\ FrameOK(h, h.i + 1)
    BY <2>1, NewFrame
  <2>3. n \in Seq(FrameType) /\ Callers(n)
    BY DEF Callers
  <2>4. stack = <<h>> \o n
    BY <2>1, <2>2
  <2> HIDE DEF h, n
  <2>5. stack \in Seq(FrameType) /\ StackOK(stack)
    BY <2>2, <2>3, <2>4, StackPush
  <2>6. fields \in Seq(Binding) /\ Chain(fields)
    BY <2>1 DEF Chain
  <2> QED BY <2>1, <2>5, <2>6 DEF DescribeInv, Phases
<1>2. DescribeInv /\ [Next]_vars => DescribeInv'
  <2> SUFFICES ASSUME DescribeInv, [Next]_vars PROVE DescribeInv'
    OBVIOUS
  <2>1. CASE UNCHANGED vars
    BY <2>1 DEF vars, DescribeInv
  <2>2. CASE SkipField \/ Embed \/ BindField \/ DescribeReturns
    BY <2>2, SkipKeepsDescribe, EmbedKeepsDescribe, BindKeepsDescribe, ReturnKeepsDescribe
  <2>3. CASE BindTo \/ EncoderMade \/ BindFrom \/ DecoderMade \/ StartEncode \/ EncodeField \/ StartDecode \/ DecodeMember
    <3>1. phase \in Phases
      BY DEF DescribeInv
    <3> QED BY <2>3, <3>1, LaterSteps, OthersKeepDescribe
  <2> QED BY <2>1, <2>2, <2>3 DEF Next
<1> QED BY <1>1, <1>2, PTL DEF Spec

----------------------------------------------------------------------------
(* Two bindings with one name.                                             *)

LEMMA FieldsDiffer ==
  ASSUME NEW f \in Seq(Binding), Chain(f), NEW i \in 1..Len(f), NEW j \in 1..Len(f), f[i].levels = f[j].levels
  PROVE  i = j
<1>1. f[i] \in Binding /\ f[j] \in Binding
  BY ElementOfSeq
<1>2. ~(i < j)
  <2>1. i < j => Before(f[i], f[j])
    BY DEF Chain
  <2> QED BY <1>1, <2>1, BeforeDiffers
<1>3. ~(j < i)
  <2>1. j < i => Before(f[j], f[i])
    BY DEF Chain
  <2> QED BY <1>1, <2>1, BeforeDiffers
<1> QED BY <1>2, <1>3

\* resolveConflictBinding drops one of the two, or both.
LEMMA ResolveDrops ==
  ASSUME NEW old \in Binding, NEW new \in Binding
  PROVE  /\ resolveConflictBinding(old, new)[1] \in BOOLEAN /\ resolveConflictBinding(old, new)[2] \in BOOLEAN
         /\ ~resolveConflictBinding(old, new)[1] => resolveConflictBinding(old, new)[2]
<1>1. Len(old.levels) \in Nat /\ Len(new.levels) \in Nat
  BY BindingHas DEF Levels
<1> DEFINE x == Len(old.levels) >= Len(new.levels)
           y == Len(new.levels) >= Len(old.levels)
<1>2. x \in BOOLEAN /\ y \in BOOLEAN /\ (~x => y)
  BY <1>1
<1> HIDE DEF x, y
<1>3. Shallower(old, new) = <<x, y>>
  BY DEF Shallower, x, y
<1>4. CASE Tagged(new) = Tagged(old)
  <2>1. resolveConflictBinding(old, new) = <<x, y>>
    BY <1>3, <1>4 DEF resolveConflictBinding
  <2> QED BY <1>2, <2>1
<1>5. CASE Tagged(new) # Tagged(old)
  <2>1. resolveConflictBinding(old, new) = <<TRUE, FALSE>>
    BY <1>5 DEF resolveConflictBinding
  <2> QED BY <2>1
<1> QED BY <1>4, <1>5

\* What is settled of a field changes only with one of its name.
LEMMA LosesStays ==
  ASSUME NEW f \in Seq(Binding), NEW m \in Nat, m + 1 <= Len(f), NEW k \in 1..m,
         f[k].names = {} \/ f[m + 1].names # f[k].names
  PROVE  Loses(f, k, m + 1) <=> Loses(f, k, m)
<1>1. \A i \in 1..(m + 1) : i = m + 1 \/ i \in 1..m
  OBVIOUS
<1>2. \A i \in 1..m : i \in 1..(m + 1)
  OBVIOUS
<1>3. ~Rivals(f, m + 1, k)
  BY DEF Rivals
<1> QED BY <1>1, <1>2, <1>3, ZenonT(60) DEF Loses

LEMMA LosesAlone ==
  ASSUME NEW f \in Seq(Binding), NEW m \in Nat, m + 1 <= Len(f),
         \A k \in 1..m : f[k].names # f[m + 1].names
  PROVE  ~Loses(f, m + 1, m + 1)
<1>1. \A i \in 1..(m + 1) : i = m + 1 \/ i \in 1..m
  OBVIOUS
<1> QED BY <1>1, ZenonT(60) DEF Loses, Rivals

\* Of three fields no two others have the name of one.
LEMMA LosesFirst ==
  ASSUME NEW f \in Seq(Binding), PairedIn(f), NEW m \in Nat, m + 1 <= Len(f), NEW k \in 1..m,
         f[k].names # {}, f[m + 1].names = f[k].names
  PROVE  ~Loses(f, k, m)
<1>1. SUFFICES ASSUME NEW i \in 1..m, Rivals(f, i, k) PROVE FALSE
  BY Zenon DEF Loses
<1>2. i # k /\ f[i].names = f[k].names
  BY <1>1 DEF Rivals
<1>3. i \in 1..Len(f) /\ k \in 1..Len(f) /\ m + 1 \in 1..Len(f) /\ i # m + 1 /\ k # m + 1
  OBVIOUS
<1> QED BY <1>2, <1>3 DEF PairedIn

LEMMA LosesToNew ==
  ASSUME NEW f \in Seq(Binding), PairedIn(f), NEW m \in Nat, m + 1 <= Len(f), NEW k \in 1..m,
         f[k].names # {}, f[m + 1].names = f[k].names
  PROVE  /\ Loses(f, k, m + 1) <=> resolveConflictBinding(f[k], f[m + 1])[1]
         /\ Loses(f, m + 1, m + 1) <=> resolveConflictBinding(f[k], f[m + 1])[2]
<1>1. k \in 1..Len(f) /\ m + 1 \in 1..Len(f) /\ k # m + 1 /\ m + 1 \in 1..(m + 1) /\ k \in 1..(m + 1)
      /\ k < m + 1 /\ ~(m + 1 < k)
  OBVIOUS
<1>2. \A i \in 1..(m + 1) : i \in 1..Len(f)
  OBVIOUS
<1>3. \A i \in 1..(m + 1) : Rivals(f, i, k) => i = m + 1
  BY <1>1, <1>2, ZenonT(60) DEF PairedIn, Rivals
<1>4. \A i \in 1..(m + 1) : Rivals(f, i, m + 1) => i = k
  BY <1>1, <1>2, ZenonT(60) DEF PairedIn, Rivals
<1>5. Rivals(f, m + 1, k) /\ Rivals(f, k, m + 1)
  BY <1>1 DEF Rivals
<1>6. Loses(f, k, m + 1) <=> resolveConflictBinding(f[k], f[m + 1])[1]
  BY <1>1, <1>3, <1>5, ZenonT(60) DEF Loses
<1>7. Loses(f, m + 1, m + 1) <=> resolveConflictBinding(f[k], f[m + 1])[2]
  BY <1>1, <1>4, <1>5, ZenonT(60) DEF Loses
<1> QED BY <1>6, <1>7

----------------------------------------------------------------------------
(* encoderOfStruct.                                                        *)

LEMMA ListedHas ==
  ASSUME NEW o, NEW f, NEW m, Listed(o, f, m)
  PROVE  /\ o \in Seq(Entry) /\ Len(o) <= m /\ Len(o) \in Nat
         /\ \A j \in 1..Len(o) : o[j] \in Entry
         /\ \A j \in 1..Len(o) : \E k \in 1..m : o[j].binding = f[k] /\ f[k].names = {o[j].name}
<1>1. o \in Seq(Entry)
  BY DEF Listed
<1>2. Len(o) \in Nat /\ \A j \in 1..Len(o) : o[j] \in Entry
  BY <1>1, ElementOfSeq, LenProperties
<1>3. Len(o) <= m
  BY DEF Listed
<1>4. \A j \in 1..Len(o) : \E k \in 1..m : o[j].binding = f[k] /\ f[k].names = {o[j].name}
  BY Zenon DEF Listed
<1> QED BY <1>1, <1>2, <1>3, <1>4

\* A field without a name is not listed.
LEMMA ListedSkips ==
  ASSUME NEW f \in Seq(Binding), Chain(f), NEW m \in Nat, m + 1 <= Len(f), f[m + 1].names = {},
         NEW o, Listed(o, f, m)
  PROVE  Listed(o, f, m + 1) /\ (RightlyListed(o, f, m) => RightlyListed(o, f, m + 1))
<1>1. \A k \in 1..m : k \in 1..(m + 1) /\ k \in 1..Len(f) /\ k # m + 1
  OBVIOUS
<1>2. \A k \in 1..(m + 1) : k = m + 1 \/ k \in 1..m
  OBVIOUS
<1>3. o \in Seq(Entry) /\ Len(o) <= m + 1
  <2>1. Len(o) \in Nat /\ Len(o) <= m /\ o \in Seq(Entry)
    BY ListedHas
  <2> QED BY <2>1
<1>4. \A j \in 1..Len(o) : \E k \in 1..m : o[j].binding = f[k] /\ f[k].names = {o[j].name}
  BY Zenon DEF Listed
<1>5. \A k \in 1..m : f[k].names # {} => \E j \in 1..Len(o) : o[j].binding = f[k]
  BY Zenon DEF Listed
<1>6. \A i, j \in 1..Len(o) : i < j => Before(o[i].binding, o[j].binding)
  BY Zenon DEF Listed
<1>7. Listed(o, f, m + 1)
  <2>1. \A j \in 1..Len(o) : \E k \in 1..(m + 1) : o[j].binding = f[k] /\ f[k].names = {o[j].name}
    BY <1>1, <1>4, Zenon
  <2>2. \A k \in 1..(m + 1) : f[k].names # {} => \E j \in 1..Len(o) : o[j].binding = f[k]
    BY <1>2, <1>5, Zenon
  <2> QED BY <1>3, <1>6, <2>1, <2>2, Zenon DEF Listed
<1>8. ASSUME RightlyListed(o, f, m) PROVE RightlyListed(o, f, m + 1)
  <2> SUFFICES ASSUME NEW j \in 1..Len(o), NEW k \in 1..(m + 1), o[j].binding = f[k]
               PROVE  o[j].ignored <=> Loses(f, k, m + 1)
    BY DEF RightlyListed
  <2>1. PICK i \in 1..m : o[j].binding = f[i] /\ f[i].names = {o[j].name}
    BY <1>4
  <2>2. k # m + 1
    BY <2>1
  <2>3. k \in 1..m
    BY <2>2
  <2>4. o[j].ignored <=> Loses(f, k, m)
    BY <1>8, <2>3, Zenon DEF RightlyListed
  <2>5. f[m + 1].names # f[k].names
    BY <2>1
  <2>6. Loses(f, k, m + 1) <=> Loses(f, k, m)
    BY <2>3, <2>5, LosesStays
  <2> QED BY <2>4, <2>6
<1> QED BY <1>7, <1>8

\* The others may be ignored or not from now on, and one is added.
SameButIgnored(p, o) ==
  /\ p \in Seq(Entry) /\ Len(p) = Len(o)
  /\ \A j \in 1..Len(o) : p[j].binding = o[j].binding /\ p[j].name = o[j].name
LEMMA ListedAdds ==
  ASSUME NEW f \in Seq(Binding), Chain(f), NEW m \in Nat, m + 1 <= Len(f),
         NEW o, Listed(o, f, m), NEW p, SameButIgnored(p, o),
         NEW e \in Entry, e.binding = f[m + 1], f[m + 1].names = {e.name}
  PROVE  Listed(Append(p, e), f, m + 1)
<1> DEFINE q == Append(p, e)
           n == Len(o)
<1>1. \A k \in 1..m : k \in 1..(m + 1) /\ k \in 1..Len(f) /\ k < m + 1
  OBVIOUS
<1>2. \A k \in 1..(m + 1) : k = m + 1 \/ k \in 1..m
  OBVIOUS
<1>3. n \in Nat /\ n <= m /\ p \in Seq(Entry) /\ Len(p) = n
  BY ListedHas DEF SameButIgnored
<1>4. q \in Seq(Entry) /\ Len(q) = n + 1 /\ q[n + 1] = e /\ \A j \in 1..n : q[j] = p[j]
  BY <1>3
<1>5. \A j \in 1..n : q[j].binding = o[j].binding /\ q[j].name = o[j].name
  BY <1>4 DEF SameButIgnored
<1> HIDE DEF q, n
<1>6. \A j \in 1..n : \E k \in 1..m : o[j].binding = f[k] /\ f[k].names = {o[j].name}
  BY Zenon DEF Listed, n
<1>7. \A k \in 1..m : f[k].names # {} => \E j \in 1..n : o[j].binding = f[k]
  BY Zenon DEF Listed, n
<1>8. \A i, j \in 1..n : i < j => Before(o[i].binding, o[j].binding)
  BY Zenon DEF Listed, n
<1>9. \A j \in 1..(n + 1) : j = n + 1 \/ j \in 1..n
  BY <1>3
<1>10. \A j \in 1..n : j \in 1..(n + 1) /\ j < n + 1
  BY <1>3
<1>11. n + 1 \in 1..(n + 1) /\ m + 1 \in 1..(m + 1) /\ m + 1 \in 1..Len(f)
  BY <1>3
<1>12. \A j \in 1..(n + 1) : \E k \in 1..(m + 1) : q[j].binding = f[k] /\ f[k].names = {q[j].name}
  <2> SUFFICES ASSUME NEW j \in 1..(n + 1)
               PROVE  \E k \in 1..(m + 1) : q[j].binding = f[k] /\ f[k].names = {q[j].name}
    OBVIOUS
  <2>1. CASE j = n + 1
    BY <1>4, <1>11, <2>1
  <2>2. CASE j \in 1..n
    <3>1. PICK k \in 1..m : o[j].binding = f[k] /\ f[k].names = {o[j].name}
      BY <1>6, <2>2
    <3> QED BY <1>1, <1>5, <2>2, <3>1, Zenon
  <2> QED BY <1>9, <2>1, <2>2
<1>13. \A k \in 1..(m + 1) : f[k].names # {} => \E j \in 1..(n + 1) : q[j].binding = f[k]
  <2> SUFFICES ASSUME NEW k \in 1..(m + 1), f[k].names # {} PROVE \E j \in 1..(n + 1) : q[j].binding = f[k]
    OBVIOUS
  <2>1. CASE k = m + 1
    BY <1>4, <1>11, <2>1
  <2>2. CASE k \in 1..m
    <3>1. PICK j \in 1..n : o[j].binding = f[k]
      BY <1>7, <2>2
    <3> QED BY <1>5, <1>10, <3>1, Zenon
  <2> QED BY <1>2, <2>1, <2>2
<1>14. \A i, j \in 1..(n + 1) : i < j => Before(q[i].binding, q[j].binding)
  <2> SUFFICES ASSUME NEW i \in 1..(n + 1), NEW j \in 1..(n + 1), i < j PROVE Before(q[i].binding, q[j].binding)
    OBVIOUS
  <2>1. i \in 1..n
    BY <1>3
  <2>2. CASE j = n + 1
    <3>1. PICK k \in 1..m : o[i].binding = f[k]
      BY <1>6, <2>1
    <3>2. Before(f[k], f[m + 1])
      BY <1>1, <1>11 DEF Chain
    <3> QED BY <1>4, <1>5, <2>1, <2>2, <3>1, <3>2
  <2>3. CASE j \in 1..n
    BY <1>5, <1>8, <2>1, <2>3
  <2> QED BY <1>9, <2>2, <2>3
<1>15. Len(q) <= m + 1
  BY <1>3, <1>4
<1> QED BY <1>4, <1>12, <1>13, <1>14, <1>15, Zenon DEF Listed, q

MarkedBy(p, o, new, name) ==
  \A j \in 1..Len(o) : p[j].ignored =
    IF o[j].name = name THEN resolveConflictBinding(o[j].binding, new)[1] ELSE o[j].ignored
DecidedBy(e, o, new, name) ==
  \/ e.ignored = FALSE /\ \A j \in 1..Len(o) : o[j].name # name
  \/ \E j \in 1..Len(o) : o[j].name = name /\ e.ignored = resolveConflictBinding(o[j].binding, new)[2]

LEMMA RightlyAdds ==
  ASSUME NEW f \in Seq(Binding), Chain(f), PairedIn(f), NEW m \in Nat, m + 1 <= Len(f),
         NEW o, Listed(o, f, m), RightlyListed(o, f, m), NEW p, SameButIgnored(p, o),
         NEW e \in Entry, e.binding = f[m + 1], f[m + 1].names = {e.name},
         MarkedBy(p, o, f[m + 1], e.name), DecidedBy(e, o, f[m + 1], e.name)
  PROVE  RightlyListed(Append(p, e), f, m + 1)
<1> DEFINE q == Append(p, e)
           n == Len(o)
           new == f[m + 1]
<1>1. \A k \in 1..m : k \in 1..(m + 1) /\ k \in 1..Len(f) /\ k # m + 1
  OBVIOUS
<1>2. \A k \in 1..(m + 1) : k \in 1..Len(f) /\ (k = m + 1 \/ k \in 1..m)
  OBVIOUS
<1>3. n \in Nat /\ p \in Seq(Entry) /\ Len(p) = n
  BY ListedHas DEF SameButIgnored
<1>4. q \in Seq(Entry) /\ Len(q) = n + 1 /\ q[n + 1] = e /\ \A j \in 1..n : q[j] = p[j]
  BY <1>3
<1>5. \A j \in 1..n : q[j].binding = o[j].binding
  BY <1>4 DEF SameButIgnored
<1>6. \A j \in 1..n : \E k \in 1..m : o[j].binding = f[k] /\ f[k].names = {o[j].name}
  BY Zenon DEF Listed, n
<1>7. \A k \in 1..m : f[k].names # {} => \E j \in 1..n : o[j].binding = f[k]
  BY Zenon DEF Listed, n
<1>8. \A j \in 1..(n + 1) : j = n + 1 \/ j \in 1..n
  BY <1>3
<1>9. \A i, k \in 1..Len(f) : f[i] = f[k] => i = k
  BY FieldsDiffer
<1>10. \A j \in 1..n : q[j].ignored =
         IF o[j].name = e.name THEN resolveConflictBinding(o[j].binding, new)[1] ELSE o[j].ignored
  BY <1>4 DEF MarkedBy
<1>11. m + 1 \in 1..(m + 1)
  OBVIOUS
<1> HIDE DEF q
<1> SUFFICES ASSUME NEW j \in 1..(n + 1), NEW k \in 1..(m + 1), q[j].binding = f[k]
             PROVE  q[j].ignored <=> Loses(f, k, m + 1)
  BY <1>4, Zenon DEF RightlyListed, q
<1>12. CASE j = n + 1
  <2>1. q[j] = e /\ k = m + 1
    BY <1>2, <1>4, <1>9, <1>11, <1>12
  <2>2. CASE e.ignored = FALSE /\ \A i \in 1..n : o[i].name # e.name
    <3>1. \A i \in 1..m : f[i].names # new.names
      <4> SUFFICES ASSUME NEW i \in 1..m, f[i].names = new.names PROVE FALSE
        OBVIOUS
      <4>1. PICK l \in 1..n : o[l].binding = f[i]
        BY <1>7
      <4>2. PICK h \in 1..m : o[l].binding = f[h] /\ f[h].names = {o[l].name}
        BY <1>6
      <4>3. o[l].name = e.name
        BY <4>1, <4>2
      <4> QED BY <2>2, <4>3
    <3>2. ~Loses(f, m + 1, m + 1)
      BY <3>1, LosesAlone
    <3> QED BY <2>1, <2>2, <3>2
  <2>3. CASE \E i \in 1..n : o[i].name = e.name /\ e.ignored = resolveConflictBinding(o[i].binding, new)[2]
    <3>1. PICK i \in 1..n : o[i].name = e.name /\ e.ignored = resolveConflictBinding(o[i].binding, new)[2]
      BY <2>3
    <3>2. PICK h \in 1..m : o[i].binding = f[h] /\ f[h].names = {o[i].name}
      BY <1>6
    <3>3. f[h].names # {} /\ f[m + 1].names = f[h].names
      BY <3>1, <3>2
    <3>4. Loses(f, m + 1, m + 1) <=> resolveConflictBinding(f[h], f[m + 1])[2]
      BY <3>3, LosesToNew
    <3> QED BY <2>1, <3>1, <3>2, <3>4
  <2> QED BY <2>2, <2>3 DEF DecidedBy
<1>13. CASE j \in 1..n
  <2>1. PICK i \in 1..m : o[j].binding = f[i] /\ f[i].names = {o[j].name}
    BY <1>6, <1>13
  <2>2. k = i
    BY <1>1, <1>2, <1>5, <1>9, <1>13, <2>1
  <2>3. CASE o[j].name = e.name
    <3>1. q[j].ignored = resolveConflictBinding(f[i], f[m + 1])[1]
      BY <1>10, <1>13, <2>1, <2>3
    <3>2. f[i].names # {} /\ f[m + 1].names = f[i].names
      BY <2>1, <2>3
    <3>3. Loses(f, i, m + 1) <=> resolveConflictBinding(f[i], f[m + 1])[1]
      BY <3>2, LosesToNew
    <3> QED BY <2>2, <3>1, <3>3
  <2>4. CASE o[j].name # e.name
    <3>1. q[j].ignored = o[j].ignored
      BY <1>10, <1>13, <2>4
    <3>2. o[j].ignored <=> Loses(f, i, m)
      BY <1>13, <2>1, Zenon DEF RightlyListed, n
    <3>3. f[m + 1].names # f[i].names
      BY <2>1, <2>4
    <3>4. Loses(f, i, m + 1) <=> Loses(f, i, m)
      BY <3>3, LosesStays
    <3> QED BY <2>2, <3>1, <3>2, <3>4
  <2> QED BY <2>3, <2>4
<1> QED BY <1>8, <1>12, <1>13

LEMMA BindToKeepsEncoder ==
  ASSUME DescribeInv, EncoderInv, BindTo
  PROVE  EncoderInv'
<1> DEFINE f == fields
           o == ordered
           m == at
           new == f[m + 1]
           name == CHOOSE x \in new.names : TRUE
           same == {j \in DOMAIN o : o[j].name = name}
           last == CHOOSE j \in same : \A k \in same : k <= j
           p == [j \in DOMAIN o |->
                  IF j \in same THEN [o[j] EXCEPT !.ignored = resolveConflictBinding(o[j].binding, new)[1]] ELSE o[j]]
           e == [binding |-> new, name |-> name,
                 ignored |-> IF same = {} THEN FALSE ELSE resolveConflictBinding(o[last].binding, new)[2]]
<1>1. /\ phase = "to" /\ at < Len(fields) /\ at' = at + 1 /\ phase' = phase /\ fields' = fields
      /\ ordered' = IF new.names = {} THEN o ELSE Append(p, e)
  BY DEF BindTo, describing
<1>2. f \in Seq(Binding) /\ Chain(f) /\ m \in Nat /\ m + 1 <= Len(f)
  <2>1. f \in Seq(Binding) /\ Chain(f) /\ m \in Nat
    BY DEF DescribeInv, EncoderInv
  <2>2. Len(f) \in Nat
    BY <2>1
  <2>3. at < Len(fields)
    BY <1>1, Zenon
  <2>4. m + 1 <= Len(f)
    BY <2>1, <2>2, <2>3
  <2> QED BY <2>1, <2>4, Zenon
<1>3. Listed(o, f, m) /\ (Paired => RightlyListed(o, f, m))
  BY <1>1, Zenon DEF EncoderInv
<1>4. new \in Binding /\ (new.names = {} \/ \E n \in Names : new.names = {n})
  <2>1. m + 1 \in 1..Len(f)
    BY <1>2
  <2>2. new \in Binding
    BY <1>2, <2>1, ElementOfSeq
  <2> QED BY <2>2, BindingIs
<1>5. Listed(ordered', f, m + 1) /\ (Paired => RightlyListed(ordered', f, m + 1))
  <2>1. CASE new.names = {}
    <3>1. ordered' = o
      BY <1>1, <2>1
    <3> QED BY <1>2, <1>3, <2>1, <3>1, ListedSkips
  <2>2. CASE new.names # {}
    <3>1. name \in Names /\ new.names = {name}
      BY <1>4, <2>2
    <3>2. ordered' = Append(p, e)
      BY <1>1, <2>2
    <3> HIDE DEF f, o, m, name
    <3>3. o \in Seq(Entry) /\ Len(o) \in Nat /\ DOMAIN o = 1..Len(o) /\ \A j \in 1..Len(o) : o[j] \in Entry
      BY <1>3, ListedHas
    <3>4. \A j \in 1..Len(o) : o[j].binding \in Binding
      BY <3>3 DEF Entry
    <3>5. same # {} => last \in same
      <4> SUFFICES ASSUME same # {} PROVE \E j \in same : \A k \in same : k <= j
        BY Zenon
      <4>1. same \in SUBSET (0..Len(o))
        BY <3>3
      <4> HIDE DEF same
      <4> QED BY <3>3, <4>1, GreatestNumber
    <3>6. \A j \in 1..Len(o) : j \in same <=> o[j].name = name
      BY <3>3
    <3>7. same \subseteq 1..Len(o)
      BY <3>3
    <3> HIDE DEF same, last
    <3> HIDE DEF new
    <3>8. e \in Entry /\ e.binding = new /\ e.name = name
      <4> DEFINE x == IF same = {} THEN FALSE ELSE resolveConflictBinding(o[last].binding, new)[2]
      <4>1. x \in BOOLEAN
        <5>1. CASE same = {}
          BY <5>1
        <5>2. CASE same # {}
          <6>1. last \in 1..Len(o)
            BY <3>5, <3>7, <5>2
          <6>2. resolveConflictBinding(o[last].binding, new)[2] \in BOOLEAN
            BY <1>4, <3>4, <6>1, ResolveDrops
          <6> QED BY <5>2, <6>2
        <5> QED BY <5>1, <5>2
      <4>2. e = [binding |-> new, name |-> name, ignored |-> x]
        OBVIOUS
      <4> HIDE DEF x, e
      <4> QED BY <1>4, <3>1, <4>1, <4>2 DEF Entry
    <3>9. DecidedBy(e, o, new, name)
      <4>1. CASE same = {}
        <5>1. e.ignored = FALSE
          BY <4>1
        <5> QED BY <3>6, <4>1, <5>1 DEF DecidedBy
      <4>2. CASE same # {}
        <5>1. e.ignored = resolveConflictBinding(o[last].binding, new)[2]
          BY <4>2
        <5>2. last \in 1..Len(o) /\ o[last].name = name
          BY <3>5, <3>6, <3>7, <4>2
        <5> QED BY <5>1, <5>2, Zenon DEF DecidedBy
      <4> QED BY <4>1, <4>2
    <3> HIDE DEF e
    <3>10. \A j \in 1..Len(o) : p[j] =
             IF o[j].name = name THEN [o[j] EXCEPT !.ignored = resolveConflictBinding(o[j].binding, new)[1]] ELSE o[j]
      BY <3>3, <3>6
    <3>11. p = [j \in 1..Len(o) |-> p[j]]
      BY <3>3
    <3> HIDE DEF p
    <3>12. \A j \in 1..Len(o) :
             /\ p[j] \in Entry /\ p[j].binding = o[j].binding /\ p[j].name = o[j].name
             /\ p[j].ignored = IF o[j].name = name THEN resolveConflictBinding(o[j].binding, new)[1] ELSE o[j].ignored
      <4> SUFFICES ASSUME NEW j \in 1..Len(o)
                   PROVE  /\ p[j] \in Entry /\ p[j].binding = o[j].binding /\ p[j].name = o[j].name
                          /\ p[j].ignored = IF o[j].name = name THEN resolveConflictBinding(o[j].binding, new)[1]
                                            ELSE o[j].ignored
        OBVIOUS
      <4> DEFINE x == resolveConflictBinding(o[j].binding, new)[1]
      <4>1. x \in BOOLEAN
        BY <1>4, <3>4, ResolveDrops
      <4> HIDE DEF x
      <4>2. o[j] \in Entry
        BY <3>3
      <4>3. p[j] = IF o[j].name = name THEN [o[j] EXCEPT !.ignored = x] ELSE o[j]
        BY <3>10 DEF x
      <4>4. CASE o[j].name = name
        <5>1. p[j] = [o[j] EXCEPT !.ignored = x]
          BY <4>3, <4>4
        <5>2. p[j] \in Entry /\ p[j].binding = o[j].binding /\ p[j].name = o[j].name /\ p[j].ignored = x
          BY <4>1, <4>2, <5>1 DEF Entry
        <5> QED BY <4>4, <5>2 DEF x
      <4>5. CASE o[j].name # name
        BY <4>2, <4>3, <4>5
      <4> QED BY <4>4, <4>5
    <3>13. p \in Seq(Entry) /\ Len(p) = Len(o)
      <4>1. \A j \in 1..Len(o) : p[j] \in Entry
        BY <3>12
      <4> QED BY <3>3, <3>11, <4>1
    <3>14. SameButIgnored(p, o)
      BY <3>12, <3>13 DEF SameButIgnored
    <3>15. MarkedBy(p, o, new, name)
      BY <3>12 DEF MarkedBy
    <3>16. Listed(Append(p, e), f, m + 1)
      BY <1>2, <1>3, <3>1, <3>8, <3>14, ListedAdds DEF new
    <3>17. ASSUME Paired PROVE RightlyListed(Append(p, e), f, m + 1)
      <4>1. PairedIn(f)
        BY <3>17 DEF Paired, f
      <4>2. RightlyListed(o, f, m)
        BY <1>3, <3>17
      <4>3. MarkedBy(p, o, f[m + 1], e.name) /\ DecidedBy(e, o, f[m + 1], e.name)
        BY <3>8, <3>9, <3>15 DEF new
      <4>4. e \in Entry /\ e.binding = f[m + 1] /\ f[m + 1].names = {e.name}
        BY <3>1, <3>8 DEF new
      <4> QED BY <1>2, <1>3, <3>14, <4>1, <4>2, <4>3, <4>4, RightlyAdds
    <3> QED BY <3>2, <3>16, <3>17
  <2> QED BY <2>1, <2>2
<1>6. at' \in Nat /\ at' <= Len(fields') /\ phase' = "to" /\ at' = m + 1 /\ fields' = f /\ (Paired' <=> Paired)
  <2>1. Paired' <=> Paired
    <3> HIDE DEF f
    <3> QED BY <1>1, Zenon DEF Paired, PairedIn
  <2>2. at' \in Nat /\ at' <= Len(fields') /\ at' = m + 1 /\ fields' = f
    <3>1. at' = m + 1 /\ fields' = f
      BY <1>1, Zenon
    <3>2. m + 1 \in Nat /\ m + 1 <= Len(f)
      BY <1>2, SMT
    <3> QED BY <3>1, <3>2, Zenon
  <2> QED BY <1>1, <2>1, <2>2, Zenon
<1> QED BY <1>5, <1>6 DEF EncoderInv

\* When the encoder is made, nothing more is settled for it.
LEMMA OthersKeepEncoder ==
  ASSUME DescribeInv, EncoderInv, phase # "describe", phase # "to", phase' \in Phases \ {"describe", "to"},
         UNCHANGED <<fields, ordered>>, at' \in Nat, phase' \in {"from", "ready"} => at' <= Len(fields)
  PROVE  EncoderInv'
<1>1. Listed(ordered, fields, Len(fields)) /\ (Paired => RightlyListed(ordered, fields, Len(fields)))
  BY Zenon DEF EncoderInv
<1>2. Listed(ordered', fields', Len(fields')) /\ (Paired' => RightlyListed(ordered', fields', Len(fields')))
  BY <1>1 DEF Paired
<1>3. phase' # "describe" /\ phase' # "to"
  OBVIOUS
<1>4. phase' \in {"to", "from", "ready"} => at' <= Len(fields')
  BY <1>3
<1> QED BY <1>2, <1>3, <1>4 DEF EncoderInv

LEMMA NothingListed ==
  ASSUME NEW f
  PROVE  Listed(<<>>, f, 0) /\ RightlyListed(<<>>, f, 0)
<1> DEFINE n == <<>>
<1>1. n \in Seq(Entry) /\ Len(n) = 0
  OBVIOUS
<1> HIDE DEF n
<1>2. Listed(n, f, 0)
  BY <1>1 DEF Listed
<1>3. RightlyListed(n, f, 0)
  BY <1>1 DEF RightlyListed
<1> QED BY <1>2, <1>3 DEF n

LEMMA EncoderHolds == Spec => []EncoderInv
<1>1. Init => EncoderInv
  <2> SUFFICES ASSUME Init PROVE EncoderInv
    OBVIOUS
  <2>1. phase = "describe" /\ at = 0 /\ ordered = <<>>
    BY DEF Init
  <2> QED BY <2>1 DEF EncoderInv
<1>2. DescribeInv /\ EncoderInv /\ [Next]_vars => EncoderInv'
  <2> SUFFICES ASSUME DescribeInv, EncoderInv, [Next]_vars PROVE EncoderInv'
    OBVIOUS
  <2>1. at \in Nat /\ phase \in Phases /\ Len(fields) \in Nat
    BY DEF EncoderInv, DescribeInv
  <2>2. CASE UNCHANGED vars
    BY <2>2 DEF vars, EncoderInv, Paired
  <2>3. CASE SkipField \/ Embed \/ BindField
    <3>1. phase = "describe" /\ phase' = phase /\ at' = at /\ ordered' = ordered
      BY <2>3 DEF SkipField, Embed, BindField, Describing
    <3> QED BY <3>1 DEF EncoderInv
  <2>4. CASE DescribeReturns
    <3>1. phase = "describe" /\ at' = at /\ ordered' = ordered /\ (phase' = phase \/ phase' = "to")
      BY <2>4 DEF DescribeReturns
    <3>2. at = 0 /\ ordered = <<>>
      BY <3>1 DEF EncoderInv
    <3>3. CASE phase' = phase
      BY <3>1, <3>2, <3>3 DEF EncoderInv
    <3>4. CASE phase' = "to"
      <4>1. Listed(ordered', fields', 0) /\ RightlyListed(ordered', fields', 0)
        BY <3>1, <3>2, NothingListed
      <4>2. DescribeInv'
        BY <2>4, ReturnKeepsDescribe
      <4>3. Len(fields') \in Nat
        BY <4>2 DEF DescribeInv
      <4>4. at' = 0 /\ 0 <= Len(fields')
        BY <3>1, <3>2, <4>3
      <4> QED BY <3>4, <4>1, <4>4 DEF EncoderInv
    <3> QED BY <3>1, <3>3, <3>4
  <2>5. CASE BindTo
    BY <2>5, BindToKeepsEncoder
  <2>6. CASE EncoderMade
    <3>1. phase = "to" /\ at = Len(fields) /\ phase' = "from" /\ at' = 0 /\ fields' = fields /\ ordered' = ordered
      BY <2>6 DEF EncoderMade, describing
    <3>2. Listed(ordered, fields, Len(fields)) /\ (Paired => RightlyListed(ordered, fields, Len(fields)))
      BY <3>1, Zenon DEF EncoderInv
    <3>3. Listed(ordered', fields', Len(fields')) /\ (Paired' => RightlyListed(ordered', fields', Len(fields')))
      BY <3>1, <3>2 DEF Paired
    <3>4. at' \in Nat /\ at' <= Len(fields')
      BY <2>1, <3>1
    <3> QED BY <3>1, <3>3, <3>4 DEF EncoderInv
  <2>7. CASE BindFrom
    <3>1. phase = "from" /\ phase' = phase /\ at < Len(fields) /\ at' = at + 1 /\ UNCHANGED <<fields, ordered>>
      BY <2>7 DEF BindFrom, describing
    <3>2. at' \in Nat /\ at' <= Len(fields)
      BY <2>1, <3>1
    <3> QED BY <3>1, <3>2, OthersKeepEncoder DEF Phases
  <2>8. CASE DecoderMade
    <3>1. phase = "from" /\ phase' = "ready" /\ at = Len(fields) /\ at' = at /\ UNCHANGED <<fields, ordered>>
      BY <2>8 DEF DecoderMade, describing
    <3>2. at' \in Nat /\ at' <= Len(fields)
      BY <2>1, <3>1
    <3> QED BY <3>1, <3>2, OthersKeepEncoder DEF Phases
  <2>9. CASE StartEncode
    <3>1. phase = "ready" /\ phase' = "encode" /\ at' = 0 /\ UNCHANGED <<fields, ordered>>
      BY <2>9 DEF StartEncode, describing
    <3> QED BY <3>1, OthersKeepEncoder DEF Phases
  <2>10. CASE EncodeField
    <3>1. phase = "encode" /\ phase' = phase /\ at' = at + 1 /\ UNCHANGED <<fields, ordered>>
      BY <2>10 DEF EncodeField, describing
    <3>2. at' \in Nat
      BY <2>1, <3>1
    <3> QED BY <3>1, <3>2, OthersKeepEncoder DEF Phases
  <2>11. CASE StartDecode
    <3>1. phase = "encode" /\ phase' \in {"decode", "decodeOther"} /\ at' = 0 /\ UNCHANGED <<fields, ordered>>
      BY <2>11 DEF StartDecode, describing
    <3> QED BY <3>1, OthersKeepEncoder DEF Phases
  <2>12. CASE DecodeMember
    <3>1. phase \in {"decode", "decodeOther"} /\ phase' = phase /\ at' = at + 1 /\ UNCHANGED <<fields, ordered>>
      BY <2>12 DEF DecodeMember, describing
    <3>2. at' \in Nat
      BY <2>1, <3>1
    <3> QED BY <3>1, <3>2, OthersKeepEncoder DEF Phases
  <2> QED BY <2>2, <2>3, <2>4, <2>5, <2>6, <2>7, <2>8, <2>9, <2>10, <2>11, <2>12 DEF Next
<1>3. Spec => []DescribeInv
  BY DescribeHolds
<1> QED BY <1>1, <1>2, <1>3, PTL DEF Spec

----------------------------------------------------------------------------
(* decoderOfStruct.                                                        *)

\* What becomes of bound with a new binding of a name.
Rebound(b, new, name) ==
  IF name \notin DOMAIN b THEN With(b, name, new)
  ELSE LET ignore == resolveConflictBinding(b[name], new)
           kept == IF ignore[1] THEN Drop(b, name) ELSE b
       IN IF ignore[2] THEN kept ELSE With(kept, name, new)
\* ... of its other names, nothing, and of this one the new binding or the old one
ReboundAs(c, b, new, name) ==
  /\ \A n \in DOMAIN c \cup DOMAIN b : n # name => (n \in DOMAIN c <=> n \in DOMAIN b) /\ c[n] = b[n]
  /\ name \in DOMAIN c => c[name] = new \/ (name \in DOMAIN b /\ c[name] = b[name])
  /\ name \notin DOMAIN b => name \in DOMAIN c /\ c[name] = new
Kept(c, name, x) == name \in DOMAIN c /\ c[name] = x
ResolvedAs(c, b, new, name) ==
  name \in DOMAIN b /\ b[name] # new =>
    /\ Kept(c, name, new) <=> ~resolveConflictBinding(b[name], new)[2]
    /\ Kept(c, name, b[name]) <=> ~resolveConflictBinding(b[name], new)[1]

LEMMA ReboundIs ==
  ASSUME NEW b, NEW new \in Binding, NEW name, name \in DOMAIN b => b[name] \in Binding
  PROVE  ReboundAs(Rebound(b, new, name), b, new, name) /\ ResolvedAs(Rebound(b, new, name), b, new, name)
<1> DEFINE c == Rebound(b, new, name)
<1>1. CASE name \notin DOMAIN b
  <2>1. c = With(b, name, new)
    BY <1>1 DEF Rebound
  <2> HIDE DEF c
  <2>2. DOMAIN c = DOMAIN b \cup {name} /\ c[name] = new /\ \A k \in DOMAIN b : k # name => c[k] = b[k]
    BY <2>1 DEF With
  <2>3. ReboundAs(c, b, new, name)
    BY <1>1, <2>2, Zenon DEF ReboundAs
  <2>4. ResolvedAs(c, b, new, name)
    BY <1>1 DEF ResolvedAs
  <2> QED BY <2>3, <2>4 DEF c
<1>2. CASE name \in DOMAIN b
  <2> DEFINE old == b[name]
             i1 == resolveConflictBinding(old, new)[1]
             i2 == resolveConflictBinding(old, new)[2]
             kept == IF i1 THEN Drop(b, name) ELSE b
  <2>1. i1 \in BOOLEAN /\ i2 \in BOOLEAN /\ (~i1 => i2)
    BY <1>2, ResolveDrops
  <2>2. c = IF i2 THEN kept ELSE With(kept, name, new)
    BY <1>2 DEF Rebound
  <2>3. /\ DOMAIN kept \subseteq DOMAIN b /\ \A k \in DOMAIN b : k # name => k \in DOMAIN kept /\ kept[k] = b[k]
        /\ (i1 => name \notin DOMAIN kept) /\ (~i1 => kept = b)
    <3>1. CASE i1
      <4>1. kept = Drop(b, name)
        BY <3>1
      <4> HIDE DEF kept, i1
      <4>2. DOMAIN kept = DOMAIN b \ {name} /\ \A k \in DOMAIN b \ {name} : kept[k] = b[k]
        BY <4>1 DEF Drop
      <4> QED BY <3>1, <4>2
    <3>2. CASE ~i1
      BY <3>2
    <3> QED BY <2>1, <3>1, <3>2
  <2> HIDE DEF i1, i2, kept, c
  <2>4. CASE i2
    <3>1. c = kept
      BY <2>2, <2>4
    <3>2. ReboundAs(c, b, new, name)
      BY <1>2, <2>1, <2>3, <3>1, Zenon DEF ReboundAs
    <3>3. ResolvedAs(c, b, new, name)
      BY <1>2, <2>1, <2>3, <2>4, <3>1 DEF ResolvedAs, Kept, i1, i2
    <3> QED BY <3>2, <3>3 DEF c
  <2>5. CASE ~i2
    <3>1. i1 /\ c = With(kept, name, new)
      BY <2>1, <2>2, <2>5
    <3>2. DOMAIN c = DOMAIN kept \cup {name} /\ c[name] = new /\ \A k \in DOMAIN kept : k # name => c[k] = kept[k]
      BY <3>1 DEF With
    <3>3. ReboundAs(c, b, new, name)
      BY <1>2, <2>3, <3>2 DEF ReboundAs
    <3>4. ResolvedAs(c, b, new, name)
      BY <1>2, <2>5, <3>1, <3>2 DEF ResolvedAs, Kept, i1, i2
    <3> QED BY <3>3, <3>4 DEF c
  <2> QED BY <2>1, <2>4, <2>5
<1> QED BY <1>1, <1>2

LEMMA BoundSkips ==
  ASSUME NEW f \in Seq(Binding), NEW m \in Nat, m + 1 <= Len(f), f[m + 1].names = {}, NEW b, BoundTo(b, f, m)
  PROVE  BoundTo(b, f, m + 1) /\ (RightlyBound(b, f, m) => RightlyBound(b, f, m + 1))
<1>1. \A k \in 1..m : k \in 1..(m + 1)
  OBVIOUS
<1>2. \A k \in 1..(m + 1) : k = m + 1 \/ k \in 1..m
  OBVIOUS
<1>3. BoundTo(b, f, m + 1)
  BY <1>1, Zenon DEF BoundTo
<1>4. ASSUME RightlyBound(b, f, m), NEW k \in 1..(m + 1), NEW n \in Names, f[k].names = {n}
      PROVE  (n \in DOMAIN b /\ b[n] = f[k]) <=> ~Loses(f, k, m + 1)
  <2>1. k # m + 1
    BY <1>4
  <2>2. k \in 1..m
    BY <2>1
  <2>3. (n \in DOMAIN b /\ b[n] = f[k]) <=> ~Loses(f, k, m)
    BY <1>4, <2>2, Zenon DEF RightlyBound
  <2>4. f[m + 1].names # f[k].names
    BY <1>4
  <2>5. Loses(f, k, m + 1) <=> Loses(f, k, m)
    BY <2>2, <2>4, LosesStays
  <2> QED BY <2>3, <2>5
<1>5. RightlyBound(b, f, m) => RightlyBound(b, f, m + 1)
  BY <1>4, Zenon DEF RightlyBound
<1> QED BY <1>3, <1>5

LEMMA BoundRebinds ==
  ASSUME NEW f \in Seq(Binding), Chain(f), NEW m \in Nat, m + 1 <= Len(f), NEW name \in Names, f[m + 1].names = {name},
         NEW b, BoundTo(b, f, m), NEW c, ReboundAs(c, b, f[m + 1], name), ResolvedAs(c, b, f[m + 1], name)
  PROVE  BoundTo(c, f, m + 1) /\ (PairedIn(f) /\ RightlyBound(b, f, m) => RightlyBound(c, f, m + 1))
<1> DEFINE new == f[m + 1]
<1>1. \A k \in 1..m : k \in 1..(m + 1) /\ k \in 1..Len(f) /\ k # m + 1
  OBVIOUS
<1>2. \A k \in 1..(m + 1) : k \in 1..Len(f) /\ (k = m + 1 \/ k \in 1..m)
  OBVIOUS
<1>3. m + 1 \in 1..(m + 1) /\ m + 1 \in 1..Len(f)
  OBVIOUS
<1>4. \A n \in DOMAIN b : n \in Names /\ \E k \in 1..m : b[n] = f[k] /\ f[k].names = {n}
  BY Zenon DEF BoundTo
<1>5. \A n \in DOMAIN c \cup DOMAIN b : n # name => (n \in DOMAIN c <=> n \in DOMAIN b) /\ c[n] = b[n]
  BY Zenon DEF ReboundAs
<1>6. BoundTo(c, f, m + 1)
  <2> SUFFICES ASSUME NEW n \in DOMAIN c PROVE n \in Names /\ \E k \in 1..(m + 1) : c[n] = f[k] /\ f[k].names = {n}
    BY DEF BoundTo
  <2>1. CASE n # name
    <3>1. n \in DOMAIN b /\ c[n] = b[n]
      BY <1>5, <2>1
    <3>2. PICK k \in 1..m : b[n] = f[k] /\ f[k].names = {n}
      BY <1>4, <3>1
    <3> QED BY <1>1, <1>4, <3>1, <3>2, Zenon
  <2>2. CASE n = name /\ c[name] = new
    BY <1>3, <2>2
  <2>3. CASE n = name /\ name \in DOMAIN b /\ c[name] = b[name]
    <3>1. PICK k \in 1..m : b[name] = f[k] /\ f[k].names = {name}
      BY <1>4, <2>3
    <3> QED BY <1>1, <2>3, <3>1, Zenon
  <2> QED BY <2>1, <2>2, <2>3 DEF ReboundAs
<1>7. ASSUME PairedIn(f), RightlyBound(b, f, m), NEW k \in 1..(m + 1), NEW n \in Names, f[k].names = {n}
      PROVE  (n \in DOMAIN c /\ c[n] = f[k]) <=> ~Loses(f, k, m + 1)
  <2>1. CASE n # name
    <3>1. f[k].names # new.names /\ k # m + 1
      BY <1>7, <2>1, SMTT(30)
    <3>2. k \in 1..m
      BY <1>2, <3>1
    <3>3. (n \in DOMAIN b /\ b[n] = f[k]) <=> ~Loses(f, k, m)
      BY <1>7, <3>2, Zenon DEF RightlyBound
    <3>4. Loses(f, k, m + 1) <=> Loses(f, k, m)
      BY <3>1, <3>2, LosesStays
    <3>5. (n \in DOMAIN c /\ c[n] = f[k]) <=> (n \in DOMAIN b /\ b[n] = f[k])
      BY <1>5, <2>1
    <3> QED BY <3>3, <3>4, <3>5
  <2>2. CASE n = name /\ \E i \in 1..m : f[i].names = {name}
    <3>1. PICK i \in 1..m : f[i].names = {name}
      BY <2>2
    <3>2. f[i].names # {} /\ new.names = f[i].names
      BY <3>1
    <3>3. ~Loses(f, i, m)
      BY <1>7, <3>2, LosesFirst
    <3>4. name \in DOMAIN b /\ b[name] = f[i]
      BY <1>7, <3>1, <3>3, Zenon DEF RightlyBound
    <3>5. b[name] # new
      BY <1>1, <1>3, <3>4, FieldsDiffer
    <3>6. /\ Kept(c, name, new) <=> ~resolveConflictBinding(f[i], new)[2]
          /\ Kept(c, name, f[i]) <=> ~resolveConflictBinding(f[i], new)[1]
      BY <3>4, <3>5 DEF ResolvedAs
    <3>7. /\ Loses(f, i, m + 1) <=> resolveConflictBinding(f[i], new)[1]
          /\ Loses(f, m + 1, m + 1) <=> resolveConflictBinding(f[i], new)[2]
      BY <1>7, <3>2, LosesToNew
    <3>8. k = i \/ k = m + 1
      BY <1>1, <1>2, <1>3, <1>7, <2>2, <3>1 DEF PairedIn
    <3> QED BY <2>2, <3>6, <3>7, <3>8 DEF Kept
  <2>3. CASE n = name /\ ~\E i \in 1..m : f[i].names = {name}
    <3>1. k = m + 1
      BY <1>2, <1>7, <2>3
    <3>2. \A i \in 1..m : f[i].names # f[m + 1].names
      BY <2>3
    <3>3. ~Loses(f, m + 1, m + 1)
      BY <3>2, LosesAlone
    <3>4. name \notin DOMAIN b
      BY <1>4, <2>3
    <3>5. name \in DOMAIN c /\ c[name] = new
      BY <3>4 DEF ReboundAs
    <3> QED BY <2>3, <3>1, <3>3, <3>5
  <2> QED BY <2>1, <2>2, <2>3
<1>8. PairedIn(f) /\ RightlyBound(b, f, m) => RightlyBound(c, f, m + 1)
  BY <1>7, Zenon DEF RightlyBound
<1> QED BY <1>6, <1>8

LEMMA BindFromKeepsDecoder ==
  ASSUME DescribeInv, EncoderInv, DecoderInv, BindFrom
  PROVE  DecoderInv'
<1> DEFINE f == fields
           m == at
           new == f[m + 1]
           name == CHOOSE n \in new.names : TRUE
<1>1. /\ phase = "from" /\ at < Len(fields) /\ at' = at + 1 /\ phase' = phase /\ fields' = fields
      /\ bound' = IF new.names = {} THEN bound ELSE Rebound(bound, new, name)
  BY DEF BindFrom, describing, Rebound
<1>2. f \in Seq(Binding) /\ Chain(f) /\ m \in Nat /\ m + 1 <= Len(f)
  <2>1. f \in Seq(Binding) /\ Chain(f) /\ m \in Nat
    BY DEF DescribeInv, EncoderInv
  <2>2. Len(f) \in Nat
    BY <2>1
  <2> QED BY <1>1, <2>1, <2>2
<1>3. BoundTo(bound, f, m) /\ (Paired => RightlyBound(bound, f, m))
  BY <1>1, Zenon DEF DecoderInv
<1>4. new \in Binding /\ (new.names = {} \/ \E n \in Names : new.names = {n})
  <2>1. m + 1 \in 1..Len(f)
    BY <1>2
  <2>2. new \in Binding
    BY <1>2, <2>1, ElementOfSeq
  <2> QED BY <2>2, BindingIs
<1>5. BoundTo(bound', f, m + 1) /\ (Paired => RightlyBound(bound', f, m + 1))
  <2>1. CASE new.names = {}
    <3>1. bound' = bound
      BY <1>1, <2>1
    <3> QED BY <1>2, <1>3, <2>1, <3>1, BoundSkips
  <2>2. CASE new.names # {}
    <3>1. name \in Names /\ new.names = {name}
      BY <1>4, <2>2
    <3>2. bound' = Rebound(bound, new, name)
      BY <1>1, <2>2
    <3> HIDE DEF m, name
    <3>3. name \in DOMAIN bound => bound[name] \in Binding
      <4>1. \A k \in 1..m : f[k] \in Binding
        BY <1>2
      <4> QED BY <1>3, <4>1 DEF BoundTo
    <3>4. ReboundAs(bound', bound, new, name) /\ ResolvedAs(bound', bound, new, name)
      BY <1>4, <3>2, <3>3, ReboundIs
    <3>5. BoundTo(bound', f, m + 1) /\ (PairedIn(f) /\ RightlyBound(bound, f, m) => RightlyBound(bound', f, m + 1))
      BY <1>2, <1>3, <3>1, <3>4, BoundRebinds
    <3> QED BY <1>3, <3>5 DEF Paired
  <2> QED BY <2>1, <2>2
<1>6. phase' = "from" /\ at' = m + 1 /\ fields' = f /\ (Paired' <=> Paired)
  BY <1>1, <1>2 DEF Paired
<1> QED BY <1>5, <1>6 DEF DecoderInv

LEMMA OthersKeepDecoder ==
  ASSUME DecoderInv, phase \in Made, phase' \in Made, UNCHANGED <<fields, bound>>
  PROVE  DecoderInv'
<1>1. BoundTo(bound, fields, Len(fields)) /\ (Paired => RightlyBound(bound, fields, Len(fields)))
  BY Zenon DEF DecoderInv, Made
<1>2. BoundTo(bound', fields', Len(fields')) /\ (Paired' => RightlyBound(bound', fields', Len(fields')))
  BY <1>1 DEF Paired
<1>3. phase' \notin {"describe", "to", "from"}
  BY DEF Made
<1> QED BY <1>2, <1>3 DEF DecoderInv

LEMMA DecoderHolds == Spec => []DecoderInv
<1>1. Init => DecoderInv
  <2> SUFFICES ASSUME Init PROVE DecoderInv
    OBVIOUS
  <2>1. phase = "describe" /\ bound = <<>>
    BY DEF Init
  <2>2. DOMAIN bound = {}
    BY <2>1
  <2> QED BY <2>1, <2>2 DEF DecoderInv, Made
<1>2. DescribeInv /\ EncoderInv /\ DecoderInv /\ [Next]_vars => DecoderInv'
  <2> SUFFICES ASSUME DescribeInv, EncoderInv, DecoderInv, [Next]_vars PROVE DecoderInv'
    OBVIOUS
  <2>1. CASE UNCHANGED vars
    BY <2>1 DEF vars, DecoderInv, Paired
  <2>2. CASE SkipField \/ Embed \/ BindField \/ DescribeReturns \/ BindTo
    <3>1. phase \in {"describe", "to"} /\ phase' \in {"describe", "to"} /\ bound' = bound
      BY <2>2 DEF SkipField, Embed, BindField, DescribeReturns, BindTo, Describing
    <3> QED BY <3>1 DEF DecoderInv, Made
  <2>3. CASE EncoderMade
    <3>1. phase = "to" /\ phase' = "from" /\ at' = 0 /\ bound' = bound
      BY <2>3 DEF EncoderMade
    <3>2. DOMAIN bound' = {}
      BY <3>1 DEF DecoderInv
    <3>3. BoundTo(bound', fields', 0)
      BY <3>2 DEF BoundTo
    <3>4. RightlyBound(bound', fields', 0)
      BY DEF RightlyBound
    <3> QED BY <3>1, <3>3, <3>4 DEF DecoderInv
  <2>4. CASE BindFrom
    BY <2>4, BindFromKeepsDecoder
  <2>5. CASE DecoderMade
    <3>1. phase = "from" /\ phase' = "ready" /\ at = Len(fields) /\ UNCHANGED <<fields, bound>>
      BY <2>5 DEF DecoderMade, describing
    <3>2. BoundTo(bound, fields, Len(fields)) /\ (Paired => RightlyBound(bound, fields, Len(fields)))
      BY <3>1, Zenon DEF DecoderInv
    <3>3. BoundTo(bound', fields', Len(fields')) /\ (Paired' => RightlyBound(bound', fields', Len(fields')))
      BY <3>1, <3>2 DEF Paired
    <3> QED BY <3>1, <3>3 DEF DecoderInv
  <2>6. CASE StartEncode \/ EncodeField \/ StartDecode \/ DecodeMember
    <3>1. phase \in Made /\ phase' \in Made /\ UNCHANGED <<fields, bound>>
      BY <2>6 DEF StartEncode, EncodeField, StartDecode, DecodeMember, describing, Made
    <3> QED BY <3>1, OthersKeepDecoder
  <2> QED BY <2>1, <2>2, <2>3, <2>4, <2>5, <2>6 DEF Next
<1>3. Spec => []DescribeInv /\ []EncoderInv
  BY DescribeHolds, EncoderHolds
<1> QED BY <1>1, <1>2, <1>3, PTL DEF Spec

----------------------------------------------------------------------------
(* createStructDecoder: what a name leads to.                              *)

LowerOf(b, caseSensitive) ==
  IF caseSensitive THEN {b}
  ELSE LET added == {Lower[n] : n \in DOMAIN b} \ DOMAIN b
           choice == {f \in [added -> DOMAIN b] : \A n \in added : Lower[f[n]] = n}
       IN {[n \in DOMAIN b \cup added |-> IF n \in DOMAIN b THEN b[n] ELSE b[f[n]]] : f \in choice}
LEMMA WithLowerStays ==
  ASSUME cfg' = cfg, bound' = bound
  PROVE  WithLower' = WithLower
<1>1. WithLower = LowerOf(bound, cfg.caseSensitive)
  BY DEF WithLower, LowerOf
<1>2. WithLower' = LowerOf(bound', cfg'.caseSensitive)
  BY DEF WithLower, LowerOf
<1> QED BY <1>1, <1>2

LEMMA DecoderOfStays ==
  ASSUME cfg' = cfg, NEW t
  PROVE  DecoderOf(t)' = DecoderOf(t)
<1>1. \A n : HashOf(n)' = HashOf(n)
  BY DEF HashOf
<1>2. Switch(t)' = Switch(t)
  BY <1>1 DEF Switch, HashOf
<1>3. Distinct(DOMAIN t)' <=> Distinct(DOMAIN t)
  BY <1>1 DEF Distinct
<1> QED BY <1>2, <1>3 DEF DecoderOf, General

LEMMA TableHolds == Spec => []TableInv
<1>1. Init => TableInv
  BY DEF Init, TableInv, Made
<1>2. TableInv /\ [Next]_vars => TableInv'
  <2> SUFFICES ASSUME TableInv, [Next]_vars PROVE TableInv'
    OBVIOUS
  <2>1. ASSUME phase \in Made, UNCHANGED <<cfg, bound, decoder>> PROVE TableInv'
    <3>1. PICK table \in WithLower : decoder = DecoderOf(table)
      BY <2>1 DEF TableInv
    <3>2. WithLower' = WithLower /\ DecoderOf(table)' = DecoderOf(table)
      BY <2>1, WithLowerStays, DecoderOfStays
    <3> QED BY <2>1, <3>1, <3>2 DEF TableInv
  <2>2. CASE UNCHANGED vars
    BY <2>1, <2>2 DEF vars, TableInv
  <2>3. CASE SkipField \/ Embed \/ BindField \/ DescribeReturns \/ BindTo \/ EncoderMade \/ BindFrom
    <3>1. phase' \notin Made
      BY <2>3 DEF SkipField, Embed, BindField, DescribeReturns, BindTo, EncoderMade, BindFrom, Describing, Made, TableInv
    <3> QED BY <3>1 DEF TableInv
  <2>4. CASE DecoderMade
    <3>1. cfg' = cfg /\ bound' = bound /\ \E table \in WithLower : decoder' = DecoderOf(table)
      BY <2>4 DEF DecoderMade
    <3>2. PICK table \in WithLower : decoder' = DecoderOf(table)
      BY <3>1
    <3>3. WithLower' = WithLower /\ DecoderOf(table)' = DecoderOf(table)
      BY <3>1, WithLowerStays, DecoderOfStays
    <3> QED BY <3>2, <3>3 DEF TableInv
  <2>5. CASE StartEncode \/ EncodeField \/ StartDecode \/ DecodeMember
    <3>1. phase \in Made /\ UNCHANGED <<cfg, bound, decoder>>
      BY <2>5 DEF StartEncode, EncodeField, StartDecode, DecodeMember, Made
    <3> QED BY <2>1, <3>1
  <2> QED BY <2>2, <2>3, <2>4, <2>5 DEF Next
<1> QED BY <1>1, <1>2, PTL DEF Spec

\* The table: the names that are bound, and those in lower case, for a binding
\* they stand for.
Spells(m, n) == m = n \/ (~cfg.caseSensitive /\ Lower[m] = Lower[n])
TableOK(t) ==
  /\ DOMAIN t \subseteq Names
  /\ \A n \in DOMAIN bound : n \in DOMAIN t /\ t[n] = bound[n]
  /\ \A n \in DOMAIN t : \E m \in DOMAIN bound : t[n] = bound[m] /\ Spells(m, n)
  /\ ~cfg.caseSensitive => \A m \in DOMAIN bound : Lower[m] \in DOMAIN t

LEMMA TableIs ==
  ASSUME DOMAIN bound \subseteq Names, NEW t \in WithLower
  PROVE  TableOK(t)
<1>1. CASE cfg.caseSensitive
  <2>1. t = bound
    BY <1>1 DEF WithLower
  <2> QED BY <1>1, <2>1 DEF TableOK, Spells
<1>2. CASE ~cfg.caseSensitive
  <2> DEFINE added == {Lower[n] : n \in DOMAIN bound} \ DOMAIN bound
             choice == {f \in [added -> DOMAIN bound] : \A n \in added : Lower[f[n]] = n}
  <2>1. PICK f \in choice : t = [n \in DOMAIN bound \cup added |-> IF n \in DOMAIN bound THEN bound[n] ELSE bound[f[n]]]
    BY <1>2 DEF WithLower
  <2>2. \A n \in added : f[n] \in DOMAIN bound /\ Lower[f[n]] = n
    OBVIOUS
  <2>3. added \subseteq Names
    BY StructBindingAssumption
  <2>4. DOMAIN t = DOMAIN bound \cup added
    BY <2>1
  <2>5. \A n \in DOMAIN bound : t[n] = bound[n]
    BY <2>1
  <2>6. \A n \in added : n \notin DOMAIN bound /\ t[n] = bound[f[n]]
    BY <2>1
  <2>7. \A m \in DOMAIN bound : Lower[m] \in DOMAIN t
    BY <2>4
  <2>8. \A n \in added : Spells(f[n], n)
    <3> SUFFICES ASSUME NEW n \in added PROVE Spells(f[n], n)
      OBVIOUS
    <3>1. f[n] \in Names /\ Lower[f[n]] = n
      BY <2>2
    <3>2. Lower[Lower[f[n]]] = Lower[f[n]]
      BY <3>1, StructBindingAssumption
    <3> QED BY <1>2, <3>1, <3>2 DEF Spells
  <2> HIDE DEF added, choice
  <2>9. \A n \in DOMAIN t : \E m \in DOMAIN bound : t[n] = bound[m] /\ Spells(m, n)
    <3> SUFFICES ASSUME NEW n \in DOMAIN t PROVE \E m \in DOMAIN bound : t[n] = bound[m] /\ Spells(m, n)
      OBVIOUS
    <3>1. CASE n \in DOMAIN bound
      <4>1. Spells(n, n)
        BY DEF Spells
      <4> QED BY <2>5, <3>1, <4>1
    <3>2. CASE n \in added
      BY <2>2, <2>6, <2>8, <3>2
    <3> QED BY <2>4, <3>1, <3>2
  <2> QED BY <2>3, <2>4, <2>5, <2>7, <2>9 DEF TableOK
<1> QED BY <1>1, <1>2

\* The hashes tell the names of the struct type and of the document apart.
HashSeparates == \A m, n \in Names : Hash[m] = Hash[n] => m = n

LEMMA HashSpells ==
  ASSUME HashSeparates, NEW m \in Names, NEW n \in Names, HashOf(m) = HashOf(n)
  PROVE  Spells(m, n)
<1>1. Lower[m] \in Names /\ Lower[n] \in Names
  BY StructBindingAssumption
<1> QED BY <1>1 DEF HashOf, HashSeparates, Spells

LEMMA SpellsTransitive ==
  ASSUME NEW k, NEW m, NEW n, Spells(k, m), Spells(m, n)
  PROVE  Spells(k, n)
  BY DEF Spells

FieldsBound == \A n \in DOMAIN bound : n \in Names /\ bound[n] \in Binding
LEMMA BoundIs ==
  ASSUME DescribeInv, DecoderInv, phase \in Made
  PROVE  /\ FieldsBound
         /\ \A n \in DOMAIN bound : \E k \in 1..Len(fields) : bound[n] = fields[k] /\ fields[k].names = {n}
<1>1. \A n \in DOMAIN bound : n \in Names /\ \E k \in 1..Len(fields) : bound[n] = fields[k] /\ fields[k].names = {n}
  BY Zenon DEF DecoderInv, BoundTo, Made
<1>2. \A k \in 1..Len(fields) : fields[k] \in Binding
  BY DEF DescribeInv
<1> QED BY <1>1, <1>2 DEF FieldsBound

LEMMA IsBound == ASSUME NEW b \in Binding PROVE b # NoBinding
<1>1. b.levels # <<>>
  BY BindingHas
<1> QED BY <1>1 DEF NoBinding

\* Three decoders, one table.
LEMMA FoundInSwitch ==
  ASSUME NEW t, TableOK(t), FieldsBound, Distinct(DOMAIN t), decoder = Switch(t), NEW n \in Names
  PROVE  /\ n \in DOMAIN t => Found(n) = t[n]
         /\ Found(n) = NoBinding \/ \E m \in DOMAIN t : Found(n) = t[m] /\ HashOf(m) = HashOf(n)
<1> DEFINE s == decoder.table
           h == HashOf(n)
           c == CHOOSE m \in DOMAIN t : HashOf(m) = h
<1>1. decoder.kind = "switch" /\ s = [x \in {HashOf(m) : m \in DOMAIN t} |-> t[CHOOSE m \in DOMAIN t : HashOf(m) = x]]
  BY DEF Switch
<1>2. Found(n) = IF h \in DOMAIN s THEN s[h] ELSE NoBinding
  BY <1>1 DEF Found
<1>3. DOMAIN s = {HashOf(m) : m \in DOMAIN t}
  BY <1>1
<1>4. h \in DOMAIN s => s[h] = t[c]
  BY <1>1
<1>5. h \in DOMAIN s => c \in DOMAIN t /\ HashOf(c) = h
  BY <1>3
<1>6. n \in DOMAIN t => h \in DOMAIN s
  BY <1>3
<1>7. ASSUME n \in DOMAIN t PROVE Found(n) = t[n]
  <2>1. c = n
    BY <1>5, <1>6, <1>7 DEF Distinct
  <2> QED BY <1>2, <1>4, <1>6, <1>7, <2>1
<1> HIDE DEF s, h, c
<1>8. Found(n) = NoBinding \/ \E m \in DOMAIN t : Found(n) = t[m] /\ HashOf(m) = h
  BY <1>2, <1>4, <1>5
<1> QED BY <1>7, <1>8 DEF h

LEMMA FoundInTable ==
  ASSUME NEW t, TableOK(t), FieldsBound, decoder.kind # "switch", decoder.table = t, NEW n \in Names
  PROVE  /\ n \in DOMAIN t => Found(n) = t[n]
         /\ Found(n) = NoBinding \/ \E m \in DOMAIN t : Found(n) = t[m] /\ Spells(m, n)
         /\ (\E m \in DOMAIN bound : Spells(m, n)) => \E m \in DOMAIN bound : Found(n) = bound[m]
<1>1. Found(n) = IF n \in DOMAIN t THEN t[n]
                 ELSE IF ~cfg.caseSensitive /\ Lower[n] \in DOMAIN t THEN t[Lower[n]] ELSE NoBinding
  BY DEF Found
<1>2. Lower[Lower[n]] = Lower[n]
  BY StructBindingAssumption
<1>3. Spells(n, n) /\ (~cfg.caseSensitive => Spells(Lower[n], n))
  BY <1>2 DEF Spells
<1>4. Found(n) = NoBinding \/ \E m \in DOMAIN t : Found(n) = t[m] /\ Spells(m, n)
  BY <1>1, <1>3
<1>5. ASSUME NEW m \in DOMAIN bound, Spells(m, n) PROVE \E k \in DOMAIN bound : Found(n) = bound[k]
  <2>1. n \in DOMAIN t \/ (~cfg.caseSensitive /\ Lower[n] \in DOMAIN t)
    BY <1>5 DEF TableOK, Spells
  <2>2. \E k \in DOMAIN t : Found(n) = t[k]
    BY <1>1, <2>1
  <2> QED BY <2>2 DEF TableOK
<1> QED BY <1>1, <1>4, <1>5

LEMMA FoundIs ==
  ASSUME DescribeInv, DecoderInv, TableInv, phase \in Made, NEW n \in Names
  PROVE  /\ n \in DOMAIN bound => Found(n) = bound[n]
         /\ Found(n) = NoBinding \/ \E m \in DOMAIN bound : Found(n) = bound[m] /\ (HashSeparates => Spells(m, n))
         /\ cfg.disallowUnknownFields /\ (\E m \in DOMAIN bound : Spells(m, n)) => Found(n) # NoBinding
<1>1. PICK t \in WithLower : decoder = DecoderOf(t)
  BY DEF TableInv
<1>2. FieldsBound
  BY BoundIs
<1>3. TableOK(t)
  <2>1. DOMAIN bound \subseteq Names
    BY <1>2 DEF FieldsBound
  <2> QED BY <1>1, <2>1, TableIs
<1>4. \A m \in DOMAIN bound : m \in DOMAIN t /\ t[m] = bound[m]
  BY <1>3 DEF TableOK
<1>5. \A k \in DOMAIN t : k \in Names /\ \E m \in DOMAIN bound : t[k] = bound[m] /\ Spells(m, k)
  BY <1>3 DEF TableOK
<1>6. \A m \in DOMAIN bound : bound[m] # NoBinding
  BY <1>2, IsBound DEF FieldsBound
<1>7. CASE decoder = Switch(t) /\ Distinct(DOMAIN t) /\ ~cfg.disallowUnknownFields
  <2>1. n \in DOMAIN t => Found(n) = t[n]
    BY <1>2, <1>3, <1>7, FoundInSwitch
  <2>2. Found(n) = NoBinding \/ \E k \in DOMAIN t : Found(n) = t[k] /\ HashOf(k) = HashOf(n)
    BY <1>2, <1>3, <1>7, FoundInSwitch
  <2>3. ASSUME NEW k \in DOMAIN t, Found(n) = t[k], HashOf(k) = HashOf(n)
        PROVE  \E m \in DOMAIN bound : Found(n) = bound[m] /\ (HashSeparates => Spells(m, n))
    <3>1. PICK m \in DOMAIN bound : t[k] = bound[m] /\ Spells(m, k)
      BY <1>5
    <3>2. HashSeparates => Spells(k, n)
      BY <1>5, <2>3, HashSpells
    <3>3. HashSeparates => Spells(m, n)
      BY <3>1, <3>2, SpellsTransitive
    <3> QED BY <2>3, <3>1, <3>3
  <2> QED BY <1>4, <1>7, <2>1, <2>2, <2>3
<1>8. CASE decoder.kind # "switch" /\ decoder.table = t
  <2>1. n \in DOMAIN t => Found(n) = t[n]
    BY <1>2, <1>3, <1>8, FoundInTable
  <2>2. Found(n) = NoBinding \/ \E k \in DOMAIN t : Found(n) = t[k] /\ Spells(k, n)
    BY <1>2, <1>3, <1>8, FoundInTable
  <2>3. (\E m \in DOMAIN bound : Spells(m, n)) => \E m \in DOMAIN bound : Found(n) = bound[m]
    BY <1>2, <1>3, <1>8, FoundInTable
  <2>4. ASSUME NEW k \in DOMAIN t, Found(n) = t[k], Spells(k, n)
        PROVE  \E m \in DOMAIN bound : Found(n) = bound[m] /\ (HashSeparates => Spells(m, n))
    <3>1. PICK m \in DOMAIN bound : t[k] = bound[m] /\ Spells(m, k)
      BY <1>5
    <3>2. Spells(m, n)
      BY <2>4, <3>1, SpellsTransitive
    <3> QED BY <2>4, <3>1, <3>2
  <2> QED BY <1>4, <1>6, <2>1, <2>2, <2>3, <2>4
<1>9. \/ decoder = Switch(t) /\ Distinct(DOMAIN t) /\ ~cfg.disallowUnknownFields
      \/ decoder.kind # "switch" /\ decoder.table = t
  BY <1>1 DEF DecoderOf, General
<1> QED BY <1>7, <1>8, <1>9

----------------------------------------------------------------------------
(* structEncoder.Encode and the struct decoders.                           *)

LEMMA WrittenAdds ==
  ASSUME NEW f, NEW n, NEW o, Listed(o, f, n), NEW m \in Nat, m + 1 \in 1..Len(o), ~o[m + 1].ignored,
         NEW ms, Written(ms, o, m), NEW e, e = [name |-> o[m + 1].name, field |-> o[m + 1].binding.levels]
  PROVE  Written(Append(ms, e), o, m + 1)
<1> DEFINE Member == [name : Names, field : Levels]
           k == Len(ms)
           q == Append(ms, e)
<1>1. o \in Seq(Entry) /\ \A j \in 1..Len(o) : o[j] \in Entry
  BY ListedHas
<1>2. \A j \in 1..Len(o) : o[j].binding \in Binding /\ o[j].name \in Names
  BY <1>1 DEF Entry
<1>3. e \in Member
  <2>1. o[m + 1].name \in Names /\ o[m + 1].binding.levels \in Levels
    BY <1>2, BindingHas
  <2> QED BY <2>1
<1>4. ms \in Seq(Member) /\ k \in Nat /\ k <= m
  BY DEF Written
<1> HIDE DEF Member
<1>5. q \in Seq(Member) /\ Len(q) = k + 1 /\ q[k + 1] = e /\ \A i \in 1..k : q[i] = ms[i]
  BY <1>3, <1>4
<1> HIDE DEF q
<1>6. \A i \in 1..k : \E j \in 1..m : ~o[j].ignored /\ ms[i] = [name |-> o[j].name, field |-> o[j].binding.levels]
  BY Zenon DEF Written, k
<1>7. \A i, j \in 1..k : i < j => ms[i].field # ms[j].field
  BY Zenon DEF Written, k
<1>8. \A i \in 1..k : ms[i].field # e.field
  <2> SUFFICES ASSUME NEW i \in 1..k PROVE ms[i].field # e.field
    OBVIOUS
  <2>1. PICK j \in 1..m : ms[i] = [name |-> o[j].name, field |-> o[j].binding.levels]
    BY <1>6
  <2>2. j \in 1..Len(o) /\ j < m + 1
    <3>1. Len(o) \in Nat
      BY <1>1
    <3> QED BY <3>1
  <2>3. Before(o[j].binding, o[m + 1].binding)
    BY <2>2 DEF Listed
  <2>4. o[j].binding.levels # o[m + 1].binding.levels
    BY <1>2, <2>2, <2>3, BeforeDiffers
  <2> QED BY <2>1, <2>4
<1> HIDE DEF k
<1>9. \A i \in 1..(k + 1) : i = k + 1 \/ i \in 1..k
  BY <1>4
<1>10. \A j \in 1..m : j \in 1..(m + 1)
  OBVIOUS
<1>11. \A i \in 1..(k + 1) : \E j \in 1..(m + 1) :
         ~o[j].ignored /\ q[i] = [name |-> o[j].name, field |-> o[j].binding.levels]
  <2> SUFFICES ASSUME NEW i \in 1..(k + 1)
               PROVE  \E j \in 1..(m + 1) : ~o[j].ignored /\ q[i] = [name |-> o[j].name, field |-> o[j].binding.levels]
    OBVIOUS
  <2>1. CASE i = k + 1
    BY <1>5, <2>1
  <2>2. CASE i \in 1..k
    BY <1>5, <1>6, <1>10, <2>2, Zenon
  <2> QED BY <1>9, <2>1, <2>2
<1>12. \A i, j \in 1..(k + 1) : i < j => q[i].field # q[j].field
  <2> SUFFICES ASSUME NEW i \in 1..(k + 1), NEW j \in 1..(k + 1), i < j PROVE q[i].field # q[j].field
    OBVIOUS
  <2>1. i \in 1..k
    BY <1>4
  <2>2. CASE j = k + 1
    BY <1>5, <1>8, <2>1, <2>2
  <2>3. CASE j \in 1..k
    BY <1>5, <1>7, <2>1, <2>3
  <2> QED BY <1>9, <2>2, <2>3
<1>13. Len(q) <= m + 1
  BY <1>4, <1>5
<1>14. \A i \in 1..Len(q) : \E j \in 1..(m + 1) :
         ~o[j].ignored /\ q[i] = [name |-> o[j].name, field |-> o[j].binding.levels]
  BY <1>5, <1>11, Zenon
<1>15. \A i, j \in 1..Len(q) : i < j => q[i].field # q[j].field
  BY <1>5, <1>12, Zenon
<1> QED BY <1>5, <1>13, <1>14, <1>15, Zenon DEF Written, Member, q

LEMMA WrittenSkips ==
  ASSUME NEW o, NEW m \in Nat, NEW ms, Written(ms, o, m)
  PROVE  Written(ms, o, m + 1)
<1>1. ms \in Seq([name : Names, field : Levels]) /\ Len(ms) <= m
  BY DEF Written
<1>2. Len(ms) \in Nat
  BY <1>1
<1>3. Len(ms) <= m + 1 /\ \A j \in 1..m : j \in 1..(m + 1)
  BY <1>1, <1>2
<1>4. \A i \in 1..Len(ms) : \E j \in 1..m : ~o[j].ignored /\ ms[i] = [name |-> o[j].name, field |-> o[j].binding.levels]
  BY Zenon DEF Written
<1>5. \A i, j \in 1..Len(ms) : i < j => ms[i].field # ms[j].field
  BY Zenon DEF Written
<1>6. \A i \in 1..Len(ms) : \E j \in 1..(m + 1) : ~o[j].ignored /\ ms[i] = [name |-> o[j].name, field |-> o[j].binding.levels]
  BY <1>3, <1>4, Zenon
<1> QED BY <1>1, <1>3, <1>5, <1>6, Zenon DEF Written

LEMMA WrittenHas ==
  ASSUME NEW o, NEW m, NEW ms, Written(ms, o, m)
  PROVE  /\ Len(ms) \in Nat /\ Len(ms) <= m /\ DOMAIN ms = 1..Len(ms)
         /\ \A i \in 1..Len(ms) : ms[i] \in [name : Names, field : Levels]
<1> DEFINE Member == [name : Names, field : Levels]
<1>1. ms \in Seq(Member) /\ Len(ms) <= m
  BY DEF Written
<1> HIDE DEF Member
<1>2. Len(ms) \in Nat /\ DOMAIN ms = 1..Len(ms)
  BY <1>1, LenProperties
<1>3. \A i \in 1..Len(ms) : ms[i] \in Member
  BY <1>1, ElementOfSeq
<1> QED BY <1>1, <1>2, <1>3, Zenon DEF Member

LEMMA FoundStays ==
  ASSUME cfg' = cfg, decoder' = decoder
  PROVE  \A n : Found(n)' = Found(n)
<1> SUFFICES ASSUME NEW n PROVE Found(n)' = Found(n)
  OBVIOUS
<1>1. HashOf(n)' = HashOf(n)
  BY DEF HashOf
<1> QED BY <1>1 DEF Found, NoBinding

\* One more member.
LEMMA ReadAdds ==
  ASSUME NEW m \in Nat, NEW F, NEW o, NEW e, NEW unknown \in BOOLEAN, Read(F, o, e, unknown, m), NEW p, NEW d,
         IF F[m + 1] = NoBinding THEN d = (e \/ unknown) /\ p = o
         ELSE p = With(o, F[m + 1].levels, m + 1) /\ d = e
  PROVE  Read(F, p, d, unknown, m + 1)
<1> DEFINE b == F[m + 1]
<1>1. /\ \A path \in DOMAIN o : o[path] \in 1..m /\ F[o[path]] # NoBinding /\ F[o[path]].levels = path
      /\ \A i \in 1..m : F[i] # NoBinding => F[i].levels \in DOMAIN o /\ o[F[i].levels] >= i
      /\ e = (unknown /\ \E i \in 1..m : F[i] = NoBinding)
  BY Zenon DEF Read
<1>2. m + 1 \in 1..(m + 1) /\ \A i \in 1..m : i \in 1..(m + 1) /\ m + 1 >= i
  OBVIOUS
<1>3. \A i \in 1..(m + 1) : i = m + 1 \/ i \in 1..m
  OBVIOUS
<1>4. CASE b = NoBinding
  <2>1. p = o /\ d = (e \/ unknown)
    BY <1>4
  <2>2. \A path \in DOMAIN p : p[path] \in 1..(m + 1) /\ F[p[path]] # NoBinding /\ F[p[path]].levels = path
    BY <1>1, <1>2, <2>1
  <2>3. \A i \in 1..(m + 1) : F[i] # NoBinding => F[i].levels \in DOMAIN p /\ p[F[i].levels] >= i
    BY <1>1, <1>3, <1>4, <2>1
  <2>4. d = (unknown /\ \E i \in 1..(m + 1) : F[i] = NoBinding)
    <3>1. d <=> unknown
      BY <1>1, <2>1, Zenon
    <3>2. \E i \in 1..(m + 1) : F[i] = NoBinding
      BY <1>2, <1>4
    <3>3. d \in BOOLEAN
      BY <2>1
    <3> QED BY <3>1, <3>2, <3>3, Zenon
  <2> QED BY <2>2, <2>3, <2>4, Zenon DEF Read
<1>5. CASE b # NoBinding
  <2> DEFINE l == b.levels
  <2>1. p = With(o, l, m + 1) /\ d = e
    BY <1>5
  <2> HIDE DEF l
  <2>2. DOMAIN p = DOMAIN o \cup {l} /\ p[l] = m + 1 /\ \A x \in DOMAIN o : x # l => p[x] = o[x]
    BY <2>1 DEF With
  <2>3. \A path \in DOMAIN p : p[path] \in 1..(m + 1) /\ F[p[path]] # NoBinding /\ F[p[path]].levels = path
    <3> SUFFICES ASSUME NEW path \in DOMAIN p
                 PROVE  p[path] \in 1..(m + 1) /\ F[p[path]] # NoBinding /\ F[p[path]].levels = path
      OBVIOUS
    <3>1. CASE path = l
      BY <1>2, <1>5, <2>2, <3>1 DEF l
    <3>2. CASE path # l
      BY <1>1, <1>2, <2>2, <3>2
    <3> QED BY <3>1, <3>2
  <2>4. \A i \in 1..(m + 1) : F[i] # NoBinding => F[i].levels \in DOMAIN p /\ p[F[i].levels] >= i
    <3> SUFFICES ASSUME NEW i \in 1..(m + 1), F[i] # NoBinding
                 PROVE  F[i].levels \in DOMAIN p /\ p[F[i].levels] >= i
      OBVIOUS
    <3>1. CASE F[i].levels = l
      BY <2>2, <3>1, <1>2
    <3>2. CASE F[i].levels # l
      <4>1. i \in 1..m
        BY <1>3, <3>2 DEF l
      <4> QED BY <1>1, <2>2, <3>2, <4>1
    <3> QED BY <3>1, <3>2
  <2>5. d = (unknown /\ \E i \in 1..(m + 1) : F[i] = NoBinding)
    <3>1. (\E i \in 1..(m + 1) : F[i] = NoBinding) <=> \E i \in 1..m : F[i] = NoBinding
      BY <1>2, <1>3, <1>5
    <3> QED BY <1>1, <2>1, <3>1, Zenon
  <2> QED BY <2>3, <2>4, <2>5, Zenon DEF Read
<1> QED BY <1>4, <1>5

LEMMA FoundInDocStays ==
  ASSUME cfg' = cfg, decoder' = decoder, doc' = doc
  PROVE  FoundInDoc' = FoundInDoc
  BY FoundStays DEF FoundInDoc

LEMMA ConfigIs ==
  ASSUME DescribeInv
  PROVE  cfg.disallowUnknownFields \in BOOLEAN /\ cfg.caseSensitive \in BOOLEAN
  BY StructBindingAssumption DEF DescribeInv, Config

LEMMA DecodeMemberReads ==
  ASSUME DescribeInv, EncoderInv, ValueInv, DecodeMember
  PROVE  ReadAll(at)' /\ at + 1 <= Len(doc)
<1>1. /\ phase \in {"decode", "decodeOther"} /\ at < Len(doc) /\ at' = at + 1
      /\ cfg' = cfg /\ decoder' = decoder /\ doc' = doc
  BY DEF DecodeMember
<1> DEFINE m == at
           F == FoundInDoc
           u == cfg.disallowUnknownFields
<1>2. doc \in Seq(Names) /\ Read(F, out, error, u, m) /\ m \in Nat
  BY <1>1, Zenon DEF ValueInv, EncoderInv, ReadAll
<1>3. Len(doc) \in Nat
  BY <1>2
<1>4. F' = F
  BY <1>1, FoundInDocStays
<1>5. m + 1 \in 1..Len(doc)
  BY <1>1, <1>2, <1>3
<1>6. F[m + 1] = Found(doc[m + 1])
  BY <1>5 DEF FoundInDoc
<1>7. IF Found(doc[m + 1]) = NoBinding THEN error' = (error \/ u) /\ out' = out
      ELSE out' = With(out, Found(doc[m + 1]).levels, m + 1) /\ error' = error
  BY DEF DecodeMember
<1>8. u \in BOOLEAN
  BY ConfigIs
<1>9. u' = u
  BY <1>1
<1> HIDE DEF F, u
<1>10. IF F[m + 1] = NoBinding THEN error' = (error \/ u) /\ out' = out
       ELSE out' = With(out, F[m + 1].levels, m + 1) /\ error' = error
  BY <1>6, <1>7
<1>11. Read(F, out', error', u, m + 1)
  BY <1>2, <1>8, <1>10, ReadAdds
<1>12. Read(F', out', error', u', at')
  BY <1>1, <1>4, <1>9, <1>11
<1> QED BY <1>5, <1>12 DEF ReadAll, F, u

LEMMA NothingWritten ==
  ASSUME NEW o, NEW m \in Nat
  PROVE  Written(<<>>, o, m)
<1> DEFINE n == <<>>
<1>1. n \in Seq([name : Names, field : Levels]) /\ Len(n) = 0
  OBVIOUS
<1> HIDE DEF n
<1>2. Written(n, o, m)
  BY <1>1 DEF Written
<1> QED BY <1>2 DEF n

LEMMA EncodeFieldWrites ==
  ASSUME EncoderInv, phase = "encode", EncodeField, Written(members, ordered, at)
  PROVE  Written(members', ordered, at + 1) /\ at + 1 <= Len(ordered)
<1> DEFINE m == at
           e == [name |-> ordered[m + 1].name, field |-> ordered[m + 1].binding.levels]
<1>1. /\ at < Len(ordered)
      /\ members' = members \/ (~ordered[m + 1].ignored /\ members' = Append(members, e))
  BY DEF EncodeField
<1>2. m \in Nat /\ Listed(ordered, fields, Len(fields))
  BY Zenon DEF EncoderInv
<1>3. Len(ordered) \in Nat
  BY <1>2, ListedHas
<1>4. m + 1 \in 1..Len(ordered)
  BY <1>1, <1>2, <1>3
<1>5. CASE members' = members
  BY <1>2, <1>4, <1>5, WrittenSkips
<1>6. CASE ~ordered[m + 1].ignored /\ members' = Append(members, e)
  <2>1. Written(Append(members, e), ordered, m + 1)
    BY <1>2, <1>4, <1>6, WrittenAdds
  <2> QED BY <1>4, <1>6, <2>1
<1> QED BY <1>1, <1>5, <1>6

LEMMA NamesOf ==
  ASSUME NEW o, NEW m, NEW ms, Written(ms, o, m), NEW d, d = [i \in DOMAIN ms |-> ms[i].name]
  PROVE  d \in Seq(Names) /\ Len(d) = Len(ms) /\ \A i \in 1..Len(d) : d[i] = ms[i].name
<1>1. Len(ms) \in Nat /\ DOMAIN ms = 1..Len(ms) /\ \A i \in 1..Len(ms) : ms[i].name \in Names
  BY WrittenHas
<1>2. d = [i \in 1..Len(ms) |-> ms[i].name]
  BY <1>1
<1> QED BY <1>1, <1>2

LEMMA OtherDocs ==
  ASSUME NEW d \in Docs
  PROVE  d \in Seq(Names) /\ Len(d) <= DocSize
<1>1. PICK n \in 0..DocSize : d \in [1..n -> Names]
  BY DEF Docs
<1>2. n \in Nat /\ n <= DocSize
  BY StructBindingAssumption
<1> QED BY <1>1, <1>2

LEMMA NothingRead ==
  ASSUME NEW F, NEW o, NEW u, DOMAIN o = {}
  PROVE  Read(F, o, FALSE, u, 0)
<1>1. \A i \in 1..0 : FALSE
  OBVIOUS
<1>2. ~\E i \in 1..0 : F[i] = NoBinding
  BY <1>1, Zenon
<1>3. FALSE = (u /\ \E i \in 1..0 : F[i] = NoBinding)
  BY <1>2, Zenon
<1> QED BY <1>1, <1>3, Zenon DEF Read

LEMMA StartDecodeKeepsValue ==
  ASSUME EncoderInv, ValueInv, StartDecode
  PROVE  ValueInv'
<1>1. /\ phase = "encode" /\ at = Len(ordered) /\ at' = 0
      /\ \/ phase' = "decode" /\ doc' = [i \in DOMAIN members |-> members[i].name]
         \/ phase' = "decodeOther" /\ doc' \in Docs
      /\ UNCHANGED <<cfg, ordered, members, out, error>>
  BY DEF StartDecode
<1>2. DOMAIN out = {} /\ error = FALSE /\ Written(members, ordered, at)
  BY <1>1 DEF ValueInv, Phases
<1>3. DOMAIN out' = {} /\ error' = FALSE
  BY <1>1, <1>2
<1>4. ReadAll(0)'
  <2> DEFINE F == FoundInDoc
             u == cfg.disallowUnknownFields
  <2>1. Read(F', out', error', u', 0)
    <3> HIDE DEF F, u
    <3> QED BY <1>3, NothingRead
  <2> QED BY <2>1 DEF ReadAll
<1>5. Written(members', ordered', Len(ordered'))
  BY <1>1, <1>2
<1>6. doc' \in Seq(Names)
  BY <1>1, <1>2, NamesOf, OtherDocs
<1>7. Len(doc') \in Nat
  BY <1>6
<1>8. phase' = "decode" => Len(doc') = Len(members') /\ \A i \in 1..Len(doc') : doc'[i] = members'[i].name
  BY <1>1, <1>2, NamesOf
<1>9. phase' = "decodeOther" => Len(doc') <= DocSize
  BY <1>1, OtherDocs
<1>10. ReadAll(at)'
  BY <1>1, <1>4 DEF ReadAll
<1> QED BY <1>1, <1>5, <1>6, <1>7, <1>8, <1>9, <1>10 DEF ValueInv

LEMMA ValueHolds == Spec => []ValueInv
<1>1. Init => ValueInv
  BY DEF Init, ValueInv
<1>2. DescribeInv /\ EncoderInv /\ ValueInv /\ [Next]_vars => ValueInv'
  <2> SUFFICES ASSUME DescribeInv, EncoderInv, ValueInv, [Next]_vars PROVE ValueInv'
    OBVIOUS
  <2>1. CASE UNCHANGED vars
    <3>1. FoundInDoc' = FoundInDoc
      BY <2>1, FoundInDocStays DEF vars
    <3> QED BY <2>1, <3>1 DEF vars, ValueInv, ReadAll
  <2>2. CASE SkipField \/ Embed \/ BindField \/ DescribeReturns \/ BindTo \/ EncoderMade \/ BindFrom \/ DecoderMade
    <3>1. /\ phase \in {"describe", "to", "from"} /\ phase' \in {"describe", "to", "from", "ready"}
          /\ UNCHANGED <<members, doc, out, error>>
      BY <2>2 DEF SkipField, Embed, BindField, DescribeReturns, BindTo, EncoderMade, BindFrom, DecoderMade,
                  Describing, value
    <3> QED BY <3>1 DEF ValueInv, Phases
  <2>3. CASE StartEncode
    <3>1. phase = "ready" /\ phase' = "encode" /\ at' = 0 /\ UNCHANGED <<ordered, members, doc, out, error>>
      BY <2>3 DEF StartEncode
    <3>2. members = <<>> /\ doc = <<>> /\ DOMAIN out = {} /\ error = FALSE
      BY <3>1 DEF ValueInv, Phases
    <3>3. Written(members', ordered', at')
      BY <3>1, <3>2, NothingWritten
    <3>4. at' <= Len(ordered')
      <4>1. Listed(ordered, fields, Len(fields))
        BY <3>1, Zenon DEF EncoderInv
      <4>2. Len(ordered) \in Nat
        BY <4>1, ListedHas
      <4> QED BY <3>1, <4>2
    <3> QED BY <3>1, <3>2, <3>3, <3>4 DEF ValueInv
  <2>4. CASE EncodeField
    <3>1. phase = "encode" /\ phase' = phase /\ at' = at + 1 /\ UNCHANGED <<ordered, doc, out, error>>
      BY <2>4 DEF EncodeField
    <3>2. Written(members, ordered, at)
      BY <3>1 DEF ValueInv
    <3>3. Written(members', ordered', at') /\ at' <= Len(ordered')
      BY <2>4, <3>1, <3>2, EncodeFieldWrites
    <3>4. doc = <<>> /\ DOMAIN out = {} /\ error = FALSE
      BY <3>1 DEF ValueInv, Phases
    <3> QED BY <3>1, <3>3, <3>4 DEF ValueInv
  <2>5. CASE StartDecode
    BY <2>5, StartDecodeKeepsValue
  <2>6. CASE DecodeMember
    <3>1. /\ phase \in {"decode", "decodeOther"} /\ phase' = phase /\ at' = at + 1
          /\ UNCHANGED <<ordered, members, doc>>
      BY <2>6 DEF DecodeMember
    <3>2. ReadAll(at)' /\ at + 1 <= Len(doc)
      BY <2>6, DecodeMemberReads
    <3>3. doc \in Seq(Names) /\ Written(members, ordered, Len(ordered))
      BY <3>1 DEF ValueInv
    <3>4. phase = "decode" => Len(doc) = Len(members) /\ \A i \in 1..Len(doc) : doc[i] = members[i].name
      BY DEF ValueInv
    <3>5. phase = "decodeOther" => Len(doc) <= DocSize
      BY DEF ValueInv
    <3> QED BY <3>1, <3>2, <3>3, <3>4, <3>5 DEF ValueInv
  <2> QED BY <2>1, <2>2, <2>3, <2>4, <2>5, <2>6 DEF Next
<1>3. Spec => []DescribeInv /\ []EncoderInv
  BY DescribeHolds, EncoderHolds
<1> QED BY <1>1, <1>2, <1>3, PTL DEF Spec

----------------------------------------------------------------------------
(* What the properties say.                                                *)

\* Every variable has a value of its kind, and the fields come in their order.
THEOREM TypeCorrect == Spec => []TypeOK
<1>1. DescribeInv /\ EncoderInv /\ DecoderInv /\ TableInv /\ ValueInv => TypeOK
  <2> SUFFICES ASSUME DescribeInv, EncoderInv, DecoderInv, TableInv, ValueInv PROVE TypeOK
    OBVIOUS
  <2>1. phase \in Phases /\ cfg \in Configs /\ typ \in Structs
    BY DEF DescribeInv
  <2>2. fields \in Seq(Binding) /\ Chain(fields) /\ Len(fields) \in Nat /\ DOMAIN fields = 1..Len(fields) /\ at \in Nat
    BY DEF DescribeInv, EncoderInv
  <2>3. \A i, j \in DOMAIN fields : i < j => Before(fields[i], fields[j])
    BY <2>2 DEF Chain
  <2>4. error \in BOOLEAN
    <3>1. CASE phase \in {"decode", "decodeOther"}
      <4>1. ReadAll(at)
        BY <3>1, Zenon DEF ValueInv
      <4> QED BY <4>1, Zenon DEF ReadAll, Read
    <3>2. CASE phase \notin {"decode", "decodeOther"}
      BY <2>1, <3>2 DEF ValueInv
    <3> QED BY <3>1, <3>2
  <2>5. DOMAIN bound \subseteq Names
    BY <2>1, Zenon DEF DecoderInv, BoundTo, Phases, Made
  <2>6. {doc[i] : i \in DOMAIN doc} \subseteq Names
    <3>1. doc \in Seq(Names) \/ doc = <<>>
      BY <2>1, Zenon DEF ValueInv
    <3>2. CASE doc = <<>>
      <4>1. DOMAIN doc = {}
        BY <3>2
      <4> QED BY <4>1
    <3> QED BY <3>1, <3>2
  <2>7. phase \in {"encode", "decode", "decodeOther"} => Len(ordered) \in Nat /\ Len(ordered) <= Len(fields)
    <3> SUFFICES ASSUME phase \in {"encode", "decode", "decodeOther"}
                 PROVE  Len(ordered) \in Nat /\ Len(ordered) <= Len(fields)
      OBVIOUS
    <3>1. Listed(ordered, fields, Len(fields))
      BY Zenon DEF EncoderInv
    <3> QED BY <3>1, ListedHas
  <2>8. at \in 0..(IF phase = "decodeOther" THEN DocSize ELSE Len(fields))
    <3>1. CASE phase = "describe"
      BY <2>2, <3>1 DEF EncoderInv
    <3>2. CASE phase \in {"to", "from", "ready"}
      BY <2>2, <3>2 DEF EncoderInv
    <3>3. CASE phase = "encode"
      <4>1. at <= Len(ordered)
        BY <3>3 DEF ValueInv
      <4> QED BY <2>2, <2>7, <3>3, <4>1
    <3>4. CASE phase = "decode"
      <4>1. at <= Len(doc) /\ Len(doc) = Len(members) /\ Written(members, ordered, Len(ordered))
        BY <3>4 DEF ValueInv
      <4>2. Len(members) \in Nat /\ Len(members) <= Len(ordered)
        BY <4>1, WrittenHas
      <4> QED BY <2>2, <2>7, <3>4, <4>1, <4>2
    <3>5. CASE phase = "decodeOther"
      <4>1. at <= Len(doc) /\ Len(doc) <= DocSize /\ doc \in Seq(Names)
        BY <3>5 DEF ValueInv
      <4>2. Len(doc) \in Nat /\ DocSize \in Nat
        BY <4>1, StructBindingAssumption
      <4> QED BY <2>2, <3>5, <4>1, <4>2
    <3> QED BY <2>1, <3>1, <3>2, <3>3, <3>4, <3>5 DEF Phases
  <2>9. DOMAIN out \subseteq Paths
    <3>1. CASE phase \in {"decode", "decodeOther"}
      <4> SUFFICES ASSUME NEW path \in DOMAIN out PROVE path \in Paths
        OBVIOUS
      <4>1. ReadAll(at) /\ at <= Len(doc) /\ doc \in Seq(Names)
        BY <3>1, Zenon DEF ValueInv
      <4>2. out[path] \in 1..at /\ FoundInDoc[out[path]] # NoBinding /\ FoundInDoc[out[path]].levels = path
        BY <4>1, Zenon DEF ReadAll, Read
      <4> DEFINE i == out[path]
      <4>3. i \in 1..Len(doc) /\ doc[i] \in Names
        <5>1. Len(doc) \in Nat
          BY <4>1
        <5>2. i \in 1..Len(doc)
          BY <2>2, <4>1, <4>2, <5>1
        <5> QED BY <4>1, <5>2, ElementOfSeq
      <4>4. FoundInDoc[i] = Found(doc[i])
        BY <4>3 DEF FoundInDoc
      <4>5. phase \in Made
        BY <3>1 DEF Made
      <4>6. Found(doc[i]) = NoBinding \/ \E m \in DOMAIN bound : Found(doc[i]) = bound[m] /\ (HashSeparates => Spells(m, doc[i]))
        BY <4>3, <4>5, FoundIs
      <4>7. PICK m \in DOMAIN bound : Found(doc[i]) = bound[m]
        BY <4>2, <4>4, <4>6
      <4>8. PICK k \in 1..Len(fields) : bound[m] = fields[k]
        BY <4>5, BoundIs
      <4>9. path = fields[k].levels
        BY <4>2, <4>4, <4>7, <4>8
      <4> QED BY <2>2, <4>9 DEF Paths
    <3>2. CASE phase \notin {"decode", "decodeOther"}
      BY <2>1, <3>2 DEF ValueInv
    <3> QED BY <3>1, <3>2
  <2> QED BY <2>1, <2>3, <2>4, <2>5, <2>6, <2>8, <2>9 DEF TypeOK
<1>2. Spec => []DescribeInv /\ []EncoderInv /\ []DecoderInv /\ []TableInv /\ []ValueInv
  BY DescribeHolds, EncoderHolds, DecoderHolds, TableHolds, ValueHolds
<1> QED BY <1>1, <1>2, PTL

\* What is bound when both codecs are made.
LEMMA Settled ==
  ASSUME DescribeInv, EncoderInv, DecoderInv, Paired, phase \in Made, NEW k \in 1..Len(fields), NEW n \in Names,
         fields[k].names = {n}
  PROVE  ~Loses(fields, k, Len(fields)) <=> (n \in DOMAIN bound /\ bound[n] = fields[k])
<1>1. RightlyBound(bound, fields, Len(fields))
  BY Zenon DEF DecoderInv, Made
<1> QED BY <1>1, Zenon DEF RightlyBound

\* What was written for a member is found for it.
LEMMA MemberFound ==
  ASSUME DescribeInv, EncoderInv, DecoderInv, TableInv, ValueInv, Paired, phase = "decode", NEW i \in 1..Len(members)
  PROVE  FoundInDoc[i] # NoBinding /\ FoundInDoc[i].levels = members[i].field
<1>1. phase \in Made /\ Written(members, ordered, Len(ordered)) /\ Len(doc) = Len(members) /\ doc[i] = members[i].name
  BY DEF ValueInv, Made
<1>2. Listed(ordered, fields, Len(fields)) /\ RightlyListed(ordered, fields, Len(fields))
  BY Zenon DEF EncoderInv
<1>3. PICK j \in 1..Len(ordered) :
        ~ordered[j].ignored /\ members[i] = [name |-> ordered[j].name, field |-> ordered[j].binding.levels]
  BY <1>1, Zenon DEF Written
<1> DEFINE n == ordered[j].name
<1>4. PICK k \in 1..Len(fields) : ordered[j].binding = fields[k] /\ fields[k].names = {n}
  BY <1>2, Zenon DEF Listed
<1>5. n \in Names
  <2>1. ordered[j] \in Entry
    BY <1>2, ListedHas
  <2> QED BY <2>1 DEF Entry
<1>6. ~Loses(fields, k, Len(fields))
  BY <1>2, <1>3, <1>4, Zenon DEF RightlyListed
<1>7. n \in DOMAIN bound /\ bound[n] = fields[k]
  BY <1>1, <1>4, <1>5, <1>6, Settled
<1>8. Found(n) = bound[n]
  BY <1>1, <1>5, <1>7, FoundIs
<1>9. members[i].name = n /\ members[i].field = fields[k].levels
  BY <1>3, <1>4
<1>10. FoundInDoc[i] = Found(doc[i])
  BY <1>1 DEF FoundInDoc
<1>11. FoundInDoc[i] = fields[k]
  BY <1>1, <1>7, <1>8, <1>9, <1>10
<1>12. fields[k] \in Binding
  BY DEF DescribeInv
<1> QED BY <1>9, <1>11, <1>12, IsBound

\* What the encoder wrote sets the fields it came from, each to its own value,
\* when no three fields have one name.
THEOREM ValuesComeBack == Spec => [](Paired => RoundTrip)
<1>1. DescribeInv /\ EncoderInv /\ DecoderInv /\ TableInv /\ ValueInv => (Paired => RoundTrip)
  <2> SUFFICES ASSUME DescribeInv, EncoderInv, DecoderInv, TableInv, ValueInv, Paired,
                      phase = "decode", at = Len(doc)
               PROVE  /\ ~error
                      /\ DOMAIN out = {members[i].field : i \in DOMAIN members}
                      /\ \A i \in DOMAIN members : out[members[i].field] = i
    BY Zenon DEF RoundTrip, Decoded
  <2> DEFINE n == Len(members)
             F == FoundInDoc
  <2>1. ReadAll(at) /\ Len(doc) = n /\ Written(members, ordered, Len(ordered))
    BY DEF ValueInv
  <2>2. DOMAIN members = 1..n /\ n \in Nat
    BY <2>1, WrittenHas
  <2>3. \A i \in 1..n : F[i] # NoBinding /\ F[i].levels = members[i].field
    BY MemberFound
  <2>4. /\ \A path \in DOMAIN out : out[path] \in 1..n /\ F[out[path]] # NoBinding /\ F[out[path]].levels = path
        /\ \A i \in 1..n : F[i] # NoBinding => F[i].levels \in DOMAIN out /\ out[F[i].levels] >= i
        /\ error = (cfg.disallowUnknownFields /\ \E i \in 1..n : F[i] = NoBinding)
    BY <2>1, Zenon DEF ReadAll, Read
  <2>5. \A i, j \in 1..n : i < j => members[i].field # members[j].field
    BY <2>1, Zenon DEF Written
  <2> HIDE DEF F, n
  <2>6. ~error
    BY <2>3, <2>4, Zenon
  <2>7. \A i \in 1..n : members[i].field \in DOMAIN out
    BY <2>3, <2>4
  <2>8. \A path \in DOMAIN out : out[path] \in 1..n /\ members[out[path]].field = path
    BY <2>3, <2>4
  <2>9. DOMAIN out = {members[i].field : i \in DOMAIN members}
    BY <2>2, <2>7, <2>8
  <2>10. ASSUME NEW i \in 1..n PROVE out[members[i].field] = i
    <3> DEFINE j == out[members[i].field]
    <3>1. j \in 1..n /\ members[j].field = members[i].field
      BY <2>7, <2>8
    <3> HIDE DEF j
    <3>2. ~(i < j) /\ ~(j < i)
      BY <2>5, <3>1
    <3>3. i = j
      BY <2>2, <3>1, <3>2
    <3> QED BY <3>3 DEF j
  <2> QED BY <2>2, <2>6, <2>9, <2>10
<1>2. Spec => []DescribeInv /\ []EncoderInv /\ []DecoderInv /\ []TableInv /\ []ValueInv
  BY DescribeHolds, EncoderHolds, DecoderHolds, TableHolds, ValueHolds
<1> QED BY <1>1, <1>2, PTL

----------------------------------------------------------------------------
(* The names as in encoding/json.                                          *)

LEMMA SameNameIs ==
  ASSUME DescribeInv
  PROVE  \A k : SameName(k) = {j \in 1..Len(fields) : fields[j].names = fields[k].names}
<1>1. DOMAIN fields = 1..Len(fields)
  BY DEF DescribeInv
<1> QED BY <1>1 DEF SameName

\* A field that has its name alone.
LEMMA DominatesAlone ==
  ASSUME DescribeInv, NEW k \in 1..Len(fields), fields[k].names # {},
         \A j \in 1..Len(fields) : fields[j].names = fields[k].names => j = k
  PROVE  Dominates(k) /\ ~Loses(fields, k, Len(fields))
<1>1. SameName(k) = {k}
  BY SameNameIs
<1>2. Len(fields[k].levels) \in Nat
  BY BindingHas DEF DescribeInv, Levels
<1>3. Shallowest({k}) = {k}
  BY <1>2 DEF Shallowest
<1>4. Dominates(k)
  BY <1>1, <1>3 DEF Dominates
<1>5. ~Loses(fields, k, Len(fields))
  BY Zenon DEF Loses, Rivals
<1> QED BY <1>4, <1>5

\* ... and one of two.
LEMMA DominatesOther ==
  ASSUME DescribeInv, NEW k \in 1..Len(fields), NEW i \in 1..Len(fields), i # k, SameName(k) = {i, k},
         fields[k].names # {}
  PROVE  Dominates(k) <=>
           \/ Len(fields[k].levels) < Len(fields[i].levels)
           \/ /\ Len(fields[k].levels) = Len(fields[i].levels)
              /\ TagNamed(fields[k]) /\ ~TagNamed(fields[i])
<1> DEFINE a == Len(fields[i].levels)
           c == Len(fields[k].levels)
           top == Shallowest({i, k})
           named == {j \in top : fields[j].field.tag = "named"}
<1>1. a \in Nat /\ c \in Nat
  BY BindingHas, SMTT(30) DEF DescribeInv, Levels
<1>2. top \subseteq {i, k} /\ (k \in top <=> c <= a) /\ (i \in top <=> a <= c)
  BY <1>1 DEF Shallowest
<1>3. Dominates(k) <=> top = {k} \/ named = {k}
  BY DEF Dominates
<1> HIDE DEF top, a, c
<1>4. top = {k} <=> c < a
  BY <1>1, <1>2
<1>5. named = {k} <=> c <= a /\ TagNamed(fields[k]) /\ ~(a <= c /\ TagNamed(fields[i]))
  <2>1. k \in named <=> c <= a /\ TagNamed(fields[k])
    BY <1>2, Zenon DEF named, TagNamed
  <2>2. i \in named <=> a <= c /\ TagNamed(fields[i])
    BY <1>2, Zenon DEF named, TagNamed
  <2>3. named \subseteq {i, k}
    BY <1>2, Zenon DEF named
  <2>4. named = {k} <=> k \in named /\ i \notin named
    <3> HIDE DEF named
    <3> QED BY <2>3
  <2> QED BY <2>1, <2>2, <2>4, Zenon
<1> QED BY <1>1, <1>3, <1>4, <1>5 DEF a, c

LEMMA LosesOther ==
  ASSUME DescribeInv, NEW k \in 1..Len(fields), NEW i \in 1..Len(fields), i # k, SameName(k) = {i, k},
         fields[k].names # {}, fields[i].names = fields[k].names
  PROVE  Loses(fields, k, Len(fields)) <=>
           IF i < k THEN resolveConflictBinding(fields[i], fields[k])[2]
           ELSE resolveConflictBinding(fields[k], fields[i])[1]
<1>1. Rivals(fields, i, k)
  BY DEF Rivals
<1>2. \A j \in 1..Len(fields) : Rivals(fields, j, k) => j = i
  BY SameNameIs DEF Rivals
<1> QED BY <1>1, <1>2, Zenon DEF Loses

LEMMA Resolved ==
  ASSUME NEW old \in Binding, NEW new \in Binding
  PROVE  /\ resolveConflictBinding(old, new)[1] <=> (Tagged(old) = Tagged(new) => Len(old.levels) >= Len(new.levels))
         /\ resolveConflictBinding(old, new)[2] <=> (Tagged(old) = Tagged(new) /\ Len(new.levels) >= Len(old.levels))
<1> DEFINE x == Len(old.levels) >= Len(new.levels)
           y == Len(new.levels) >= Len(old.levels)
<1>1. Shallower(old, new) = <<x, y>>
  BY DEF Shallower
<1>2. CASE Tagged(old) = Tagged(new)
  <2>1. resolveConflictBinding(old, new) = <<x, y>>
    BY <1>1, <1>2 DEF resolveConflictBinding
  <2> HIDE DEF x, y
  <2>2. resolveConflictBinding(old, new)[1] = x /\ resolveConflictBinding(old, new)[2] = y
    BY <2>1
  <2> QED BY <1>2, <2>2 DEF x, y
<1>3. CASE Tagged(old) # Tagged(new)
  <2>1. resolveConflictBinding(old, new) = <<TRUE, FALSE>>
    BY <1>3 DEF resolveConflictBinding
  <2> QED BY <1>3, <2>1
<1> QED BY <1>2, <1>3

LEMMA KeptDominates ==
  ASSUME DescribeInv, Plain, NEW k \in 1..Len(fields), fields[k].names # {}
  PROVE  Dominates(k) <=> ~Loses(fields, k, Len(fields))
<1>1. CASE \A j \in 1..Len(fields) : fields[j].names = fields[k].names => j = k
  BY <1>1, DominatesAlone
<1>2. CASE \E i \in 1..Len(fields) : fields[i].names = fields[k].names /\ i # k
  <2>1. PICK i \in 1..Len(fields) : fields[i].names = fields[k].names /\ i # k
    BY <1>2
  <2>2. \A j \in 1..Len(fields) : fields[j].names = fields[k].names => j = i \/ j = k
    BY <2>1, Zenon DEF Plain, Paired, PairedIn
  <2>3. SameName(k) = {i, k}
    BY <2>1, <2>2, SameNameIs
  <2> DEFINE a == Len(fields[i].levels)
             c == Len(fields[k].levels)
  <2>4. fields[i] \in Binding /\ fields[k] \in Binding /\ a \in Nat /\ c \in Nat
    BY BindingHas DEF DescribeInv, Levels
  <2>5. Dominates(k) <=> c < a \/ (c = a /\ TagNamed(fields[k]) /\ ~TagNamed(fields[i]))
    BY <2>1, <2>3, DominatesOther
  <2>6. Loses(fields, k, Len(fields)) <=>
           IF i < k THEN resolveConflictBinding(fields[i], fields[k])[2]
           ELSE resolveConflictBinding(fields[k], fields[i])[1]
    BY <2>1, <2>3, LosesOther
  <2>7. \A j \in 1..Len(fields) : TagNamed(fields[j]) => Tagged(fields[j])
    BY DEF TagNamed, Tagged
  <2>8. Tagged(fields[i]) \in BOOLEAN /\ Tagged(fields[k]) \in BOOLEAN
    BY DEF Tagged
  <2> HIDE DEF a, c
  <2>9. CASE i < k
    <3>1. Plainly(fields[i], fields[k])
      BY <2>1, <2>9 DEF Plain
    <3>2. Loses(fields, k, Len(fields)) <=> (Tagged(fields[i]) = Tagged(fields[k]) /\ c >= a)
      BY <2>4, <2>6, <2>9, Resolved DEF a, c
    <3>3. IF Tagged(fields[i]) = Tagged(fields[k])
          THEN a = c => (TagNamed(fields[i]) <=> TagNamed(fields[k]))
          ELSE c < a \/ (c = a /\ TagNamed(fields[k]))
      BY <3>1 DEF Plainly, a, c
    <3>4. CASE Tagged(fields[i]) = Tagged(fields[k])
      BY <2>4, <2>5, <3>2, <3>3, <3>4
    <3>5. CASE Tagged(fields[i]) # Tagged(fields[k])
      <4>1. TagNamed(fields[k]) => ~TagNamed(fields[i])
        BY <2>7, <2>8, <3>5
      <4> QED BY <2>4, <2>5, <3>2, <3>3, <3>5, <4>1
    <3> QED BY <3>4, <3>5
  <2>10. CASE k < i
    <3>1. Plainly(fields[k], fields[i])
      BY <2>1, <2>10 DEF Plain
    <3>2. Loses(fields, k, Len(fields)) <=> (Tagged(fields[k]) = Tagged(fields[i]) => c >= a)
      <4>1. ~(i < k)
        BY <2>10
      <4> QED BY <2>4, <2>6, <4>1, Resolved DEF a, c
    <3>3. IF Tagged(fields[k]) = Tagged(fields[i])
          THEN c = a => (TagNamed(fields[k]) <=> TagNamed(fields[i]))
          ELSE a < c \/ (a = c /\ TagNamed(fields[i]))
      BY <3>1 DEF Plainly, a, c
    <3>4. CASE Tagged(fields[k]) = Tagged(fields[i])
      BY <2>4, <2>5, <3>2, <3>3, <3>4
    <3>5. CASE Tagged(fields[k]) # Tagged(fields[i])
      BY <2>4, <2>5, <3>2, <3>3, <3>5
    <3> QED BY <3>4, <3>5
  <2> QED BY <2>1, <2>9, <2>10
<1> QED BY <1>1, <1>2

\* The encoder has the fields that encoding/json would encode, when of two fields
\* with one name the tags say no other than the depths.
THEOREM EncodesDominant == Spec => [](Plain => DominantFields)
<1>1. DescribeInv /\ EncoderInv => (Plain => DominantFields)
  <2> SUFFICES ASSUME DescribeInv, EncoderInv, Plain, phase \notin {"describe", "to"}
               PROVE  {ordered[i].binding.levels : i \in {j \in DOMAIN ordered : ~ordered[j].ignored}}
                        = {fields[k].levels : k \in {j \in DOMAIN fields : Dominates(j)}}
    BY Zenon DEF DominantFields
  <2>1. Listed(ordered, fields, Len(fields)) /\ RightlyListed(ordered, fields, Len(fields))
    BY Zenon DEF EncoderInv, Plain
  <2>2. DOMAIN ordered = 1..Len(ordered) /\ DOMAIN fields = 1..Len(fields)
    <3>1. ordered \in Seq(Entry)
      BY <2>1, ListedHas
    <3> QED BY <3>1 DEF DescribeInv
  <2>3. \A k \in 1..Len(fields) : Dominates(k) => fields[k].names # {}
    BY DEF Dominates
  <2>4. \A k \in 1..Len(fields) : fields[k].names # {} => (Dominates(k) <=> ~Loses(fields, k, Len(fields)))
    BY KeptDominates
  <2>5. ASSUME NEW i \in 1..Len(ordered), ~ordered[i].ignored
        PROVE  \E k \in 1..Len(fields) : ordered[i].binding = fields[k] /\ Dominates(k)
    <3>1. PICK k \in 1..Len(fields) : ordered[i].binding = fields[k] /\ fields[k].names = {ordered[i].name}
      BY <2>1, Zenon DEF Listed
    <3>2. ~Loses(fields, k, Len(fields))
      BY <2>1, <2>5, <3>1, Zenon DEF RightlyListed
    <3>3. fields[k].names # {}
      BY <3>1
    <3> QED BY <2>4, <3>1, <3>2, <3>3
  <2>6. ASSUME NEW k \in 1..Len(fields), Dominates(k)
        PROVE  \E i \in 1..Len(ordered) : ordered[i].binding = fields[k] /\ ~ordered[i].ignored
    <3>1. PICK i \in 1..Len(ordered) : ordered[i].binding = fields[k]
      BY <2>1, <2>3, <2>6, Zenon DEF Listed
    <3>2. ~Loses(fields, k, Len(fields))
      BY <2>3, <2>4, <2>6
    <3>3. ~ordered[i].ignored
      BY <2>1, <3>1, <3>2, Zenon DEF RightlyListed
    <3> QED BY <3>1, <3>3
  <2> QED BY <2>2, <2>5, <2>6
<1>2. Spec => []DescribeInv /\ []EncoderInv
  BY DescribeHolds, EncoderHolds
<1> QED BY <1>1, <1>2, PTL

\* A field that stands for a name is bound to it, and what is bound stands for it.
LEMMA BoundDominates ==
  ASSUME DescribeInv, EncoderInv, DecoderInv, Plain, phase \in Made, NEW k \in 1..Len(fields), NEW n \in Names,
         fields[k].names = {n}
  PROVE  Dominates(k) <=> (n \in DOMAIN bound /\ bound[n] = fields[k])
<1>1. fields[k].names # {}
  OBVIOUS
<1> QED BY <1>1, KeptDominates, Settled DEF Plain

LEMMA NameOf ==
  ASSUME DescribeInv, NEW k \in 1..Len(fields), fields[k].names # {}
  PROVE  \E n \in Names : fields[k].names = {n}
<1>1. fields[k] \in Binding
  BY DEF DescribeInv
<1> QED BY <1>1, BindingIs

\* Which member finds which field.
LEMMA FindsField ==
  ASSUME DescribeInv, EncoderInv, DecoderInv, TableInv, Plain, HashSeparates, phase \in Made, NEW name \in Names
  PROVE  /\ Found(name) # NoBinding =>
              \E k \in 1..Len(fields) : Found(name) = fields[k] /\ Dominates(k) /\ MayName(name, k)
         /\ \A k \in 1..Len(fields) : name \in fields[k].names /\ Dominates(k) => Found(name) = fields[k]
         /\ cfg.disallowUnknownFields =>
              \A k \in 1..Len(fields) : Dominates(k) /\ MayName(name, k) => Found(name) # NoBinding
<1>1. ASSUME Found(name) # NoBinding
      PROVE  \E k \in 1..Len(fields) : Found(name) = fields[k] /\ Dominates(k) /\ MayName(name, k)
  <2>1. PICK m \in DOMAIN bound : Found(name) = bound[m] /\ Spells(m, name)
    BY <1>1, FoundIs
  <2>2. PICK k \in 1..Len(fields) : bound[m] = fields[k] /\ fields[k].names = {m}
    BY BoundIs
  <2>3. m \in Names
    BY BoundIs DEF FieldsBound
  <2>4. Dominates(k)
    BY <2>2, <2>3, BoundDominates
  <2>5. MayName(name, k)
    BY <2>1, <2>2 DEF MayName, Spells
  <2> QED BY <2>1, <2>2, <2>4, <2>5
<1>2. ASSUME NEW k \in 1..Len(fields), name \in fields[k].names, Dominates(k) PROVE Found(name) = fields[k]
  <2>1. fields[k].names = {name}
    BY <1>2, NameOf
  <2>2. name \in DOMAIN bound /\ bound[name] = fields[k]
    BY <1>2, <2>1, BoundDominates
  <2> QED BY <2>2, FoundIs
<1>3. ASSUME cfg.disallowUnknownFields, NEW k \in 1..Len(fields), Dominates(k), MayName(name, k)
      PROVE  Found(name) # NoBinding
  <2>1. PICK n \in Names : fields[k].names = {n}
    <3>1. fields[k].names # {}
      BY <1>3 DEF Dominates
    <3> QED BY <3>1, NameOf
  <2>2. n \in DOMAIN bound
    BY <1>3, <2>1, BoundDominates
  <2>3. Spells(n, name)
    BY <1>3, <2>1 DEF MayName, Spells
  <2> QED BY <1>3, <2>2, <2>3, FoundIs
<1> QED BY <1>1, <1>2, <1>3

\* A member of any document sets the field that its name stands for, or else is
\* unknown, when moreover the hashes of the names differ.
THEOREM EveryMemberFindsField == HashSeparates => (Spec => [](Plain => MembersFindFields))
<1> SUFFICES ASSUME HashSeparates PROVE Spec => [](Plain => MembersFindFields)
  OBVIOUS
<1>1. DescribeInv /\ EncoderInv /\ DecoderInv /\ TableInv /\ ValueInv => (Plain => MembersFindFields)
  <2> SUFFICES ASSUME DescribeInv, EncoderInv, DecoderInv, TableInv, ValueInv, Plain, Decoded
               PROVE  /\ \A path \in DOMAIN out : \E k \in DOMAIN fields :
                           fields[k].levels = path /\ Dominates(k) /\ MayName(doc[out[path]], k)
                      /\ \A i \in 1..at : \A k \in Exactly(doc[i]) :
                           fields[k].levels \in DOMAIN out /\ out[fields[k].levels] >= i
                      /\ error = (cfg.disallowUnknownFields /\ \E i \in DOMAIN doc :
                                    \A k \in DOMAIN fields : Dominates(k) => ~MayName(doc[i], k))
    BY Zenon DEF MembersFindFields
  <2> DEFINE n == Len(doc)
             F == FoundInDoc
             u == cfg.disallowUnknownFields
  <2>1. phase \in {"decode", "decodeOther"} /\ at = n /\ phase \in Made
    BY DEF Decoded, Made
  <2>2. doc \in Seq(Names) /\ ReadAll(n)
    BY <2>1, Zenon DEF ValueInv
  <2>3. n \in Nat /\ DOMAIN doc = 1..n /\ \A i \in 1..n : doc[i] \in Names
    BY <2>2, LenProperties, ElementOfSeq
  <2>4. DOMAIN fields = 1..Len(fields)
    BY DEF DescribeInv
  <2>5. \A i \in 1..n : F[i] = Found(doc[i])
    BY DEF FoundInDoc
  <2>6. /\ \A path \in DOMAIN out : out[path] \in 1..n /\ F[out[path]] # NoBinding /\ F[out[path]].levels = path
        /\ \A i \in 1..n : F[i] # NoBinding => F[i].levels \in DOMAIN out /\ out[F[i].levels] >= i
        /\ error = (u /\ \E i \in 1..n : F[i] = NoBinding)
    BY <2>2, Zenon DEF ReadAll, Read
  <2> HIDE DEF F, n, u
  <2>7. \A path \in DOMAIN out : \E k \in DOMAIN fields :
          fields[k].levels = path /\ Dominates(k) /\ MayName(doc[out[path]], k)
    <3> SUFFICES ASSUME NEW path \in DOMAIN out
                 PROVE  \E k \in DOMAIN fields :
                          fields[k].levels = path /\ Dominates(k) /\ MayName(doc[out[path]], k)
      OBVIOUS
    <3> DEFINE i == out[path]
    <3>1. i \in 1..n /\ Found(doc[i]) # NoBinding /\ Found(doc[i]).levels = path /\ doc[i] \in Names
      BY <2>3, <2>5, <2>6
    <3> HIDE DEF i
    <3>2. PICK k \in 1..Len(fields) : Found(doc[i]) = fields[k] /\ Dominates(k) /\ MayName(doc[i], k)
      BY <2>1, <3>1, FindsField
    <3> QED BY <2>4, <3>1, <3>2 DEF i
  <2>8. \A i \in 1..n : \A k \in Exactly(doc[i]) : fields[k].levels \in DOMAIN out /\ out[fields[k].levels] >= i
    <3> SUFFICES ASSUME NEW i \in 1..n, NEW k \in Exactly(doc[i])
                 PROVE  fields[k].levels \in DOMAIN out /\ out[fields[k].levels] >= i
      OBVIOUS
    <3>1. k \in 1..Len(fields) /\ doc[i] \in fields[k].names /\ Dominates(k) /\ doc[i] \in Names
      BY <2>3, <2>4 DEF Exactly
    <3>2. Found(doc[i]) = fields[k]
      BY <2>1, <3>1, FindsField
    <3>3. fields[k] # NoBinding
      <4>1. fields[k] \in Binding
        BY <3>1 DEF DescribeInv
      <4> QED BY <4>1, IsBound
    <3> QED BY <2>5, <2>6, <3>2, <3>3
  <2>9. ASSUME NEW i \in 1..n, u
        PROVE  F[i] = NoBinding <=> \A k \in 1..Len(fields) : Dominates(k) => ~MayName(doc[i], k)
    <3>1. doc[i] \in Names /\ F[i] = Found(doc[i]) /\ cfg.disallowUnknownFields
      BY <2>3, <2>5, <2>9 DEF u
    <3>2. F[i] # NoBinding => \E k \in 1..Len(fields) : Dominates(k) /\ MayName(doc[i], k)
      BY <2>1, <3>1, FindsField
    <3>3. \A k \in 1..Len(fields) : Dominates(k) /\ MayName(doc[i], k) => F[i] # NoBinding
      BY <2>1, <3>1, FindsField
    <3> QED BY <3>2, <3>3, Zenon
  <2>10. error = (u /\ \E i \in 1..n : \A k \in 1..Len(fields) : Dominates(k) => ~MayName(doc[i], k))
    <3>1. CASE u
      BY <2>6, <2>9, <3>1, Zenon
    <3>2. CASE ~u
      BY <2>6, <3>2, Zenon
    <3> QED BY <3>1, <3>2
  <2> QED BY <2>1, <2>3, <2>4, <2>7, <2>8, <2>10 DEF u
<1>2. Spec => []DescribeInv /\ []EncoderInv /\ []DecoderInv /\ []TableInv /\ []ValueInv
  BY DescribeHolds, EncoderHolds, DecoderHolds, TableHolds, ValueHolds
<1> QED BY <1>1, <1>2, PTL
=============================================================================
