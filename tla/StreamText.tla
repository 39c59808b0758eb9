---------------------------- MODULE StreamText ----------------------------
(* What the callers of Stream are promised: the text of each value, and    *)
(* the two properties that compare it with what Marshal returns and with   *)
(* what the writer of an Encoder takes.                                    *)
EXTENDS Stream

CONSTANT Depth   \* the depth of each value and of each part of one
Nodes == DOMAIN Depth

ASSUME NodesAssumption ==
  /\ Names \in Seq({Names[i] : i \in DOMAIN Names})
  /\ \A n \in Steps : Values[n] \subseteq Nodes
  /\ \A v \in Nodes :
       /\ Depth[v] \in Nat /\ v.kind \in Kinds /\ v.parts \in Seq(Nodes)
       /\ \A i \in DOMAIN v.parts : Depth[v.parts[i]] < Depth[v]
       /\ v.kind \in {"array", "object", "map"} \/ v.parts = <<>>
       /\ v.kind \in {"object", "map"} =>
            v.names \in Seq(DOMAIN Names) /\ Len(v.names) = Len(v.parts)
       /\ v.kind = "map" => \A i, j \in DOMAIN v.names : v.names[i] = v.names[j] => i = j

\* a value and all its parts, and their parts
Within ==
  LET within[v \in Nodes] == {v} \cup UNION {within[v.parts[i]] : i \in DOMAIN v.parts} IN within
Has(v, kinds) == \E u \in Within[v] : u.kind \in kinds

----------------------------------------------------------------------------
(* The text of a value with indentionStep n, where ind is the indention of *)
(* the line it begins on.  A value that fails has none.                    *)
NewLine(n, ind) == IF n = 0 THEN <<>> ELSE <<"\n">> \o [i \in 1..ind |-> " "]
Label(n, v, i) ==
  IF v.kind = "array" THEN <<>> ELSE <<Names[v.names[i]]>> \o (IF n > 0 THEN <<":", " ">> ELSE <<":">>)

\* the members of a map come in the order of their names
Order(v) == IF v.kind = "map" THEN Ordering(v.names) ELSE [i \in DOMAIN v.parts |-> i]
\* what stands before the k-th part
Lead(n, v, k, ind) ==
  <<IF k = 1 THEN Bracket(v)[1] ELSE ",">> \o NewLine(n, ind) \o Label(n, v, Order(v)[k])

\* the first k of some texts, one after the other
Joined(texts) ==
  LET upto[k \in 0..Len(texts)] == IF k = 0 THEN <<>> ELSE upto[k - 1] \o texts[k] IN upto

\* the parts of v, where text is the text of each value at each indention
Parts(n, text, v, ind) ==
  [k \in DOMAIN v.parts |-> Lead(n, v, k, ind) \o text[v.parts[Order(v)[k]]][ind]]
TextAt(n, text, v, ind) ==
  CASE v.kind = "scalar" -> <<"1">>
    [] v.kind = "marshaler" -> <<"m">>
    [] v.kind \in {"bad", "panic"} -> <<>>
    [] v.kind \in {"array", "object", "map"} ->
         IF v.parts = <<>> THEN Bracket(v)
         ELSE Joined(Parts(n, text, v, ind + n))[Len(v.parts)] \o NewLine(n, ind) \o <<Bracket(v)[2]>>
Text(n) == LET text[v \in Nodes] == [ind \in Nat |-> TextAt(n, text, v, ind)] IN text

\* what the writer gets for some values
Lines(n, values) == Joined([i \in DOMAIN values |-> Text(n)[values[i].val][0] \o <<"\n">>])
IsPrefixOf(s, t) == Len(s) <= Len(t) /\ s = SubSeq(t, 1, Len(s))

----------------------------------------------------------------------------
\* What Marshal returned is the text of its value, and stays so when other
\* goroutines, and later calls, use the stream it came from; a call fails
\* exactly when its value cannot be encoded, whatever failed or panicked
\* before it (config.go:306 copies the result, pool.go:25 forgets the error).
MarshalIsText ==
  \A g \in Goroutines : result[g] # None =>
    /\ (result[g].err = "nil") = ~Has(result[g].val, {"bad"})
    /\ result[g].err = "nil" => BytesOf(result[g].slice) = Text(step)[result[g].val][0]

\* As long as no value failed, the writer of an Encoder has taken a beginning of
\* the lines of its values, nothing twice and nothing left out, although a
\* sorted map or a Marshaler makes the stream write before the value is
\* complete and drops the writer's error (stream.go:67, reflect_map.go:325).
Clean(values) ==
  \A i \in DOMAIN values : values[i].err \in {"nil", "running"} /\ ~Has(values[i].val, {"bad", "panic"})
WriterGetsLines ==
  \A g \in Goroutines : Clean(sent[g]) =>
    LET lines == Lines(step, sent[g])[Len(sent[g])] IN
    IsPrefixOf(written[g], lines) /\ (Idle(g) => written[g] = lines)

----------------------------------------------------------------------------
\* Where the code indents as above: no map with an indention is empty or has a
\* member that is indented itself (the subStream of its members starts at the
\* left margin, reflect_map.go:293), and no panic leaves a stream indented.
Indents(v) ==
  \A u \in Within[v] :
    /\ u.kind # "panic"
    /\ u.kind = "map" => /\ u.parts # <<>>
                         /\ \A i \in DOMAIN u.parts : u.parts[i].kind # "map" /\ u.parts[i].parts = <<>>
PlainlyIndented == \A n \in Steps \ {0} : \A v \in Values[n] : Indents(v)
=============================================================================
