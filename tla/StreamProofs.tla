---------------------------- MODULE StreamProofs ----------------------------
(* The pool of streams stays balanced, and the indention of a stream never *)
(* negative: for any number of goroutines, streams and calls, any values,  *)
(* and writers that fail whenever they like.                               *)
EXTENDS Stream, DataLemmas

----------------------------------------------------------------------------
(* The inductive invariant.                                                *)

\* The Stream structs.
IsStream(s) ==
  /\ s = [buf |-> s.buf, err |-> s.err, indention |-> s.indention]
  /\ s.err \in {"nil", "bad", "write"}
  /\ s.indention \in Nat

\* The subStreams of the calls around call i of a stack.
SubsAfter(s, i) == {s[j].sub : j \in (i + 1)..Len(s)} \ {None}

\* A call in a stack, where c is the stream of the API call and subs are the
\* subStreams of the calls around it: only a map has a subStream, which nothing
\* else in the stack has, and it writes on a stream of the calls around it.
IsFrame(f, c, subs) ==
  /\ f = [val |-> f.val, on |-> f.on, at |-> f.at, order |-> f.order, sub |-> f.sub,
          subAt |-> f.subAt, members |-> f.members, sorted |-> f.sorted]
  /\ f.at \in Nat
  /\ f.on = c \/ f.on \in subs
  /\ f.sub # None => f.sub \in StreamIds /\ f.sub # c /\ f.sub \notin subs /\ f.val.kind = "map"
  /\ f.sorted => f.sub # None
IsStack(s, c) ==
  /\ \E S : s \in Seq(S)
  /\ \A i \in 1..Len(s) : IsFrame(s[i], c, SubsAfter(s, i))

\* The calls that have written their opening bracket on stream id, each of
\* which has indented it by a step.
Begun(f, id) == f.on = id /\ IF f.val.kind = "map" THEN f.sub # None ELSE f.at # 0
Level(s, id) == Cardinality({i \in 1..Len(s) : Begun(s[i], id)})

\* The streams that goroutine g writes on.
Held(g) == ({call[g].stream} \ {None}) \cup Subs(g)

\* What a goroutine is in the middle of.
IsCall(g) ==
  /\ call[g].name \in {"none", "Marshal", "Encode"}
  /\ Idle(g) => call[g].stream = None /\ stack[g] = <<>>
  /\ call[g].name = "Marshal" => call[g].stream \in StreamIds
  /\ call[g].name = "Encode" => call[g].stream = g
Errors == {"running", "panic", "nil", "bad", "write"}

Inv ==
  /\ step \in Steps /\ calls \in 0..MaxCalls /\ failures \in 0..MaxFailures
  /\ DOMAIN stack = Goroutines /\ DOMAIN call = Goroutines /\ DOMAIN sent = Goroutines
  /\ Goroutines \subseteq Made /\ Made \subseteq Goroutines \cup StreamIds
  /\ streams = [id \in Made |-> streams[id]] /\ \A id \in Made : IsStream(streams[id])
  /\ pool \subseteq StreamIds
  /\ \A g \in Goroutines :
       /\ IsCall(g)
       /\ IsStack(stack[g], call[g].stream)
       /\ sent[g] \in Seq([val : Values[step], err : Errors]) /\ Len(sent[g]) <= calls
       /\ \A id \in Held(g) : streams[id].indention >= step * Level(stack[g], id)
  /\ PoolBalance

LEMMA InvImplies == Inv => TypeOK /\ PoolBalance
BY DEF Inv, TypeOK, IsStream, IsCall

----------------------------------------------------------------------------
(* A stack of calls, and the same with one call more or less.              *)

LEMMA SubsAreAfter == \A g : Subs(g) = SubsAfter(stack[g], 0)
BY DEF Subs, SubsAfter

LEMMA LevelIsNat ==
  ASSUME NEW s, NEW c, IsStack(s, c), NEW id
  PROVE  /\ Level(s, id) \in Nat
         /\ id # c /\ id \notin SubsAfter(s, 0) => Level(s, id) = 0
<1>1. PICK S : s \in Seq(S)
  BY DEF IsStack
<1> DEFINE A == {f \in S : Begun(f, id)}
<1>2. \A i \in 1..Len(s) : s[i] \in S
  BY <1>1
<1>3. Level(s, id) = Count(s, A)
  <2>1. {i \in 1..Len(s) : Begun(s[i], id)} = {i \in 1..Len(s) : s[i] \in A}
    BY <1>2
  <2> QED BY <2>1 DEF Level, Count
<1>4. ASSUME id # c, id \notin SubsAfter(s, 0) PROVE \A i \in 1..Len(s) : s[i] \notin A
  <2>1. ASSUME NEW i \in 1..Len(s) PROVE s[i].on # id
    <3>1. s[i].on = c \/ s[i].on \in SubsAfter(s, i)
      BY DEF IsStack, IsFrame
    <3>2. SubsAfter(s, i) \subseteq SubsAfter(s, 0)
      BY <1>1 DEF SubsAfter
    <3> QED BY <1>4, <3>1, <3>2
  <2> QED BY <2>1 DEF Begun
<1> HIDE DEF A
<1> QED BY <1>1, <1>3, <1>4, CountIsNat

LEMMA StackCons ==
  ASSUME NEW s, NEW c, IsStack(s, c), NEW f, IsFrame(f, c, SubsAfter(s, 0))
  PROVE  LET t == <<f>> \o s IN
         /\ IsStack(t, c) /\ t # <<>> /\ Head(t) = f /\ Tail(t) = s
         /\ SubsAfter(t, 0) = SubsAfter(s, 0) \cup ({f.sub} \ {None})
         /\ \A id : Level(t, id) = Level(s, id) + (IF Begun(f, id) THEN 1 ELSE 0)
<1> DEFINE t == <<f>> \o s
<1>1. PICK S0 : s \in Seq(S0)
  BY DEF IsStack
<1> DEFINE S == S0 \cup {f}
<1>2. s \in Seq(S) /\ f \in S
  <2>1. \A i \in 1..Len(s) : s[i] \in S
    BY <1>1
  <2>2. s = [i \in 1..Len(s) |-> s[i]] /\ Len(s) \in Nat
    BY <1>1
  <2> HIDE DEF S
  <2>3. s \in [1..Len(s) -> S]
    BY <2>1, <2>2
  <2>4. s \in Seq(S)
    BY <2>2, <2>3
  <2> QED BY <2>4 DEF S
<1> HIDE DEF S
<1>3. /\ t \in Seq(S) /\ Len(t) = Len(s) + 1 /\ t # <<>> /\ t[1] = f /\ Head(t) = f /\ Tail(t) = s
      /\ \A k \in 2..(Len(s) + 1) : t[k] = s[k - 1]
      /\ Len(s) \in Nat
  BY <1>2, ConsProperties, TailOfCons
<1> HIDE DEF t
<1>4. \A i \in 0..Len(s) : SubsAfter(t, i + 1) = SubsAfter(s, i)
  <2>1. TAKE i \in 0..Len(s)
  <2>2. ASSUME NEW x \in SubsAfter(t, i + 1) PROVE x \in SubsAfter(s, i)
    <3>1. PICK j \in (i + 1 + 1)..Len(t) : x = t[j].sub
      BY DEF SubsAfter
    <3>2. j - 1 \in (i + 1)..Len(s) /\ t[j] = s[j - 1]
      BY <1>3, <3>1
    <3> QED BY <3>1, <3>2 DEF SubsAfter
  <2>3. ASSUME NEW x \in SubsAfter(s, i) PROVE x \in SubsAfter(t, i + 1)
    <3>1. PICK j \in (i + 1)..Len(s) : x = s[j].sub
      BY DEF SubsAfter
    <3>2. j + 1 \in (i + 1 + 1)..Len(t) /\ (j + 1) - 1 = j /\ j + 1 \in 2..(Len(s) + 1)
      BY <1>3, <3>1
    <3>3. t[j + 1] = s[j]
      BY <1>3, <3>2
    <3> QED BY <3>1, <3>2, <3>3 DEF SubsAfter
  <2> QED BY <2>2, <2>3
<1>5. SubsAfter(t, 0) = SubsAfter(s, 0) \cup ({f.sub} \ {None})
  <2>1. SubsAfter(t, 0 + 1) = SubsAfter(s, 0)
    BY <1>3, <1>4
  <2>2. SubsAfter(t, 0) = ({t[1].sub} \ {None}) \cup SubsAfter(t, 1)
    BY <1>3 DEF SubsAfter
  <2> QED BY <1>3, <2>1, <2>2
<1>6. IsStack(t, c)
  <2>1. ASSUME NEW i \in 1..Len(t) PROVE IsFrame(t[i], c, SubsAfter(t, i))
    <3>1. CASE i = 1
      <4>1. SubsAfter(t, 1) = SubsAfter(s, 0)
        BY <1>3, <1>4
      <4> QED BY <1>3, <3>1, <4>1
    <3>2. CASE i # 1
      <4>1. i - 1 \in 1..Len(s) /\ i - 1 \in 0..Len(s) /\ t[i] = s[i - 1] /\ (i - 1) + 1 = i
        BY <1>3, <3>2
      <4>2. SubsAfter(t, i) = SubsAfter(s, i - 1)
        BY <1>4, <4>1
      <4> QED BY <4>1, <4>2 DEF IsStack
    <3> QED BY <3>1, <3>2
  <2> QED BY <1>3, <2>1 DEF IsStack
<1>7. ASSUME NEW id PROVE Level(t, id) = Level(s, id) + (IF Begun(f, id) THEN 1 ELSE 0)
  <2> DEFINE A == {x \in S : Begun(x, id)}
  <2>1. (\A i \in 1..Len(s) : s[i] \in S) /\ (\A i \in 1..Len(t) : t[i] \in S)
    BY <1>2, <1>3
  <2>2. {i \in 1..Len(s) : Begun(s[i], id)} = {i \in 1..Len(s) : s[i] \in A}
        /\ {i \in 1..Len(t) : Begun(t[i], id)} = {i \in 1..Len(t) : t[i] \in A}
    BY <2>1
  <2>3. Level(t, id) = Count(t, A) /\ Level(s, id) = Count(s, A) /\ (f \in A <=> Begun(f, id))
    BY <1>2, <2>2 DEF Level, Count
  <2> HIDE DEF A
  <2> QED BY <1>2, <2>3, CountCons DEF t
<1> QED BY <1>3, <1>5, <1>6, <1>7 DEF t

LEMMA StackHead ==
  ASSUME NEW s, NEW c, IsStack(s, c), s # <<>>
  PROVE  LET f == Head(s)
             t == Tail(s) IN
         /\ IsFrame(f, c, SubsAfter(t, 0)) /\ IsStack(t, c)
         /\ SubsAfter(s, 0) = SubsAfter(t, 0) \cup ({f.sub} \ {None})
         /\ \A id : Level(s, id) = Level(t, id) + (IF Begun(f, id) THEN 1 ELSE 0)
<1> DEFINE f == Head(s)
           t == Tail(s)
<1>1. PICK S : s \in Seq(S)
  BY DEF IsStack
<1>2. /\ s = <<f>> \o t /\ f \in S /\ t \in Seq(S)
      /\ Len(t) = Len(s) - 1 /\ Len(s) >= 1 /\ Len(s) \in Nat /\ f = s[1]
      /\ \A i \in 1..Len(t) : t[i] = s[i + 1]
  BY <1>1, ConsHeadTail, HeadTailProperties
<1> HIDE DEF f, t
<1>3. \A i \in 0..Len(t) : SubsAfter(s, i + 1) = SubsAfter(t, i)
  <2>1. TAKE i \in 0..Len(t)
  <2>2. ASSUME NEW x \in SubsAfter(s, i + 1) PROVE x \in SubsAfter(t, i)
    <3>1. PICK j \in (i + 1 + 1)..Len(s) : x = s[j].sub
      BY DEF SubsAfter
    <3>2. j - 1 \in (i + 1)..Len(t) /\ j - 1 \in 1..Len(t) /\ (j - 1) + 1 = j
      BY <1>2, <3>1
    <3>3. t[j - 1] = s[j]
      BY <1>2, <3>2
    <3> QED BY <3>1, <3>2, <3>3 DEF SubsAfter
  <2>3. ASSUME NEW x \in SubsAfter(t, i) PROVE x \in SubsAfter(s, i + 1)
    <3>1. PICK j \in (i + 1)..Len(t) : x = t[j].sub
      BY DEF SubsAfter
    <3>2. j + 1 \in (i + 1 + 1)..Len(s) /\ t[j] = s[j + 1]
      BY <1>2, <3>1
    <3> QED BY <3>1, <3>2 DEF SubsAfter
  <2> QED BY <2>2, <2>3
<1>4. IsStack(t, c)
  <2>1. ASSUME NEW i \in 1..Len(t) PROVE IsFrame(t[i], c, SubsAfter(t, i))
    <3>1. i + 1 \in 1..Len(s) /\ i \in 0..Len(t)
      BY <1>2
    <3> QED BY <1>2, <1>3, <3>1 DEF IsStack
  <2> QED BY <1>2, <2>1 DEF IsStack
<1>5. IsFrame(f, c, SubsAfter(t, 0))
  <2>1. 1 \in 1..Len(s) /\ SubsAfter(s, 1) = SubsAfter(t, 0)
    BY <1>2, <1>3
  <2> QED BY <1>2, <2>1 DEF IsStack
<1>6. LET u == <<f>> \o t IN
      /\ SubsAfter(u, 0) = SubsAfter(t, 0) \cup ({f.sub} \ {None})
      /\ \A id : Level(u, id) = Level(t, id) + (IF Begun(f, id) THEN 1 ELSE 0)
  BY <1>4, <1>5, StackCons
<1>7. \A id : Level(s, id) = Level(t, id) + (IF Begun(f, id) THEN 1 ELSE 0)
  BY <1>2, <1>6
<1> QED BY <1>2, <1>4, <1>5, <1>6, <1>7 DEF f, t

----------------------------------------------------------------------------
(* What the operations on a stream do to its indention and error.          *)

LEMMA PutStream ==
  ASSUME NEW s, IsStream(s), NEW bytes
  PROVE  IsStream(Put(s, bytes)) /\ Put(s, bytes).indention = s.indention
<1> DEFINE all == s.buf \o bytes
<1>1. Put(s, bytes) = [s EXCEPT !.buf = all]
  BY DEF Put
<1> HIDE DEF all
<1>2. Put(s, bytes) = [buf |-> all, err |-> s.err, indention |-> s.indention]
  BY <1>1 DEF IsStream
<1> QED BY <1>2 DEF IsStream

LEMMA WriteIndentionStream ==
  ASSUME NEW s, IsStream(s), NEW delta
  PROVE  IsStream(WriteIndention(s, delta)) /\ WriteIndention(s, delta).indention = s.indention
<1> DEFINE bytes == <<"\n">> \o [i \in 1..(s.indention - delta) |-> " "]
<1>1. WriteIndention(s, delta) = IF s.indention = 0 THEN s ELSE Put(s, bytes)
  BY DEF WriteIndention
<1> HIDE DEF bytes
<1> QED BY <1>1, PutStream

LEMMA WriteStartStream ==
  ASSUME NEW s, IsStream(s), NEW bracket, step \in Nat
  PROVE  IsStream(WriteStart(s, bracket)) /\ WriteStart(s, bracket).indention = s.indention + step
<1> DEFINE t == [s EXCEPT !.indention = @ + step]
<1>1. t = [buf |-> s.buf, err |-> s.err, indention |-> s.indention + step]
  BY DEF IsStream
<1>2. IsStream(t) /\ t.indention = s.indention + step
  BY <1>1 DEF IsStream
<1> HIDE DEF t
<1> DEFINE u == Put(t, <<bracket>>)
<1>3. IsStream(u) /\ u.indention = t.indention
  BY <1>2, PutStream
<1> HIDE DEF u
<1>4. IsStream(WriteIndention(u, 0)) /\ WriteIndention(u, 0).indention = u.indention
  BY <1>3, WriteIndentionStream
<1> QED BY <1>2, <1>3, <1>4 DEF WriteStart, t, u

LEMMA WriteEndStream ==
  ASSUME NEW s, IsStream(s), NEW bracket, step \in Nat, s.indention >= step
  PROVE  IsStream(WriteEnd(s, bracket)) /\ WriteEnd(s, bracket).indention = s.indention - step
<1> DEFINE t == WriteIndention(s, step)
<1>1. IsStream(t) /\ t.indention = s.indention
  BY WriteIndentionStream
<1> HIDE DEF t
<1> DEFINE u == [t EXCEPT !.indention = @ - step]
<1>2. u = [buf |-> t.buf, err |-> t.err, indention |-> t.indention - step]
  BY <1>1 DEF IsStream
<1>3. IsStream(u) /\ u.indention = s.indention - step
  BY <1>1, <1>2 DEF IsStream
<1> HIDE DEF u
<1>4. IsStream(Put(u, <<bracket>>)) /\ Put(u, <<bracket>>).indention = u.indention
  BY <1>3, PutStream
<1> QED BY <1>3, <1>4 DEF WriteEnd, t, u

LEMMA WriteMoreStream ==
  ASSUME NEW s, IsStream(s)
  PROVE  IsStream(WriteMore(s)) /\ WriteMore(s).indention = s.indention
<1> DEFINE t == Put(s, <<",">>)
<1>1. IsStream(t) /\ t.indention = s.indention
  BY PutStream
<1> HIDE DEF t
<1> QED BY <1>1, WriteIndentionStream DEF WriteMore, t

LEMMA WriteStream ==
  ASSUME NEW s, IsStream(s), NEW bytes, NEW n
  PROVE  IsStream(Write(s, bytes, n)) /\ Write(s, bytes, n).indention = s.indention
<1> DEFINE rest == SubSeq(s.buf \o bytes, n + 1, Len(s.buf) + Len(bytes))
<1>1. Write(s, bytes, n) = [s EXCEPT !.buf = rest]
  BY DEF Write
<1> HIDE DEF rest
<1>2. Write(s, bytes, n) = [buf |-> rest, err |-> s.err, indention |-> s.indention]
  BY <1>1 DEF IsStream
<1> QED BY <1>2 DEF IsStream

LEMMA ErrorStream ==
  ASSUME NEW s, IsStream(s), NEW e \in {"nil", "bad", "write"}
  PROVE  LET t == [s EXCEPT !.err = e] IN IsStream(t) /\ t.indention = s.indention
<1>1. [s EXCEPT !.err = e] = [buf |-> s.buf, err |-> e, indention |-> s.indention]
  BY DEF IsStream
<1> QED BY <1>1 DEF IsStream

LEMMA ClearedStream ==
  ASSUME NEW s, IsStream(s)
  PROVE  LET t == [s EXCEPT !.buf = <<>>] IN IsStream(t) /\ t.indention = s.indention
<1>1. [s EXCEPT !.buf = <<>>] = [buf |-> <<>>, err |-> s.err, indention |-> s.indention]
  BY DEF IsStream
<1> QED BY <1>1 DEF IsStream

LEMMA InheritStream ==
  ASSUME NEW s, IsStream(s), NEW sub, IsStream(sub)
  PROVE  IsStream(Inherit(s, sub)) /\ Inherit(s, sub).indention = s.indention
<1>1. sub.err \in {"nil", "bad", "write"}
  BY DEF IsStream
<1> QED BY <1>1, ErrorStream DEF Inherit

LEMMA FlushedStream ==
  ASSUME NEW s, IsStream(s), NEW n
  PROVE  IsStream(Flushed(s, n)) /\ Flushed(s, n).indention = s.indention
BY ErrorStream, ClearedStream DEF Flushed

LEMMA ReturnedStream ==
  ASSUME NEW s, IsStream(s)
  PROVE  IsStream(Returned(s)) /\ Returned(s).indention = s.indention
BY ErrorStream DEF Returned

LEMMA BorrowedStream ==
  ASSUME Inv, NEW id
  PROVE  IsStream(Borrowed(id))
<1>1. IsStream(NewStream)
  BY DEF NewStream, IsStream
<1>2. id \in Made => IsStream([streams[id] EXCEPT !.buf = <<>>])
  BY ClearedStream DEF Inv
<1> QED BY <1>1, <1>2 DEF Borrowed

----------------------------------------------------------------------------
(* Steps of one goroutine.                                                 *)

\* The streams that goroutine h has borrowed.
LEMMA InUseFacts ==
  ASSUME Inv, NEW h \in Goroutines
  PROVE  /\ Held(h) \subseteq InUse(h) \cup {h} /\ InUse(h) \subseteq StreamIds
         /\ InUse(h) \subseteq Made /\ InUse(h) \cap pool = {}
<1>1. Subs(h) \subseteq StreamIds
  <2>1. \A i \in 1..Len(stack[h]) : stack[h][i].sub # None => stack[h][i].sub \in StreamIds
    BY DEF Inv, IsStack, IsFrame
  <2> QED BY <2>1 DEF Subs
<1>2. Held(h) \subseteq InUse(h) \cup {h}
  BY DEF Held, InUse
<1>3. call[h].stream \in StreamIds \cup {None, h}
  BY DEF Inv, IsCall, Idle
<1>4. InUse(h) \subseteq Made /\ InUse(h) \cap pool = {}
  BY DEF Inv, PoolBalance
<1> QED BY <1>1, <1>2, <1>3, <1>4 DEF InUse

\* A step of goroutine g keeps the invariant if what it leaves in the hands of
\* g is right, and it changes only streams that g had or that nobody had.
LEMMA StepOfOne ==
  ASSUME Inv, NEW g \in Goroutines,
         step' = step, calls' \in 0..MaxCalls, calls' >= calls, failures' \in 0..MaxFailures,
         DOMAIN stack' = Goroutines, DOMAIN call' = Goroutines, DOMAIN sent' = Goroutines,
         \A h \in Goroutines \ {g} : stack'[h] = stack[h] /\ call'[h] = call[h] /\ sent'[h] = sent[h],
         IsCall(g)', IsStack(stack'[g], call'[g].stream),
         sent'[g] \in Seq([val : Values[step], err : Errors]), Len(sent'[g]) <= calls',
         Goroutines \subseteq Made', Made' \subseteq Goroutines \cup StreamIds,
         streams' = [id \in Made' |-> streams'[id]],
         \A id \in Made' : IsStream(streams'[id]),
         \A id \in Made : id \notin Held(g) /\ id \notin CanBorrow =>
            id \in Made' /\ streams'[id] = streams[id],
         \A id \in Held(g)' : streams'[id].indention >= step * Level(stack'[g], id),
         InUse(g)' \subseteq InUse(g) \cup CanBorrow, call'[g].stream \notin Subs(g)',
         pool' \subseteq StreamIds, pool' \subseteq pool \cup InUse(g), pool' \cap InUse(g)' = {},
         Made' \cap StreamIds = pool' \cup InUse(g)' \cup ((Made \cap StreamIds) \ (pool \cup InUse(g)))
  PROVE  Inv'
<1>1. ASSUME NEW h \in Goroutines, h # g
      PROVE  /\ stack'[h] = stack[h] /\ call'[h] = call[h] /\ sent'[h] = sent[h]
             /\ Subs(h)' = Subs(h) /\ InUse(h)' = InUse(h) /\ Held(h)' = Held(h)
             /\ IsCall(h)' <=> IsCall(h)
  BY <1>1 DEF Subs, InUse, Held, IsCall, Idle
<1>2. ASSUME NEW h \in Goroutines
      PROVE  /\ Held(h) \subseteq InUse(h) \cup {h} /\ InUse(h) \subseteq StreamIds
             /\ InUse(h) \subseteq Made /\ InUse(h) \cap pool = {}
  BY InUseFacts
<1>3. CanBorrow \subseteq StreamIds /\ \A h \in Goroutines : CanBorrow \cap InUse(h) = {}
  BY <1>2 DEF CanBorrow
<1>4. \A h \in Goroutines : h # g => InUse(h) \cap InUse(g) = {}
  BY DEF Inv, PoolBalance
<1>5. ASSUME NEW h \in Goroutines, h # g
      PROVE  \A id \in Held(h) : streams'[id].indention >= step * Level(stack'[h], id)
  <2>1. TAKE id \in Held(h)
  <2>2. id \in Made
    BY <1>2 DEF Inv
  <2>3. id \notin Held(g) /\ id \notin CanBorrow
    BY <1>2, <1>3, <1>4, <1>5, ValuesAssumption
  <2>4. streams'[id] = streams[id]
    BY <2>2, <2>3
  <2> QED BY <1>1, <1>5, <2>4 DEF Inv
<1>6. ASSUME NEW h \in Goroutines, h # g
      PROVE  /\ IsCall(h)' /\ IsStack(stack'[h], call'[h].stream)
             /\ sent'[h] \in Seq([val : Values[step], err : Errors]) /\ Len(sent'[h]) <= calls'
  <2>1. /\ sent[h] \in Seq([val : Values[step], err : Errors]) /\ Len(sent[h]) <= calls
        /\ calls \in 0..MaxCalls /\ IsCall(h) /\ IsStack(stack[h], call[h].stream)
    BY DEF Inv
  <2>2. Len(sent[h]) \in Nat /\ calls \in Int /\ calls' \in Int
    BY <2>1, ValuesAssumption
  <2>3. Len(sent'[h]) <= calls'
    BY <1>1, <1>6, <2>1, <2>2
  <2> QED BY <1>1, <1>6, <2>1, <2>3
<1>7. PoolBalance'
  <2>1. ASSUME NEW h \in Goroutines PROVE InUse(h)' \cap pool' = {} /\ call'[h].stream \notin Subs(h)'
    <3>1. CASE h = g
      BY <3>1
    <3>2. CASE h # g
      BY <1>1, <1>2, <1>4, <3>2 DEF Inv, PoolBalance
    <3> QED BY <3>1, <3>2
  <2>2. ASSUME NEW h \in Goroutines, NEW k \in Goroutines, h # k PROVE InUse(h)' \cap InUse(k)' = {}
    <3>1. InUse(h) \cap InUse(k) = {}
      BY <2>2 DEF Inv, PoolBalance
    <3> QED BY <1>1, <1>3, <2>2, <3>1
  <2>3. Made \cap StreamIds = pool \cup UNION {InUse(h) : h \in Goroutines}
    BY DEF Inv, PoolBalance
  <2>4. (Made \cap StreamIds) \ (pool \cup InUse(g)) = UNION {InUse(h) : h \in Goroutines \ {g}}
    BY <1>2, <1>4, <2>3
  <2>5. UNION {InUse(h)' : h \in Goroutines} = InUse(g)' \cup UNION {InUse(h) : h \in Goroutines \ {g}}
    BY <1>1
  <2>6. Made' \cap StreamIds = pool' \cup UNION {InUse(h)' : h \in Goroutines}
    BY <2>4, <2>5
  <2> QED BY <2>1, <2>2, <2>6 DEF PoolBalance
<1>8. \A h \in Goroutines :
        /\ IsCall(h)' /\ IsStack(stack'[h], call'[h].stream)
        /\ sent'[h] \in Seq([val : Values[step], err : Errors]) /\ Len(sent'[h]) <= calls'
        /\ \A id \in Held(h)' : streams'[id].indention >= step * Level(stack'[h], id)
  BY <1>1, <1>5, <1>6
<1>9. step' \in Steps /\ Values[step'] = Values[step]
  BY DEF Inv
<1> QED BY <1>7, <1>8, <1>9 DEF Inv

LEMMA UnchangedFacts ==
  ASSUME Inv, NEW g \in Goroutines, UNCHANGED calls
  PROVE  /\ calls' \in 0..MaxCalls /\ calls' >= calls
         /\ UNCHANGED failures => failures' \in 0..MaxFailures
         /\ UNCHANGED call => DOMAIN call' = Goroutines
         /\ UNCHANGED sent => /\ DOMAIN sent' = Goroutines
                              /\ sent'[g] \in Seq([val : Values[step], err : Errors])
                              /\ Len(sent'[g]) <= calls'
<1>1. calls \in 0..MaxCalls /\ calls' = calls /\ failures \in 0..MaxFailures
  BY DEF Inv
<1>2. calls' >= calls
  BY <1>1, ValuesAssumption
<1>3. DOMAIN call = Goroutines /\ DOMAIN sent = Goroutines
      /\ sent[g] \in Seq([val : Values[step], err : Errors]) /\ Len(sent[g]) <= calls
  BY DEF Inv
<1> QED BY <1>1, <1>2, <1>3

LEMMA TimesMonotone == \A a, b, c \in Nat : a <= b => c * a <= c * b
OBVIOUS

\* What is known of the innermost call of goroutine g.
LEMMA TopFacts ==
  ASSUME Inv, NEW g \in Goroutines, stack[g] # <<>>
  PROVE  LET f == Top(g)
             t == Tail(stack[g])
             c == call[g].stream IN
         /\ IsFrame(f, c, SubsAfter(t, 0)) /\ IsStack(t, c)
         /\ Subs(g) = SubsAfter(t, 0) \cup ({f.sub} \ {None})
         /\ \A id : /\ Level(stack[g], id) = Level(t, id) + (IF Begun(f, id) THEN 1 ELSE 0)
                    /\ Level(t, id) \in Nat /\ Level(stack[g], id) \in Nat
         /\ f.on \in Held(g)
         /\ f.sub # None => f.sub \in Held(g) /\ f.sub # f.on
         /\ c \in Held(g) /\ ~Idle(g)
         /\ Held(g) \subseteq Made /\ step \in Nat
<1> DEFINE f == Top(g)
           t == Tail(stack[g])
           c == call[g].stream
<1>1. /\ IsFrame(f, c, SubsAfter(t, 0)) /\ IsStack(t, c)
      /\ SubsAfter(stack[g], 0) = SubsAfter(t, 0) \cup ({f.sub} \ {None})
      /\ \A id : Level(stack[g], id) = Level(t, id) + (IF Begun(f, id) THEN 1 ELSE 0)
  BY StackHead DEF Top, Inv
<1>2. Subs(g) = SubsAfter(stack[g], 0)
  BY SubsAreAfter
<1>3. \A id : Level(t, id) \in Nat /\ Level(stack[g], id) \in Nat
  BY <1>1, LevelIsNat DEF Inv
<1>4. ~Idle(g) /\ c # None
  <2>1. IsCall(g)
    BY DEF Inv
  <2> QED BY <2>1, ValuesAssumption DEF IsCall, Idle
<1>5. step \in Nat
  BY ValuesAssumption DEF Inv
<1>6. Held(g) \subseteq Made
  BY DEF Held, InUse, Inv, PoolBalance
<1> HIDE DEF f, t, c
<1>7. f.on \in Held(g) /\ c \in Held(g) /\ (f.sub # None => f.sub \in Held(g) /\ f.sub # f.on)
  BY <1>1, <1>2, <1>4 DEF IsFrame, Held, c
<1> QED BY <1>1, <1>2, <1>3, <1>4, <1>5, <1>6, <1>7 DEF f, t, c

\* A step of a call on the streams that its goroutine has.
LEMMA Writing ==
  ASSUME Inv, NEW g \in Goroutines, stack[g] # <<>>,
         UNCHANGED <<step, pool, call, sent, calls>>, failures' \in 0..MaxFailures,
         NEW t, stack' = [stack EXCEPT ![g] = t],
         IsStack(t, call[g].stream), SubsAfter(t, 0) = Subs(g),
         DOMAIN streams' = Made, streams' = [id \in Made |-> streams'[id]],
         \A id \in Made \ Held(g) : streams'[id] = streams[id],
         \A id \in Held(g) :
           IsStream(streams'[id]) /\ streams'[id].indention >= step * Level(t, id)
  PROVE  Inv'
<1>1. /\ stack'[g] = t /\ DOMAIN stack' = Goroutines
      /\ \A h \in Goroutines \ {g} : stack'[h] = stack[h]
  BY DEF Inv
<1>2. Subs(g)' = Subs(g) /\ InUse(g)' = InUse(g) /\ Held(g)' = Held(g)
  <2>1. Subs(g)' = SubsAfter(stack'[g], 0)
    BY DEF Subs, SubsAfter
  <2>2. Subs(g)' = Subs(g)
    BY <1>1, <2>1
  <2> QED BY <2>2 DEF InUse, Held
<1>3. IsCall(g)'
  <2>1. ~Idle(g) /\ IsCall(g)
    BY TopFacts DEF Inv
  <2> QED BY <2>1 DEF IsCall, Idle
<1>4. Made' = Made /\ \A id \in Made : IsStream(streams'[id])
  BY DEF Made, Inv
<1>5. /\ Made \cap StreamIds = pool \cup InUse(g) \cup ((Made \cap StreamIds) \ (pool \cup InUse(g)))
      /\ pool \cap InUse(g) = {} /\ call[g].stream \notin Subs(g)
  BY DEF Inv, PoolBalance
<1>6. /\ pool \subseteq StreamIds /\ DOMAIN call' = Goroutines /\ DOMAIN sent' = Goroutines
      /\ sent'[g] \in Seq([val : Values[step], err : Errors]) /\ Len(sent'[g]) <= calls'
      /\ Goroutines \subseteq Made /\ Made \subseteq Goroutines \cup StreamIds
      /\ calls' \in 0..MaxCalls
  BY DEF Inv
<1>7. calls' >= calls
  BY <1>6, ValuesAssumption
<1>8. /\ \A h \in Goroutines \ {g} : call'[h] = call[h] /\ sent'[h] = sent[h]
      /\ call'[g] = call[g] /\ step' = step /\ pool' = pool
  OBVIOUS
<1> QED BY <1>1, <1>2, <1>3, <1>4, <1>5, <1>6, <1>7, <1>8, StepOfOne, ZenonT(60)

\* A step that writes on the stream of the innermost call.
LEMMA Emitting ==
  ASSUME Inv, NEW g \in Goroutines, stack[g] # <<>>,
         UNCHANGED <<step, pool, call, sent, calls>>, failures' \in 0..MaxFailures,
         NEW t, stack' = [stack EXCEPT ![g] = t],
         IsStack(t, call[g].stream), SubsAfter(t, 0) = Subs(g),
         NEW s, Emit(g, s), IsStream(s), s.indention >= step * Level(t, Top(g).on),
         \A id : id # Top(g).on => Level(t, id) <= Level(stack[g], id)
  PROVE  Inv'
<1>1. /\ Top(g).on \in Made /\ Held(g) \subseteq Made /\ Top(g).on \in Held(g) /\ step \in Nat
      /\ \A id : Level(stack[g], id) \in Nat
  BY TopFacts
<1>2. \A id : Level(t, id) \in Nat
  BY LevelIsNat
<1>3. /\ DOMAIN streams' = Made /\ streams' = [id \in Made |-> streams'[id]]
      /\ streams'[Top(g).on] = s /\ \A id \in Made : id # Top(g).on => streams'[id] = streams[id]
  BY <1>1 DEF Emit, Made
<1>4. ASSUME NEW id \in Held(g)
      PROVE  IsStream(streams'[id]) /\ streams'[id].indention >= step * Level(t, id)
  <2>1. CASE id = Top(g).on
    BY <1>3, <2>1
  <2>2. CASE id # Top(g).on
    <3>1. IsStream(streams[id]) /\ streams[id].indention >= step * Level(stack[g], id)
      BY <1>1 DEF Inv
    <3>2. /\ step * Level(t, id) <= step * Level(stack[g], id)
          /\ step * Level(t, id) \in Nat /\ step * Level(stack[g], id) \in Nat
      BY <1>1, <1>2, <2>2, TimesMonotone
    <3>3. streams[id].indention \in Nat
      BY <3>1 DEF IsStream
    <3>4. streams[id].indention >= step * Level(t, id)
      BY <3>1, <3>2, <3>3
    <3> QED BY <1>1, <1>3, <2>2, <3>1, <3>4
  <2> QED BY <2>1, <2>2
<1> QED BY <1>1, <1>3, <1>4, Writing

\* A call with fields changed, and one called from it.
LEMMA FrameAt ==
  ASSUME NEW f, NEW c, NEW subs, IsFrame(f, c, subs), NEW at \in Nat
  PROVE  LET u == [f EXCEPT !.at = at] IN
         IsFrame(u, c, subs) /\ u.on = f.on /\ u.sub = f.sub /\ u.val = f.val /\ u.at = at
<1>1. [f EXCEPT !.at = at]
      = [val |-> f.val, on |-> f.on, at |-> at, order |-> f.order, sub |-> f.sub,
         subAt |-> f.subAt, members |-> f.members, sorted |-> f.sorted]
  BY DEF IsFrame
<1> QED BY <1>1 DEF IsFrame

LEMMA NewFrame ==
  ASSUME NEW v, NEW id, NEW c, NEW subs, id = c \/ id \in subs
  PROVE  IsFrame(Frame(v, id), c, subs) /\ Frame(v, id).sub = None /\ \A x : ~Begun(Frame(v, id), x)
BY DEF Frame, IsFrame, Begun

LEMMA PushStack ==
  ASSUME NEW s, NEW c, IsStack(s, c), NEW f, IsFrame(f, c, SubsAfter(s, 0)),
         NEW v, NEW id, id = c \/ id \in SubsAfter(s, 0) \/ id = f.sub, id # None
  PROVE  LET t == <<Frame(v, id), f>> \o s IN
         /\ IsStack(t, c)
         /\ SubsAfter(t, 0) = SubsAfter(s, 0) \cup ({f.sub} \ {None})
         /\ \A x : Level(t, x) = Level(s, x) + (IF Begun(f, x) THEN 1 ELSE 0)
<1> DEFINE u == <<f>> \o s
           t == <<Frame(v, id), f>> \o s
<1>1. IsStack(u, c) /\ SubsAfter(u, 0) = SubsAfter(s, 0) \cup ({f.sub} \ {None})
      /\ \A x : Level(u, x) = Level(s, x) + (IF Begun(f, x) THEN 1 ELSE 0)
  BY StackCons
<1>2. t = <<Frame(v, id)>> \o u
  <2>1. PICK S : s \in Seq(S)
    BY DEF IsStack
  <2> HIDE DEF t, u
  <2> QED BY <2>1, ConsTwo DEF t, u
<1> DEFINE w == <<Frame(v, id)>> \o u
<1> HIDE DEF u
<1>3. IsFrame(Frame(v, id), c, SubsAfter(u, 0)) /\ Frame(v, id).sub = None /\ \A x : ~Begun(Frame(v, id), x)
  BY <1>1, NewFrame
<1>4. /\ IsStack(w, c) /\ SubsAfter(w, 0) = SubsAfter(u, 0) \cup ({Frame(v, id).sub} \ {None})
      /\ \A x : Level(w, x) = Level(u, x) + (IF Begun(Frame(v, id), x) THEN 1 ELSE 0)
  BY <1>1, <1>3, StackCons
<1>5. \A x : Level(u, x) \in Nat
  BY <1>1, LevelIsNat
<1>6. \A x : Level(w, x) = Level(s, x) + (IF Begun(f, x) THEN 1 ELSE 0)
  BY <1>1, <1>3, <1>4, <1>5
<1>7. SubsAfter(w, 0) = SubsAfter(s, 0) \cup ({f.sub} \ {None})
  BY <1>1, <1>3, <1>4
<1> QED BY <1>2, <1>4, <1>6, <1>7
----------------------------------------------------------------------------
(* The actions of a call.                                                  *)

\* A call that returns, after it has written on its stream.
LEMMA Popping ==
  ASSUME Inv, NEW g \in Goroutines, stack[g] # <<>>, Top(g).sub = None,
         UNCHANGED <<step, pool, call, sent, calls>>, failures' \in 0..MaxFailures, Pop(g),
         NEW s, Emit(g, s), IsStream(s), s.indention >= step * Level(Tail(stack[g]), Top(g).on)
  PROVE  Inv'
<1> DEFINE t == Tail(stack[g])
<1>1. /\ IsStack(t, call[g].stream) /\ SubsAfter(t, 0) = Subs(g)
      /\ \A id : /\ Level(t, id) \in Nat /\ Level(stack[g], id) \in Nat
                 /\ Level(stack[g], id) = Level(t, id) + (IF Begun(Top(g), id) THEN 1 ELSE 0)
  BY TopFacts
<1>2. stack' = [stack EXCEPT ![g] = t]
  BY DEF Pop
<1> HIDE DEF t
<1>3. \A id : Level(t, id) <= Level(stack[g], id)
  BY <1>1
<1> QED BY <1>1, <1>2, <1>3, Emitting DEF t

\* The stream a call writes on is indented for all calls on it.
LEMMA OnFacts ==
  ASSUME Inv, NEW g \in Goroutines, stack[g] # <<>>
  PROVE  /\ IsStream(On(g))
         /\ On(g).indention >= step * Level(stack[g], Top(g).on)
         /\ On(g).indention >= step * Level(Tail(stack[g]), Top(g).on)
         /\ On(g).indention \in Nat
<1>1. /\ Top(g).on \in Made /\ Top(g).on \in Held(g) /\ step \in Nat
      /\ \A id : /\ Level(Tail(stack[g]), id) \in Nat /\ Level(stack[g], id) \in Nat
                 /\ Level(stack[g], id) = Level(Tail(stack[g]), id) + (IF Begun(Top(g), id) THEN 1 ELSE 0)
  BY TopFacts
<1>2. IsStream(On(g)) /\ On(g).indention >= step * Level(stack[g], Top(g).on) /\ On(g).indention \in Nat
  BY <1>1 DEF Inv, On, IsStream
<1> DEFINE a == Level(Tail(stack[g]), Top(g).on)
           b == Level(stack[g], Top(g).on)
<1>3. a \in Nat /\ b \in Nat /\ a <= b
  BY <1>1
<1>4. step * a <= step * b /\ step * a \in Nat /\ step * b \in Nat
  <2> HIDE DEF a, b
  <2> QED BY <1>1, <1>3, TimesMonotone
<1> QED BY <1>2, <1>4

LEMMA NotMap ==
  ASSUME Inv, NEW g \in Goroutines, NEW kinds, Encoding(g, kinds), "map" \notin kinds
  PROVE  stack[g] # <<>> /\ Top(g).sub = None /\ Top(g).val.kind # "map"
<1>1. stack[g] # <<>> /\ Top(g).val.kind # "map"
  BY DEF Encoding
<1> QED BY <1>1, TopFacts DEF IsFrame

LEMMA EncodeScalarInv == ASSUME Inv, NEW g \in Goroutines, EncodeScalar(g) PROVE Inv'
<1>1. stack[g] # <<>> /\ Top(g).sub = None
  BY NotMap DEF EncodeScalar
<1>2. /\ Emit(g, Put(On(g), <<"1">>)) /\ Pop(g) /\ UNCHANGED <<step, pool, call, sent, calls>>
      /\ failures' \in 0..MaxFailures
  BY DEF EncodeScalar, Inv
<1>3. IsStream(Put(On(g), <<"1">>)) /\ Put(On(g), <<"1">>).indention = On(g).indention
  BY <1>1, OnFacts, PutStream
<1>4. Put(On(g), <<"1">>).indention >= step * Level(Tail(stack[g]), Top(g).on)
  BY <1>1, <1>3, OnFacts
<1> QED BY <1>1, <1>2, <1>3, <1>4, Popping

LEMMA EncodeBadInv == ASSUME Inv, NEW g \in Goroutines, EncodeBad(g) PROVE Inv'
<1> DEFINE s == [On(g) EXCEPT !.err = "bad"]
<1>1. stack[g] # <<>> /\ Top(g).sub = None
  BY NotMap DEF EncodeBad
<1>2. /\ Emit(g, s) /\ Pop(g) /\ UNCHANGED <<step, pool, call, sent, calls>>
      /\ failures' \in 0..MaxFailures
  BY DEF EncodeBad, Inv
<1>3. IsStream(s) /\ s.indention = On(g).indention
  BY <1>1, OnFacts, ErrorStream
<1> HIDE DEF s
<1>4. s.indention >= step * Level(Tail(stack[g]), Top(g).on)
  BY <1>1, <1>3, OnFacts
<1> QED BY <1>1, <1>2, <1>3, <1>4, Popping

LEMMA FailuresBounded ==
  ASSUME Inv, NEW id, NEW len, NEW n \in Taken(id, len), HasWriter(id), n # len
  PROVE  failures + 1 \in 0..MaxFailures
<1>1. failures < MaxFailures /\ failures \in 0..MaxFailures
  BY DEF Inv, Taken
<1> QED BY <1>1, ValuesAssumption

\* Offering bytes to the writer changes the buffer and the number of failures.
LEMMA Offering ==
  ASSUME Inv, NEW g \in Goroutines, stack[g] # <<>>, NEW s, IsStream(s), NEW bytes, Offer(g, s, bytes)
  PROVE  /\ failures' \in 0..MaxFailures
         /\ \E t : Emit(g, t) /\ IsStream(t) /\ t.indention = s.indention
<1>1. PICK n \in Taken(Top(g).on, Len(s.buf) + Len(bytes)) :
        /\ Emit(g, Write(s, bytes, n))
        /\ failures' = IF HasWriter(Top(g).on) /\ n # Len(s.buf) + Len(bytes) THEN failures + 1 ELSE failures
  BY DEF Offer
<1>2. failures' \in 0..MaxFailures
  <2> DEFINE len == Len(s.buf) + Len(bytes)
  <2>1. n \in Taken(Top(g).on, len)
    BY <1>1
  <2>2. failures' = IF HasWriter(Top(g).on) /\ n # len THEN failures + 1 ELSE failures
    BY <1>1
  <2>3. failures \in 0..MaxFailures
    BY DEF Inv
  <2> HIDE DEF len
  <2> QED BY <2>1, <2>2, <2>3, FailuresBounded
<1>3. IsStream(Write(s, bytes, n)) /\ Write(s, bytes, n).indention = s.indention
  BY WriteStream
<1> QED BY <1>1, <1>2, <1>3

LEMMA EncodeMarshalerInv == ASSUME Inv, NEW g \in Goroutines, EncodeMarshaler(g) PROVE Inv'
<1>1. stack[g] # <<>> /\ Top(g).sub = None
  BY NotMap DEF EncodeMarshaler
<1>2. Offer(g, On(g), <<"m">>) /\ Pop(g) /\ UNCHANGED <<step, pool, call, sent, calls>>
  BY DEF EncodeMarshaler
<1>3. PICK t : Emit(g, t) /\ IsStream(t) /\ t.indention = On(g).indention
  BY <1>1, <1>2, OnFacts, Offering
<1>4. failures' \in 0..MaxFailures
  BY <1>1, <1>2, OnFacts, Offering
<1>5. t.indention >= step * Level(Tail(stack[g]), Top(g).on)
  BY <1>1, <1>3, OnFacts
<1> QED BY <1>1, <1>2, <1>3, <1>4, <1>5, Popping

LEMMA EncodePartInv == ASSUME Inv, NEW g \in Goroutines, EncodePart(g) PROVE Inv'
<1> DEFINE f == Top(g)
           i == f.at + 1
           u == [f EXCEPT !.at = i]
           c == call[g].stream
           rest == Tail(stack[g])
           begun == IF i = 1 THEN WriteStart(On(g), Bracket(f.val)[1]) ELSE WriteMore(On(g))
           s == IF f.val.kind = "object" THEN WriteObjectField(begun, f.val.names[i]) ELSE begun
           t == <<Frame(f.val.parts[i], f.on), u>> \o rest
<1>1. stack[g] # <<>> /\ f.sub = None /\ f.val.kind # "map"
  BY NotMap DEF EncodePart
<1>2. /\ Emit(g, s) /\ stack' = [stack EXCEPT ![g] = t]
      /\ UNCHANGED <<step, pool, call, sent, calls>> /\ failures' \in 0..MaxFailures
  BY DEF EncodePart, Push, Inv
<1>3. /\ IsFrame(f, c, SubsAfter(rest, 0)) /\ IsStack(rest, c) /\ Subs(g) = SubsAfter(rest, 0)
      /\ \A id : /\ Level(stack[g], id) = Level(rest, id) + (IF Begun(f, id) THEN 1 ELSE 0)
                 /\ Level(rest, id) \in Nat
      /\ step \in Nat /\ f.on \in Made
  BY <1>1, TopFacts
<1>4. i \in Nat /\ i # 0 /\ f.at \in Nat /\ (f.on = c \/ f.on \in SubsAfter(rest, 0)) /\ f.on # None
  BY <1>3, ValuesAssumption DEF IsFrame, Inv
<1> HIDE DEF f, i, c
<1>5. IsFrame(u, c, SubsAfter(rest, 0)) /\ u.on = f.on /\ u.sub = f.sub /\ u.val = f.val /\ u.at = i
  BY <1>3, <1>4, FrameAt
<1> HIDE DEF u
<1>6. /\ IsStack(t, c) /\ SubsAfter(t, 0) = Subs(g)
      /\ \A x : Level(t, x) = Level(rest, x) + (IF Begun(u, x) THEN 1 ELSE 0)
  <2> DEFINE v == f.val.parts[i]
             w == <<Frame(v, f.on), u>> \o rest
  <2> HIDE DEF v, rest
  <2>1. /\ IsStack(w, c) /\ SubsAfter(w, 0) = SubsAfter(rest, 0) \cup ({u.sub} \ {None})
        /\ \A x : Level(w, x) = Level(rest, x) + (IF Begun(u, x) THEN 1 ELSE 0)
    BY <1>3, <1>4, <1>5, PushStack
  <2> QED BY <1>1, <1>3, <1>5, <2>1 DEF v
<1> HIDE DEF t, rest
<1>7. \A x : (Begun(u, x) <=> x = f.on) /\ (Begun(f, x) <=> x = f.on /\ i # 1)
  BY <1>1, <1>4, <1>5 DEF Begun, i
<1>8. \A x : x # f.on => Level(t, x) <= Level(stack[g], x)
  BY <1>3, <1>6, <1>7
<1>9. IsStream(On(g)) /\ On(g).indention >= step * Level(stack[g], f.on) /\ On(g).indention \in Nat
  BY <1>1, OnFacts DEF f
<1>10. IsStream(begun) /\ begun.indention >= step * Level(t, f.on)
  <2>1. CASE i = 1
    <3>1. Level(t, f.on) = Level(stack[g], f.on) + 1 /\ Level(stack[g], f.on) \in Nat
      BY <1>3, <1>6, <1>7, <2>1
    <3>2. IsStream(begun) /\ begun.indention = On(g).indention + step
      BY <1>3, <1>9, <2>1, WriteStartStream
    <3>3. step * Level(t, f.on) = step * Level(stack[g], f.on) + step /\ step * Level(stack[g], f.on) \in Nat
      BY <1>3, <3>1
    <3> HIDE DEF begun
    <3> QED BY <1>3, <1>9, <3>2, <3>3
  <2>2. CASE i # 1
    <3>1. Level(t, f.on) = Level(stack[g], f.on)
      BY <1>3, <1>6, <1>7, <2>2
    <3>2. IsStream(begun) /\ begun.indention = On(g).indention
      BY <1>9, <2>2, WriteMoreStream
    <3> HIDE DEF begun
    <3> QED BY <1>9, <3>1, <3>2
  <2> QED BY <2>1, <2>2
<1> HIDE DEF begun
<1>11. IsStream(s) /\ s.indention = begun.indention
  <2>1. IsStream(WriteObjectField(begun, f.val.names[i]))
        /\ WriteObjectField(begun, f.val.names[i]).indention = begun.indention
    BY <1>10, PutStream DEF WriteObjectField
  <2> QED BY <1>10, <2>1
<1> HIDE DEF s
<1> QED BY <1>1, <1>2, <1>6, <1>8, <1>10, <1>11, Emitting DEF f, c

LEMMA EncodeEndInv == ASSUME Inv, NEW g \in Goroutines, EncodeEnd(g) PROVE Inv'
<1> DEFINE f == Top(g)
           rest == Tail(stack[g])
           empty == Len(f.val.parts) = 0
           s == IF empty THEN Put(On(g), Bracket(f.val)) ELSE WriteEnd(On(g), Bracket(f.val)[2])
<1>1. stack[g] # <<>> /\ f.sub = None /\ f.val.kind # "map" /\ f.at = Len(f.val.parts)
  BY NotMap DEF EncodeEnd
<1>2. /\ Emit(g, s) /\ Pop(g)
      /\ UNCHANGED <<step, pool, call, sent, calls>> /\ failures' \in 0..MaxFailures
  BY DEF EncodeEnd, Inv
<1>3. /\ \A id : /\ Level(stack[g], id) = Level(rest, id) + (IF Begun(f, id) THEN 1 ELSE 0)
                 /\ Level(rest, id) \in Nat
      /\ step \in Nat
  BY <1>1, TopFacts
<1>4. /\ IsStream(On(g)) /\ On(g).indention >= step * Level(stack[g], f.on) /\ On(g).indention \in Nat
      /\ On(g).indention >= step * Level(rest, f.on)
  BY <1>1, OnFacts
<1> HIDE DEF rest
<1>5. CASE empty
  <2>1. IsStream(s) /\ s.indention = On(g).indention
    BY <1>4, <1>5, PutStream
  <2> HIDE DEF s, f
  <2> QED BY <1>1, <1>2, <1>4, <2>1, Popping DEF f, rest
<1>6. CASE ~empty
  <2>1. Begun(f, f.on)
    BY <1>1, <1>6 DEF Begun
  <2>2. Level(stack[g], f.on) = Level(rest, f.on) + 1 /\ Level(rest, f.on) \in Nat
    BY <1>3, <2>1
  <2>3. step * Level(stack[g], f.on) = step * Level(rest, f.on) + step /\ step * Level(rest, f.on) \in Nat
    BY <1>3, <2>2
  <2>4. On(g).indention >= step /\ On(g).indention - step >= step * Level(rest, f.on)
    BY <1>3, <1>4, <2>3
  <2>5. IsStream(s) /\ s.indention = On(g).indention - step
    BY <1>3, <1>4, <1>6, <2>4, WriteEndStream
  <2> HIDE DEF s, f
  <2> QED BY <1>1, <1>2, <2>4, <2>5, Popping DEF f, rest
<1> QED BY <1>5, <1>6

----------------------------------------------------------------------------
(* The encoder of a sorted map.                                            *)

LEMMA MapStartInv == ASSUME Inv, NEW g \in Goroutines, MapStart(g) PROVE Inv'
<1> DEFINE f == Top(g)
           rest == Tail(stack[g])
           c == call[g].stream
<1>1. stack[g] # <<>> /\ f.val.kind = "map" /\ f.sub = None
  BY DEF MapStart, Encoding
<1>2. PICK id \in CanBorrow, o \in Orders(f.val) :
        /\ streams' = [Borrow(id) EXCEPT ![f.on] = WriteStart(@, "{")]
        /\ pool' = pool \ {id}
        /\ Replace(g, [f EXCEPT !.sub = id, !.order = o])
  BY DEF MapStart
<1>3. /\ IsFrame(f, c, SubsAfter(rest, 0)) /\ IsStack(rest, c) /\ Subs(g) = SubsAfter(rest, 0)
      /\ \A x : /\ Level(stack[g], x) = Level(rest, x) + (IF Begun(f, x) THEN 1 ELSE 0)
                /\ Level(rest, x) \in Nat
      /\ step \in Nat /\ f.on \in Held(g) /\ Held(g) \subseteq Made /\ c \in Held(g) /\ ~Idle(g)
  BY <1>1, TopFacts
<1>4. /\ id \in StreamIds /\ id \notin InUse(g) /\ id # None /\ id # g
      /\ InUse(g) \subseteq Made /\ InUse(g) \cap pool = {}
      /\ Held(g) \subseteq InUse(g) \cup {g} /\ Subs(g) \subseteq InUse(g)
  <2>1. InUse(g) \cap pool = {} /\ InUse(g) \subseteq Made
    BY DEF Inv, PoolBalance
  <2> QED BY <2>1, ValuesAssumption DEF CanBorrow, Held, InUse
<1>5. id \notin Held(g) /\ id # c /\ id \notin Subs(g) /\ id # f.on
  BY <1>3, <1>4
<1> DEFINE u == [f EXCEPT !.sub = id, !.order = o]
           t == <<u>> \o rest
<1>6. IsFrame(u, c, SubsAfter(rest, 0)) /\ u.on = f.on /\ u.sub = id /\ u.val = f.val
  <2> DEFINE subs == SubsAfter(rest, 0)
  <2>1. IsFrame(f, c, subs) /\ id \in StreamIds /\ id # c /\ id \notin subs /\ f.val.kind = "map"
    BY <1>1, <1>3, <1>4, <1>5
  <2> DEFINE e == [f EXCEPT !.sub = id]
  <2>2. u = [e EXCEPT !.order = o]
    OBVIOUS
  <2> HIDE DEF f, c, subs, u
  <2>3. e = [val |-> f.val, on |-> f.on, at |-> f.at, order |-> f.order, sub |-> id,
             subAt |-> f.subAt, members |-> f.members, sorted |-> f.sorted]
    BY <2>1 DEF IsFrame
  <2> HIDE DEF e
  <2>4. u = [val |-> f.val, on |-> f.on, at |-> f.at, order |-> o, sub |-> id,
             subAt |-> f.subAt, members |-> f.members, sorted |-> f.sorted]
    BY <2>2, <2>3
  <2>5. IsFrame(u, c, subs) /\ u.on = f.on /\ u.sub = id /\ u.val = f.val
    BY <1>4, <2>1, <2>4 DEF IsFrame
  <2> QED BY <2>5 DEF subs
<1>7. stack' = [stack EXCEPT ![g] = t]
  BY <1>2 DEF Replace
<1> HIDE DEF u
<1>8. /\ IsStack(t, c) /\ SubsAfter(t, 0) = Subs(g) \cup {id}
      /\ \A x : Level(t, x) = Level(rest, x) + (IF Begun(u, x) THEN 1 ELSE 0)
  <2> HIDE DEF rest, c
  <2>1. /\ IsStack(t, c) /\ SubsAfter(t, 0) = SubsAfter(rest, 0) \cup ({u.sub} \ {None})
        /\ \A x : Level(t, x) = Level(rest, x) + (IF Begun(u, x) THEN 1 ELSE 0)
    BY <1>3, <1>6, StackCons
  <2> QED BY <1>3, <1>4, <1>6, <2>1
<1> HIDE DEF t
<1>9. stack'[g] = t /\ DOMAIN stack' = Goroutines /\ \A h \in Goroutines \ {g} : stack'[h] = stack[h]
  BY <1>7 DEF Inv
<1>10. UNCHANGED <<step, call, sent, calls, failures>>
  BY DEF MapStart
<1>11. Subs(g)' = Subs(g) \cup {id} /\ InUse(g)' = InUse(g) \cup {id} /\ Held(g)' = Held(g) \cup {id}
  <2>1. Subs(g)' = SubsAfter(stack'[g], 0)
    BY DEF Subs, SubsAfter
  <2>2. Subs(g)' = Subs(g) \cup {id}
    BY <1>8, <1>9, <2>1
  <2> QED BY <1>10, <2>2 DEF InUse, Held
<1>12. /\ Made' = Made \cup {id}
       /\ streams' = [i \in Made' |-> streams'[i]]
       /\ streams'[id] = Borrowed(id)
       /\ streams'[f.on] = WriteStart(streams[f.on], "{")
       /\ \A i \in Made : i # id /\ i # f.on => streams'[i] = streams[i]
  <2>1. f.on \in Made /\ f.on # id
    BY <1>3, <1>5
  <2>2. DOMAIN streams' = Made \cup {id}
    BY <1>2 DEF Borrow
  <2> HIDE DEF f
  <2> QED BY <1>2, <2>1, <2>2 DEF Borrow, Made
<1>13. /\ IsStream(Borrowed(id)) /\ IsStream(WriteStart(streams[f.on], "{"))
       /\ WriteStart(streams[f.on], "{").indention = streams[f.on].indention + step
       /\ \A i \in Made : IsStream(streams[i])
  <2>1. IsStream(streams[f.on]) /\ \A i \in Made : IsStream(streams[i])
    BY <1>3 DEF Inv
  <2> QED BY <1>3, <2>1, BorrowedStream, WriteStartStream
<1>14. \A i \in Made' : IsStream(streams'[i])
  BY <1>12, <1>13
<1>15. ASSUME NEW i \in Held(g)' PROVE streams'[i].indention >= step * Level(stack'[g], i)
  <2>1. \A x : (Begun(u, x) <=> x = f.on) /\ ~Begun(f, x)
    BY <1>1, <1>4, <1>6 DEF Begun
  <2>2. CASE i = id
    <3>1. Level(rest, id) = 0
      BY <1>3, <1>5, LevelIsNat
    <3>2. Level(t, id) = 0
      BY <1>5, <1>8, <2>1, <3>1
    <3>3. streams'[id].indention \in Nat
      BY <1>12, <1>13 DEF IsStream
    <3> QED BY <1>3, <1>9, <2>2, <3>2, <3>3
  <2>3. CASE i = f.on
    <3>1. Level(t, f.on) = Level(stack[g], f.on) + 1 /\ Level(stack[g], f.on) \in Nat
      BY <1>3, <1>8, <2>1
    <3>2. step * Level(t, f.on) = step * Level(stack[g], f.on) + step /\ step * Level(stack[g], f.on) \in Nat
      BY <1>3, <3>1
    <3>3. streams[f.on].indention >= step * Level(stack[g], f.on) /\ streams[f.on].indention \in Nat
      BY <1>3 DEF Inv, IsStream
    <3>4. streams'[f.on].indention = streams[f.on].indention + step
      BY <1>12, <1>13
    <3> HIDE DEF f
    <3> QED BY <1>3, <1>9, <2>3, <3>2, <3>3, <3>4
  <2>4. CASE i # id /\ i # f.on
    <3>1. i \in Held(g) /\ i \in Made
      BY <1>3, <1>11, <2>4
    <3>2. Level(t, i) = Level(stack[g], i)
      BY <1>3, <1>8, <2>1, <2>4
    <3>3. streams'[i] = streams[i] /\ streams[i].indention >= step * Level(stack[g], i)
      BY <1>12, <2>4, <3>1 DEF Inv
    <3> QED BY <1>9, <3>2, <3>3
  <2> QED BY <2>2, <2>3, <2>4
<1>16. /\ Made' \cap StreamIds = pool' \cup InUse(g)' \cup ((Made \cap StreamIds) \ (pool \cup InUse(g)))
       /\ pool' \cap InUse(g)' = {} /\ pool' \subseteq pool \cup InUse(g) /\ pool' \subseteq StreamIds
       /\ InUse(g)' \subseteq InUse(g) \cup CanBorrow
  <2>1. InUse(g) \subseteq StreamIds
    BY InUseFacts
  <2>2. pool \subseteq Made /\ pool \subseteq StreamIds
    BY DEF Inv, PoolBalance
  <2>3. pool' = pool \ {id} /\ InUse(g)' = InUse(g) \cup {id} /\ Made' = Made \cup {id}
    BY <1>2, <1>11, <1>12
  <2>4. id \in pool \/ id \notin Made
    BY DEF CanBorrow
  <2> QED BY <1>4, <2>1, <2>2, <2>3, <2>4
<1>17. /\ Goroutines \subseteq Made' /\ Made' \subseteq Goroutines \cup StreamIds
       /\ \A i \in Made : i \notin Held(g) /\ i \notin CanBorrow => i \in Made' /\ streams'[i] = streams[i]
  <2>1. Goroutines \subseteq Made /\ Made \subseteq Goroutines \cup StreamIds
    BY DEF Inv
  <2> QED BY <1>2, <1>3, <1>4, <1>12, <2>1
<1>18. IsCall(g)' /\ call'[g].stream \notin Subs(g)' /\ IsStack(stack'[g], call'[g].stream)
  <2>1. IsCall(g) /\ ~Idle(g) /\ call'[g] = call[g] /\ c \notin Subs(g)
    BY <1>3, <1>10 DEF Inv, PoolBalance
  <2> QED BY <1>5, <1>8, <1>9, <1>11, <2>1 DEF IsCall, Idle
<1>19. /\ calls' \in 0..MaxCalls /\ calls' >= calls /\ failures' \in 0..MaxFailures /\ step' = step
       /\ DOMAIN call' = Goroutines /\ DOMAIN sent' = Goroutines
       /\ sent'[g] \in Seq([val : Values[step], err : Errors]) /\ Len(sent'[g]) <= calls'
       /\ \A h \in Goroutines \ {g} : call'[h] = call[h] /\ sent'[h] = sent[h]
  BY <1>10, UnchangedFacts
<1> HIDE DEF f, c, rest
<1> QED BY <1>9, <1>11, <1>12, <1>14, <1>15, <1>16, <1>17, <1>18, <1>19, StepOfOne

\* What is known of the encoder of a map that has a subStream.
LEMMA MapFacts ==
  ASSUME Inv, NEW g \in Goroutines, Encoding(g, {"map"}), Top(g).sub # None
  PROVE  LET f == Top(g) IN
         /\ stack[g] # <<>> /\ f.val.kind = "map"
         /\ f.on \in Made /\ f.sub \in Made /\ f.on # f.sub
         /\ \A x : /\ Begun(f, x) <=> x = f.on
                   /\ Level(stack[g], x) = Level(Tail(stack[g]), x) + (IF x = f.on THEN 1 ELSE 0)
                   /\ Level(Tail(stack[g]), x) \in Nat
         /\ \A x \in Held(g) : /\ IsStream(streams[x])
                               /\ streams[x].indention >= step * Level(stack[g], x)
         /\ step \in Nat /\ Held(g) \subseteq Made /\ f.on \in Held(g) /\ f.sub \in Held(g)
<1> DEFINE f == Top(g)
<1>1. stack[g] # <<>> /\ f.val.kind = "map"
  BY DEF Encoding
<1>2. \A x : Begun(f, x) <=> x = f.on
  BY <1>1 DEF Begun
<1>3. /\ f.on \in Made /\ f.sub \in Made /\ f.on # f.sub
      /\ step \in Nat /\ Held(g) \subseteq Made /\ f.on \in Held(g) /\ f.sub \in Held(g)
  BY <1>1, TopFacts
<1>4. \A x : /\ Level(stack[g], x) = Level(Tail(stack[g]), x) + (IF Begun(f, x) THEN 1 ELSE 0)
             /\ Level(Tail(stack[g]), x) \in Nat
  BY <1>1, TopFacts
<1>5. \A x \in Held(g) : IsStream(streams[x]) /\ streams[x].indention >= step * Level(stack[g], x)
  BY <1>3 DEF Inv
<1> HIDE DEF f
<1>6. \A x : Level(stack[g], x) = Level(Tail(stack[g]), x) + (IF x = f.on THEN 1 ELSE 0)
  BY <1>2, <1>4
<1> QED BY <1>1, <1>2, <1>3, <1>4, <1>5, <1>6 DEF f

LEMMA MapMemberInv == ASSUME Inv, NEW g \in Goroutines, MapMember(g) PROVE Inv'
<1> DEFINE f == Top(g)
           rest == Tail(stack[g])
           c == call[g].stream
           sub == streams[f.sub]
           i == f.order[f.at + 1]
           name == <<Names[f.val.names[i]]>> \o Colon(On(g))
           u == [f EXCEPT !.at = f.at + 1, !.members = Members(f), !.subAt = Len(sub.buf)]
           t == <<Frame(f.val.parts[i], f.sub), u>> \o rest
<1>1. Encoding(g, {"map"}) /\ f.sub # None
  BY DEF MapMember
<1>2. /\ stack[g] # <<>> /\ f.val.kind = "map"
      /\ f.on \in Made /\ f.sub \in Made /\ f.on # f.sub
      /\ \A x : Level(stack[g], x) = Level(rest, x) + (IF x = f.on THEN 1 ELSE 0)
      /\ \A x \in Held(g) : /\ IsStream(streams[x])
                            /\ streams[x].indention >= step * Level(stack[g], x)
      /\ step \in Nat /\ Held(g) \subseteq Made /\ f.on \in Held(g) /\ f.sub \in Held(g)
  BY <1>1, MapFacts
<1>3. /\ IsFrame(f, c, SubsAfter(rest, 0)) /\ IsStack(rest, c)
      /\ Subs(g) = SubsAfter(rest, 0) \cup ({f.sub} \ {None})
  BY <1>2, TopFacts
<1>4. /\ streams' = [streams EXCEPT ![f.on] = Inherit(@, sub), ![f.sub] = Put(@, name)]
      /\ stack' = [stack EXCEPT ![g] = t]
      /\ UNCHANGED <<step, pool, call, sent, calls, failures>>
  BY DEF MapMember, Push
<1>5. IsFrame(u, c, SubsAfter(rest, 0)) /\ u.on = f.on /\ u.sub = f.sub /\ u.val = f.val
  <2> DEFINE at == f.at + 1
             members == Members(f)
             from == Len(sub.buf)
             subs == SubsAfter(rest, 0)
             d == [f EXCEPT !.at = at]
             e == [d EXCEPT !.members = members]
  <2>1. u = [e EXCEPT !.subAt = from]
    OBVIOUS
  <2>2. IsFrame(f, c, subs)
    BY <1>3
  <2>3. at \in Nat
    BY <2>2 DEF IsFrame
  <2> HIDE DEF f, c, subs, u, at, members, from
  <2>4. d = [val |-> f.val, on |-> f.on, at |-> at, order |-> f.order, sub |-> f.sub,
             subAt |-> f.subAt, members |-> f.members, sorted |-> f.sorted]
    BY <2>2 DEF IsFrame
  <2> HIDE DEF d
  <2>5. e = [val |-> f.val, on |-> f.on, at |-> at, order |-> f.order, sub |-> f.sub,
             subAt |-> f.subAt, members |-> members, sorted |-> f.sorted]
    BY <2>4
  <2> HIDE DEF e
  <2>6. u = [val |-> f.val, on |-> f.on, at |-> at, order |-> f.order, sub |-> f.sub,
             subAt |-> from, members |-> members, sorted |-> f.sorted]
    BY <2>1, <2>5
  <2>7. IsFrame(u, c, subs) /\ u.on = f.on /\ u.sub = f.sub /\ u.val = f.val
    BY <2>2, <2>3, <2>6 DEF IsFrame
  <2> QED BY <2>7 DEF subs
<1> HIDE DEF u
<1>6. /\ IsStack(t, c) /\ SubsAfter(t, 0) = Subs(g)
      /\ \A x : Level(t, x) = Level(rest, x) + (IF Begun(u, x) THEN 1 ELSE 0)
  <2> DEFINE v == f.val.parts[i]
             w == <<Frame(v, f.sub), u>> \o rest
             id == f.sub
  <2> HIDE DEF v, rest, f
  <2>1. /\ IsStack(w, c) /\ SubsAfter(w, 0) = SubsAfter(rest, 0) \cup ({u.sub} \ {None})
        /\ \A x : Level(w, x) = Level(rest, x) + (IF Begun(u, x) THEN 1 ELSE 0)
    <3>1. id = c \/ id \in SubsAfter(rest, 0) \/ id = u.sub
      BY <1>5
    <3>2. id # None
      BY <1>1
    <3> HIDE DEF id
    <3>3. LET ww == <<Frame(v, id), u>> \o rest IN
          /\ IsStack(ww, c) /\ SubsAfter(ww, 0) = SubsAfter(rest, 0) \cup ({u.sub} \ {None})
          /\ \A x : Level(ww, x) = Level(rest, x) + (IF Begun(u, x) THEN 1 ELSE 0)
      BY <1>3, <1>5, <3>1, <3>2, PushStack
    <3> QED BY <3>3 DEF id
  <2>2. SubsAfter(w, 0) = Subs(g)
    BY <1>3, <1>5, <2>1
  <2> QED BY <2>1, <2>2 DEF v
<1> HIDE DEF t, rest
<1>7. \A x : Level(t, x) = Level(stack[g], x)
  <2>1. \A x : Begun(u, x) <=> x = f.on
    BY <1>1, <1>2, <1>5 DEF Begun
  <2> QED BY <1>2, <1>6, <2>1
<1>8. /\ IsStream(sub) /\ IsStream(On(g))
      /\ IsStream(Inherit(On(g), sub)) /\ Inherit(On(g), sub).indention = On(g).indention
      /\ IsStream(Put(sub, name)) /\ Put(sub, name).indention = sub.indention
  <2>1. IsStream(sub) /\ IsStream(On(g))
    BY <1>2 DEF On
  <2> HIDE DEF sub, name
  <2> QED BY <2>1, InheritStream, PutStream
<1>9. /\ DOMAIN streams' = Made /\ streams' = [x \in Made |-> streams'[x]]
      /\ streams'[f.on] = Inherit(On(g), sub) /\ streams'[f.sub] = Put(sub, name)
      /\ \A x \in Made : x # f.on /\ x # f.sub => streams'[x] = streams[x]
  <2> HIDE DEF f, name
  <2>1. On(g) = streams[f.on]
    BY DEF On, f
  <2> QED BY <1>2, <1>4, <2>1 DEF Made
<1>10. ASSUME NEW x \in Held(g)
       PROVE  IsStream(streams'[x]) /\ streams'[x].indention >= step * Level(t, x)
  <2>1. /\ IsStream(streams[x]) /\ streams[x].indention >= step * Level(stack[g], x)
        /\ Level(t, x) = Level(stack[g], x) /\ x \in Made
    BY <1>2, <1>7
  <2>2. IsStream(streams'[x]) /\ streams'[x].indention = streams[x].indention
    <3>1. On(g) = streams[f.on]
      BY DEF On
    <3> HIDE DEF f
    <3> QED BY <1>8, <1>9, <2>1, <3>1
  <2> QED BY <2>1, <2>2
<1>11. \A x \in Made \ Held(g) : streams'[x] = streams[x]
  BY <1>2, <1>9
<1>12. UNCHANGED <<step, pool, call, sent, calls>> /\ failures' \in 0..MaxFailures
  BY <1>4 DEF Inv
<1> HIDE DEF f
<1> QED BY <1>2, <1>4, <1>6, <1>9, <1>10, <1>11, <1>12, Writing DEF c

LEMMA MapSortInv == ASSUME Inv, NEW g \in Goroutines, MapSort(g) PROVE Inv'
<1> DEFINE f == Top(g)
           rest == Tail(stack[g])
           c == call[g].stream
           members == Sorted(Members(f))
           u == [f EXCEPT !.sorted = TRUE, !.at = 0, !.members = members]
           t == <<u>> \o rest
<1>1. Encoding(g, {"map"}) /\ f.sub # None
  BY DEF MapSort
<1>2. /\ stack[g] # <<>> /\ f.val.kind = "map"
      /\ \A x : Level(stack[g], x) = Level(rest, x) + (IF x = f.on THEN 1 ELSE 0)
      /\ \A x \in Held(g) : /\ IsStream(streams[x])
                            /\ streams[x].indention >= step * Level(stack[g], x)
      /\ Held(g) \subseteq Made
  BY <1>1, MapFacts
<1>3. /\ IsFrame(f, c, SubsAfter(rest, 0)) /\ IsStack(rest, c)
      /\ Subs(g) = SubsAfter(rest, 0) \cup ({f.sub} \ {None})
  BY <1>2, TopFacts
<1>4. stack' = [stack EXCEPT ![g] = t] /\ UNCHANGED <<step, streams, pool, call, sent, calls, failures>>
  BY DEF MapSort, Replace
<1>5. IsFrame(u, c, SubsAfter(rest, 0)) /\ u.on = f.on /\ u.sub = f.sub /\ u.val = f.val
  <2> DEFINE subs == SubsAfter(rest, 0)
             yes == TRUE
             d == [f EXCEPT !.sorted = yes]
             e == [d EXCEPT !.at = 0]
  <2>1. u = [e EXCEPT !.members = members]
    OBVIOUS
  <2>2. IsFrame(f, c, subs) /\ f.sub # None
    BY <1>1, <1>3
  <2> HIDE DEF f, c, subs, u, yes, members
  <2>3. d = [val |-> f.val, on |-> f.on, at |-> f.at, order |-> f.order, sub |-> f.sub,
             subAt |-> f.subAt, members |-> f.members, sorted |-> yes]
    BY <2>2 DEF IsFrame
  <2> HIDE DEF d
  <2>4. e = [val |-> f.val, on |-> f.on, at |-> 0, order |-> f.order, sub |-> f.sub,
             subAt |-> f.subAt, members |-> f.members, sorted |-> yes]
    BY <2>3
  <2> HIDE DEF e
  <2>5. u = [val |-> f.val, on |-> f.on, at |-> 0, order |-> f.order, sub |-> f.sub,
             subAt |-> f.subAt, members |-> members, sorted |-> yes]
    BY <2>1, <2>4
  <2>6. /\ u.val = f.val /\ u.on = f.on /\ u.at = 0 /\ u.order = f.order /\ u.sub = f.sub
        /\ u.subAt = f.subAt /\ u.members = members /\ u.sorted = yes
    BY <2>5
  <2>7. u = [val |-> u.val, on |-> u.on, at |-> u.at, order |-> u.order, sub |-> u.sub,
             subAt |-> u.subAt, members |-> u.members, sorted |-> u.sorted]
    BY <2>5, <2>6
  <2>8. IsFrame(u, c, subs)
    BY <2>2, <2>6, <2>7 DEF IsFrame
  <2> QED BY <2>6, <2>8 DEF subs
<1> HIDE DEF u
<1>6. /\ IsStack(t, c) /\ SubsAfter(t, 0) = Subs(g)
      /\ \A x : Level(t, x) = Level(rest, x) + (IF Begun(u, x) THEN 1 ELSE 0)
  <2> HIDE DEF rest, c
  <2>1. /\ IsStack(t, c) /\ SubsAfter(t, 0) = SubsAfter(rest, 0) \cup ({u.sub} \ {None})
        /\ \A x : Level(t, x) = Level(rest, x) + (IF Begun(u, x) THEN 1 ELSE 0)
    BY <1>3, <1>5, StackCons
  <2> QED BY <1>3, <1>5, <2>1
<1> HIDE DEF t, rest
<1>7. \A x : Level(t, x) = Level(stack[g], x)
  <2>1. \A x : Begun(u, x) <=> x = f.on
    BY <1>1, <1>2, <1>5 DEF Begun
  <2> QED BY <1>2, <1>6, <2>1
<1>8. DOMAIN streams' = Made /\ streams' = [x \in Made |-> streams'[x]]
  BY <1>4 DEF Made, Inv
<1>9. \A x \in Held(g) : IsStream(streams'[x]) /\ streams'[x].indention >= step * Level(t, x)
  BY <1>2, <1>4, <1>7
<1>10. UNCHANGED <<step, pool, call, sent, calls>> /\ failures' \in 0..MaxFailures
  BY <1>4 DEF Inv
<1>11. \A x \in Made \ Held(g) : streams'[x] = streams[x]
  BY <1>4
<1> QED BY <1>2, <1>4, <1>6, <1>8, <1>9, <1>10, <1>11, Writing DEF c

LEMMA MapWriteInv == ASSUME Inv, NEW g \in Goroutines, MapWrite(g) PROVE Inv'
<1> DEFINE f == Top(g)
           rest == Tail(stack[g])
           c == call[g].stream
           s == IF f.at = 0 THEN On(g) ELSE WriteMore(On(g))
           bytes == f.members[f.at + 1].bytes
           u == [f EXCEPT !.at = f.at + 1]
           t == <<u>> \o rest
<1>1. stack[g] # <<>> /\ f.val.kind = "map"
  BY DEF MapWrite, Encoding
<1>2. /\ IsFrame(f, c, SubsAfter(rest, 0)) /\ IsStack(rest, c)
      /\ Subs(g) = SubsAfter(rest, 0) \cup ({f.sub} \ {None})
      /\ \A x : Level(stack[g], x) = Level(rest, x) + (IF Begun(f, x) THEN 1 ELSE 0)
      /\ \A x : Level(stack[g], x) \in Nat
  BY <1>1, TopFacts
<1>3. /\ Offer(g, s, bytes) /\ stack' = [stack EXCEPT ![g] = t]
      /\ UNCHANGED <<step, pool, call, sent, calls>>
  BY DEF MapWrite, Replace
<1>4. IsFrame(u, c, SubsAfter(rest, 0)) /\ u.on = f.on /\ u.sub = f.sub /\ u.val = f.val
  <2>1. f.at + 1 \in Nat
    BY <1>2 DEF IsFrame
  <2> HIDE DEF f, c
  <2> QED BY <1>2, <2>1, FrameAt
<1> HIDE DEF u
<1>5. /\ IsStack(t, c) /\ SubsAfter(t, 0) = Subs(g)
      /\ \A x : Level(t, x) = Level(rest, x) + (IF Begun(u, x) THEN 1 ELSE 0)
  <2> HIDE DEF rest, c
  <2>1. /\ IsStack(t, c) /\ SubsAfter(t, 0) = SubsAfter(rest, 0) \cup ({u.sub} \ {None})
        /\ \A x : Level(t, x) = Level(rest, x) + (IF Begun(u, x) THEN 1 ELSE 0)
    BY <1>2, <1>4, StackCons
  <2> QED BY <1>2, <1>4, <2>1
<1> HIDE DEF t, rest
<1>6. \A x : Level(t, x) = Level(stack[g], x)
  <2>1. \A x : Begun(u, x) <=> Begun(f, x)
    BY <1>1, <1>4 DEF Begun
  <2> QED BY <1>2, <1>5, <2>1
<1>7. IsStream(s) /\ s.indention = On(g).indention
  <2>1. IsStream(On(g))
    BY <1>1, OnFacts
  <2> QED BY <2>1, WriteMoreStream
<1> HIDE DEF s, bytes
<1>8. PICK r : Emit(g, r) /\ IsStream(r) /\ r.indention = s.indention
  BY <1>1, <1>3, <1>7, Offering
<1>9. failures' \in 0..MaxFailures
  BY <1>1, <1>3, <1>7, Offering
<1>10. r.indention >= step * Level(t, f.on)
  BY <1>1, <1>6, <1>7, <1>8, OnFacts
<1>11. \A x : Level(t, x) <= Level(stack[g], x)
  BY <1>2, <1>6
<1> QED BY <1>1, <1>3, <1>5, <1>8, <1>9, <1>10, <1>11, Emitting DEF f, c

LEMMA MapEndInv == ASSUME Inv, NEW g \in Goroutines, MapEnd(g) PROVE Inv'
<1> DEFINE f == Top(g)
           t == Tail(stack[g])
           c == call[g].stream
           sub == streams[f.sub]
           s == WriteEnd(Inherit(On(g), sub), "}")
<1>1. Encoding(g, {"map"}) /\ stack[g] # <<>> /\ f.sorted
  BY DEF MapEnd, Encoding
<1>2. /\ IsFrame(f, c, SubsAfter(t, 0)) /\ IsStack(t, c)
      /\ Subs(g) = SubsAfter(t, 0) \cup ({f.sub} \ {None}) /\ ~Idle(g)
  BY <1>1, TopFacts
<1>3. f.sub # None /\ f.sub \notin SubsAfter(t, 0) /\ f.sub # c /\ f.sub \in StreamIds
  BY <1>1, <1>2 DEF IsFrame
<1>4. /\ f.on \in Made /\ f.sub \in Made /\ f.on # f.sub
      /\ \A x : Level(stack[g], x) = Level(t, x) + (IF x = f.on THEN 1 ELSE 0) /\ Level(t, x) \in Nat
      /\ \A x \in Held(g) : /\ IsStream(streams[x])
                            /\ streams[x].indention >= step * Level(stack[g], x)
      /\ step \in Nat /\ Held(g) \subseteq Made /\ f.on \in Held(g) /\ f.sub \in Held(g)
  BY <1>1, <1>3, MapFacts
<1>5. /\ streams' = [streams EXCEPT ![f.on] = WriteEnd(Inherit(@, sub), "}"), ![f.sub] = Returned(@)]
      /\ pool' = pool \cup {f.sub} /\ stack' = [stack EXCEPT ![g] = t]
      /\ UNCHANGED <<step, call, sent, calls, failures>>
  BY DEF MapEnd, Pop
<1>6. On(g) = streams[f.on]
  BY DEF On
<1> HIDE DEF f, t
<1>7. /\ DOMAIN streams' = Made /\ streams' = [x \in Made |-> streams'[x]] /\ Made' = Made
      /\ streams'[f.on] = s /\ streams'[f.sub] = Returned(sub)
      /\ \A x \in Made : x # f.on /\ x # f.sub => streams'[x] = streams[x]
  BY <1>4, <1>5, <1>6 DEF Made
<1>8. /\ Level(stack[g], f.on) = Level(t, f.on) + 1 /\ Level(t, f.on) \in Nat
      /\ step * Level(stack[g], f.on) = step * Level(t, f.on) + step /\ step * Level(t, f.on) \in Nat
  <2>1. Level(stack[g], f.on) = Level(t, f.on) + 1 /\ Level(t, f.on) \in Nat
    BY <1>4
  <2> QED BY <1>4, <2>1
<1>9. IsStream(s) /\ s.indention = On(g).indention - step /\ On(g).indention - step >= step * Level(t, f.on)
  <2> DEFINE r == Inherit(On(g), sub)
  <2>1. IsStream(On(g)) /\ On(g).indention >= step * Level(stack[g], f.on) /\ IsStream(sub)
    BY <1>4, <1>6
  <2>2. IsStream(r) /\ r.indention = On(g).indention
    BY <2>1, InheritStream
  <2>3. On(g).indention \in Nat
    BY <2>1 DEF IsStream
  <2> HIDE DEF r
  <2>4. r.indention >= step /\ On(g).indention - step >= step * Level(t, f.on)
    BY <1>4, <1>8, <2>1, <2>2, <2>3
  <2>5. IsStream(WriteEnd(r, "}")) /\ WriteEnd(r, "}").indention = r.indention - step
    BY <1>4, <2>2, <2>4, WriteEndStream
  <2> QED BY <2>2, <2>4, <2>5 DEF r
<1>10. IsStream(Returned(sub)) /\ Returned(sub).indention = sub.indention
  BY <1>4, ReturnedStream
<1> HIDE DEF s
<1>11. \A x \in Made : IsStream(streams[x])
  BY DEF Inv
<1>12. \A x \in Made' : IsStream(streams'[x])
  BY <1>7, <1>9, <1>10, <1>11
<1>13. stack'[g] = t /\ DOMAIN stack' = Goroutines /\ \A h \in Goroutines \ {g} : stack'[h] = stack[h]
  BY <1>5 DEF Inv
<1>14. Subs(g)' = Subs(g) \ {f.sub}
  <2>1. Subs(g)' = SubsAfter(stack'[g], 0)
    BY DEF Subs, SubsAfter
  <2> QED BY <1>2, <1>3, <1>13, <2>1
<1>15. call'[g] = call[g] /\ c \notin Subs(g) /\ IsCall(g)
  BY <1>5 DEF Inv, PoolBalance
<1>16. InUse(g)' = InUse(g) \ {f.sub} /\ Held(g)' = Held(g) \ {f.sub} /\ f.sub \in InUse(g)
  BY <1>2, <1>3, <1>14, <1>15 DEF InUse, Held
<1>17. ASSUME NEW x \in Held(g)' PROVE streams'[x].indention >= step * Level(stack'[g], x)
  <2>1. CASE x = f.on
    BY <1>7, <1>9, <1>13, <2>1
  <2>2. CASE x # f.on
    <3>1. x \in Held(g) /\ x # f.sub /\ x \in Made
      BY <1>4, <1>16
    <3>2. streams'[x] = streams[x] /\ Level(stack[g], x) = Level(t, x)
      BY <1>4, <1>7, <2>2, <3>1
    <3> QED BY <1>4, <1>13, <3>1, <3>2
  <2> QED BY <2>1, <2>2
<1>18. /\ InUse(g) \subseteq StreamIds /\ InUse(g) \subseteq Made /\ InUse(g) \cap pool = {}
       /\ Held(g) \subseteq InUse(g) \cup {g}
  BY InUseFacts
<1>19. /\ Made' \cap StreamIds = pool' \cup InUse(g)' \cup ((Made \cap StreamIds) \ (pool \cup InUse(g)))
       /\ pool' \cap InUse(g)' = {} /\ pool' \subseteq pool \cup InUse(g) /\ pool' \subseteq StreamIds
       /\ InUse(g)' \subseteq InUse(g) \cup CanBorrow
  <2>1. pool \subseteq StreamIds /\ pool \subseteq Made
    BY DEF Inv, PoolBalance
  <2>2. pool' = pool \cup {f.sub}
    BY <1>5
  <2> QED BY <1>7, <1>16, <1>18, <2>1, <2>2
<1>20. /\ Goroutines \subseteq Made' /\ Made' \subseteq Goroutines \cup StreamIds
       /\ \A x \in Made : x \notin Held(g) /\ x \notin CanBorrow => x \in Made' /\ streams'[x] = streams[x]
  <2>1. Goroutines \subseteq Made /\ Made \subseteq Goroutines \cup StreamIds
    BY DEF Inv
  <2> QED BY <1>4, <1>7, <2>1
<1>21. IsCall(g)' /\ call'[g].stream \notin Subs(g)' /\ IsStack(stack'[g], call'[g].stream)
  BY <1>2, <1>13, <1>14, <1>15 DEF IsCall, Idle
<1>22. /\ calls' \in 0..MaxCalls /\ calls' >= calls /\ failures' \in 0..MaxFailures /\ step' = step
       /\ DOMAIN call' = Goroutines /\ DOMAIN sent' = Goroutines
       /\ sent'[g] \in Seq([val : Values[step], err : Errors]) /\ Len(sent'[g]) <= calls'
       /\ \A h \in Goroutines \ {g} : call'[h] = call[h] /\ sent'[h] = sent[h]
  BY <1>5, UnchangedFacts
<1> QED BY <1>7, <1>12, <1>13, <1>16, <1>17, <1>19, <1>20, <1>21, <1>22, StepOfOne

----------------------------------------------------------------------------
(* The calls of the API.                                                   *)

\* A goroutine that is in no call has borrowed nothing.
LEMMA EmptyStack == \A c : IsStack(<<>>, c) /\ SubsAfter(<<>>, 0) = {} /\ \A id : Level(<<>>, id) = 0
<1>1. <<>> \in Seq({}) /\ Len(<<>>) = 0
  OBVIOUS
<1>2. SubsAfter(<<>>, 0) = {}
  BY <1>1 DEF SubsAfter
<1>3. \A c : IsStack(<<>>, c)
  BY <1>1 DEF IsStack
<1>4. ASSUME NEW id PROVE Level(<<>>, id) = 0
  BY <1>1, FS_EmptySet DEF Level
<1> QED BY <1>2, <1>3, <1>4

LEMMA FirstCall ==
  ASSUME NEW v, NEW id
  PROVE  /\ IsStack(<<Frame(v, id)>>, id) /\ SubsAfter(<<Frame(v, id)>>, 0) = {}
         /\ \A x : Level(<<Frame(v, id)>>, x) = 0
<1> DEFINE f == Frame(v, id)
           t == <<f>> \o <<>>
<1>1. <<f>> = t
  OBVIOUS
<1>2. IsFrame(f, id, SubsAfter(<<>>, 0)) /\ f.sub = None /\ \A x : ~Begun(f, x)
  BY NewFrame
<1> HIDE DEF f
<1>3. /\ IsStack(t, id) /\ SubsAfter(t, 0) = SubsAfter(<<>>, 0) \cup ({f.sub} \ {None})
      /\ \A x : Level(t, x) = Level(<<>>, x) + (IF Begun(f, x) THEN 1 ELSE 0)
  BY <1>2, EmptyStack, StackCons
<1>4. \A x : Level(t, x) = 0
  BY <1>2, <1>3, EmptyStack
<1>5. SubsAfter(t, 0) = {}
  BY <1>2, <1>3, EmptyStack
<1> QED BY <1>1, <1>3, <1>4, <1>5 DEF f

LEMMA MarshalInv ==
  ASSUME Inv, NEW g \in Goroutines, NEW v \in Values[step], Marshal(g, v)
  PROVE  Inv'
<1>1. PICK id \in CanBorrow :
        /\ streams' = Borrow(id) /\ pool' = pool \ {id}
        /\ call' = [call EXCEPT ![g] = [name |-> "Marshal", val |-> v, stream |-> id]]
        /\ stack' = [stack EXCEPT ![g] = <<Frame(v, id)>>]
  BY DEF Marshal
<1>2. Idle(g) /\ calls < MaxCalls /\ calls' = calls + 1 /\ UNCHANGED <<step, sent, failures>>
  BY DEF Marshal
<1>3. call[g].stream = None /\ stack[g] = <<>>
  BY <1>2 DEF Inv, IsCall
<1>4. InUse(g) = {} /\ Held(g) = {}
  BY <1>3, SubsAreAfter, EmptyStack DEF InUse, Held
<1>5. id \in StreamIds /\ id # g /\ id # None
  BY ValuesAssumption DEF CanBorrow
<1>6. /\ stack'[g] = <<Frame(v, id)>> /\ DOMAIN stack' = Goroutines
      /\ call'[g] = [name |-> "Marshal", val |-> v, stream |-> id] /\ DOMAIN call' = Goroutines
      /\ \A h \in Goroutines \ {g} : stack'[h] = stack[h] /\ call'[h] = call[h]
  BY <1>1 DEF Inv
<1>7. /\ IsStack(stack'[g], call'[g].stream) /\ Subs(g)' = {}
      /\ \A x : Level(stack'[g], x) = 0
  <2>1. Subs(g)' = SubsAfter(stack'[g], 0)
    BY DEF Subs, SubsAfter
  <2>2. call'[g].stream = id
    BY <1>6
  <2>3. /\ IsStack(<<Frame(v, id)>>, id) /\ SubsAfter(<<Frame(v, id)>>, 0) = {}
        /\ \A x : Level(<<Frame(v, id)>>, x) = 0
    BY FirstCall
  <2> QED BY <1>6, <2>1, <2>2, <2>3
<1>8. InUse(g)' = {id} /\ Held(g)' = {id} /\ call'[g].stream \notin Subs(g)'
  BY <1>5, <1>6, <1>7 DEF InUse, Held
<1>9. IsCall(g)'
  BY <1>5, <1>6 DEF IsCall, Idle
<1>10. /\ Made' = Made \cup {id} /\ streams' = [i \in Made' |-> streams'[i]]
       /\ streams'[id] = Borrowed(id) /\ \A i \in Made : i # id => streams'[i] = streams[i]
  BY <1>1 DEF Borrow, Made
<1>11. IsStream(Borrowed(id)) /\ \A i \in Made : IsStream(streams[i])
  BY BorrowedStream DEF Inv
<1>12. \A i \in Made' : IsStream(streams'[i])
  BY <1>10, <1>11
<1>13. \A i \in Held(g)' : streams'[i].indention >= step * Level(stack'[g], i)
  <2>1. streams'[id].indention \in Nat /\ step \in Nat
    BY <1>10, <1>11, ValuesAssumption DEF IsStream, Inv
  <2>2. step * Level(stack'[g], id) = 0
    BY <1>7, <2>1
  <2> QED BY <1>8, <2>1, <2>2
<1>14. /\ Made' \cap StreamIds = pool' \cup InUse(g)' \cup ((Made \cap StreamIds) \ (pool \cup InUse(g)))
       /\ pool' \cap InUse(g)' = {} /\ pool' \subseteq pool \cup InUse(g) /\ pool' \subseteq StreamIds
       /\ InUse(g)' \subseteq InUse(g) \cup CanBorrow
  <2>1. pool \subseteq StreamIds /\ pool \subseteq Made
    BY DEF Inv, PoolBalance
  <2>2. id \in pool \/ id \notin Made
    BY DEF CanBorrow
  <2> QED BY <1>1, <1>4, <1>5, <1>8, <1>10, <2>1, <2>2
<1>15. /\ Goroutines \subseteq Made' /\ Made' \subseteq Goroutines \cup StreamIds
       /\ \A i \in Made : i \notin Held(g) /\ i \notin CanBorrow => i \in Made' /\ streams'[i] = streams[i]
  <2>1. Goroutines \subseteq Made /\ Made \subseteq Goroutines \cup StreamIds
    BY DEF Inv
  <2> QED BY <1>5, <1>10, <2>1
<1>16. calls' \in 0..MaxCalls /\ calls' >= calls /\ failures' \in 0..MaxFailures /\ step' = step
  <2>1. calls \in 0..MaxCalls /\ failures \in 0..MaxFailures
    BY DEF Inv
  <2> QED BY <1>2, <2>1, ValuesAssumption
<1>17. /\ sent'[g] \in Seq([val : Values[step], err : Errors]) /\ Len(sent'[g]) <= calls'
       /\ DOMAIN sent' = Goroutines /\ \A h \in Goroutines \ {g} : sent'[h] = sent[h]
  <2>1. /\ sent[g] \in Seq([val : Values[step], err : Errors]) /\ Len(sent[g]) <= calls
        /\ DOMAIN sent = Goroutines /\ calls \in 0..MaxCalls
    BY DEF Inv
  <2>2. Len(sent[g]) \in Nat
    BY <2>1
  <2>3. Len(sent[g]) <= calls'
    BY <1>2, <2>1, <2>2, ValuesAssumption
  <2> QED BY <1>2, <2>1, <2>3
<1> QED BY <1>6, <1>7, <1>8, <1>9, <1>10, <1>12, <1>13, <1>14, <1>15, <1>16, <1>17, StepOfOne

\* The API call of goroutine g is over: what it borrowed is returned or dropped.
LEMMA CallOver ==
  ASSUME Inv, NEW g \in Goroutines, stack'[g] = <<>>, call'[g] = NoCall
  PROVE  /\ IsCall(g)' /\ IsStack(stack'[g], call'[g].stream) /\ Subs(g)' = {}
         /\ InUse(g)' = {} /\ Held(g)' = {} /\ call'[g].stream \notin Subs(g)'
<1>1. call'[g].name = "none" /\ call'[g].stream = None
  BY DEF NoCall
<1>2. IsCall(g)'
  BY <1>1 DEF IsCall, Idle
<1>3. Subs(g)' = SubsAfter(stack'[g], 0)
  BY DEF Subs, SubsAfter
<1>4. Subs(g)' = {}
  BY <1>3, EmptyStack
<1>5. InUse(g)' = {} /\ Held(g)' = {}
  BY <1>1, <1>4 DEF InUse, Held
<1> QED BY <1>2, <1>4, <1>5, EmptyStack

LEMMA MarshalReturnsInv == ASSUME Inv, NEW g \in Goroutines, MarshalReturns(g) PROVE Inv'
<1> DEFINE id == call[g].stream
<1>1. /\ call[g].name = "Marshal" /\ stack[g] = <<>>
      /\ streams' = [streams EXCEPT ![id] = Returned(@)]
      /\ pool' = pool \cup {id} /\ call' = [call EXCEPT ![g] = NoCall]
      /\ UNCHANGED <<step, stack, sent, calls, failures>>
  BY DEF MarshalReturns
<1>2. id \in StreamIds /\ id # None /\ id # g
  BY <1>1, ValuesAssumption DEF Inv, IsCall
<1>3. InUse(g) = {id} /\ Held(g) = {id}
  BY <1>1, <1>2, SubsAreAfter, EmptyStack DEF InUse, Held
<1>4. id \in Made
  BY <1>3, InUseFacts
<1> HIDE DEF id
<1>5. /\ Made' = Made /\ streams' = [x \in Made' |-> streams'[x]]
      /\ streams'[id] = Returned(streams[id]) /\ \A x \in Made : x # id => streams'[x] = streams[x]
  BY <1>1, <1>4 DEF Made
<1>6. \A x \in Made' : IsStream(streams'[x])
  <2>1. \A x \in Made : IsStream(streams[x])
    BY DEF Inv
  <2>2. IsStream(Returned(streams[id]))
    BY <1>4, <2>1, ReturnedStream
  <2> QED BY <1>5, <2>1, <2>2
<1>7. /\ stack'[g] = <<>> /\ call'[g] = NoCall /\ DOMAIN stack' = Goroutines /\ DOMAIN call' = Goroutines
      /\ \A h \in Goroutines \ {g} : stack'[h] = stack[h] /\ call'[h] = call[h] /\ sent'[h] = sent[h]
  BY <1>1 DEF Inv
<1>8. /\ IsCall(g)' /\ IsStack(stack'[g], call'[g].stream)
      /\ InUse(g)' = {} /\ Held(g)' = {} /\ call'[g].stream \notin Subs(g)'
  BY <1>7, CallOver
<1>9. /\ Made' \cap StreamIds = pool' \cup InUse(g)' \cup ((Made \cap StreamIds) \ (pool \cup InUse(g)))
      /\ pool' \cap InUse(g)' = {} /\ pool' \subseteq pool \cup InUse(g) /\ pool' \subseteq StreamIds
      /\ InUse(g)' \subseteq InUse(g) \cup CanBorrow
  <2>1. pool \subseteq StreamIds /\ pool \subseteq Made
    BY DEF Inv, PoolBalance
  <2> QED BY <1>1, <1>2, <1>3, <1>4, <1>5, <1>8, <2>1
<1>10. /\ Goroutines \subseteq Made' /\ Made' \subseteq Goroutines \cup StreamIds
       /\ \A x \in Made : x \notin Held(g) /\ x \notin CanBorrow => x \in Made' /\ streams'[x] = streams[x]
  <2>1. Goroutines \subseteq Made /\ Made \subseteq Goroutines \cup StreamIds
    BY DEF Inv
  <2> QED BY <1>3, <1>5, <2>1
<1>11. /\ calls' \in 0..MaxCalls /\ calls' >= calls /\ failures' \in 0..MaxFailures /\ step' = step
       /\ DOMAIN sent' = Goroutines
       /\ sent'[g] \in Seq([val : Values[step], err : Errors]) /\ Len(sent'[g]) <= calls'
  BY <1>1, UnchangedFacts
<1> QED BY <1>5, <1>6, <1>7, <1>8, <1>9, <1>10, <1>11, StepOfOne

\* The error of the last value given to an Encoder is set.
LEMMA SentError ==
  ASSUME Inv, NEW g \in Goroutines, NEW e \in Errors,
         sent' = [sent EXCEPT ![g][Len(sent[g])].err = e], UNCHANGED <<step, calls>>
  PROVE  /\ sent'[g] \in Seq([val : Values[step], err : Errors]) /\ Len(sent'[g]) <= calls'
         /\ DOMAIN sent' = Goroutines /\ \A h \in Goroutines \ {g} : sent'[h] = sent[h]
<1> DEFINE s == sent[g]
           n == Len(s)
           t == [s EXCEPT ![n].err = e]
           R == [val : Values[step], err : Errors]
<1>1. s \in Seq(R) /\ Len(s) <= calls /\ DOMAIN sent = Goroutines
  BY DEF Inv
<1>2. sent'[g] = t /\ DOMAIN sent' = Goroutines /\ \A h \in Goroutines \ {g} : sent'[h] = sent[h]
  BY <1>1
<1> HIDE DEF s
<1>3. t \in Seq(R) /\ Len(t) = Len(s)
  <2>1. n \in Nat /\ DOMAIN s = 1..n
    BY <1>1
  <2>2. CASE n = 0
    <3>1. t = s
      BY <1>1, <2>1, <2>2
    <3> QED BY <1>1, <3>1
  <2>3. CASE n # 0
    <3> DEFINE r == [s[n] EXCEPT !.err = e]
    <3>1. n \in 1..Len(s) /\ s[n] \in R
      <4>1. n \in 1..n
        BY <2>1, <2>3
      <4> HIDE DEF R
      <4> QED BY <1>1, <4>1
    <3>2. r \in R
      BY <3>1
    <3>3. t = [s EXCEPT ![n] = r]
      OBVIOUS
    <3> HIDE DEF r, n, R
    <3>4. [s EXCEPT ![n] = r] \in Seq(R) /\ Len([s EXCEPT ![n] = r]) = Len(s)
      BY <1>1, <3>1, <3>2, ExceptSeq
    <3> QED BY <3>3, <3>4
  <2> QED BY <2>2, <2>3
<1> HIDE DEF t
<1> QED BY <1>1, <1>2, <1>3

LEMMA PanicInv == ASSUME Inv, NEW g \in Goroutines, Panic(g) PROVE Inv'
<1>1. /\ streams' = [x \in Made \ Subs(g) |-> IF x \in InUse(g) THEN Returned(streams[x]) ELSE streams[x]]
      /\ pool' = pool \cup (InUse(g) \ Subs(g))
      /\ stack' = [stack EXCEPT ![g] = <<>>] /\ call' = [call EXCEPT ![g] = NoCall]
      /\ sent' = IF call[g].name = "Encode" THEN [sent EXCEPT ![g][Len(sent[g])].err = "panic"] ELSE sent
      /\ UNCHANGED <<step, calls, failures>>
  BY DEF Panic
<1>2. /\ InUse(g) \subseteq StreamIds /\ InUse(g) \subseteq Made /\ InUse(g) \cap pool = {}
      /\ Held(g) \subseteq InUse(g) \cup {g} /\ Subs(g) \subseteq InUse(g)
  BY InUseFacts DEF InUse
<1>3. \A x \in InUse(g) : x \notin Goroutines
  BY <1>2, ValuesAssumption
<1>4. /\ Made' = Made \ Subs(g) /\ streams' = [x \in Made' |-> streams'[x]]
      /\ \A x \in Made \ Subs(g) : streams'[x] = IF x \in InUse(g) THEN Returned(streams[x]) ELSE streams[x]
  BY <1>1 DEF Made
<1>5. \A x \in Made' : IsStream(streams'[x])
  <2>1. \A x \in Made : IsStream(streams[x]) /\ IsStream(Returned(streams[x]))
    BY ReturnedStream DEF Inv
  <2> QED BY <1>4, <2>1
<1>6. /\ stack'[g] = <<>> /\ call'[g] = NoCall /\ DOMAIN stack' = Goroutines /\ DOMAIN call' = Goroutines
      /\ \A h \in Goroutines \ {g} : stack'[h] = stack[h] /\ call'[h] = call[h]
  BY <1>1 DEF Inv
<1>7. /\ IsCall(g)' /\ IsStack(stack'[g], call'[g].stream)
      /\ InUse(g)' = {} /\ Held(g)' = {} /\ call'[g].stream \notin Subs(g)'
  BY <1>6, CallOver
<1>8. /\ Made' \cap StreamIds = pool' \cup InUse(g)' \cup ((Made \cap StreamIds) \ (pool \cup InUse(g)))
      /\ pool' \cap InUse(g)' = {} /\ pool' \subseteq pool \cup InUse(g) /\ pool' \subseteq StreamIds
      /\ InUse(g)' \subseteq InUse(g) \cup CanBorrow
  <2>1. pool \subseteq StreamIds /\ pool \subseteq Made
    BY DEF Inv, PoolBalance
  <2> QED BY <1>1, <1>2, <1>4, <1>7, <2>1
<1>9. /\ Goroutines \subseteq Made' /\ Made' \subseteq Goroutines \cup StreamIds
      /\ \A x \in Made : x \notin Held(g) /\ x \notin CanBorrow => x \in Made' /\ streams'[x] = streams[x]
  <2>1. Goroutines \subseteq Made /\ Made \subseteq Goroutines \cup StreamIds
    BY DEF Inv
  <2>2. ASSUME NEW x \in Made, x \notin Held(g) PROVE x \notin Subs(g) /\ (x \in InUse(g) => x \in {g})
    BY <2>2 DEF Held, InUse
  <2> QED BY <1>2, <1>3, <1>4, <2>1, <2>2
<1>10. /\ calls' \in 0..MaxCalls /\ calls' >= calls /\ failures' \in 0..MaxFailures /\ step' = step
  BY <1>1, UnchangedFacts
<1>11. /\ sent'[g] \in Seq([val : Values[step], err : Errors]) /\ Len(sent'[g]) <= calls'
       /\ DOMAIN sent' = Goroutines /\ \A h \in Goroutines \ {g} : sent'[h] = sent[h]
  <2>1. CASE call[g].name = "Encode"
    <3>1. "panic" \in Errors /\ sent' = [sent EXCEPT ![g][Len(sent[g])].err = "panic"]
      BY <1>1, <2>1 DEF Errors
    <3> QED BY <1>1, <3>1, SentError
  <2>2. CASE call[g].name # "Encode"
    BY <1>1, <2>2, UnchangedFacts
  <2> QED BY <2>1, <2>2
<1> QED BY <1>4, <1>5, <1>6, <1>7, <1>8, <1>9, <1>10, <1>11, StepOfOne

LEMMA EncodeInv ==
  ASSUME Inv, NEW g \in Goroutines, NEW v \in Values[step], Encode(g, v)
  PROVE  Inv'
<1>1. /\ Idle(g) /\ calls < MaxCalls /\ calls' = calls + 1
      /\ call' = [call EXCEPT ![g] = [name |-> "Encode", val |-> v, stream |-> g]]
      /\ stack' = [stack EXCEPT ![g] = <<Frame(v, g)>>]
      /\ sent' = [sent EXCEPT ![g] = Append(@, [val |-> v, err |-> "running"])]
      /\ UNCHANGED <<step, streams, pool, failures>>
  BY DEF Encode
<1>2. call[g].stream = None /\ stack[g] = <<>>
  BY <1>1 DEF Inv, IsCall
<1>3. InUse(g) = {} /\ Held(g) = {}
  BY <1>2, SubsAreAfter, EmptyStack DEF InUse, Held
<1>4. /\ stack'[g] = <<Frame(v, g)>> /\ DOMAIN stack' = Goroutines
      /\ call'[g].name = "Encode" /\ call'[g].stream = g /\ DOMAIN call' = Goroutines
      /\ sent'[g] = Append(sent[g], [val |-> v, err |-> "running"]) /\ DOMAIN sent' = Goroutines
      /\ \A h \in Goroutines \ {g} : stack'[h] = stack[h] /\ call'[h] = call[h] /\ sent'[h] = sent[h]
  BY <1>1 DEF Inv
<1>5. /\ IsStack(stack'[g], call'[g].stream) /\ Subs(g)' = {}
      /\ \A x : Level(stack'[g], x) = 0
  <2>1. Subs(g)' = SubsAfter(stack'[g], 0)
    BY DEF Subs, SubsAfter
  <2>2. /\ IsStack(<<Frame(v, g)>>, g) /\ SubsAfter(<<Frame(v, g)>>, 0) = {}
        /\ \A x : Level(<<Frame(v, g)>>, x) = 0
    BY FirstCall
  <2> QED BY <1>4, <2>1, <2>2
<1>6. InUse(g)' = {} /\ Held(g)' = {g} /\ call'[g].stream \notin Subs(g)' /\ IsCall(g)'
  BY <1>4, <1>5, ValuesAssumption DEF InUse, Held, IsCall, Idle
<1>7. /\ Made' = Made /\ \A x \in Made' : IsStream(streams'[x])
      /\ streams' = [x \in Made' |-> streams'[x]]
      /\ Goroutines \subseteq Made' /\ Made' \subseteq Goroutines \cup StreamIds
  BY <1>1 DEF Made, Inv
<1>8. \A x \in Held(g)' : streams'[x].indention >= step * Level(stack'[g], x)
  <2>1. streams'[g].indention \in Nat /\ step \in Nat
    BY <1>1, <1>7, ValuesAssumption DEF IsStream, Inv
  <2>2. step * Level(stack'[g], g) = 0
    BY <1>5, <2>1
  <2> QED BY <1>6, <2>1, <2>2
<1>9. /\ Made' \cap StreamIds = pool' \cup InUse(g)' \cup ((Made \cap StreamIds) \ (pool \cup InUse(g)))
      /\ pool' \cap InUse(g)' = {} /\ pool' \subseteq pool \cup InUse(g) /\ pool' \subseteq StreamIds
      /\ InUse(g)' \subseteq InUse(g) \cup CanBorrow
  <2>1. pool \subseteq StreamIds /\ pool \subseteq Made
    BY DEF Inv, PoolBalance
  <2> QED BY <1>1, <1>3, <1>6, <1>7, <2>1
<1>10. calls' \in 0..MaxCalls /\ calls' >= calls /\ failures' \in 0..MaxFailures /\ step' = step
  <2>1. calls \in 0..MaxCalls /\ failures \in 0..MaxFailures
    BY DEF Inv
  <2> QED BY <1>1, <2>1, ValuesAssumption
<1>11. sent'[g] \in Seq([val : Values[step], err : Errors]) /\ Len(sent'[g]) <= calls'
  <2> DEFINE R == [val : Values[step], err : Errors]
             r == [val |-> v, err |-> "running"]
  <2>1. sent[g] \in Seq(R) /\ Len(sent[g]) <= calls /\ calls \in 0..MaxCalls
    BY DEF Inv
  <2>2. r \in R
    BY DEF Errors
  <2> HIDE DEF R, r
  <2>3. Append(sent[g], r) \in Seq(R) /\ Len(Append(sent[g], r)) = Len(sent[g]) + 1 /\ Len(sent[g]) \in Nat
    BY <2>1, <2>2, AppendProperties
  <2>4. sent'[g] = Append(sent[g], r)
    BY <1>4 DEF r
  <2>5. Len(sent[g]) + 1 <= calls'
    BY <1>1, <2>1, <2>3, ValuesAssumption
  <2>6. sent'[g] \in Seq(R) /\ Len(sent'[g]) <= calls'
    BY <2>3, <2>4, <2>5
  <2> QED BY <2>6 DEF R
<1>12. \A x \in Made : x \notin Held(g) /\ x \notin CanBorrow => x \in Made' /\ streams'[x] = streams[x]
  BY <1>1, <1>7
<1> QED BY <1>4, <1>5, <1>6, <1>7, <1>8, <1>9, <1>10, <1>11, <1>12, StepOfOne

LEMMA EncodeReturnsInv == ASSUME Inv, NEW g \in Goroutines, EncodeReturns(g) PROVE Inv'
<1> DEFINE s == Put(streams[g], <<"\n">>)
<1>1. PICK n \in IF s.err = "nil" THEN Taken(g, Len(s.buf)) ELSE {0} :
        /\ streams' = [streams EXCEPT ![g] = Flushed(s, n)]
        /\ failures' = IF s.err = "nil" /\ n # Len(s.buf) THEN failures + 1 ELSE failures
        /\ sent' = [sent EXCEPT ![g][Len(sent[g])].err = Flushed(s, n).err]
  BY DEF EncodeReturns
<1>2. /\ call[g].name = "Encode" /\ stack[g] = <<>> /\ call' = [call EXCEPT ![g] = NoCall]
      /\ UNCHANGED <<step, pool, stack, calls>>
  BY DEF EncodeReturns
<1>3. g \in Made /\ call[g].stream = g
  BY <1>2 DEF Inv, IsCall
<1>4. InUse(g) = {} /\ Held(g) = {g}
  BY <1>2, <1>3, SubsAreAfter, EmptyStack, ValuesAssumption DEF InUse, Held
<1>5. IsStream(s) /\ IsStream(Flushed(s, n)) /\ Flushed(s, n).err \in Errors
  <2>1. IsStream(streams[g])
    BY <1>3 DEF Inv
  <2>2. IsStream(s)
    BY <2>1, PutStream
  <2> HIDE DEF s
  <2>3. IsStream(Flushed(s, n))
    BY <2>2, FlushedStream
  <2> QED BY <2>2, <2>3 DEF IsStream, Errors
<1>6. failures' \in 0..MaxFailures
  <2>1. failures \in 0..MaxFailures /\ HasWriter(g)
    BY DEF Inv, HasWriter
  <2> DEFINE len == Len(s.buf)
  <2>2. failures' = (IF s.err = "nil" /\ n # len THEN failures + 1 ELSE failures)
        /\ n \in IF s.err = "nil" THEN Taken(g, len) ELSE {0}
    BY <1>1
  <2> HIDE DEF s, len
  <2> QED BY <2>1, <2>2, FailuresBounded
<1> HIDE DEF s
<1>7. /\ Made' = Made /\ streams' = [x \in Made' |-> streams'[x]]
      /\ streams'[g] = Flushed(s, n) /\ \A x \in Made : x # g => streams'[x] = streams[x]
  BY <1>1, <1>3 DEF Made
<1>8. \A x \in Made' : IsStream(streams'[x])
  <2>1. \A x \in Made : IsStream(streams[x])
    BY DEF Inv
  <2> QED BY <1>5, <1>7, <2>1
<1>9. /\ stack'[g] = <<>> /\ call'[g] = NoCall /\ DOMAIN stack' = Goroutines /\ DOMAIN call' = Goroutines
      /\ \A h \in Goroutines \ {g} : stack'[h] = stack[h] /\ call'[h] = call[h]
  BY <1>2 DEF Inv
<1>10. /\ IsCall(g)' /\ IsStack(stack'[g], call'[g].stream)
       /\ InUse(g)' = {} /\ Held(g)' = {} /\ call'[g].stream \notin Subs(g)'
  BY <1>9, CallOver
<1>11. /\ Made' \cap StreamIds = pool' \cup InUse(g)' \cup ((Made \cap StreamIds) \ (pool \cup InUse(g)))
       /\ pool' \cap InUse(g)' = {} /\ pool' \subseteq pool \cup InUse(g) /\ pool' \subseteq StreamIds
       /\ InUse(g)' \subseteq InUse(g) \cup CanBorrow
  <2>1. pool \subseteq StreamIds /\ pool \subseteq Made
    BY DEF Inv, PoolBalance
  <2> QED BY <1>2, <1>4, <1>7, <1>10, <2>1
<1>12. /\ Goroutines \subseteq Made' /\ Made' \subseteq Goroutines \cup StreamIds
       /\ \A x \in Made : x \notin Held(g) /\ x \notin CanBorrow => x \in Made' /\ streams'[x] = streams[x]
  <2>1. Goroutines \subseteq Made /\ Made \subseteq Goroutines \cup StreamIds
    BY DEF Inv
  <2> QED BY <1>4, <1>7, <2>1
<1>13. calls' \in 0..MaxCalls /\ calls' >= calls /\ step' = step
  BY <1>2, UnchangedFacts
<1>14. /\ sent'[g] \in Seq([val : Values[step], err : Errors]) /\ Len(sent'[g]) <= calls'
       /\ DOMAIN sent' = Goroutines /\ \A h \in Goroutines \ {g} : sent'[h] = sent[h]
  <2> DEFINE e == Flushed(s, n).err
  <2>1. e \in Errors /\ sent' = [sent EXCEPT ![g][Len(sent[g])].err = e]
    BY <1>1, <1>5
  <2> HIDE DEF e
  <2> QED BY <1>2, <2>1, SentError
<1> QED BY <1>6, <1>7, <1>8, <1>9, <1>10, <1>11, <1>12, <1>13, <1>14, StepOfOne

----------------------------------------------------------------------------
LEMMA InitInv == Init => Inv
<1> SUFFICES ASSUME Init PROVE Inv
  OBVIOUS
<1>1. /\ step \in Steps /\ calls \in 0..MaxCalls /\ failures \in 0..MaxFailures
      /\ DOMAIN stack = Goroutines /\ DOMAIN call = Goroutines /\ DOMAIN sent = Goroutines
      /\ pool = {}
  BY ValuesAssumption DEF Init
<1>2. Made = Goroutines /\ streams = [id \in Made |-> streams[id]] /\ \A id \in Made : IsStream(streams[id])
  BY DEF Init, Made, NewStream, IsStream
<1>3. ASSUME NEW g \in Goroutines
      PROVE  /\ call[g].name = "none" /\ call[g].stream = None /\ stack[g] = <<>> /\ sent[g] = <<>>
             /\ Subs(g) = {} /\ InUse(g) = {} /\ Held(g) = {}
  <2>1. call[g].name = "none" /\ call[g].stream = None /\ stack[g] = <<>> /\ sent[g] = <<>>
    BY DEF Init, NoCall
  <2> QED BY <2>1, SubsAreAfter, EmptyStack DEF InUse, Held
<1>4. ASSUME NEW g \in Goroutines
      PROVE  /\ IsCall(g) /\ IsStack(stack[g], call[g].stream)
             /\ sent[g] \in Seq([val : Values[step], err : Errors]) /\ Len(sent[g]) <= calls
             /\ \A id \in Held(g) : streams[id].indention >= step * Level(stack[g], id)
  <2>1. calls = 0
    BY DEF Init
  <2>2. sent[g] \in Seq([val : Values[step], err : Errors]) /\ Len(sent[g]) <= calls
    <3> DEFINE R == [val : Values[step], err : Errors]
    <3> HIDE DEF R
    <3>1. <<>> \in Seq(R) /\ Len(<<>>) = 0 /\ 0 <= 0
      OBVIOUS
    <3>2. sent[g] \in Seq(R) /\ Len(sent[g]) <= calls
      BY <1>3, <2>1, <3>1
    <3> QED BY <3>2 DEF R
  <2>3. IsCall(g)
    BY <1>3 DEF IsCall, Idle
  <2> QED BY <1>3, <2>2, <2>3, EmptyStack
<1>5. PoolBalance
  <2>1. Made \cap StreamIds = {}
    BY <1>2, ValuesAssumption
  <2> QED BY <1>1, <1>3, <2>1 DEF PoolBalance
<1> QED BY <1>1, <1>2, <1>4, <1>5, ValuesAssumption DEF Inv

LEMMA NextInv == Inv /\ [Next]_vars => Inv'
<1>1. ASSUME Inv, UNCHANGED vars PROVE Inv'
  <2>1. UNCHANGED <<step, streams, pool, stack, call, sent, calls, failures>>
    BY <1>1 DEF vars
  <2>2. /\ Made' = Made
        /\ \A g : /\ IsCall(g)' <=> IsCall(g)
                  /\ Subs(g)' = Subs(g) /\ InUse(g)' = InUse(g) /\ Held(g)' = Held(g)
    BY <2>1 DEF Made, IsCall, Idle, Held, Subs, InUse
  <2>3. PoolBalance' <=> PoolBalance
    BY <2>1, <2>2 DEF PoolBalance
  <2> QED BY <1>1, <2>1, <2>2, <2>3 DEF Inv
<1>2. ASSUME Inv, NEW g \in Goroutines, Run(g) PROVE Inv'
  BY <1>2, EncodeScalarInv, EncodeBadInv, EncodeMarshalerInv, EncodePartInv, EncodeEndInv,
     MapStartInv, MapMemberInv, MapSortInv, MapWriteInv, MapEndInv,
     MarshalReturnsInv, PanicInv, EncodeReturnsInv DEF Run
<1>3. ASSUME Inv, NEW g \in Goroutines, NEW v \in Values[step], Marshal(g, v) \/ Encode(g, v) PROVE Inv'
  BY <1>3, MarshalInv, EncodeInv
<1> QED BY <1>1, <1>2, <1>3 DEF Next

LEMMA SpecInv == Spec => []Inv
  BY InitInv, NextInv, PTL DEF Spec

\* The indention of a stream is a natural number whatever fails or panics, and a
\* goroutine that is in no API call has no encoder running.
THEOREM StreamType == Spec => []TypeOK
  BY SpecInv, InvImplies, PTL

\* Every stream is in the pool or in the hands of one goroutine, whatever the
\* encoders of all goroutines do, in any order: none is lent twice, and only a
\* panic drops the subStreams of the maps it unwinds (pool.go:19, 25).
THEOREM PoolBalanced == Spec => []PoolBalance
  BY SpecInv, InvImplies, PTL

=============================================================================
