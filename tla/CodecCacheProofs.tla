-------------------------- MODULE CodecCacheProofs --------------------------
(***************************************************************************)
(* The unlocked codec cache answers like an atomic registry, with codecs   *)
(* made of the right parts, and as long as there are no maps with          *)
(* interface keys no codec that is used follows a placeholder that points  *)
(* to nothing: for every graph of types, any number of goroutines and any  *)
(* extensions.                                                             *)
(***************************************************************************)
EXTENDS CodecCache, SequenceTheorems, FiniteSetTheorems, FunctionTheorems, TLAPS

----------------------------------------------------------------------------
(* First layer: types, and the shape of the stack.  The outermost frame    *)
(* has one part; the others are for keys; a frame below another still has  *)
(* to do the part that is being made above it.                             *)
Idle(g) == pc[g] \in {"idle", "load", "again", "use"}
BottomOK(f) ==
  /\ f.key = None
  /\ \/ Len(f.todo) = 1 /\ f.parts = <<>>
     \/ f.todo = <<>> /\ Len(f.parts) = 1
StackOK(s) ==
  /\ Len(s) >= 1 /\ BottomOK(s[Len(s)])
  /\ \A i \in 1..(Len(s) - 1) : s[i].key \in Keys
  /\ \A i \in 2..Len(s) : s[i].todo # <<>> /\ Head(s[i].todo) = s[i - 1].key
Typed ==
  /\ exts \in Seq(Extensions)
  /\ cache \in [Keys -> CodecType \cup {None}]
  /\ made \in [Ctxs -> [Keys -> EntryType]]
  /\ calls \in [Goroutines -> 0..MaxCalls]
  /\ pc \in [Goroutines -> {"idle", "load", "again", "build", "use", "key"}]
  /\ want \in [Goroutines -> Keys \cup {None}]
  /\ got \in [Goroutines -> CodecType \cup {None}]
  /\ stack \in [Goroutines -> Seq(FrameType)]
Placed(g) ==
  /\ pc[g] # "idle" => calls[g] > 0
  /\ pc[g] \in {"load", "again", "build"} => want[g] \in Keys
  /\ pc[g] \in {"use", "key"} => got[g] \in CodecType
  /\ Making(g) => StackOK(stack[g])
ShapeInv == Typed /\ \A g \in Goroutines : Placed(g)

(* Second layer: a codec is one an extension brings or one its ctx knows,  *)
(* finished or not, also when it is a part; what is being made has the     *)
(* extensions there are, which do not change while codecs are made.        *)
KnownIn(codec, m) == codec.custom \/ m[codec.ctx][codec.key] # None
PartsKnown(parts, c, m) ==
  \A i \in 1..Len(parts) : parts[i].ctx = c /\ KnownIn(parts[i], m)
WrapsOf(parts, w) == \A i \in 1..Len(parts) : parts[i].wraps = w
FrameGood(f, c, m, w) == PartsKnown(f.parts, c, m) /\ WrapsOf(f.parts, w)
EntriesKnown == \A c \in Ctxs, k \in Keys : Finished(c, k) => PartsKnown(Parts(c, k), c, made)
FramesGood(g) ==
  \A i \in 1..Len(stack[g]) : FrameGood(stack[g][i], Ctx(g), made, exts)
CodecsKnown ==
  /\ \A k \in Keys : cache[k] # None => KnownIn(cache[k], made)
  /\ \A g \in Goroutines : got[g] # None => KnownIn(got[g], made)
WrapsKept ==
  \A g \in Goroutines : pc[g] = "build" /\ cache[want[g]] # None => cache[want[g]].wraps = exts
PartsInv ==
  /\ EntriesKnown /\ CodecsKnown /\ WrapsKept
  /\ \A g \in Goroutines : Making(g) => FramesGood(g)

(* Third layer: whose ctx is whose.  A ctx is settled when the call it was *)
(* made for has its codec.  Codecs others can see have a settled ctx; the  *)
(* ctx of a build is known to its goroutine only, and what is unfinished   *)
(* in it is what the frames of the build are for, each once.               *)
Settled(c) ==
  c[2] < calls[c[1]] \/ (c[2] = calls[c[1]] /\ pc[c[1]] \in {"idle", "use", "key"})
Ahead(h, n) == n > calls[h] \/ (n = calls[h] /\ pc[h] \in {"load", "again"})
Fresh(h) ==
  \A n \in 1..MaxCalls : Ahead(h, n) => \A k \in Keys : made[<<h, n>>][k] = None
Pending(c, k) == made[c][k] # None /\ ~made[c][k].filled
IsOpen(g, k) == \E i \in 1..(Len(stack[g]) - 1) : stack[g][i].key = k
BuildMarks(g) ==
  /\ \A k \in Keys : Pending(<<g, calls[g]>>, k) <=> IsOpen(g, k)
  /\ \A i, j \in 1..(Len(stack[g]) - 1) : stack[g][i].key = stack[g][j].key => i = j
KeyCall(g) ==
  \/ Len(stack[g]) = 1 /\ (stack[g][1].todo # <<>> => Head(stack[g][1].todo) = Key("enc", KeyType))
  \/ Len(stack[g]) = 2 /\ stack[g][1].todo = <<>>
Own(g) ==
  /\ pc[g] = "build" => BuildMarks(g)
  /\ pc[g] = "key" => KeyCall(g)
  /\ ~Making(g) => stack[g] = <<>>
CodecsSettled ==
  /\ \A k \in Keys : cache[k] # None => Settled(cache[k].ctx)
  /\ \A g \in Goroutines : got[g] # None => Settled(got[g].ctx)
SettleInv == CodecsSettled /\ \A g \in Goroutines : Fresh(g) /\ Own(g)

(* Without maps with interface keys nobody comes back to a settled ctx, so *)
(* nothing in it is unfinished.                                            *)
NoDynamicMaps == \A t \in Types : Kind[t] # "dynmap"
SettledFinished ==
  /\ \A g \in Goroutines : pc[g] # "key"
  /\ \A c \in Ctxs : Settled(c) => \A k \in Keys : ~Pending(c, k)

----------------------------------------------------------------------------
(* Operators.                                                              *)
LEMMA KeysFacts ==
  /\ None \notin Keys /\ IsFiniteSet(Types)
  /\ \A s \in {"dec", "enc"}, t \in Types : Key(s, t) \in Keys
  /\ \A k \in Keys : k.side \in {"dec", "enc"} /\ k.type \in Types
  BY TypesAssumption DEF Keys, Key

LEMMA PartsOfType ==
  ASSUME NEW k \in Keys
  PROVE  PartsOf(k) \in Seq(Keys)
<1>1. k.side \in {"dec", "enc"} /\ k.type \in Types
  BY KeysFacts
<1>2. Elems[k.type] \in Seq(Types) /\ Kind[k.type] \in Kinds
  BY <1>1, TypesAssumption
<1>3. CASE Kind[k.type] = "native"
  BY <1>3 DEF PartsOf
<1>4. CASE Kind[k.type] = "struct"
  <2> DEFINE fields == Elems[k.type]
             n == 2 * Len(fields)
  <2>1. Len(fields) \in Nat /\ n \in Nat
    BY <1>2
  <2>2. \A i \in 1..n : (i + 1) \div 2 \in 1..Len(fields)
    BY <2>1
  <2>3. \A i \in 1..n : fields[(i + 1) \div 2] \in Types
    BY <1>2, <2>2
  <2>4. \A i \in 1..n : Key(IF i % 2 = 1 THEN "dec" ELSE "enc", fields[(i + 1) \div 2]) \in Keys
    BY <2>3 DEF Keys, Key
  <2>5. BothOf(fields) \in Seq(Keys)
    BY <2>1, <2>4 DEF BothOf
  <2> QED BY <1>4, <2>5 DEF PartsOf
<1>5. CASE Kind[k.type] \in {"ptr", "slice", "map", "dynmap"}
  <2>1. Elems[k.type] # <<>>
    BY <1>1, <1>5, TypesAssumption
  <2>2. Elems[k.type][1] \in Types
    BY <1>2, <2>1
  <2>3. ElemOf(k) \in Keys /\ Key(k.side, KeyType) \in Keys
    BY <1>1, <2>2, KeysFacts, TypesAssumption DEF ElemOf
  <2> QED BY <1>5, <2>3 DEF PartsOf
<1> QED BY <1>2, <1>3, <1>4, <1>5 DEF Kinds

LEMMA DecoratedType ==
  ASSUME Typed, NEW c \in Ctxs, NEW k \in Keys
  PROVE  /\ Decorated(c, k) \in CodecType
         /\ Decorated(c, k).ctx = c /\ Decorated(c, k).key = k
         /\ Decorated(c, k).wraps = exts /\ Decorated(c, k).custom = Custom(k)
<1>1. Custom(k) \in BOOLEAN
  BY DEF Custom
<1> QED BY <1>1 DEF Decorated, CodecType, Typed

LEMMA BoxedType ==
  ASSUME NEW codec \in CodecType
  PROVE  /\ Boxed(codec) \in CodecType
         /\ Boxed(codec).ctx = codec.ctx /\ Boxed(codec).key = codec.key
         /\ Boxed(codec).wraps = codec.wraps /\ Boxed(codec).custom = codec.custom
<1>1. (codec.key.side = "enc" /\ codec.key.type \in PtrShaped) \in BOOLEAN
  OBVIOUS
<1> HIDE DEF Key
<1> QED BY <1>1 DEF Boxed, CodecType

LEMMA WithType ==
  ASSUME NEW f \in FrameType, NEW codec \in CodecType, f.todo # <<>>
  PROVE  /\ With(f, codec) \in FrameType
         /\ With(f, codec).key = f.key /\ With(f, codec).todo = Tail(f.todo)
         /\ With(f, codec).parts \in {f.parts, Append(f.parts, codec)}
         /\ f.key = None => With(f, codec).parts = Append(f.parts, codec)
<1>1. Tail(f.todo) \in Seq(Keys) /\ Append(f.parts, codec) \in Seq(CodecType) /\ f.parts \in Seq(CodecType)
  BY DEF FrameType
<1> QED BY <1>1 DEF With, FrameType

LEMMA TailOfOne ==
  ASSUME NEW todo \in Seq(Keys), Len(todo) = 1
  PROVE  Tail(todo) = <<>>
<1>1. Tail(todo) \in Seq(Keys) /\ Len(Tail(todo)) = 0
  OBVIOUS
<1> QED BY <1>1, EmptySeq

LEMMA FrameIsFrame ==
  ASSUME NEW k \in Keys \cup {None}, NEW todo \in Seq(Keys)
  PROVE  /\ Frame(k, todo) \in FrameType
         /\ Frame(k, todo).key = k /\ Frame(k, todo).todo = todo /\ Frame(k, todo).parts = <<>>
  BY DEF Frame, FrameType

----------------------------------------------------------------------------
(* Stacks.                                                                 *)
LEMMA ConsProperties ==
  ASSUME NEW S, NEW f \in S, NEW s \in Seq(S)
  PROVE  /\ <<f>> \o s \in Seq(S)
         /\ Len(<<f>> \o s) = Len(s) + 1
         /\ (<<f>> \o s)[1] = f
         /\ \A k \in 1..Len(s) : (<<f>> \o s)[k + 1] = s[k]
         /\ Len(s) \in Nat
<1>1. <<f>> \in Seq(S) /\ Len(<<f>>) = 1 /\ <<f>>[1] = f
  OBVIOUS
<1>2. /\ <<f>> \o s \in Seq(S)
      /\ Len(<<f>> \o s) = 1 + Len(s)
      /\ \A i \in 1..(1 + Len(s)) : (<<f>> \o s)[i] = IF i <= 1 THEN <<f>>[i] ELSE s[i - 1]
  BY <1>1, ConcatProperties
<1>3. Len(s) \in Nat
  OBVIOUS
<1> QED BY <1>1, <1>2, <1>3

LEMMA TailProperties ==
  ASSUME NEW S, NEW s \in Seq(S), Len(s) >= 1
  PROVE  /\ Head(s) = s[1] /\ Head(s) \in S
         /\ Tail(s) \in Seq(S) /\ Len(Tail(s)) = Len(s) - 1
         /\ \A k \in 1..(Len(s) - 1) : Tail(s)[k] = s[k + 1]
  OBVIOUS

(* Take: the frame on top has one part less to do.                         *)
LEMMA StackTake ==
  ASSUME NEW s \in Seq(FrameType), StackOK(s), Head(s).todo # <<>>, NEW codec \in CodecType
  PROVE  LET t == <<With(Head(s), codec)>> \o Tail(s) IN
         /\ t \in Seq(FrameType) /\ StackOK(t) /\ Len(t) = Len(s)
         /\ \A i \in 1..Len(s) : t[i].key = s[i].key
         /\ t[1] = With(s[1], codec) /\ \A i \in 2..Len(s) : t[i] = s[i]
<1> DEFINE f == With(Head(s), codec)
           t == <<f>> \o Tail(s)
<1>1. /\ Head(s) = s[1] /\ Head(s) \in FrameType /\ Tail(s) \in Seq(FrameType) /\ Len(s) \in Nat /\ Len(s) >= 1
      /\ Len(Tail(s)) = Len(s) - 1 /\ \A k \in 1..(Len(s) - 1) : Tail(s)[k] = s[k + 1]
  BY TailProperties DEF StackOK
<1>2. /\ f \in FrameType /\ f.key = s[1].key /\ f.todo = Tail(s[1].todo)
      /\ s[1].key = None => f.parts = Append(s[1].parts, codec)
  BY <1>1, WithType
<1> HIDE DEF f
<1>3. /\ t \in Seq(FrameType) /\ Len(t) = Len(s) /\ t[1] = f
      /\ \A k \in 1..(Len(s) - 1) : t[k + 1] = s[k + 1]
  BY <1>1, <1>2, ConsProperties
<1> HIDE DEF t
<1>4. \A i \in 2..Len(s) : t[i] = s[i]
  <2> SUFFICES ASSUME NEW i \in 2..Len(s) PROVE t[i] = s[i]
    OBVIOUS
  <2>1. i - 1 \in 1..(Len(s) - 1) /\ (i - 1) + 1 = i
    BY <1>1
  <2> QED BY <1>3, <2>1
<1>5. \A i \in 1..Len(s) : t[i].key = s[i].key
  BY <1>1, <1>2, <1>3, <1>4
<1>6. BottomOK(t[Len(t)])
  <2>1. CASE Len(s) = 1
    <3>1. BottomOK(s[1]) /\ s[1].todo # <<>>
      BY <1>1, <2>1 DEF StackOK
    <3>2. /\ Len(s[1].todo) = 1 /\ s[1].parts = <<>> /\ s[1].key = None /\ s[1].todo \in Seq(Keys)
      BY <1>1, <3>1 DEF BottomOK, FrameType
    <3>3. f.todo = <<>> /\ Len(f.parts) = 1 /\ f.key = None
      <4>2. Tail(s[1].todo) = <<>>
        BY <3>2, TailOfOne
      <4>3. Len(Append(s[1].parts, codec)) = 1
        BY <3>2
      <4> QED BY <1>2, <3>2, <4>2, <4>3
    <3> QED BY <1>3, <2>1, <3>3 DEF BottomOK
  <2>2. CASE Len(s) > 1
    BY <1>1, <1>3, <1>4, <2>2 DEF StackOK
  <2> QED BY <1>1, <2>1, <2>2
<1>7. StackOK(t)
  <2>1. \A i \in 1..(Len(t) - 1) : t[i].key \in Keys
    BY <1>1, <1>3, <1>5 DEF StackOK
  <2>2. \A i \in 2..Len(t) : t[i].todo # <<>> /\ Head(t[i].todo) = t[i - 1].key
    BY <1>1, <1>3, <1>4, <1>5 DEF StackOK
  <2> QED BY <1>1, <1>3, <1>6, <2>1, <2>2 DEF StackOK
<1> QED BY <1>3, <1>4, <1>5, <1>7, <1>1 DEF t, f

(* Open: a frame for the next part of the one on top.                      *)
LEMMA StackOpen ==
  ASSUME NEW s \in Seq(FrameType), StackOK(s), Head(s).todo # <<>>, Head(Head(s).todo) \in Keys
  PROVE  LET k == Head(Head(s).todo)
             t == <<Frame(k, PartsOf(k))>> \o s IN
         /\ t \in Seq(FrameType) /\ StackOK(t) /\ Len(t) = Len(s) + 1
         /\ t[1] = Frame(k, PartsOf(k)) /\ \A i \in 1..Len(s) : t[i + 1] = s[i]
<1> DEFINE k == Head(Head(s).todo)
           f == Frame(k, PartsOf(k))
           t == <<f>> \o s
<1>1. f \in FrameType /\ f.key = k
  BY PartsOfType, FrameIsFrame
<1>2. Len(s) \in Nat /\ Len(s) >= 1 /\ Head(s) = s[1]
  BY TailProperties DEF StackOK
<1>3. k = Head(s[1].todo) /\ k \in Keys /\ s[1].todo # <<>>
  BY <1>2
<1> HIDE DEF f, k
<1>4. t \in Seq(FrameType) /\ Len(t) = Len(s) + 1 /\ t[1] = f /\ \A i \in 1..Len(s) : t[i + 1] = s[i]
  BY <1>1, ConsProperties
<1> HIDE DEF t
<1>5. \A i \in 2..Len(t) : i - 1 \in 1..Len(s) /\ t[i] = s[i - 1]
  <2> SUFFICES ASSUME NEW i \in 2..Len(t) PROVE i - 1 \in 1..Len(s) /\ t[i] = s[i - 1]
    OBVIOUS
  <2>1. i - 1 \in 1..Len(s) /\ (i - 1) + 1 = i
    BY <1>2, <1>4
  <2> QED BY <1>4, <2>1
<1>6. BottomOK(t[Len(t)])
  <2>1. t[Len(t)] = s[Len(s)]
    BY <1>2, <1>4
  <2> QED BY <2>1 DEF StackOK
<1>7. \A i \in 1..(Len(t) - 1) : t[i].key \in Keys
  <2> SUFFICES ASSUME NEW i \in 1..(Len(t) - 1) PROVE t[i].key \in Keys
    OBVIOUS
  <2>1. CASE i = 1
    BY <1>1, <1>3, <1>4, <2>1
  <2>2. CASE i # 1
    <3>1. i \in 2..Len(t) /\ i - 1 \in 1..(Len(s) - 1)
      BY <1>2, <1>4, <2>2
    <3> QED BY <1>5, <3>1 DEF StackOK
  <2> QED BY <2>1, <2>2
<1>8. \A i \in 2..Len(t) : t[i].todo # <<>> /\ Head(t[i].todo) = t[i - 1].key
  <2> SUFFICES ASSUME NEW i \in 2..Len(t) PROVE t[i].todo # <<>> /\ Head(t[i].todo) = t[i - 1].key
    OBVIOUS
  <2>1. CASE i = 2
    BY <1>1, <1>3, <1>4, <1>5, <2>1
  <2>2. CASE i # 2
    <3>1. i - 1 \in 2..Len(s) /\ i - 1 \in 2..Len(t) /\ (i - 1) - 1 = i - 2
      BY <1>2, <1>4, <2>2
    <3>2. t[i] = s[i - 1] /\ t[i - 1] = s[i - 2]
      BY <1>5, <3>1
    <3>3. s[i - 1].todo # <<>> /\ Head(s[i - 1].todo) = s[i - 2].key
      BY <3>1 DEF StackOK
    <3> QED BY <3>2, <3>3
  <2> QED BY <2>1, <2>2
<1>9. StackOK(t)
  BY <1>2, <1>4, <1>6, <1>7, <1>8 DEF StackOK
<1> QED BY <1>4, <1>9 DEF t, f, k

(* Close: the frame below takes what the one on top has made.              *)
LEMMA StackClose ==
  ASSUME NEW s \in Seq(FrameType), StackOK(s), Head(s).key # None, NEW codec \in CodecType
  PROVE  LET t == <<With(Head(Tail(s)), codec)>> \o Tail(Tail(s)) IN
         /\ t \in Seq(FrameType) /\ StackOK(t) /\ Len(t) = Len(s) - 1 /\ Len(s) >= 2
         /\ \A i \in 1..(Len(s) - 1) : t[i].key = s[i + 1].key
         /\ t[1] = With(s[2], codec) /\ \A i \in 2..(Len(s) - 1) : t[i] = s[i + 1]
         /\ s[2] \in FrameType /\ s[2].todo # <<>>
<1> DEFINE u == Tail(s)
<1>1. /\ Len(s) \in Nat /\ Len(s) >= 1 /\ Head(s) = s[1]
      /\ u \in Seq(FrameType) /\ Len(u) = Len(s) - 1 /\ \A k \in 1..(Len(s) - 1) : u[k] = s[k + 1]
  BY TailProperties DEF StackOK
<1>2. Len(s) >= 2
  BY <1>1 DEF StackOK, BottomOK
<1>3. StackOK(u)
  <2>1. BottomOK(u[Len(u)])
    BY <1>1, <1>2 DEF StackOK
  <2>2. \A i \in 1..(Len(u) - 1) : u[i].key \in Keys
    BY <1>1 DEF StackOK
  <2>3. ASSUME NEW i \in 2..Len(u) PROVE u[i].todo # <<>> /\ Head(u[i].todo) = u[i - 1].key
    <3>1. i + 1 \in 2..Len(s) /\ (i + 1) - 1 = i /\ i \in 1..(Len(s) - 1) /\ i - 1 \in 1..(Len(s) - 1)
      BY <1>1
    <3>2. u[i] = s[i + 1] /\ u[i - 1] = s[i]
      BY <1>1, <3>1
    <3>3. s[i + 1].todo # <<>> /\ Head(s[i + 1].todo) = s[i].key
      BY <3>1 DEF StackOK
    <3> QED BY <3>2, <3>3
  <2> QED BY <1>1, <1>2, <2>1, <2>2, <2>3 DEF StackOK
<1>4. Head(u) = s[2] /\ s[2].todo # <<>> /\ s[2] \in FrameType
  <2>1. Head(u) = u[1] /\ 1 \in 1..(Len(s) - 1) /\ u[1] = s[2]
    BY <1>1, <1>2, TailProperties
  <2>2. s[2].todo # <<>>
    BY <1>1, <1>2 DEF StackOK
  <2> QED BY <1>1, <1>2, <2>1, <2>2
<1> DEFINE t == <<With(Head(u), codec)>> \o Tail(u)
<1>5. /\ t \in Seq(FrameType) /\ StackOK(t) /\ Len(t) = Len(u)
      /\ \A i \in 1..Len(u) : t[i].key = u[i].key
      /\ t[1] = With(u[1], codec) /\ \A i \in 2..Len(u) : t[i] = u[i]
  BY <1>1, <1>3, <1>4, StackTake
<1> HIDE DEF t, u
<1>6. /\ \A i \in 1..(Len(s) - 1) : t[i].key = s[i + 1].key
      /\ t[1] = With(s[2], codec) /\ \A i \in 2..(Len(s) - 1) : t[i] = s[i + 1]
  BY <1>1, <1>2, <1>5
<1> QED BY <1>1, <1>2, <1>4, <1>5, <1>6 DEF t, u

----------------------------------------------------------------------------
(* First layer.                                                            *)
LEMMA EntryParts ==
  ASSUME NEW e \in EntryType, e # None
  PROVE  e.parts \in Seq(CodecType) /\ e.filled \in BOOLEAN
  BY DEF EntryType, Entries

LEMMA CtxType ==
  ASSUME ShapeInv, NEW g \in Goroutines, Making(g)
  PROVE  Ctx(g) \in Ctxs /\ calls[g] \in 1..MaxCalls /\ pc[g] \in {"build", "key"}
<1>1. Placed(g) /\ pc[g] \in {"build", "key"} /\ calls[g] \in 0..MaxCalls
  BY DEF ShapeInv, Typed, Making
<1>2. calls[g] \in 1..MaxCalls
  BY <1>1, TypesAssumption DEF Placed
<1>3. CASE pc[g] = "key"
  BY <1>1, <1>2, <1>3 DEF Placed, Ctx, CodecType
<1>4. CASE pc[g] = "build"
  BY <1>2, <1>4 DEF Ctx, Ctxs
<1> QED BY <1>1, <1>2, <1>3, <1>4

LEMMA TopType ==
  ASSUME ShapeInv, NEW g \in Goroutines, Making(g)
  PROVE  /\ stack[g] \in Seq(FrameType) /\ StackOK(stack[g]) /\ Len(stack[g]) \in Nat
         /\ Top(g) \in FrameType /\ Top(g) = stack[g][1] /\ Head(stack[g]) = Top(g)
         /\ Top(g).todo \in Seq(Keys) /\ Top(g).parts \in Seq(CodecType)
         /\ Top(g).todo # <<>> => Head(Top(g).todo) \in Keys
         /\ Top(g).key # None => Top(g).key \in Keys
<1>1. stack[g] \in Seq(FrameType) /\ StackOK(stack[g])
  BY DEF ShapeInv, Typed, Placed
<1>2. Len(stack[g]) \in Nat /\ Len(stack[g]) >= 1
  BY <1>1 DEF StackOK
<1>3. Top(g) \in FrameType /\ Top(g) = stack[g][1] /\ Head(stack[g]) = Top(g)
  BY <1>1, <1>2, TailProperties DEF Top
<1>4. Top(g).todo \in Seq(Keys) /\ Top(g).key \in Keys \cup {None} /\ Top(g).parts \in Seq(CodecType)
  BY <1>3 DEF FrameType
<1> QED BY <1>1, <1>2, <1>3, <1>4

LEMMA ResultType ==
  ASSUME ShapeInv, NEW g \in Goroutines, Making(g), Returned(g)
  PROVE  /\ Len(stack[g]) = 1 /\ Top(g).todo = <<>> /\ Len(Top(g).parts) = 1
         /\ Result(g) \in CodecType
<1>1. /\ StackOK(stack[g]) /\ Len(stack[g]) \in Nat /\ Top(g) = stack[g][1]
      /\ Top(g).parts \in Seq(CodecType)
  BY TopType
<1>2. Len(stack[g]) = 1
  <2>1. stack[g][1].key = None
    BY <1>1 DEF Returned
  <2> DEFINE n == Len(stack[g])
  <2>2. ~(n > 1)
    <3> SUFFICES ASSUME n > 1 PROVE FALSE
      OBVIOUS
    <3>1. 1 \in 1..(n - 1)
      BY <1>1
    <3> QED BY <1>1, <2>1, <3>1, KeysFacts DEF StackOK
  <2>3. n >= 1 /\ n \in Nat
    BY <1>1 DEF StackOK
  <2> HIDE DEF n
  <2>4. n = 1
    BY <2>2, <2>3
  <2> QED BY <2>4 DEF n
<1>3. BottomOK(Top(g)) /\ Top(g).todo = <<>>
  BY <1>1, <1>2 DEF StackOK, Returned
<1>4. Len(Top(g).parts) = 1
  BY <1>3 DEF BottomOK
<1> QED BY <1>1, <1>2, <1>3, <1>4 DEF Result

LEMMA Call1OK ==
  ASSUME NEW k \in Keys
  PROVE  /\ Call1(k) \in Seq(FrameType) /\ StackOK(Call1(k)) /\ Len(Call1(k)) = 1
         /\ Call1(k)[1] = Frame(None, <<k>>)
<1>1. /\ Frame(None, <<k>>) \in FrameType /\ Frame(None, <<k>>).key = None
      /\ Frame(None, <<k>>).todo = <<k>> /\ Frame(None, <<k>>).parts = <<>>
  <2>1. <<k>> \in Seq(Keys) /\ None \in Keys \cup {None}
    OBVIOUS
  <2> QED BY <2>1, FrameIsFrame
<1>2. /\ Call1(k) \in Seq(FrameType) /\ Len(Call1(k)) = 1 /\ Call1(k)[1] = Frame(None, <<k>>)
  BY <1>1 DEF Call1
<1>3. BottomOK(Call1(k)[1])
  BY <1>1, <1>2 DEF BottomOK
<1> QED BY <1>2, <1>3 DEF StackOK

(* What the three steps of a build do to the stack of g.                   *)
LEMMA TakeStack ==
  ASSUME ShapeInv, NEW g \in Goroutines, Take(g)
  PROVE  /\ Making(g) /\ Known(g, Head(Top(g).todo))
         /\ UNCHANGED <<exts, cache, made, calls, pc, want, got>>
         /\ stack' \in [Goroutines -> Seq(FrameType)] /\ StackOK(stack'[g])
         /\ \A h \in Goroutines : h # g => stack'[h] = stack[h]
         /\ LET k == Head(Top(g).todo) IN
            /\ k \in Keys /\ Decorated(Ctx(g), k) \in CodecType
            /\ Len(stack'[g]) = Len(stack[g])
            /\ \A i \in 1..Len(stack[g]) : stack'[g][i].key = stack[g][i].key
            /\ stack'[g][1] = With(stack[g][1], Decorated(Ctx(g), k))
            /\ \A i \in 2..Len(stack[g]) : stack'[g][i] = stack[g][i]
<1>1. Making(g) /\ Top(g).todo # <<>>
  BY DEF Take
<1> DEFINE k == Head(Top(g).todo)
<1>2. k \in Keys /\ Ctx(g) \in Ctxs /\ Typed
  BY <1>1, TopType, CtxType DEF ShapeInv
<1>3. Decorated(Ctx(g), k) \in CodecType
  BY <1>2, DecoratedType
<1> DEFINE t == <<With(Head(stack[g]), Decorated(Ctx(g), k))>> \o Tail(stack[g])
<1>4. /\ t \in Seq(FrameType) /\ StackOK(t) /\ Len(t) = Len(stack[g])
      /\ \A i \in 1..Len(stack[g]) : t[i].key = stack[g][i].key
      /\ t[1] = With(stack[g][1], Decorated(Ctx(g), k)) /\ \A i \in 2..Len(stack[g]) : t[i] = stack[g][i]
  <2>1. /\ stack[g] \in Seq(FrameType) /\ StackOK(stack[g])
        /\ Head(stack[g]).todo # <<>> /\ Head(stack[g]) = stack[g][1]
    BY <1>1, TopType
  <2> HIDE DEF k
  <2> QED BY <1>3, <2>1, StackTake
<1>5. stack' = [stack EXCEPT ![g] = t]
  BY DEF Take
<1> HIDE DEF t
<1>6. stack'[g] = t /\ stack' \in [Goroutines -> Seq(FrameType)]
      /\ \A h \in Goroutines : h # g => stack'[h] = stack[h]
  BY <1>2, <1>4, <1>5 DEF Typed
<1> QED BY <1>1, <1>2, <1>3, <1>4, <1>6 DEF Take

LEMMA OpenStack ==
  ASSUME ShapeInv, NEW g \in Goroutines, Open(g)
  PROVE  LET k == Head(Top(g).todo) IN
         /\ Making(g) /\ k \in Keys /\ ~Known(g, k)
         /\ UNCHANGED <<exts, cache, calls, pc, want, got>>
         /\ made' = [made EXCEPT ![Ctx(g)][k] = Placeholder]
         /\ stack' \in [Goroutines -> Seq(FrameType)] /\ StackOK(stack'[g])
         /\ \A h \in Goroutines : h # g => stack'[h] = stack[h]
         /\ Len(stack'[g]) = Len(stack[g]) + 1
         /\ stack'[g][1] = Frame(k, PartsOf(k))
         /\ \A i \in 1..Len(stack[g]) : stack'[g][i + 1] = stack[g][i]
<1>1. Making(g) /\ Top(g).todo # <<>> /\ Typed
  BY DEF Open, ShapeInv
<1> DEFINE k == Head(Top(g).todo)
           t == <<Frame(k, PartsOf(k))>> \o stack[g]
<1>2. k \in Keys
  BY <1>1, TopType
<1>3. /\ t \in Seq(FrameType) /\ StackOK(t) /\ Len(t) = Len(stack[g]) + 1
      /\ t[1] = Frame(k, PartsOf(k)) /\ \A i \in 1..Len(stack[g]) : t[i + 1] = stack[g][i]
  <2>1. /\ stack[g] \in Seq(FrameType) /\ StackOK(stack[g])
        /\ Head(stack[g]).todo # <<>> /\ k = Head(Head(stack[g]).todo)
    BY <1>1, TopType DEF Top
  <2>2. Head(Head(stack[g]).todo) \in Keys
    BY <1>2, <2>1
  <2> HIDE DEF k
  <2> QED BY <2>1, <2>2, StackOpen
<1>4. stack' = [stack EXCEPT ![g] = t]
  BY DEF Open
<1> HIDE DEF t
<1>5. stack'[g] = t /\ stack' \in [Goroutines -> Seq(FrameType)]
      /\ \A h \in Goroutines : h # g => stack'[h] = stack[h]
  BY <1>1, <1>3, <1>4 DEF Typed
<1> QED BY <1>1, <1>2, <1>3, <1>5 DEF Open

LEMMA CloseStack ==
  ASSUME ShapeInv, NEW g \in Goroutines, Close(g)
  PROVE  LET k == Top(g).key IN
         /\ Making(g) /\ k \in Keys
         /\ UNCHANGED <<exts, cache, calls, pc, want, got>>
         /\ made' = [made EXCEPT ![Ctx(g)][k] = Made(Top(g).parts)]
         /\ stack' \in [Goroutines -> Seq(FrameType)] /\ StackOK(stack'[g])
         /\ \A h \in Goroutines : h # g => stack'[h] = stack[h]
         /\ Decorated(Ctx(g), k) \in CodecType
         /\ Len(stack'[g]) = Len(stack[g]) - 1 /\ Len(stack[g]) >= 2
         /\ \A i \in 1..(Len(stack[g]) - 1) : stack'[g][i].key = stack[g][i + 1].key
         /\ stack'[g][1] = With(stack[g][2], Decorated(Ctx(g), k))
         /\ \A i \in 2..(Len(stack[g]) - 1) : stack'[g][i] = stack[g][i + 1]
         /\ stack[g][2] \in FrameType /\ stack[g][2].todo # <<>>
<1>1. Making(g) /\ Top(g).key # None /\ Typed
  BY DEF Close, ShapeInv
<1> DEFINE k == Top(g).key
           s == stack[g]
           t == <<With(Head(Tail(s)), Decorated(Ctx(g), k))>> \o Tail(Tail(s))
<1>2. k \in Keys /\ Ctx(g) \in Ctxs
  BY <1>1, TopType, CtxType
<1>3. Decorated(Ctx(g), k) \in CodecType
  BY <1>1, <1>2, DecoratedType
<1>4. /\ t \in Seq(FrameType) /\ StackOK(t) /\ Len(t) = Len(s) - 1 /\ Len(s) >= 2
      /\ \A i \in 1..(Len(s) - 1) : t[i].key = s[i + 1].key
      /\ t[1] = With(s[2], Decorated(Ctx(g), k)) /\ \A i \in 2..(Len(s) - 1) : t[i] = s[i + 1]
      /\ s[2] \in FrameType /\ s[2].todo # <<>>
  BY <1>1, <1>3, TopType, StackClose
<1>5. stack' = [stack EXCEPT ![g] = t]
  BY DEF Close
<1> HIDE DEF t
<1>6. stack'[g] = t /\ stack' \in [Goroutines -> Seq(FrameType)]
      /\ \A h \in Goroutines : h # g => stack'[h] = stack[h]
  BY <1>1, <1>4, <1>5 DEF Typed
<1> QED BY <1>1, <1>2, <1>3, <1>4, <1>6 DEF Close

LEMMA ShapeInit == Init => ShapeInv
<1> SUFFICES ASSUME Init PROVE ShapeInv
  OBVIOUS
<1>1. Typed
  BY TypesAssumption DEF Init, Typed, EntryType
<1>2. \A g \in Goroutines : Placed(g)
  BY DEF Init, Placed, Making
<1> QED BY <1>1, <1>2 DEF ShapeInv

LEMMA ShapeNext == ShapeInv /\ [Next]_vars => ShapeInv'
<1> SUFFICES ASSUME ShapeInv, [Next]_vars PROVE ShapeInv'
  OBVIOUS
<1>1. Typed /\ \A g \in Goroutines : Placed(g)
  BY DEF ShapeInv
<1>2. CASE UNCHANGED vars
  BY <1>1, <1>2 DEF vars, ShapeInv, Typed, Placed, Making
<1>3. ASSUME NEW e \in Extensions, RegisterExtension(e) PROVE ShapeInv'
  <2>1. exts' \in Seq(Extensions)
    BY <1>1, <1>3 DEF RegisterExtension, Typed
  <2> QED BY <1>1, <1>3, <2>1 DEF RegisterExtension, ShapeInv, Typed, Placed, Making
<1>4. ASSUME NEW g \in Goroutines, NEW k \in Requests, Ask(g, k) PROVE ShapeInv'
  <2>1. k \in Keys /\ calls[g] \in 0..MaxCalls /\ calls[g] < MaxCalls
    BY <1>1, <1>4, TypesAssumption DEF Ask, Typed
  <2>2. calls[g] + 1 \in 0..MaxCalls /\ calls[g] + 1 > 0
    BY <2>1, TypesAssumption
  <2>3. Typed'
    BY <1>1, <1>4, <2>1, <2>2 DEF Ask, Typed
  <2>4. /\ pc'[g] = "load" /\ want'[g] = k /\ calls'[g] > 0
        /\ \A h \in Goroutines : h # g => /\ pc'[h] = pc[h] /\ want'[h] = want[h]
                                          /\ calls'[h] = calls[h] /\ got'[h] = got[h]
        /\ stack' = stack
    BY <1>1, <1>4, <2>2 DEF Ask, Typed
  <2>5. \A h \in Goroutines : Placed(h)'
    BY <1>1, <2>1, <2>4 DEF Placed, Making
  <2> QED BY <2>3, <2>5 DEF ShapeInv
<1>5. ASSUME NEW g \in Goroutines, Hit(g) PROVE ShapeInv'
  <2>1. want[g] \in Keys /\ cache[want[g]] \in CodecType
    BY <1>1, <1>5 DEF Hit, Lookup, Typed, Placed
  <2>2. Typed'
    BY <1>1, <1>5, <2>1 DEF Hit, Lookup, Typed
  <2>3. /\ pc'[g] = "use" /\ got'[g] = cache[want[g]] /\ calls' = calls /\ want' = want /\ stack' = stack
        /\ pc[g] # "idle"
        /\ \A h \in Goroutines : h # g => pc'[h] = pc[h] /\ got'[h] = got[h]
    BY <1>1, <1>5 DEF Hit, Lookup, Typed
  <2>4. \A h \in Goroutines : Placed(h)'
    BY <1>1, <2>1, <2>3 DEF Placed, Making
  <2> QED BY <2>2, <2>4 DEF ShapeInv
<1>6. ASSUME NEW g \in Goroutines, Miss(g) PROVE ShapeInv'
  BY <1>1, <1>6 DEF Miss, ShapeInv, Typed, Placed, Making
<1>7. ASSUME NEW g \in Goroutines, Build(g) PROVE ShapeInv'
  <2>1. want[g] \in Keys /\ pc[g] # "idle"
    BY <1>1, <1>7 DEF Build, Typed, Placed
  <2>2. Call1(want[g]) \in Seq(FrameType) /\ StackOK(Call1(want[g]))
    BY <2>1, Call1OK
  <2>3. Typed'
    BY <1>1, <1>7, <2>2 DEF Build, Typed
  <2>4. /\ pc'[g] = "build" /\ stack'[g] = Call1(want[g]) /\ UNCHANGED <<calls, want, got>>
        /\ \A h \in Goroutines : h # g => pc'[h] = pc[h] /\ stack'[h] = stack[h]
    BY <1>1, <1>7 DEF Build, Typed
  <2>5. \A h \in Goroutines : Placed(h)'
    BY <1>1, <2>1, <2>2, <2>4 DEF Placed, Making
  <2> QED BY <2>3, <2>5 DEF ShapeInv
<1>8. ASSUME NEW g \in Goroutines, Take(g) PROVE ShapeInv'
  <2>1. /\ UNCHANGED <<exts, cache, made, calls, pc, want, got>>
        /\ stack' \in [Goroutines -> Seq(FrameType)] /\ StackOK(stack'[g])
        /\ \A h \in Goroutines : h # g => stack'[h] = stack[h]
    BY <1>8, TakeStack
  <2> QED BY <1>1, <2>1 DEF ShapeInv, Typed, Placed, Making
<1>9. ASSUME NEW g \in Goroutines, Open(g) PROVE ShapeInv'
  <2>1. /\ UNCHANGED <<exts, cache, calls, pc, want, got>> /\ Making(g)
        /\ stack' \in [Goroutines -> Seq(FrameType)] /\ StackOK(stack'[g])
        /\ \A h \in Goroutines : h # g => stack'[h] = stack[h]
        /\ Head(Top(g).todo) \in Keys
        /\ made' = [made EXCEPT ![Ctx(g)][Head(Top(g).todo)] = Placeholder]
    BY <1>9, OpenStack
  <2>2. Placeholder \in EntryType /\ Ctx(g) \in Ctxs
    BY <2>1, CtxType DEF Placeholder, EntryType, Entries
  <2>3. made' \in [Ctxs -> [Keys -> EntryType]]
    BY <1>1, <2>1, <2>2 DEF Typed
  <2> QED BY <1>1, <2>1, <2>3 DEF ShapeInv, Typed, Placed, Making
<1>10. ASSUME NEW g \in Goroutines, Close(g) PROVE ShapeInv'
  <2>1. /\ UNCHANGED <<exts, cache, calls, pc, want, got>> /\ Making(g)
        /\ stack' \in [Goroutines -> Seq(FrameType)] /\ StackOK(stack'[g])
        /\ \A h \in Goroutines : h # g => stack'[h] = stack[h]
        /\ Top(g).key \in Keys
        /\ made' = [made EXCEPT ![Ctx(g)][Top(g).key] = Made(Top(g).parts)]
    BY <1>10, CloseStack
  <2>2. Made(Top(g).parts) \in EntryType /\ Ctx(g) \in Ctxs
    BY <2>1, CtxType, TopType DEF Made, EntryType, Entries
  <2>3. made' \in [Ctxs -> [Keys -> EntryType]]
    BY <1>1, <2>1, <2>2 DEF Typed
  <2> QED BY <1>1, <2>1, <2>3 DEF ShapeInv, Typed, Placed, Making
<1>11. ASSUME NEW g \in Goroutines, Store(g) PROVE ShapeInv'
  <2>1. Making(g) /\ Returned(g) /\ want[g] \in Keys /\ pc[g] # "idle"
    BY <1>1, <1>11 DEF Store, Making, Placed
  <2>2. Boxed(Result(g)) \in CodecType
    BY <2>1, ResultType, BoxedType
  <2>3. Typed'
    BY <1>1, <1>11, <2>1, <2>2 DEF Store, Typed
  <2>4. /\ pc'[g] = "use" /\ got'[g] = Boxed(Result(g)) /\ UNCHANGED <<calls, want>>
        /\ \A h \in Goroutines : h # g => pc'[h] = pc[h] /\ stack'[h] = stack[h] /\ got'[h] = got[h]
    BY <1>1, <1>11 DEF Store, Typed
  <2>5. \A h \in Goroutines : Placed(h)'
    BY <1>1, <2>1, <2>2, <2>4 DEF Placed, Making
  <2> QED BY <2>3, <2>5 DEF ShapeInv
<1>12. ASSUME NEW g \in Goroutines, EncodeKey(g) PROVE ShapeInv'
  <2>1. Key("enc", KeyType) \in Keys /\ pc[g] = "use" /\ got[g] \in CodecType
    BY <1>1, <1>12, KeysFacts, TypesAssumption DEF EncodeKey, Placed
  <2>2. Call1(Key("enc", KeyType)) \in Seq(FrameType) /\ StackOK(Call1(Key("enc", KeyType)))
    BY <2>1, Call1OK
  <2>3. Typed'
    BY <1>1, <1>12, <2>2 DEF EncodeKey, Typed
  <2>4. /\ pc'[g] = "key" /\ stack'[g] = Call1(Key("enc", KeyType)) /\ UNCHANGED <<calls, want, got>>
        /\ \A h \in Goroutines : h # g => pc'[h] = pc[h] /\ stack'[h] = stack[h]
    BY <1>1, <1>12 DEF EncodeKey, Typed
  <2>5. \A h \in Goroutines : Placed(h)'
    BY <1>1, <2>1, <2>2, <2>4 DEF Placed, Making
  <2> QED BY <2>3, <2>5 DEF ShapeInv
<1>13. ASSUME NEW g \in Goroutines, Return(g) PROVE ShapeInv'
  BY <1>1, <1>13 DEF Return, ShapeInv, Typed, Placed, Making
<1> QED BY <1>2, <1>3, <1>4, <1>5, <1>6, <1>7, <1>8, <1>9, <1>10, <1>11, <1>12, <1>13 DEF Next, Run

----------------------------------------------------------------------------
(* Second layer.                                                           *)

\* an entry of a ctx is never taken out again
Grows == \A c \in Ctxs, k \in Keys : made[c][k] # None => made'[c][k] # None

LEMMA KnownGrows ==
  ASSUME Grows, NEW codec \in CodecType, KnownIn(codec, made)
  PROVE  KnownIn(codec, made')
<1>1. codec.ctx \in Ctxs /\ codec.key \in Keys
  BY DEF CodecType
<1> QED BY <1>1 DEF Grows, KnownIn

LEMMA PartsGrow ==
  ASSUME Grows, NEW parts \in Seq(CodecType), NEW c, PartsKnown(parts, c, made)
  PROVE  PartsKnown(parts, c, made')
<1>1. \A i \in 1..Len(parts) : parts[i] \in CodecType
  OBVIOUS
<1> QED BY <1>1, KnownGrows DEF PartsKnown

LEMMA FrameWith ==
  ASSUME NEW f \in FrameType, NEW codec \in CodecType, f.todo # <<>>, NEW c, NEW m, NEW w,
         FrameGood(f, c, m, w), codec.ctx = c, KnownIn(codec, m), codec.wraps = w
  PROVE  FrameGood(With(f, codec), c, m, w)
<1>1. With(f, codec).parts \in {f.parts, Append(f.parts, codec)} /\ f.parts \in Seq(CodecType)
  BY WithType DEF FrameType
<1>2. CASE With(f, codec).parts = f.parts
  BY <1>2 DEF FrameGood
<1>3. CASE With(f, codec).parts = Append(f.parts, codec)
  <2>1. /\ Len(Append(f.parts, codec)) = Len(f.parts) + 1 /\ Len(f.parts) \in Nat
        /\ Append(f.parts, codec)[Len(f.parts) + 1] = codec
        /\ \A i \in 1..Len(f.parts) : Append(f.parts, codec)[i] = f.parts[i]
    BY <1>1
  <2>2. \A i \in 1..(Len(f.parts) + 1) : i \in 1..Len(f.parts) \/ i = Len(f.parts) + 1
    BY <2>1
  <2> QED BY <1>3, <2>1, <2>2 DEF FrameGood, PartsKnown, WrapsOf
<1> QED BY <1>1, <1>2, <1>3

LEMMA FramesGrow ==
  ASSUME ShapeInv, Grows, NEW h \in Goroutines, Making(h), FramesGood(h),
         exts' = exts, pc'[h] = pc[h], got'[h] = got[h], calls'[h] = calls[h], stack'[h] = stack[h]
  PROVE  FramesGood(h)'
<1>1. stack[h] \in Seq(FrameType) /\ Ctx(h)' = Ctx(h)
  BY TopType DEF Ctx
<1>2. \A i \in 1..Len(stack[h]) : stack[h][i].parts \in Seq(CodecType)
  <2>1. \A i \in 1..Len(stack[h]) : stack[h][i] \in FrameType
    BY <1>1
  <2> QED BY <2>1 DEF FrameType
<1> QED BY <1>1, <1>2, PartsGrow DEF FramesGood, FrameGood

LEMMA PartsInit == Init => PartsInv
<1> SUFFICES ASSUME Init PROVE PartsInv
  OBVIOUS
<1>1. EntriesKnown
  BY DEF Init, EntriesKnown, Finished
<1>2. CodecsKnown
  BY DEF Init, CodecsKnown
<1> QED BY <1>1, <1>2 DEF Init, PartsInv, WrapsKept, Making

(* A step that leaves the ctxs and the extensions alone.                   *)
LEMMA QuietParts ==
  ASSUME ShapeInv, PartsInv, UNCHANGED <<exts, cache, made>>, NEW g \in Goroutines,
         \A h \in Goroutines : h # g => /\ pc'[h] = pc[h] /\ got'[h] = got[h] /\ calls'[h] = calls[h]
                                       /\ stack'[h] = stack[h] /\ want'[h] = want[h],
         got'[g] # None => KnownIn(got'[g], made),
         Making(g)' => FramesGood(g)',
         pc'[g] = "build" /\ cache[want'[g]] # None => cache[want'[g]].wraps = exts
  PROVE  PartsInv'
<1>1. Grows
  BY DEF Grows
<1>2. EntriesKnown' /\ CodecsKnown'
  BY DEF PartsInv, EntriesKnown, CodecsKnown, Finished, Parts
<1>3. WrapsKept'
  BY DEF PartsInv, WrapsKept
<1>4. \A h \in Goroutines : Making(h)' => FramesGood(h)'
  <2> SUFFICES ASSUME NEW h \in Goroutines, h # g, Making(h)' PROVE FramesGood(h)'
    OBVIOUS
  <2>1. Making(h) /\ FramesGood(h)
    BY DEF Making, PartsInv
  <2> QED BY <1>1, <2>1, FramesGrow
<1> QED BY <1>2, <1>3, <1>4 DEF PartsInv

LEMMA NewCallGood ==
  ASSUME NEW g \in Goroutines, NEW k \in Keys, stack'[g] = Call1(k)
  PROVE  FramesGood(g)'
<1>1. <<k>> \in Seq(Keys) /\ None \in Keys \cup {None}
  OBVIOUS
<1>2. Len(stack'[g]) = 1 /\ stack'[g][1].parts = <<>>
  <2>1. Frame(None, <<k>>).parts = <<>>
    BY <1>1, FrameIsFrame
  <2> QED BY <2>1, Call1OK
<1>3. \A i \in 1..Len(stack'[g]) : stack'[g][i].parts = <<>>
  BY <1>2
<1>4. \A i \in 1..Len(<<>>) : FALSE
  OBVIOUS
<1> QED BY <1>3, <1>4 DEF FramesGood, FrameGood, PartsKnown, WrapsOf

LEMMA TakeParts ==
  ASSUME ShapeInv, PartsInv, NEW g \in Goroutines, Take(g)
  PROVE  PartsInv'
<1> DEFINE k == Head(Top(g).todo)
           d == Decorated(Ctx(g), k)
<1>1. /\ Making(g) /\ Known(g, k) /\ k \in Keys /\ d \in CodecType
      /\ UNCHANGED <<exts, cache, made, calls, pc, want, got>>
      /\ \A h \in Goroutines : h # g => stack'[h] = stack[h]
      /\ Len(stack'[g]) = Len(stack[g])
      /\ stack'[g][1] = With(stack[g][1], d)
      /\ \A i \in 2..Len(stack[g]) : stack'[g][i] = stack[g][i]
  BY TakeStack
<1>2. stack[g][1] \in FrameType /\ stack[g][1].todo # <<>> /\ Len(stack[g]) \in Nat /\ Len(stack[g]) >= 1
  BY <1>1, TopType DEF Take, StackOK
<1>3. d.ctx = Ctx(g) /\ d.wraps = exts /\ KnownIn(d, made)
  <2>1. d.ctx = Ctx(g) /\ d.wraps = exts /\ d.key = k /\ d.custom = Custom(k)
    BY <1>1, CtxType, DecoratedType DEF ShapeInv
  <2> HIDE DEF d, k
  <2> QED BY <1>1, <2>1 DEF Known, KnownIn
<1> HIDE DEF d, k
<1>4. FramesGood(g)
  BY <1>1 DEF PartsInv
<1>5. FrameGood(stack'[g][1], Ctx(g), made, exts)
  <2>1. FrameGood(stack[g][1], Ctx(g), made, exts)
    BY <1>2, <1>4 DEF FramesGood
  <2> QED BY <1>1, <1>2, <1>3, <2>1, FrameWith
<1>6. Ctx(g)' = Ctx(g)
  BY <1>1 DEF Ctx
<1>7. FramesGood(g)'
  <2> SUFFICES ASSUME NEW i \in 1..Len(stack'[g]) PROVE FrameGood(stack'[g][i], Ctx(g), made, exts)
    BY <1>1, <1>6 DEF FramesGood
  <2>1. i = 1 \/ i \in 2..Len(stack[g])
    BY <1>1, <1>2
  <2> QED BY <1>1, <1>2, <1>4, <1>5, <2>1 DEF FramesGood
<1>8. got[g] # None => KnownIn(got[g], made)
  BY DEF PartsInv, CodecsKnown
<1> QED BY <1>1, <1>7, <1>8, QuietParts DEF PartsInv, WrapsKept

LEMMA OpenParts ==
  ASSUME ShapeInv, PartsInv, NEW g \in Goroutines, Open(g)
  PROVE  PartsInv' /\ Grows
<1> DEFINE k == Head(Top(g).todo)
           c == Ctx(g)
<1>1. /\ Making(g) /\ ~Known(g, k) /\ k \in Keys
      /\ UNCHANGED <<exts, cache, calls, pc, want, got>>
      /\ made' = [made EXCEPT ![c][k] = Placeholder]
      /\ \A h \in Goroutines : h # g => stack'[h] = stack[h]
      /\ Len(stack'[g]) = Len(stack[g]) + 1
      /\ stack'[g][1] = Frame(k, PartsOf(k))
      /\ \A i \in 1..Len(stack[g]) : stack'[g][i + 1] = stack[g][i]
  BY OpenStack
<1>2. c \in Ctxs /\ Typed /\ Len(stack[g]) \in Nat /\ c' = c
  BY <1>1, CtxType, TopType DEF ShapeInv, Ctx
<1>3. /\ made'[c][k] = Placeholder
      /\ \A d \in Ctxs, j \in Keys : (d # c \/ j # k) => made'[d][j] = made[d][j]
  BY <1>1, <1>2 DEF Typed
<1> HIDE DEF k, c
<1>4. Placeholder # None /\ ~Placeholder.filled
  <2>1. Placeholder.filled = FALSE /\ <<>> \in Seq(CodecType)
    BY DEF Placeholder
  <2>2. Placeholder \in Entries
    BY <2>1 DEF Placeholder, Entries
  <2> QED BY <2>1, <2>2, NoneAssumption
<1>5. Grows
  BY <1>3, <1>4 DEF Grows
<1>6. EntriesKnown'
  <2> SUFFICES ASSUME NEW d \in Ctxs, NEW j \in Keys, Finished(d, j)'
               PROVE  PartsKnown(made'[d][j].parts, d, made')
    BY DEF EntriesKnown, Parts
  <2>1. made'[d][j] = made[d][j] /\ Finished(d, j)
    BY <1>3, <1>4 DEF Finished
  <2>2. PartsKnown(made[d][j].parts, d, made)
    BY <2>1 DEF PartsInv, EntriesKnown, Parts
  <2>3. made[d][j].parts \in Seq(CodecType)
    BY <1>2, <2>1, EntryParts DEF Typed, Finished
  <2> QED BY <1>5, <2>1, <2>2, <2>3, PartsGrow
<1>7. CodecsKnown'
  BY <1>1, <1>2, <1>5, KnownGrows DEF PartsInv, CodecsKnown, Typed
<1>8. WrapsKept'
  BY <1>1 DEF PartsInv, WrapsKept
<1>9. \A h \in Goroutines : h # g /\ Making(h)' => FramesGood(h)'
  BY <1>1, <1>5, FramesGrow DEF PartsInv, Making
<1>10. FramesGood(g)'
  <2> SUFFICES ASSUME NEW i \in 1..Len(stack'[g]) PROVE FrameGood(stack'[g][i], c, made', exts)
    BY <1>1, <1>2 DEF FramesGood, c
  <2>1. CASE i = 1
    <3>1. stack'[g][1].parts = <<>>
      BY <1>1, PartsOfType, FrameIsFrame
    <3>2. \A n \in 1..Len(<<>>) : FALSE
      OBVIOUS
    <3> QED BY <2>1, <3>1, <3>2 DEF FrameGood, PartsKnown, WrapsOf
  <2>2. CASE i # 1
    <3>1. i - 1 \in 1..Len(stack[g]) /\ (i - 1) + 1 = i
      BY <1>1, <1>2, <2>2
    <3>2. stack'[g][i] = stack[g][i - 1]
      BY <1>1, <3>1
    <3>3. FrameGood(stack[g][i - 1], c, made, exts)
      BY <1>1, <3>1 DEF PartsInv, FramesGood, c
    <3>4. stack[g][i - 1].parts \in Seq(CodecType)
      <4>1. stack[g] \in Seq(FrameType)
        BY <1>2 DEF Typed
      <4>2. stack[g][i - 1] \in FrameType
        BY <3>1, <4>1
      <4> QED BY <4>2 DEF FrameType
    <3> QED BY <1>5, <3>2, <3>3, <3>4, PartsGrow DEF FrameGood
  <2> QED BY <2>1, <2>2
<1> QED BY <1>5, <1>6, <1>7, <1>8, <1>9, <1>10 DEF PartsInv

LEMMA CloseParts ==
  ASSUME ShapeInv, PartsInv, NEW g \in Goroutines, Close(g)
  PROVE  PartsInv' /\ Grows
<1> DEFINE k == Top(g).key
           c == Ctx(g)
           d == Decorated(c, k)
           e == Made(Top(g).parts)
<1>1. /\ Making(g) /\ k \in Keys /\ d \in CodecType
      /\ UNCHANGED <<exts, cache, calls, pc, want, got>>
      /\ made' = [made EXCEPT ![c][k] = e]
      /\ \A h \in Goroutines : h # g => stack'[h] = stack[h]
      /\ Len(stack'[g]) = Len(stack[g]) - 1 /\ Len(stack[g]) >= 2
      /\ stack'[g][1] = With(stack[g][2], d)
      /\ \A i \in 2..(Len(stack[g]) - 1) : stack'[g][i] = stack[g][i + 1]
      /\ stack[g][2] \in FrameType /\ stack[g][2].todo # <<>>
  BY CloseStack
<1>2. /\ c \in Ctxs /\ Typed /\ Len(stack[g]) \in Nat /\ c' = c
      /\ Top(g) = stack[g][1] /\ Top(g).parts \in Seq(CodecType) /\ stack[g] \in Seq(FrameType)
  BY <1>1, CtxType, TopType DEF ShapeInv, Ctx
<1>3. /\ made'[c][k] = e
      /\ \A b \in Ctxs, j \in Keys : (b # c \/ j # k) => made'[b][j] = made[b][j]
  BY <1>1, <1>2 DEF Typed
<1>4. d.ctx = c /\ d.wraps = exts /\ d.key = k
  BY <1>1, <1>2, DecoratedType
<1>5. e # None /\ e.parts = Top(g).parts
  <2>1. e \in Entries /\ e.parts = Top(g).parts
    BY <1>2 DEF Made, Entries
  <2> QED BY <2>1, NoneAssumption
<1> HIDE DEF k, c, d, e
<1>6. Grows
  BY <1>3, <1>5 DEF Grows
<1>7. FramesGood(g)
  BY <1>1 DEF PartsInv
<1>8. \A i \in 1..Len(stack[g]) : FrameGood(stack[g][i], c, made', exts)
  <2> SUFFICES ASSUME NEW i \in 1..Len(stack[g]) PROVE FrameGood(stack[g][i], c, made', exts)
    OBVIOUS
  <2>1. stack[g][i].parts \in Seq(CodecType)
    <3>1. stack[g][i] \in FrameType
      BY <1>2
    <3> QED BY <3>1 DEF FrameType
  <2>2. FrameGood(stack[g][i], c, made, exts)
    BY <1>7 DEF FramesGood, c
  <2> QED BY <1>6, <2>1, <2>2, PartsGrow DEF FrameGood
<1>9. EntriesKnown'
  <2> SUFFICES ASSUME NEW b \in Ctxs, NEW j \in Keys, Finished(b, j)'
               PROVE  PartsKnown(made'[b][j].parts, b, made')
    BY DEF EntriesKnown, Parts
  <2>1. CASE b = c /\ j = k
    <3>1. FrameGood(stack[g][1], c, made', exts)
      <4>1. 1 \in 1..Len(stack[g])
        BY <1>1, <1>2
      <4> QED BY <1>8, <4>1
    <3> QED BY <1>2, <1>3, <1>5, <2>1, <3>1 DEF FrameGood
  <2>2. CASE b # c \/ j # k
    <3>1. made'[b][j] = made[b][j] /\ Finished(b, j)
      BY <1>3, <2>2 DEF Finished
    <3>2. PartsKnown(made[b][j].parts, b, made)
      BY <3>1 DEF PartsInv, EntriesKnown, Parts
    <3>3. made[b][j].parts \in Seq(CodecType)
      BY <1>2, <3>1, EntryParts DEF Typed, Finished
    <3> QED BY <1>6, <3>1, <3>2, <3>3, PartsGrow
  <2> QED BY <2>1, <2>2
<1>10. CodecsKnown'
  BY <1>1, <1>2, <1>6, KnownGrows DEF PartsInv, CodecsKnown, Typed
<1>11. WrapsKept'
  BY <1>1 DEF PartsInv, WrapsKept
<1>12. \A h \in Goroutines : h # g /\ Making(h)' => FramesGood(h)'
  BY <1>1, <1>6, FramesGrow DEF PartsInv, Making
<1>13. FramesGood(g)'
  <2> SUFFICES ASSUME NEW i \in 1..Len(stack'[g]) PROVE FrameGood(stack'[g][i], c, made', exts)
    BY <1>1, <1>2 DEF FramesGood, c
  <2>1. CASE i = 1
    <3>1. KnownIn(d, made')
      BY <1>3, <1>4, <1>5 DEF KnownIn
    <3>2. FrameGood(stack[g][2], c, made', exts)
      <4>1. 2 \in 1..Len(stack[g])
        BY <1>1, <1>2
      <4> QED BY <1>8, <4>1
    <3> QED BY <1>1, <1>4, <2>1, <3>1, <3>2, FrameWith
  <2>2. CASE i # 1
    <3>1. i \in 2..(Len(stack[g]) - 1) /\ i + 1 \in 1..Len(stack[g])
      BY <1>1, <1>2, <2>2
    <3> QED BY <1>1, <1>8, <3>1
  <2> QED BY <2>1, <2>2
<1> QED BY <1>6, <1>9, <1>10, <1>11, <1>12, <1>13 DEF PartsInv

LEMMA StoredCodec ==
  ASSUME ShapeInv, PartsInv, NEW g \in Goroutines, Store(g)
  PROVE  LET b == Boxed(Result(g)) IN
         /\ b \in CodecType /\ b.wraps = exts /\ KnownIn(b, made) /\ b.ctx = <<g, calls[g]>>
         /\ want[g] \in Keys
         /\ cache' = [cache EXCEPT ![want[g]] = b]
         /\ got' = [got EXCEPT ![g] = b]
<1>1. Making(g) /\ Returned(g) /\ want[g] \in Keys /\ pc[g] = "build"
  BY DEF Store, Making, ShapeInv, Placed
<1>2. Result(g) \in CodecType /\ Len(Top(g).parts) = 1 /\ Len(stack[g]) = 1 /\ Top(g) = stack[g][1]
  BY <1>1, ResultType, TopType
<1>3. FrameGood(Top(g), Ctx(g), made, exts)
  BY <1>1, <1>2 DEF PartsInv, FramesGood
<1>4. Result(g).ctx = Ctx(g) /\ Result(g).wraps = exts /\ KnownIn(Result(g), made)
  BY <1>2, <1>3 DEF FrameGood, PartsKnown, WrapsOf, Result
<1>5. Ctx(g) = <<g, calls[g]>>
  BY <1>1 DEF Ctx
<1> DEFINE b == Boxed(Result(g))
<1>6. /\ b \in CodecType /\ b.ctx = Result(g).ctx /\ b.wraps = Result(g).wraps
      /\ b.key = Result(g).key /\ b.custom = Result(g).custom
  BY <1>2, BoxedType
<1>7. cache' = [cache EXCEPT ![want[g]] = b] /\ got' = [got EXCEPT ![g] = b]
  BY DEF Store
<1> HIDE DEF b
<1>8. KnownIn(b, made)
  BY <1>4, <1>6 DEF KnownIn
<1> QED BY <1>1, <1>4, <1>5, <1>6, <1>7, <1>8 DEF b

LEMMA StoreParts ==
  ASSUME ShapeInv, PartsInv, NEW g \in Goroutines, Store(g)
  PROVE  PartsInv'
<1> DEFINE b == Boxed(Result(g))
<1>1. /\ b \in CodecType /\ b.wraps = exts /\ KnownIn(b, made) /\ want[g] \in Keys
      /\ cache' = [cache EXCEPT ![want[g]] = b]
      /\ got' = [got EXCEPT ![g] = b]
  BY StoredCodec
<1> HIDE DEF b
<1>2. /\ UNCHANGED <<exts, made, calls, want>> /\ pc'[g] = "use"
      /\ \A h \in Goroutines : h # g => pc'[h] = pc[h] /\ stack'[h] = stack[h]
      /\ Typed
  BY DEF Store, ShapeInv, Typed
<1>3. /\ \A k \in Keys : k # want[g] => cache'[k] = cache[k]
      /\ cache'[want[g]] = b /\ got'[g] = b
      /\ \A h \in Goroutines : h # g => got'[h] = got[h]
  BY <1>1, <1>2 DEF Typed
<1>4. Grows
  BY <1>2 DEF Grows
<1>5. EntriesKnown'
  BY <1>2 DEF PartsInv, EntriesKnown, Finished, Parts
<1>6. CodecsKnown'
  BY <1>1, <1>2, <1>3 DEF PartsInv, CodecsKnown
<1>7. WrapsKept'
  <2> SUFFICES ASSUME NEW h \in Goroutines, pc'[h] = "build", cache'[want[h]] # None
               PROVE  cache'[want[h]].wraps = exts
    BY <1>2 DEF WrapsKept
  <2>1. h # g /\ pc[h] = "build" /\ want[h] \in Keys
    BY <1>2 DEF ShapeInv, Placed
  <2> QED BY <1>1, <1>3, <2>1 DEF PartsInv, WrapsKept
<1>8. \A h \in Goroutines : Making(h)' => FramesGood(h)'
  <2> SUFFICES ASSUME NEW h \in Goroutines, Making(h)' PROVE FramesGood(h)'
    OBVIOUS
  <2>1. h # g /\ Making(h) /\ FramesGood(h)
    BY <1>2 DEF Making, PartsInv
  <2> QED BY <1>2, <1>3, <1>4, <2>1, FramesGrow
<1> QED BY <1>5, <1>6, <1>7, <1>8 DEF PartsInv

LEMMA PartsNext == ShapeInv /\ PartsInv /\ [Next]_vars => PartsInv'
<1> SUFFICES ASSUME ShapeInv, PartsInv, [Next]_vars PROVE PartsInv'
  OBVIOUS
<1>1. Typed
  BY DEF ShapeInv
<1>2. CASE UNCHANGED vars
  BY <1>2 DEF vars, PartsInv, EntriesKnown, CodecsKnown, WrapsKept, Making, FramesGood, Finished, Parts, Ctx
<1>3. ASSUME NEW e \in Extensions, RegisterExtension(e) PROVE PartsInv'
  <2>1. \A g \in Goroutines : pc'[g] = "idle"
    BY <1>3 DEF RegisterExtension
  <2> QED BY <1>3, <2>1 DEF RegisterExtension, PartsInv, EntriesKnown, CodecsKnown, WrapsKept, Making, Finished, Parts
<1>4. ASSUME NEW g \in Goroutines, NEW k \in Requests, Ask(g, k) PROVE PartsInv'
  <2>1. /\ pc'[g] = "load" /\ got'[g] = None /\ UNCHANGED <<exts, cache, made, stack>>
        /\ \A h \in Goroutines : h # g => /\ pc'[h] = pc[h] /\ want'[h] = want[h]
                                          /\ calls'[h] = calls[h] /\ got'[h] = got[h]
    BY <1>1, <1>4 DEF Ask, Typed
  <2>2. ~Making(g)'
    BY <2>1 DEF Making
  <2> QED BY <2>1, <2>2, QuietParts
<1>5. ASSUME NEW g \in Goroutines, Hit(g) PROVE PartsInv'
  <2>1. /\ pc'[g] = "use" /\ got'[g] = cache[want[g]] /\ UNCHANGED <<exts, cache, made, calls, want, stack>>
        /\ \A h \in Goroutines : h # g => pc'[h] = pc[h] /\ got'[h] = got[h]
        /\ want[g] \in Keys
    BY <1>1, <1>5 DEF Hit, Lookup, Typed, ShapeInv, Placed
  <2>2. ~Making(g)'
    BY <2>1 DEF Making
  <2>3. cache[want[g]] # None => KnownIn(cache[want[g]], made)
    BY <2>1 DEF PartsInv, CodecsKnown
  <2> QED BY <2>1, <2>2, <2>3, QuietParts
<1>6. ASSUME NEW g \in Goroutines, Miss(g) PROVE PartsInv'
  <2>1. /\ pc'[g] = "again" /\ UNCHANGED <<exts, cache, made, calls, want, got, stack>>
        /\ \A h \in Goroutines : h # g => pc'[h] = pc[h]
    BY <1>1, <1>6 DEF Miss, Typed
  <2>2. ~Making(g)'
    BY <2>1 DEF Making
  <2>3. got[g] # None => KnownIn(got[g], made)
    BY DEF PartsInv, CodecsKnown
  <2> QED BY <2>1, <2>2, <2>3, QuietParts
<1>7. ASSUME NEW g \in Goroutines, Build(g) PROVE PartsInv'
  <2>1. /\ pc'[g] = "build" /\ stack'[g] = Call1(want[g]) /\ UNCHANGED <<exts, cache, made, calls, want, got>>
        /\ \A h \in Goroutines : h # g => pc'[h] = pc[h] /\ stack'[h] = stack[h]
        /\ want[g] \in Keys /\ cache[want[g]] = None
    BY <1>1, <1>7 DEF Build, Lookup, Typed, ShapeInv, Placed
  <2>2. FramesGood(g)'
    BY <2>1, NewCallGood
  <2>3. got[g] # None => KnownIn(got[g], made)
    BY DEF PartsInv, CodecsKnown
  <2> QED BY <2>1, <2>2, <2>3, QuietParts
<1>8. ASSUME NEW g \in Goroutines, EncodeKey(g) PROVE PartsInv'
  <2>1. /\ pc'[g] = "key" /\ stack'[g] = Call1(Key("enc", KeyType)) /\ UNCHANGED <<exts, cache, made, calls, want, got>>
        /\ \A h \in Goroutines : h # g => pc'[h] = pc[h] /\ stack'[h] = stack[h]
        /\ Key("enc", KeyType) \in Keys
    BY <1>1, <1>8, KeysFacts, TypesAssumption DEF EncodeKey, Typed
  <2>2. FramesGood(g)'
    BY <2>1, NewCallGood
  <2>3. got[g] # None => KnownIn(got[g], made)
    BY DEF PartsInv, CodecsKnown
  <2> QED BY <2>1, <2>2, <2>3, QuietParts
<1>9. ASSUME NEW g \in Goroutines, Return(g) PROVE PartsInv'
  <2>1. /\ pc'[g] = "idle" /\ UNCHANGED <<exts, cache, made, calls, want, got>>
        /\ \A h \in Goroutines : h # g => pc'[h] = pc[h] /\ stack'[h] = stack[h]
    BY <1>1, <1>9 DEF Return, Typed
  <2>2. ~Making(g)'
    BY <2>1 DEF Making
  <2>3. got[g] # None => KnownIn(got[g], made)
    BY DEF PartsInv, CodecsKnown
  <2> QED BY <2>1, <2>2, <2>3, QuietParts
<1> QED BY <1>2, <1>3, <1>4, <1>5, <1>6, <1>7, <1>8, <1>9, TakeParts, OpenParts, CloseParts, StoreParts DEF Next, Run

----------------------------------------------------------------------------
(* The refinement: what the registry sees of a state.                      *)
KnownOf == [k \in Keys |-> IF cache[k] = None THEN None ELSE cache[k].wraps]
Asked(g) == IF pc[g] \in {"load", "again", "build"} THEN want[g] ELSE None
AskedOf == [g \in Goroutines |-> Asked(g)]
AnswerOf == [g \in Goroutines |-> IF got[g] = None THEN None ELSE got[g].wraps]

LEMMA WrapsNotNone ==
  ASSUME NEW codec \in CodecType
  PROVE  codec # None /\ codec.wraps # None
<1>1. codec.wraps \in Seq(Extensions)
  BY DEF CodecType
<1> QED BY <1>1, NoneAssumption

LEMMA RegistryInit == Init => Registry!Init
<1> SUFFICES ASSUME Init PROVE Registry!Init
  OBVIOUS
<1>1. /\ exts = <<>> /\ \A k \in Keys : cache[k] = None
      /\ \A g \in Goroutines : pc[g] = "idle" /\ got[g] = None
  BY DEF Init
<1> QED BY <1>1 DEF Registry!Init

(* A step the registry does not see.                                       *)
LEMMA RegistryStutter ==
  ASSUME UNCHANGED <<exts, cache, got>>, \A g \in Goroutines : Asked(g)' = Asked(g)
  PROVE  UNCHANGED Registry!vars
<1>1. KnownOf' = KnownOf /\ AnswerOf' = AnswerOf
  BY DEF KnownOf, AnswerOf
<1>2. AskedOf' = AskedOf
  BY DEF AskedOf
<1> QED BY <1>1, <1>2 DEF Registry!vars, KnownOf, AnswerOf, AskedOf, Asked

LEMMA RegistryRegister ==
  ASSUME NEW e \in Extensions, RegisterExtension(e)
  PROVE  Registry!Register(e)
<1>1. /\ exts' = Append(exts, e) /\ UNCHANGED <<cache, pc, want, got>>
      /\ \A g \in Goroutines : pc[g] = "idle"
  BY DEF RegisterExtension
<1> QED BY <1>1 DEF Registry!Register

LEMMA RegistryAsk ==
  ASSUME ShapeInv, NEW g \in Goroutines, NEW k \in Requests, Ask(g, k)
  PROVE  Registry!Ask(g, k) /\ k \in Keys
<1>1. /\ pc[g] = "idle" /\ pc'[g] = "load" /\ want'[g] = k /\ got'[g] = None
      /\ UNCHANGED <<exts, cache>> /\ k \in Keys
      /\ \A h \in Goroutines : h # g => pc'[h] = pc[h] /\ want'[h] = want[h] /\ got'[h] = got[h]
  BY TypesAssumption DEF Ask, ShapeInv, Typed
<1>2. AskedOf[g] = None /\ AskedOf' = [AskedOf EXCEPT ![g] = k]
  BY <1>1 DEF AskedOf, Asked
<1>3. AnswerOf' = [AnswerOf EXCEPT ![g] = None]
  BY <1>1 DEF AnswerOf
<1>4. KnownOf' = KnownOf
  BY <1>1 DEF KnownOf
<1> QED BY <1>1, <1>2, <1>3, <1>4 DEF Registry!Ask, KnownOf, AskedOf, AnswerOf, Asked

(* Hit and Store answer: what is cached for the key then, and what g is    *)
(* given, has the extensions the registry says.                            *)
LEMMA RegistryAnswer ==
  ASSUME ShapeInv, NEW g \in Goroutines, pc[g] \in {"load", "again", "build"},
         UNCHANGED <<exts, want>>, pc' = [pc EXCEPT ![g] = "use"],
         NEW codec \in CodecType, cache' = [cache EXCEPT ![want[g]] = codec],
         got' = [got EXCEPT ![g] = codec],
         codec.wraps = IF cache[want[g]] = None THEN exts ELSE cache[want[g]].wraps
  PROVE  Registry!Answer(g)
<1>1. want[g] \in Keys /\ want[g] # None /\ Typed
  BY KeysFacts DEF ShapeInv, Placed
<1>2. AskedOf[g] = want[g] /\ AskedOf' = [AskedOf EXCEPT ![g] = None]
  BY <1>1 DEF AskedOf, Asked, Typed
<1>3. codec # None /\ codec.wraps # None
  BY WrapsNotNone
<1>4. KnownOf' = [KnownOf EXCEPT ![want[g]] = codec.wraps]
  BY <1>1, <1>3 DEF KnownOf, Typed
<1>5. AnswerOf' = [AnswerOf EXCEPT ![g] = codec.wraps]
  BY <1>1, <1>3 DEF AnswerOf, Typed
<1>6. codec.wraps = IF KnownOf[want[g]] = None THEN exts ELSE KnownOf[want[g]]
  <2>1. CASE cache[want[g]] = None
    BY <1>1, <2>1 DEF KnownOf
  <2>2. CASE cache[want[g]] # None
    <3>1. cache[want[g]] \in CodecType
      BY <1>1, <2>2 DEF Typed
    <3> QED BY <1>1, <2>2, <3>1, WrapsNotNone DEF KnownOf
  <2> QED BY <2>1, <2>2
<1> QED BY <1>1, <1>2, <1>4, <1>5, <1>6 DEF Registry!Answer, Registry!CodecOf, KnownOf, AskedOf, AnswerOf, Asked

LEMMA RegistryNext ==
  ASSUME ShapeInv, PartsInv, [Next]_vars
  PROVE  Registry!Next \/ UNCHANGED Registry!vars
<1>1. Typed
  BY DEF ShapeInv
<1>2. CASE UNCHANGED vars
  BY <1>2, RegistryStutter DEF vars, Asked
<1>3. ASSUME NEW e \in Extensions, RegisterExtension(e) PROVE Registry!Next
  BY <1>3, RegistryRegister DEF Registry!Next
<1>4. ASSUME NEW g \in Goroutines, NEW k \in Requests, Ask(g, k) PROVE Registry!Next
  BY <1>4, RegistryAsk DEF Registry!Next
<1>5. ASSUME NEW g \in Goroutines, Hit(g) PROVE Registry!Next
  <2>1. /\ pc[g] \in {"load", "again"} /\ UNCHANGED <<exts, cache, want>>
        /\ pc' = [pc EXCEPT ![g] = "use"] /\ got' = [got EXCEPT ![g] = cache[want[g]]]
        /\ cache[want[g]] # None /\ want[g] \in Keys
    BY <1>5 DEF Hit, Lookup, ShapeInv, Placed
  <2>2. cache[want[g]] \in CodecType /\ cache' = [cache EXCEPT ![want[g]] = cache[want[g]]]
    BY <1>1, <2>1 DEF Typed
  <2>3. Registry!Answer(g)
    BY <2>1, <2>2, RegistryAnswer
  <2> QED BY <2>3 DEF Registry!Next
<1>6. ASSUME NEW g \in Goroutines, Store(g) PROVE Registry!Next
  <2> DEFINE b == Boxed(Result(g))
  <2>1. /\ b \in CodecType /\ b.wraps = exts /\ want[g] \in Keys
        /\ cache' = [cache EXCEPT ![want[g]] = b] /\ got' = [got EXCEPT ![g] = b]
    BY <1>6, StoredCodec
  <2> HIDE DEF b
  <2>2. pc[g] = "build" /\ UNCHANGED <<exts, want>> /\ pc' = [pc EXCEPT ![g] = "use"]
    BY <1>6 DEF Store
  <2>3. cache[want[g]] # None => cache[want[g]].wraps = exts
    BY <2>2 DEF PartsInv, WrapsKept
  <2>4. Registry!Answer(g)
    BY <2>1, <2>2, <2>3, RegistryAnswer
  <2> QED BY <2>4 DEF Registry!Next
<1>7. ASSUME NEW g \in Goroutines, Miss(g) \/ Build(g) \/ EncodeKey(g) \/ Return(g)
      PROVE  UNCHANGED Registry!vars
  <2>1. UNCHANGED <<exts, cache, got, want>>
    BY <1>7 DEF Miss, Build, EncodeKey, Return
  <2>2. \A h \in Goroutines : Asked(h)' = Asked(h)
    BY <1>1, <1>7 DEF Miss, Build, EncodeKey, Return, Asked, Typed
  <2> QED BY <2>1, <2>2, RegistryStutter
<1>8. ASSUME NEW g \in Goroutines, Take(g) \/ Open(g) \/ Close(g)
      PROVE  UNCHANGED Registry!vars
  <2>1. UNCHANGED <<exts, cache, got, want, pc>>
    BY <1>8 DEF Take, Open, Close
  <2>2. \A h \in Goroutines : Asked(h)' = Asked(h)
    BY <2>1 DEF Asked
  <2> QED BY <2>1, <2>2, RegistryStutter
<1> QED BY <1>2, <1>3, <1>4, <1>5, <1>6, <1>7, <1>8 DEF Next, Run

(* Two goroutines that ask for one type get the same codec, made with the  *)
(* extensions registered when the type was first asked for, and keep       *)
(* getting it: the unlocked load, build and store implement the atomic     *)
(* registry (reflect.go:101, config.go:92).                                *)
THEOREM ImplementsRegistryAlways == Spec => ImplementsRegistry
<1>1. Spec => [](ShapeInv /\ PartsInv)
  <2>1. Init => ShapeInv /\ PartsInv
    BY ShapeInit, PartsInit
  <2>2. ShapeInv /\ PartsInv /\ [Next]_vars => (ShapeInv /\ PartsInv)'
    BY ShapeNext, PartsNext
  <2> QED BY <2>1, <2>2, PTL DEF Spec
<1>2. ShapeInv /\ PartsInv /\ [Next]_vars => [Registry!Next]_(Registry!vars)
  BY RegistryNext
<1> QED BY <1>1, <1>2, RegistryInit, PTL DEF Spec, ImplementsRegistry, Registry!Spec

----------------------------------------------------------------------------
(* Third layer.                                                            *)
LEMMA SettledGrows ==
  ASSUME ShapeInv, [Next]_vars, NEW c \in Ctxs, Settled(c)
  PROVE  Settled(c)'
<1> DEFINE h == c[1]
           n == c[2]
<1>1. h \in Goroutines /\ n \in 1..MaxCalls /\ calls[h] \in 0..MaxCalls /\ MaxCalls \in Nat
  BY TypesAssumption DEF Ctxs, ShapeInv, Typed
<1>2. n < calls[h] \/ (n = calls[h] /\ pc[h] \in {"idle", "use", "key"})
  BY DEF Settled
<1> HIDE DEF h, n
<1> SUFFICES n < calls'[h] \/ (n = calls'[h] /\ pc'[h] \in {"idle", "use", "key"})
  BY DEF Settled, h, n
<1>3. CASE \E k \in Requests : Ask(h, k)
  <2>1. calls'[h] = calls[h] + 1
    BY <1>1, <1>3 DEF Ask, ShapeInv, Typed
  <2> QED BY <1>1, <1>2, <2>1
<1>4. CASE ~\E k \in Requests : Ask(h, k)
  <2>1. calls'[h] = calls[h]
    BY <1>1, <1>4 DEF Next, Run, RegisterExtension, Ask, Hit, Miss, Build, Take, Open, Close, Store, EncodeKey,
         Return, vars, ShapeInv, Typed
  <2>2. pc[h] \in {"idle", "use", "key"} => pc'[h] \in {"idle", "use", "key"}
    BY <1>1, <1>4 DEF Next, Run, RegisterExtension, Ask, Hit, Miss, Build, Take, Open, Close, Store, EncodeKey,
         Return, vars, ShapeInv, Typed
  <2> QED BY <1>2, <2>1, <2>2
<1> QED BY <1>3, <1>4

LEMMA CodecsStaySettled ==
  ASSUME ShapeInv, SettleInv, [Next]_vars, UNCHANGED <<cache, got>>
  PROVE  CodecsSettled'
<1>1. \A codec \in CodecType : codec.ctx \in Ctxs
  BY DEF CodecType
<1>2. /\ \A k \in Keys : cache[k] # None => cache[k] \in CodecType
      /\ \A g \in Goroutines : got[g] # None => got[g] \in CodecType
  BY DEF ShapeInv, Typed
<1> QED BY <1>1, <1>2, SettledGrows DEF SettleInv, CodecsSettled

(* The ctx g makes codecs in is not one of another goroutine that is       *)
(* still to be used or being built.                                        *)
LEMMA CtxNotOthers ==
  ASSUME ShapeInv, SettleInv, NEW g \in Goroutines, Making(g), NEW h \in Goroutines, h # g,
         NEW n \in 1..MaxCalls, Ahead(h, n) \/ (n = calls[h] /\ pc[h] = "build")
  PROVE  Ctx(g) # <<h, n>>
<1>1. CASE pc[g] = "build"
  BY <1>1 DEF Ctx
<1>2. CASE pc[g] = "key"
  <2>1. got[g] # None /\ Ctx(g) = got[g].ctx
    BY <1>2, NoneAssumption DEF ShapeInv, Placed, Ctx
  <2>2. Settled(Ctx(g))
    BY <2>1 DEF SettleInv, CodecsSettled
  <2>3. calls[h] \in Nat
    BY DEF ShapeInv, Typed
  <2> QED BY <2>2, <2>3 DEF Settled, Ahead
<1> QED BY <1>1, <1>2 DEF Making

LEMMA OthersKeep ==
  ASSUME ShapeInv, SettleInv, NEW g \in Goroutines, NEW h \in Goroutines, h # g,
         pc'[h] = pc[h], calls'[h] = calls[h], stack'[h] = stack[h],
         \A c \in Ctxs, k \in Keys : made'[c][k] = made[c][k] \/ (Making(g) /\ c = Ctx(g))
  PROVE  Fresh(h)' /\ Own(h)'
<1>1. \A n \in 1..MaxCalls : <<h, n>> \in Ctxs
  BY DEF Ctxs
<1>2. Fresh(h)'
  <2> SUFFICES ASSUME NEW n \in 1..MaxCalls, Ahead(h, n), NEW k \in Keys
               PROVE  made'[<<h, n>>][k] = None
    BY DEF Fresh, Ahead
  <2>1. made[<<h, n>>][k] = None
    BY DEF SettleInv, Fresh
  <2>2. ~Making(g) \/ <<h, n>> # Ctx(g)
    BY CtxNotOthers
  <2> QED BY <1>1, <2>1, <2>2
<1>3. pc[h] = "build" => BuildMarks(h)'
  <2> SUFFICES ASSUME pc[h] = "build" PROVE BuildMarks(h)'
    OBVIOUS
  <2>1. calls[h] \in 1..MaxCalls
    BY CtxType DEF Making
  <2>2. ~Making(g) \/ <<h, calls[h]>> # Ctx(g)
    BY <2>1, CtxNotOthers
  <2>3. \A k \in Keys : made'[<<h, calls[h]>>][k] = made[<<h, calls[h]>>][k]
    BY <1>1, <2>1, <2>2
  <2>4. BuildMarks(h)
    BY DEF SettleInv, Own
  <2> QED BY <2>3, <2>4 DEF BuildMarks, Pending, IsOpen
<1>4. Own(h)'
  BY <1>3 DEF SettleInv, Own, KeyCall, Making
<1> QED BY <1>2, <1>4

(* A step of g that is given or stores nothing.                            *)
LEMMA SettleStep ==
  ASSUME ShapeInv, SettleInv, [Next]_vars, NEW g \in Goroutines, UNCHANGED <<cache, got>>,
         \A h \in Goroutines : h # g => pc'[h] = pc[h] /\ calls'[h] = calls[h] /\ stack'[h] = stack[h],
         \A c \in Ctxs, k \in Keys : made'[c][k] = made[c][k] \/ (Making(g) /\ c = Ctx(g)),
         Fresh(g)', Own(g)'
  PROVE  SettleInv'
<1>1. CodecsSettled'
  BY CodecsStaySettled
<1>2. \A h \in Goroutines : h # g => Fresh(h)' /\ Own(h)'
  BY OthersKeep
<1> QED BY <1>1, <1>2 DEF SettleInv

LEMMA FreshKept ==
  ASSUME ShapeInv, SettleInv, NEW g \in Goroutines, Making(g), UNCHANGED <<pc, calls>>,
         \A c \in Ctxs, k \in Keys : made'[c][k] = made[c][k] \/ c = Ctx(g)
  PROVE  Fresh(g)'
<1> SUFFICES ASSUME NEW n \in 1..MaxCalls, Ahead(g, n), NEW k \in Keys
             PROVE  made'[<<g, n>>][k] = None
  BY DEF Fresh, Ahead
<1>1. made[<<g, n>>][k] = None /\ <<g, n>> \in Ctxs
  BY DEF SettleInv, Fresh, Ctxs
<1>2. n > calls[g] /\ calls[g] \in Nat
  BY DEF Ahead, Making, ShapeInv, Typed
<1>3. Ctx(g) # <<g, n>>
  <2>1. CASE pc[g] = "build"
    BY <1>2, <2>1 DEF Ctx
  <2>2. CASE pc[g] = "key"
    <3>1. got[g] # None /\ Ctx(g) = got[g].ctx
      BY <2>2, NoneAssumption DEF ShapeInv, Placed, Ctx
    <3>2. Settled(Ctx(g))
      BY <3>1 DEF SettleInv, CodecsSettled
    <3> QED BY <1>2, <3>2 DEF Settled
  <2> QED BY <2>1, <2>2 DEF Making
<1> QED BY <1>1, <1>3

LEMMA SettleInit == Init => SettleInv
<1> SUFFICES ASSUME Init PROVE SettleInv
  OBVIOUS
<1>1. \A g \in Goroutines : pc[g] = "idle" /\ stack[g] = <<>> /\ got[g] = None
  BY DEF Init
<1>2. \A g \in Goroutines : Fresh(g)
  BY DEF Init, Fresh, Ctxs
<1>3. CodecsSettled
  BY DEF Init, CodecsSettled
<1> QED BY <1>1, <1>2, <1>3 DEF SettleInv, Own, Making

(* The type of map keys is native: making its codec opens nothing else.    *)
LEMMA KeyHasNoParts == PartsOf(Key("enc", KeyType)) = <<>>
  BY TypesAssumption DEF PartsOf, Key

LEMMA TakeSettle ==
  ASSUME ShapeInv, SettleInv, NEW g \in Goroutines, Take(g), [Next]_vars
  PROVE  SettleInv'
<1>1. /\ Making(g) /\ UNCHANGED <<exts, cache, made, calls, pc, want, got>>
      /\ \A h \in Goroutines : h # g => stack'[h] = stack[h]
      /\ Len(stack'[g]) = Len(stack[g])
      /\ \A i \in 1..Len(stack[g]) : stack'[g][i].key = stack[g][i].key
      /\ stack'[g] \in Seq(FrameType) /\ StackOK(stack'[g])
  BY TakeStack
<1>2. Len(stack[g]) \in Nat /\ Top(g) = stack[g][1] /\ Top(g).todo # <<>> /\ StackOK(stack[g])
      /\ Decorated(Ctx(g), Head(Top(g).todo)) \in CodecType /\ stack[g][1] \in FrameType
      /\ stack'[g][1] = With(stack[g][1], Decorated(Ctx(g), Head(Top(g).todo)))
  BY <1>1, TakeStack, TopType DEF Take
<1>3. Fresh(g)'
  BY <1>1 DEF SettleInv, Fresh, Ahead
<1>4. pc[g] = "build" => BuildMarks(g)'
  <2>1. \A i \in 1..(Len(stack[g]) - 1) : stack'[g][i].key = stack[g][i].key
    BY <1>1, <1>2
  <2> SUFFICES ASSUME pc[g] = "build" PROVE BuildMarks(g)'
    OBVIOUS
  <2>2. BuildMarks(g)
    BY DEF SettleInv, Own
  <2>3. \A k \in Keys : IsOpen(g, k)' <=> IsOpen(g, k)
    BY <1>1, <2>1 DEF IsOpen
  <2>4. \A k \in Keys : Pending(<<g, calls[g]>>, k)' <=> Pending(<<g, calls[g]>>, k)
    BY <1>1 DEF Pending
  <2>5. \A i, j \in 1..(Len(stack'[g]) - 1) : stack'[g][i].key = stack'[g][j].key => i = j
    BY <1>1, <2>1, <2>2 DEF BuildMarks
  <2> QED BY <2>2, <2>3, <2>4, <2>5 DEF BuildMarks
<1>5. pc[g] = "key" => KeyCall(g)'
  <2> SUFFICES ASSUME pc[g] = "key" PROVE KeyCall(g)'
    OBVIOUS
  <2>1. Len(stack[g]) = 1
    BY <1>2 DEF SettleInv, Own, KeyCall
  <2>2. Len(stack[g][1].todo) = 1 /\ stack[g][1].todo \in Seq(Keys)
    BY <1>2, <2>1 DEF StackOK, BottomOK, FrameType
  <2>3. stack'[g][1].todo = Tail(stack[g][1].todo)
    BY <1>2, WithType
  <2>4. Tail(stack[g][1].todo) = <<>>
    BY <2>2, TailOfOne
  <2> QED BY <1>1, <2>1, <2>3, <2>4 DEF KeyCall
<1>6. Own(g)'
  BY <1>1, <1>4, <1>5 DEF Own, Making
<1> QED BY <1>1, <1>3, <1>6, SettleStep

LEMMA OpenSettle ==
  ASSUME ShapeInv, SettleInv, NEW g \in Goroutines, Open(g), [Next]_vars
  PROVE  SettleInv'
<1> DEFINE k == Head(Top(g).todo)
           c == Ctx(g)
<1>1. /\ Making(g) /\ ~Known(g, k) /\ k \in Keys
      /\ UNCHANGED <<exts, cache, calls, pc, want, got>>
      /\ made' = [made EXCEPT ![c][k] = Placeholder]
      /\ \A h \in Goroutines : h # g => stack'[h] = stack[h]
      /\ Len(stack'[g]) = Len(stack[g]) + 1
      /\ stack'[g][1] = Frame(k, PartsOf(k))
      /\ \A i \in 1..Len(stack[g]) : stack'[g][i + 1] = stack[g][i]
      /\ StackOK(stack'[g])
  BY OpenStack
<1>2. c \in Ctxs /\ Typed /\ Len(stack[g]) \in Nat /\ Top(g) = stack[g][1] /\ Top(g).todo # <<>>
  BY <1>1, CtxType, TopType DEF ShapeInv, Open
<1>3. /\ made'[c][k] = Placeholder
      /\ \A d \in Ctxs, j \in Keys : (d # c \/ j # k) => made'[d][j] = made[d][j]
  BY <1>1, <1>2 DEF Typed
<1>4. made[c][k] = None
  BY <1>1 DEF Known
<1>5. Frame(k, PartsOf(k)).key = k /\ Frame(k, PartsOf(k)).todo = PartsOf(k)
  BY <1>1, PartsOfType, FrameIsFrame
<1>6. Placeholder # None /\ ~Placeholder.filled
  <2>1. Placeholder.filled = FALSE /\ <<>> \in Seq(CodecType)
    BY DEF Placeholder
  <2>2. Placeholder \in Entries
    BY <2>1 DEF Placeholder, Entries
  <2> QED BY <2>1, <2>2, NoneAssumption
<1>7. \A d \in Ctxs, j \in Keys : made'[d][j] = made[d][j] \/ (Making(g) /\ d = Ctx(g))
  BY <1>1, <1>3
<1>8. pc[g] = "key" => KeyCall(g)'
  <2> SUFFICES ASSUME pc[g] = "key" PROVE KeyCall(g)'
    OBVIOUS
  <2>1. Len(stack[g]) = 1 /\ k = Key("enc", KeyType)
    BY <1>2 DEF SettleInv, Own, KeyCall
  <2> QED BY <1>1, <1>5, <2>1, KeyHasNoParts DEF KeyCall
<1> HIDE DEF k
<1>9. pc[g] = "build" => BuildMarks(g)'
  <2> SUFFICES ASSUME pc[g] = "build" PROVE BuildMarks(g)'
    OBVIOUS
  <2>1. BuildMarks(g) /\ c = <<g, calls[g]>>
    BY DEF SettleInv, Own, Ctx
  <2> HIDE DEF c
  <2>2. \A i \in 2..(Len(stack'[g]) - 1) : i - 1 \in 1..(Len(stack[g]) - 1) /\ stack'[g][i] = stack[g][i - 1]
    <3> SUFFICES ASSUME NEW i \in 2..(Len(stack'[g]) - 1)
                 PROVE  i - 1 \in 1..(Len(stack[g]) - 1) /\ stack'[g][i] = stack[g][i - 1]
      OBVIOUS
    <3>1. i - 1 \in 1..(Len(stack[g]) - 1) /\ i - 1 \in 1..Len(stack[g]) /\ (i - 1) + 1 = i
      BY <1>1, <1>2
    <3> QED BY <1>1, <3>1
  <2>3. Len(stack[g]) >= 1
    BY <1>1 DEF ShapeInv, Placed, StackOK
  <2>4. ~IsOpen(g, k)
    BY <1>1, <1>4, <2>1 DEF BuildMarks, Pending
  <2>5. \A j \in Keys : IsOpen(g, j)' <=> (j = k \/ IsOpen(g, j))
    <3> SUFFICES ASSUME NEW j \in Keys PROVE IsOpen(g, j)' <=> (j = k \/ IsOpen(g, j))
      OBVIOUS
    <3>1. ASSUME NEW i \in 1..(Len(stack'[g]) - 1), stack'[g][i].key = j PROVE j = k \/ IsOpen(g, j)
      <4>1. CASE i = 1
        BY <1>1, <1>5, <3>1, <4>1
      <4>2. CASE i # 1
        <5>1. i \in 2..(Len(stack'[g]) - 1)
          BY <4>2
        <5> QED BY <2>2, <3>1, <5>1 DEF IsOpen
      <4> QED BY <4>1, <4>2
    <3>2. ASSUME j = k PROVE IsOpen(g, j)'
      <4>1. 1 \in 1..(Len(stack'[g]) - 1)
        BY <1>1, <1>2, <2>3
      <4> QED BY <1>1, <1>5, <3>2, <4>1 DEF IsOpen
    <3>3. ASSUME NEW i \in 1..(Len(stack[g]) - 1), stack[g][i].key = j PROVE IsOpen(g, j)'
      <4>1. i + 1 \in 1..(Len(stack'[g]) - 1) /\ i \in 1..Len(stack[g])
        BY <1>1, <1>2
      <4>2. stack'[g][i + 1].key = j
        BY <1>1, <3>3, <4>1
      <4> QED BY <4>1, <4>2 DEF IsOpen
    <3> QED BY <3>1, <3>2, <3>3 DEF IsOpen
  <2>6. \A j \in Keys : made'[c][j] # None /\ ~made'[c][j].filled <=> (j = k \/ Pending(c, j))
    BY <1>2, <1>3, <1>4, <1>6 DEF Pending, c
  <2>7. \A j \in Keys : Pending(<<g, calls[g]>>, j)' <=> IsOpen(g, j)'
    <3>1. \A j \in Keys : Pending(c, j) <=> IsOpen(g, j)
      BY <2>1 DEF BuildMarks
    <3>2. <<g, calls[g]>>' = c
      BY <1>1, <2>1
    <3> QED BY <2>5, <2>6, <3>1, <3>2 DEF Pending
  <2>8. ASSUME NEW i \in 1..(Len(stack'[g]) - 1), NEW j \in 1..(Len(stack'[g]) - 1),
               stack'[g][i].key = stack'[g][j].key
        PROVE  i = j
    <3>1. \A m \in 1..(Len(stack'[g]) - 1) : m = 1 \/ m \in 2..(Len(stack'[g]) - 1)
      OBVIOUS
    <3>2. \A m \in 2..(Len(stack'[g]) - 1) : stack'[g][m].key # k
      BY <2>2, <2>4 DEF IsOpen
    <3>3. CASE i = 1 \/ j = 1
      BY <1>1, <1>5, <2>8, <3>1, <3>2, <3>3
    <3>4. CASE i # 1 /\ j # 1
      <4>1. i \in 2..(Len(stack'[g]) - 1) /\ j \in 2..(Len(stack'[g]) - 1)
        BY <3>4
      <4>2. /\ i - 1 \in 1..(Len(stack[g]) - 1) /\ stack'[g][i] = stack[g][i - 1]
            /\ j - 1 \in 1..(Len(stack[g]) - 1) /\ stack'[g][j] = stack[g][j - 1]
        BY <2>2, <4>1
      <4>3. stack[g][i - 1].key = stack[g][j - 1].key
        BY <2>8, <4>2
      <4>4. i - 1 = j - 1
        BY <2>1, <4>2, <4>3 DEF BuildMarks
      <4>5. i \in Int /\ j \in Int
        OBVIOUS
      <4> QED BY <4>4, <4>5
    <3> QED BY <3>3, <3>4
  <2> QED BY <1>1, <2>7, <2>8 DEF BuildMarks, Pending
<1>10. Fresh(g)'
  BY <1>1, <1>7, FreshKept
<1>11. Own(g)'
  BY <1>1, <1>8, <1>9 DEF Own, Making
<1> QED BY <1>1, <1>7, <1>10, <1>11, SettleStep

LEMMA CloseSettle ==
  ASSUME ShapeInv, SettleInv, NEW g \in Goroutines, Close(g), [Next]_vars
  PROVE  SettleInv'
<1> DEFINE k == Top(g).key
           c == Ctx(g)
           e == Made(Top(g).parts)
           d == Decorated(c, k)
<1>1. /\ Making(g) /\ k \in Keys /\ d \in CodecType
      /\ UNCHANGED <<exts, cache, calls, pc, want, got>>
      /\ made' = [made EXCEPT ![c][k] = e]
      /\ \A h \in Goroutines : h # g => stack'[h] = stack[h]
      /\ Len(stack'[g]) = Len(stack[g]) - 1 /\ Len(stack[g]) >= 2
      /\ \A i \in 1..(Len(stack[g]) - 1) : stack'[g][i].key = stack[g][i + 1].key
      /\ stack'[g][1] = With(stack[g][2], d)
      /\ stack[g][2] \in FrameType /\ stack[g][2].todo # <<>>
      /\ StackOK(stack'[g])
  BY CloseStack
<1>2. c \in Ctxs /\ Typed /\ Len(stack[g]) \in Nat /\ k = stack[g][1].key
  BY <1>1, CtxType, TopType DEF ShapeInv
<1>3. /\ made'[c][k] = e
      /\ \A b \in Ctxs, j \in Keys : (b # c \/ j # k) => made'[b][j] = made[b][j]
  BY <1>1, <1>2 DEF Typed
<1>4. e # None /\ e.filled
  <2>1. e \in Entries /\ e.filled
    BY <1>1, TopType DEF Made, Entries
  <2> QED BY <2>1, NoneAssumption
<1>5. \A b \in Ctxs, j \in Keys : made'[b][j] = made[b][j] \/ (Making(g) /\ b = Ctx(g))
  BY <1>1, <1>3
<1> HIDE DEF k, e, d
<1>6. pc[g] = "key" => KeyCall(g)'
  <2> SUFFICES ASSUME pc[g] = "key" PROVE KeyCall(g)'
    OBVIOUS
  <2>1. Len(stack[g]) = 2
    BY <1>1 DEF SettleInv, Own, KeyCall
  <2>2. Len(stack[g][2].todo) = 1 /\ stack[g][2].todo \in Seq(Keys)
    BY <1>1, <2>1 DEF ShapeInv, Placed, StackOK, BottomOK, FrameType
  <2>3. stack'[g][1].todo = Tail(stack[g][2].todo)
    BY <1>1, WithType
  <2>4. Tail(stack[g][2].todo) = <<>>
    BY <2>2, TailOfOne
  <2> QED BY <1>1, <2>1, <2>3, <2>4 DEF KeyCall
<1>7. pc[g] = "build" => BuildMarks(g)'
  <2> SUFFICES ASSUME pc[g] = "build" PROVE BuildMarks(g)'
    OBVIOUS
  <2>1. BuildMarks(g) /\ c = <<g, calls[g]>>
    BY DEF SettleInv, Own, Ctx
  <2> HIDE DEF c
  <2>2. \A i \in 1..(Len(stack'[g]) - 1) :
          i + 1 \in 2..(Len(stack[g]) - 1) /\ i + 1 \in 1..(Len(stack[g]) - 1)
          /\ stack'[g][i].key = stack[g][i + 1].key
    BY <1>1, <1>2
  <2>3. 1 \in 1..(Len(stack[g]) - 1) /\ IsOpen(g, k)
    BY <1>1, <1>2 DEF IsOpen
  <2>4. \A i \in 2..(Len(stack[g]) - 1) : stack[g][i].key # k
    BY <1>2, <2>1, <2>3 DEF BuildMarks
  <2>5. \A j \in Keys : IsOpen(g, j)' <=> (j # k /\ IsOpen(g, j))
    <3> SUFFICES ASSUME NEW j \in Keys PROVE IsOpen(g, j)' <=> (j # k /\ IsOpen(g, j))
      OBVIOUS
    <3>1. ASSUME NEW i \in 1..(Len(stack'[g]) - 1), stack'[g][i].key = j PROVE j # k /\ IsOpen(g, j)
      BY <2>2, <2>4, <3>1 DEF IsOpen
    <3>2. ASSUME NEW i \in 1..(Len(stack[g]) - 1), stack[g][i].key = j, j # k PROVE IsOpen(g, j)'
      <4>1. i # 1
        BY <1>2, <3>2
      <4>2. i - 1 \in 1..(Len(stack'[g]) - 1) /\ (i - 1) + 1 = i
        <5> DEFINE n == Len(stack[g])
        <5>1. Len(stack'[g]) = n - 1 /\ n \in Nat /\ i \in 1..(n - 1)
          BY <1>1, <1>2
        <5> HIDE DEF n
        <5> QED BY <4>1, <5>1
      <4>3. stack'[g][i - 1].key = j
        BY <2>2, <3>2, <4>2
      <4> QED BY <4>2, <4>3 DEF IsOpen
    <3> QED BY <3>1, <3>2 DEF IsOpen
  <2>6. \A j \in Keys : made'[c][j] # None /\ ~made'[c][j].filled <=> (j # k /\ Pending(c, j))
    BY <1>2, <1>3, <1>4 DEF Pending, c
  <2>7. \A j \in Keys : Pending(<<g, calls[g]>>, j)' <=> IsOpen(g, j)'
    <3>1. \A j \in Keys : Pending(c, j) <=> IsOpen(g, j)
      BY <2>1 DEF BuildMarks
    <3>2. <<g, calls[g]>>' = c
      BY <1>1, <2>1
    <3> QED BY <2>5, <2>6, <3>1, <3>2 DEF Pending
  <2>8. ASSUME NEW i \in 1..(Len(stack'[g]) - 1), NEW j \in 1..(Len(stack'[g]) - 1),
               stack'[g][i].key = stack'[g][j].key
        PROVE  i = j
    <3>1. i + 1 = j + 1
      BY <2>1, <2>2, <2>8 DEF BuildMarks
    <3> QED BY <3>1
  <2> QED BY <1>1, <2>7, <2>8 DEF BuildMarks, Pending
<1>8. Fresh(g)'
  BY <1>1, <1>5, FreshKept
<1>9. Own(g)'
  BY <1>1, <1>6, <1>7 DEF Own, Making
<1> QED BY <1>1, <1>5, <1>8, <1>9, SettleStep

(* A step of g that leaves the ctxs alone.                                 *)
LEMMA QuietSettle ==
  ASSUME ShapeInv, SettleInv, [Next]_vars, NEW g \in Goroutines, UNCHANGED <<made>>, CodecsSettled',
         \A h \in Goroutines : h # g => pc'[h] = pc[h] /\ calls'[h] = calls[h] /\ stack'[h] = stack[h],
         \A n \in 1..MaxCalls : Ahead(g, n)' => Ahead(g, n),
         Own(g)'
  PROVE  SettleInv'
<1>1. Fresh(g)'
  BY DEF SettleInv, Fresh
<1>2. \A h \in Goroutines : h # g => Fresh(h)' /\ Own(h)'
  BY OthersKeep
<1> QED BY <1>1, <1>2 DEF SettleInv

LEMMA SettleNext == ShapeInv /\ PartsInv /\ SettleInv /\ [Next]_vars => SettleInv'
<1> SUFFICES ASSUME ShapeInv, PartsInv, SettleInv, [Next]_vars PROVE SettleInv'
  OBVIOUS
<1>1. Typed /\ MaxCalls \in Nat
  BY TypesAssumption DEF ShapeInv
<1>2. CASE UNCHANGED vars
  BY <1>2 DEF vars, SettleInv, CodecsSettled, Settled, Fresh, Ahead, Own, BuildMarks, Pending, IsOpen, KeyCall, Making
<1>3. ASSUME NEW e \in Extensions, RegisterExtension(e) PROVE SettleInv'
  BY <1>3 DEF RegisterExtension, SettleInv, CodecsSettled, Settled, Fresh, Ahead, Own, BuildMarks, Pending, IsOpen,
     KeyCall, Making
<1>4. ASSUME NEW g \in Goroutines, NEW k \in Requests, Ask(g, k) PROVE SettleInv'
  <2>1. /\ pc[g] = "idle" /\ pc'[g] = "load" /\ calls'[g] = calls[g] + 1 /\ got'[g] = None
        /\ UNCHANGED <<exts, cache, made, stack>> /\ calls[g] \in Nat
        /\ \A h \in Goroutines : h # g => pc'[h] = pc[h] /\ calls'[h] = calls[h] /\ got'[h] = got[h]
    BY <1>1, <1>4 DEF Ask, Typed
  <2>2. CodecsSettled'
    <3>1. \A codec \in CodecType : codec.ctx \in Ctxs
      BY DEF CodecType
    <3>2. /\ \A j \in Keys : cache[j] # None => cache[j] \in CodecType
          /\ \A h \in Goroutines : got[h] # None => got[h] \in CodecType
      BY <1>1 DEF Typed
    <3> QED BY <2>1, <3>1, <3>2, SettledGrows DEF SettleInv, CodecsSettled
  <2>3. \A n \in 1..MaxCalls : Ahead(g, n)' => Ahead(g, n)
    BY <1>1, <2>1 DEF Ahead
  <2>4. Own(g)'
    BY <2>1 DEF SettleInv, Own, Making
  <2> QED BY <2>1, <2>2, <2>3, <2>4, QuietSettle
<1>5. ASSUME NEW g \in Goroutines, Hit(g) PROVE SettleInv'
  <2>1. /\ pc[g] \in {"load", "again"} /\ pc'[g] = "use" /\ got'[g] = cache[want[g]]
        /\ UNCHANGED <<exts, cache, made, calls, want, stack>> /\ want[g] \in Keys
        /\ \A h \in Goroutines : h # g => pc'[h] = pc[h] /\ got'[h] = got[h]
    BY <1>1, <1>5 DEF Hit, Lookup, Typed, ShapeInv, Placed
  <2>2. CodecsSettled'
    <3>1. \A codec \in CodecType : codec.ctx \in Ctxs
      BY DEF CodecType
    <3>2. /\ \A j \in Keys : cache[j] # None => cache[j] \in CodecType
          /\ \A h \in Goroutines : got[h] # None => got[h] \in CodecType
      BY <1>1 DEF Typed
    <3> QED BY <2>1, <3>1, <3>2, SettledGrows DEF SettleInv, CodecsSettled
  <2>3. \A n \in 1..MaxCalls : Ahead(g, n)' => Ahead(g, n)
    BY <2>1 DEF Ahead
  <2>4. Own(g)'
    BY <2>1 DEF SettleInv, Own, Making
  <2> QED BY <2>1, <2>2, <2>3, <2>4, QuietSettle
<1>6. ASSUME NEW g \in Goroutines, Miss(g) PROVE SettleInv'
  <2>1. /\ pc[g] = "load" /\ pc'[g] = "again" /\ UNCHANGED <<exts, cache, made, calls, want, got, stack>>
        /\ \A h \in Goroutines : h # g => pc'[h] = pc[h]
    BY <1>1, <1>6 DEF Miss, Typed
  <2>2. CodecsSettled'
    BY <2>1, CodecsStaySettled
  <2>3. \A n \in 1..MaxCalls : Ahead(g, n)' => Ahead(g, n)
    BY <2>1 DEF Ahead
  <2>4. Own(g)'
    BY <2>1 DEF SettleInv, Own, Making
  <2> QED BY <2>1, <2>2, <2>3, <2>4, QuietSettle
<1>7. ASSUME NEW g \in Goroutines, Build(g) PROVE SettleInv'
  <2>1. /\ pc[g] = "again" /\ pc'[g] = "build" /\ stack'[g] = Call1(want[g])
        /\ UNCHANGED <<exts, cache, made, calls, want, got>> /\ want[g] \in Keys
        /\ \A h \in Goroutines : h # g => pc'[h] = pc[h] /\ stack'[h] = stack[h]
    BY <1>1, <1>7 DEF Build, Typed, ShapeInv, Placed
  <2>2. CodecsSettled'
    BY <2>1, CodecsStaySettled
  <2>3. \A n \in 1..MaxCalls : Ahead(g, n)' => Ahead(g, n)
    BY <2>1 DEF Ahead
  <2>4. calls[g] \in 1..MaxCalls
    <3>1. calls[g] \in 0..MaxCalls /\ calls[g] > 0
      BY <1>1, <2>1 DEF ShapeInv, Placed, Typed
    <3> QED BY <1>1, <3>1
  <2>5. \A k \in Keys : ~Pending(<<g, calls[g]>>, k)
    BY <2>1, <2>4 DEF SettleInv, Fresh, Ahead, Pending
  <2>6. Len(stack'[g]) = 1
    BY <2>1, Call1OK
  <2>7. \A i \in 1..(Len(stack'[g]) - 1) : FALSE
    BY <2>6
  <2>8. BuildMarks(g)'
    BY <2>1, <2>5, <2>7 DEF BuildMarks, IsOpen, Pending
  <2>9. Own(g)'
    BY <2>1, <2>8 DEF Own, Making
  <2> QED BY <2>1, <2>2, <2>3, <2>9, QuietSettle
<1>8. ASSUME NEW g \in Goroutines, Store(g) PROVE SettleInv'
  <2>1. PICK b \in CodecType :
          /\ b.ctx = <<g, calls[g]>> /\ want[g] \in Keys
          /\ cache' = [cache EXCEPT ![want[g]] = b] /\ got' = [got EXCEPT ![g] = b]
    BY <1>8, StoredCodec
  <2>2. /\ pc[g] = "build" /\ pc'[g] = "use" /\ stack'[g] = <<>> /\ UNCHANGED <<exts, made, calls, want>>
        /\ \A h \in Goroutines : h # g => pc'[h] = pc[h] /\ stack'[h] = stack[h]
    BY <1>1, <1>8 DEF Store, Typed
  <2>3. /\ \A k \in Keys : cache'[k] = b \/ cache'[k] = cache[k]
        /\ \A h \in Goroutines : got'[h] = b \/ got'[h] = got[h]
    BY <1>1, <2>1 DEF Typed
  <2>4. Settled(b.ctx)'
    BY <2>1, <2>2 DEF Settled
  <2>5. CodecsSettled'
    <3>1. \A codec \in CodecType : codec.ctx \in Ctxs
      BY DEF CodecType
    <3>2. ASSUME NEW codec \in CodecType, Settled(codec.ctx) PROVE Settled(codec.ctx)'
      <4>1. codec.ctx \in Ctxs
        BY <3>1
      <4> QED BY <3>2, <4>1, SettledGrows
    <3>3. ASSUME NEW codec \in CodecType, NEW k \in Keys, cache'[k] = codec PROVE Settled(codec.ctx)'
      BY <2>3, <2>4, <3>2, <3>3, NoneAssumption DEF SettleInv, CodecsSettled
    <3>4. ASSUME NEW codec \in CodecType, NEW h \in Goroutines, got'[h] = codec PROVE Settled(codec.ctx)'
      BY <2>3, <2>4, <3>2, <3>4, NoneAssumption DEF SettleInv, CodecsSettled
    <3>5. /\ \A k \in Keys : cache'[k] # None => cache'[k] \in CodecType
          /\ \A h \in Goroutines : got'[h] # None => got'[h] \in CodecType
      BY <1>1, <2>3 DEF Typed
    <3> QED BY <3>3, <3>4, <3>5 DEF CodecsSettled, Settled
  <2>6. \A n \in 1..MaxCalls : Ahead(g, n)' => Ahead(g, n)
    BY <2>2 DEF Ahead
  <2>7. Own(g)'
    BY <2>2 DEF Own, Making
  <2> QED BY <2>2, <2>5, <2>6, <2>7, QuietSettle
<1>9. ASSUME NEW g \in Goroutines, EncodeKey(g) PROVE SettleInv'
  <2> DEFINE k == Key("enc", KeyType)
  <2>1. /\ pc[g] = "use" /\ pc'[g] = "key" /\ stack'[g] = Call1(k)
        /\ UNCHANGED <<exts, cache, made, calls, want, got>> /\ k \in Keys
        /\ \A h \in Goroutines : h # g => pc'[h] = pc[h] /\ stack'[h] = stack[h]
    BY <1>1, <1>9, KeysFacts, TypesAssumption DEF EncodeKey, Typed
  <2>2. CodecsSettled'
    BY <2>1, CodecsStaySettled
  <2>3. \A n \in 1..MaxCalls : Ahead(g, n)' => Ahead(g, n)
    BY <2>1 DEF Ahead
  <2>4. KeyCall(g)'
    <3>1. <<k>> \in Seq(Keys) /\ Head(<<k>>) = k /\ None \in Keys \cup {None}
      BY <2>1
    <3>2. Frame(None, <<k>>).todo = <<k>>
      BY <3>1, FrameIsFrame
    <3>3. Len(stack'[g]) = 1 /\ stack'[g][1] = Frame(None, <<k>>)
      BY <2>1, Call1OK
    <3> QED BY <3>1, <3>2, <3>3 DEF KeyCall
  <2>5. Own(g)'
    BY <2>1, <2>4 DEF Own, Making
  <2> QED BY <2>1, <2>2, <2>3, <2>5, QuietSettle
<1>10. ASSUME NEW g \in Goroutines, Return(g) PROVE SettleInv'
  <2>1. /\ pc[g] \in {"use", "key"} /\ pc'[g] = "idle" /\ stack'[g] = <<>>
        /\ UNCHANGED <<exts, cache, made, calls, want, got>>
        /\ \A h \in Goroutines : h # g => pc'[h] = pc[h] /\ stack'[h] = stack[h]
    BY <1>1, <1>10 DEF Return, Typed
  <2>2. CodecsSettled'
    BY <2>1, CodecsStaySettled
  <2>3. \A n \in 1..MaxCalls : Ahead(g, n)' => Ahead(g, n)
    BY <2>1 DEF Ahead
  <2>4. Own(g)'
    BY <2>1 DEF Own, Making
  <2> QED BY <2>1, <2>2, <2>3, <2>4, QuietSettle
<1> QED BY <1>2, <1>3, <1>4, <1>5, <1>6, <1>7, <1>8, <1>9, <1>10, TakeSettle, OpenSettle, CloseSettle DEF Next, Run

LEMMA FinishedInit == Init => SettledFinished
<1> SUFFICES ASSUME Init PROVE SettledFinished
  OBVIOUS
<1> QED BY DEF Init, SettledFinished, Pending

LEMMA FinishedNext ==
  ASSUME NoDynamicMaps, ShapeInv, SettleInv, SettledFinished, [Next]_vars
  PROVE  SettledFinished'
<1>1. Typed /\ MaxCalls \in Nat
  BY TypesAssumption DEF ShapeInv
<1>2. \A g \in Goroutines : ~EncodeKey(g)
  <2> SUFFICES ASSUME NEW g \in Goroutines, EncodeKey(g) PROVE FALSE
    OBVIOUS
  <2>1. got[g] \in CodecType /\ Kind[got[g].key.type] = "dynmap"
    BY DEF EncodeKey, HasDynamicKeys, ShapeInv, Placed
  <2>2. got[g].key.type \in Types
    BY <2>1, KeysFacts DEF CodecType
  <2> QED BY <2>1, <2>2 DEF NoDynamicMaps
<1>3. \A g \in Goroutines : pc'[g] # "key"
  BY <1>1, <1>2 DEF Next, Run, RegisterExtension, Ask, Hit, Miss, Build, Take, Open, Close, Store, Return, vars,
     SettledFinished, Typed
<1>4. ASSUME NEW c \in Ctxs, Settled(c)', NEW k \in Keys PROVE ~Pending(c, k)'
  <2> DEFINE h == c[1]
             n == c[2]
  <2>1. h \in Goroutines /\ n \in 1..MaxCalls /\ c = <<h, n>> /\ calls[h] \in 0..MaxCalls
    BY <1>1 DEF Ctxs, Typed
  <2>2. n < calls'[h] \/ (n = calls'[h] /\ pc'[h] \in {"idle", "use"})
    BY <1>3, <1>4, <2>1 DEF Settled
  <2> HIDE DEF h, n
  <2>3. CASE Settled(c)
    <3>1. ~Pending(c, k)
      BY <2>3 DEF SettledFinished
    <3>2. ASSUME NEW g \in Goroutines, Making(g) PROVE Ctx(g) # c
      <4>1. pc[g] = "build" /\ Ctx(g) = <<g, calls[g]>> /\ calls[g] \in Nat
        BY <1>1, <3>2 DEF Making, SettledFinished, Ctx, Typed
      <4> QED BY <2>3, <4>1 DEF Settled
    <3>3. made'[c] = made[c]
      BY <1>1, <3>2 DEF Next, Run, RegisterExtension, Ask, Hit, Miss, Build, Take, Open, Close, Store, EncodeKey,
         Return, vars, Typed
    <3> QED BY <3>1, <3>3 DEF Pending
  <2>4. CASE ~Settled(c)
    <3>1. n > calls[h] \/ (n = calls[h] /\ pc[h] \in {"load", "again", "build"})
      BY <1>1, <2>1, <2>4 DEF Settled, Typed, h, n
    <3>2. Hit(h) \/ Store(h)
      <4>1. ~\E j \in Requests : Ask(h, j)
        BY <1>1, <2>1, <2>2, <3>1 DEF Ask, Typed
      <4>2. calls'[h] = calls[h]
        BY <1>1, <2>1, <4>1 DEF Next, Run, RegisterExtension, Ask, Hit, Miss, Build, Take, Open, Close, Store,
           EncodeKey, Return, vars, Typed
      <4>3. n = calls[h] /\ pc[h] \in {"load", "again", "build"} /\ pc'[h] \in {"idle", "use"}
        BY <2>1, <2>2, <3>1, <4>2
      <4>4. ASSUME NEW g \in Goroutines, g # h, Run(g) PROVE FALSE
        BY <1>1, <2>1, <4>3, <4>4 DEF Run, Hit, Miss, Build, Take, Open, Close, Store, EncodeKey, Return, Typed
      <4>5. ASSUME NEW g \in Goroutines, NEW j \in Requests, Ask(g, j) PROVE FALSE
        BY <1>1, <2>1, <4>1, <4>3, <4>5 DEF Ask, Typed
      <4>6. pc' # pc
        BY <4>3
      <4>7. Run(h)
        BY <4>4, <4>5, <4>6 DEF Next, RegisterExtension, vars
      <4> QED BY <1>1, <2>1, <4>3, <4>7 DEF Run, Miss, Build, Take, Open, Close, EncodeKey, Return, Typed
    <3>3. n = calls[h] /\ UNCHANGED made
      BY <2>1, <2>2, <3>1, <3>2 DEF Hit, Store
    <3>4. CASE Hit(h)
      <4>1. Ahead(h, n)
        BY <3>3, <3>4 DEF Hit, Ahead
      <4> QED BY <2>1, <3>3, <4>1 DEF SettleInv, Fresh, Pending
    <3>5. CASE Store(h)
      <4>1. Making(h) /\ Returned(h) /\ pc[h] = "build"
        BY <3>5 DEF Store, Making
      <4>2. Len(stack[h]) = 1
        BY <2>1, <4>1, ResultType
      <4>3. ~IsOpen(h, k)
        BY <4>2 DEF IsOpen
      <4>4. ~Pending(c, k)
        BY <2>1, <3>3, <4>1, <4>3 DEF SettleInv, Own, BuildMarks
      <4> QED BY <3>3, <4>4 DEF Pending
    <3> QED BY <3>2, <3>4, <3>5
  <2> QED BY <2>3, <2>4
<1> QED BY <1>3, <1>4 DEF SettledFinished, Settled, Pending

----------------------------------------------------------------------------
(* What the layers say.                                                    *)
LEMMA LayersAlways == Spec => [](ShapeInv /\ PartsInv /\ SettleInv)
<1>1. Init => ShapeInv /\ PartsInv /\ SettleInv
  BY ShapeInit, PartsInit, SettleInit
<1>2. ShapeInv /\ PartsInv /\ SettleInv /\ [Next]_vars => (ShapeInv /\ PartsInv /\ SettleInv)'
  BY ShapeNext, PartsNext, SettleNext
<1> QED BY <1>1, <1>2, PTL DEF Spec

LEMMA KeysFinite == IsFiniteSet(Keys)
<1> DEFINE T == {"dec", "enc"} \X Types
           f == [k \in Keys |-> <<k.side, k.type>>]
<1>1. IsFiniteSet({"dec", "enc"})
  <2>1. IsFiniteSet({"dec"}) /\ {"dec", "enc"} = {"dec"} \cup {"enc"}
    BY FS_Singleton
  <2> QED BY <2>1, FS_AddElement
<1>2. IsFiniteSet(T)
  BY <1>1, TypesAssumption, FS_Product
<1>3. f \in [Keys -> T]
  BY KeysFacts
<1>4. \A j, k \in Keys : f[j] = f[k] => j = k
  BY DEF Keys
<1> HIDE DEF T, f
<1>5. f \in Injection(Keys, T)
  BY <1>3, <1>4, Fun_IsInj
<1> QED BY <1>2, <1>5, FS_Injection

LEMMA StackBound ==
  ASSUME ShapeInv, SettleInv, NEW g \in Goroutines
  PROVE  Len(stack[g]) <= Cardinality(Keys) + 1
<1>1. Cardinality(Keys) \in Nat
  BY KeysFinite, FS_CardinalityType
<1>2. CASE ~Making(g)
  <2>1. stack[g] = <<>>
    BY <1>2 DEF SettleInv, Own
  <2> QED BY <1>1, <2>1
<1>3. CASE pc[g] = "key"
  <2>1. Len(stack[g]) = 1 \/ Len(stack[g]) = 2
    <3>1. KeyCall(g)
      BY <1>3 DEF SettleInv, Own
    <3> QED BY <3>1 DEF KeyCall
  <2>2. Cardinality(Keys) # 0
    BY KeysFinite, KeysFacts, FS_EmptySet, TypesAssumption
  <2>3. Cardinality(Keys) >= 1
    BY <1>1, <2>2
  <2>4. 1 <= Cardinality(Keys) + 1 /\ 2 <= Cardinality(Keys) + 1
    BY <1>1, <2>3
  <2> QED BY <2>1, <2>4
<1>4. CASE pc[g] = "build"
  <2> DEFINE n == Len(stack[g]) - 1
             f == [i \in 1..n |-> stack[g][i].key]
  <2>1. Making(g) /\ StackOK(stack[g]) /\ n \in Nat
    <3>1. Making(g) /\ StackOK(stack[g]) /\ Len(stack[g]) \in Nat /\ Len(stack[g]) >= 1
      BY <1>4, TopType DEF Making, StackOK
    <3> QED BY <3>1
  <2>2. f \in [1..n -> Keys]
    BY <2>1 DEF StackOK
  <2>3. \A i, j \in 1..n : f[i] = f[j] => i = j
    BY <1>4 DEF SettleInv, Own, BuildMarks
  <2>4. Len(stack[g]) = n + 1
    BY <2>1
  <2> HIDE DEF n, f
  <2>5. f \in Injection(1..n, Keys)
    BY <2>2, <2>3, Fun_IsInj
  <2>6. Cardinality(1..n) <= Cardinality(Keys)
    BY <2>5, KeysFinite, FS_Injection
  <2>7. Cardinality(1..n) = n
    BY <2>1, FS_Interval
  <2> QED BY <1>1, <2>1, <2>4, <2>6, <2>7
<1> QED BY <1>2, <1>3, <1>4 DEF Making

(* The variables have their types, and the recursion of decoderOfType and  *)
(* encoderOfType ends (reflect.go:135): a build is never nested deeper     *)
(* than there are codecs to make, because no type is opened twice in a ctx. *)
THEOREM TypeCorrect == Spec => []TypeOK
<1>1. ShapeInv /\ PartsInv /\ SettleInv => TypeOK
  BY StackBound DEF ShapeInv, Typed, TypeOK
<1> QED BY <1>1, LayersAlways, PTL

LEMMA SettledComplete ==
  ASSUME ShapeInv, PartsInv, SettledFinished, NEW codec \in CodecType,
         Settled(codec.ctx), KnownIn(codec, made)
  PROVE  Complete(codec)
<1>1. codec.ctx \in Ctxs /\ codec.key \in Keys
  BY DEF CodecType
<1>2. \A k \in Keys : made[codec.ctx][k] # None => Finished(codec.ctx, k)
  BY <1>1 DEF SettledFinished, Pending, Finished
<1>3. Filled(codec)
  BY <1>1, <1>2 DEF KnownIn, Filled
<1>4. ASSUME NEW k \in Keys, Finished(codec.ctx, k), NEW i \in 1..Len(Parts(codec.ctx, k))
      PROVE  Filled(Parts(codec.ctx, k)[i])
  <2> DEFINE p == Parts(codec.ctx, k)[i]
  <2>1. p.ctx = codec.ctx /\ KnownIn(p, made)
    BY <1>1, <1>4 DEF PartsInv, EntriesKnown, PartsKnown
  <2>2. p \in CodecType
    <3>1. made[codec.ctx][k] \in EntryType /\ made[codec.ctx][k] # None
      BY <1>1, <1>4 DEF ShapeInv, Typed, Finished
    <3>2. Parts(codec.ctx, k) \in Seq(CodecType)
      BY <3>1, EntryParts DEF Parts
    <3> QED BY <3>2
  <2>3. p.key \in Keys
    BY <2>2 DEF CodecType
  <2> HIDE DEF p
  <2>4. Filled(p)
    BY <1>2, <2>1, <2>3 DEF KnownIn, Filled
  <2> QED BY <2>4 DEF p
<1> QED BY <1>3, <1>4 DEF Complete

(* Without maps with interface keys a codec that is used has no empty      *)
(* placeholder in it (reflect.go:319), whoever else is building: what      *)
(* others can see has a settled ctx, and nothing in it is unfinished.      *)
THEOREM NoNilCodecAlways ==
  ASSUME NoDynamicMaps
  PROVE  Spec => []NoNilCodec
<1>1. Init => SettledFinished
  BY FinishedInit
<1>2. ShapeInv /\ SettleInv /\ SettledFinished /\ [Next]_vars => SettledFinished'
  BY FinishedNext
<1>3. ShapeInv /\ PartsInv /\ SettleInv /\ SettledFinished => NoNilCodec
  <2> SUFFICES ASSUME ShapeInv, PartsInv, SettleInv, SettledFinished, NEW g \in Goroutines, pc[g] = "use"
               PROVE  Complete(got[g])
    BY DEF NoNilCodec, SettledFinished
  <2>1. got[g] \in CodecType /\ got[g] # None
    BY NoneAssumption DEF ShapeInv, Placed
  <2>2. Settled(got[g].ctx) /\ KnownIn(got[g], made)
    BY <2>1 DEF PartsInv, CodecsKnown, SettleInv, CodecsSettled
  <2> QED BY <2>1, <2>2, SettledComplete
<1> QED BY <1>1, <1>2, <1>3, LayersAlways, PTL DEF Spec

----------------------------------------------------------------------------
(* Fourth layer: what the codecs are made of.  Of the n codecs a struct    *)
(* has asked for it keeps one side; what a frame has and what it has still *)
(* to ask for are the parts of its key; what a ctx has finished is made of *)
(* the right parts, and so is what others can see.                         *)
Taken(k, n) ==
  CASE Kind[k.type] # "struct" -> n
    [] Kind[k.type] = "struct" /\ k.side = "dec" -> (n + 1) \div 2
    [] Kind[k.type] = "struct" /\ k.side = "enc" -> n \div 2
RequestFits(f, r) ==
  /\ f.todo # <<>> => Head(f.todo) = r
  /\ f.parts # <<>> => f.parts[1].key = r
PartsGathered(f) ==
  \E n \in 0..Len(PartsOf(f.key)) :
    /\ Len(f.todo) = Len(PartsOf(f.key)) - n
    /\ \A i \in 1..Len(f.todo) : f.todo[i] = PartsOf(f.key)[n + i]
    /\ Len(f.parts) = Taken(f.key, n)
    /\ \A i \in 1..Len(f.parts) : f.parts[i].key = CodecsIn(f.key)[i]
FrameFits(f, r) ==
  /\ IF f.key = None THEN RequestFits(f, r) ELSE PartsGathered(f)
  /\ \A i \in 1..Len(f.parts) : ~f.parts[i].boxed
Request(g) == IF pc[g] = "build" THEN want[g] ELSE Key("enc", KeyType)
FramesFit(g) == \A i \in 1..Len(stack[g]) : FrameFits(stack[g][i], Request(g))

PartsFit(parts, c, k, w) ==
  /\ Len(parts) = Len(CodecsIn(k))
  /\ \A i \in 1..Len(CodecsIn(k)) :
       parts[i].key = CodecsIn(k)[i] /\ parts[i].wraps = w /\ ~parts[i].boxed /\ parts[i].ctx = c
CtxFits(m, c, w) ==
  \A k \in Keys : m[c][k] # None /\ m[c][k].filled => PartsFit(m[c][k].parts, c, k, w)
Answers(codec, k, m) ==
  /\ codec.key = k
  /\ codec.boxed = (k.side = "enc" /\ k.type \in PtrShaped)
  /\ ~codec.custom => CtxFits(m, codec.ctx, codec.wraps)
FitsInv ==
  /\ \A k \in Keys : cache[k] # None => Answers(cache[k], k, made)
  /\ \A g \in Goroutines : got[g] # None => Answers(got[g], want[g], made)
  /\ \A g \in Goroutines : Making(g) => FramesFit(g)
  /\ \A g \in Goroutines : pc[g] = "build" => CtxFits(made, Ctx(g), exts)

(* The parts of a key, one after the other.                                *)
LEMMA TakenAll ==
  ASSUME NEW k \in Keys
  PROVE  /\ Len(PartsOf(k)) \in Nat
         /\ Taken(k, 0) = 0 /\ Taken(k, Len(PartsOf(k))) = Len(CodecsIn(k))
         /\ Len(CodecsIn(k)) \in Nat
<1>1. k.side \in {"dec", "enc"} /\ k.type \in Types
  BY KeysFacts
<1>2. PartsOf(k) \in Seq(Keys) /\ Len(PartsOf(k)) \in Nat
  BY PartsOfType
<1>3. CASE Kind[k.type] # "struct"
  BY <1>2, <1>3 DEF Taken, CodecsIn
<1>4. CASE Kind[k.type] = "struct"
  <2> DEFINE m == Len(Elems[k.type])
  <2>1. m \in Nat
    BY <1>1, TypesAssumption
  <2>2. Len(PartsOf(k)) = 2 * m
    BY <1>4, <2>1 DEF PartsOf, BothOf
  <2>3. Len(CodecsIn(k)) = m
    BY <1>4, <2>1 DEF CodecsIn
  <2> HIDE DEF m
  <2>4. (2 * m + 1) \div 2 = m /\ (2 * m) \div 2 = m /\ (0 + 1) \div 2 = 0 /\ 0 \div 2 = 0
    BY <2>1
  <2>5. Taken(k, 0) = 0 /\ Taken(k, 2 * m) = m
    BY <1>1, <1>4, <2>4 DEF Taken
  <2> QED BY <1>2, <2>1, <2>2, <2>3, <2>5
<1> QED BY <1>3, <1>4

LEMMA TakenNext ==
  ASSUME NEW k \in Keys, NEW n \in Nat, n < Len(PartsOf(k))
  PROVE  LET p == PartsOf(k)[n + 1] IN
         /\ Taken(k, n) \in Nat
         /\ p.side = k.side => /\ Taken(k, n + 1) = Taken(k, n) + 1
                               /\ CodecsIn(k)[Taken(k, n) + 1] = p
         /\ p.side # k.side => Taken(k, n + 1) = Taken(k, n)
<1> DEFINE p == PartsOf(k)[n + 1]
<1>1. k.side \in {"dec", "enc"} /\ k.type \in Types /\ Kind[k.type] \in Kinds
  BY KeysFacts, TypesAssumption
<1>2. PartsOf(k) \in Seq(Keys) /\ Len(PartsOf(k)) \in Nat /\ n + 1 \in 1..Len(PartsOf(k))
  BY PartsOfType
<1>3. CASE Kind[k.type] # "struct"
  <2>1. p.side = k.side
    <3>1. Key(k.side, KeyType).side = k.side /\ ElemOf(k).side = k.side
      BY DEF Key, ElemOf
    <3>2. CASE Kind[k.type] = "native"
      BY <1>2, <3>2 DEF PartsOf
    <3>3. CASE Kind[k.type] = "map"
      <4>1. PartsOf(k) = <<Key(k.side, KeyType), ElemOf(k)>>
        BY <3>3 DEF PartsOf
      <4>2. n + 1 = 1 \/ n + 1 = 2
        BY <1>2, <4>1
      <4> QED BY <3>1, <4>1, <4>2
    <3>4. CASE Kind[k.type] \notin {"native", "map"}
      <4>1. PartsOf(k) = <<ElemOf(k)>>
        BY <1>3, <3>4 DEF PartsOf
      <4>2. n + 1 = 1
        BY <1>2, <4>1
      <4> QED BY <3>1, <4>1, <4>2
    <3> QED BY <3>2, <3>3, <3>4
  <2>2. Taken(k, n) = n /\ Taken(k, n + 1) = n + 1 /\ CodecsIn(k) = PartsOf(k)
    BY <1>3 DEF Taken, CodecsIn
  <2> QED BY <2>1, <2>2
<1>4. CASE Kind[k.type] = "struct"
  <2> DEFINE fields == Elems[k.type]
             m == Len(fields)
             i == (n + 2) \div 2
  <2>1. fields \in Seq(Types) /\ m \in Nat
    BY <1>1, TypesAssumption
  <2>2. PartsOf(k) = BothOf(fields) /\ Len(PartsOf(k)) = 2 * m
    BY <1>4, <2>1 DEF PartsOf, BothOf
  <2>3. p = Key(IF (n + 1) % 2 = 1 THEN "dec" ELSE "enc", fields[i])
    <3>1. n + 1 \in 1..(2 * m) /\ (n + 1) + 1 = n + 2
      BY <1>2, <2>2
    <3> QED BY <2>2, <3>1 DEF BothOf
  <2>4. i \in 1..m /\ CodecsIn(k)[i] = Key(k.side, fields[i])
    <3>1. i \in 1..m
      BY <1>2, <2>1, <2>2
    <3> QED BY <1>4, <3>1 DEF CodecsIn
  <2>5. p.side = IF (n + 1) % 2 = 1 THEN "dec" ELSE "enc"
    BY <2>3 DEF Key
  <2>6. CASE k.side = "dec"
    <3>1. Taken(k, n) = (n + 1) \div 2 /\ Taken(k, n + 1) = i
      BY <1>4, <2>6 DEF Taken
    <3>2. /\ (n + 1) % 2 = 1 => i = (n + 1) \div 2 + 1
          /\ (n + 1) % 2 # 1 => i = (n + 1) \div 2
          /\ (n + 1) \div 2 \in Nat
      OBVIOUS
    <3>3. CASE (n + 1) % 2 = 1
      <4>1. p.side = k.side /\ p = CodecsIn(k)[i] /\ Taken(k, n + 1) = Taken(k, n) + 1 /\ Taken(k, n) + 1 = i
        BY <2>3, <2>4, <2>6, <3>1, <3>2, <3>3 DEF Key
      <4> QED BY <3>1, <3>2, <4>1
    <3>4. CASE (n + 1) % 2 # 1
      <4>1. p.side # k.side /\ Taken(k, n + 1) = Taken(k, n)
        BY <2>5, <2>6, <3>1, <3>2, <3>4
      <4> QED BY <3>1, <3>2, <4>1
    <3> QED BY <3>3, <3>4
  <2>7. CASE k.side = "enc"
    <3>1. Taken(k, n) = n \div 2 /\ Taken(k, n + 1) = (n + 1) \div 2
      BY <1>4, <2>7 DEF Taken
    <3>2. /\ (n + 1) % 2 = 1 => (n + 1) \div 2 = n \div 2
          /\ (n + 1) % 2 # 1 => (n + 1) \div 2 = n \div 2 + 1 /\ n \div 2 + 1 = i
          /\ n \div 2 \in Nat
      OBVIOUS
    <3>3. CASE (n + 1) % 2 = 1
      <4>1. p.side # k.side /\ Taken(k, n + 1) = Taken(k, n)
        BY <2>5, <2>7, <3>1, <3>2, <3>3
      <4> QED BY <3>1, <3>2, <4>1
    <3>4. CASE (n + 1) % 2 # 1
      <4>1. p.side = k.side /\ p = CodecsIn(k)[i] /\ Taken(k, n + 1) = Taken(k, n) + 1 /\ Taken(k, n) + 1 = i
        BY <2>3, <2>4, <2>7, <3>1, <3>2, <3>4 DEF Key
      <4> QED BY <3>1, <3>2, <4>1
    <3> QED BY <3>3, <3>4
  <2> QED BY <1>1, <2>6, <2>7
<1> QED BY <1>3, <1>4

LEMMA TodoTail ==
  ASSUME NEW S, NEW todo \in Seq(S), todo # <<>>
  PROVE  /\ Len(todo) \in Nat /\ Len(todo) >= 1 /\ Head(todo) = todo[1]
         /\ Len(Tail(todo)) = Len(todo) - 1
         /\ \A i \in 1..Len(Tail(todo)) : Tail(todo)[i] = todo[i + 1]
<1>1. Len(todo) \in Nat /\ Len(todo) # 0
  BY EmptySeq
<1>2. Len(todo) >= 1
  BY <1>1
<1> QED BY <1>1, <1>2, TailProperties

LEMMA PartsAppend ==
  ASSUME NEW S, NEW parts \in Seq(S), NEW codec \in S
  PROVE  /\ Len(parts) \in Nat /\ Len(Append(parts, codec)) = Len(parts) + 1
         /\ Append(parts, codec) # <<>>
         /\ \A i \in 1..Len(parts) : Append(parts, codec)[i] = parts[i]
         /\ Append(parts, codec)[Len(parts) + 1] = codec
  OBVIOUS

(* A frame that is given the codec it asks for.                            *)
LEMMA DecoratedBare ==
  ASSUME NEW c, NEW k
  PROVE  ~Decorated(c, k).boxed
  BY DEF Decorated

LEMMA FrameTakes ==
  ASSUME NEW f \in FrameType, NEW r, FrameFits(f, r), f.todo # <<>>, f.key = None => BottomOK(f),
         NEW codec \in CodecType, codec.key = Head(f.todo), ~codec.boxed
  PROVE  FrameFits(With(f, codec), r)
<1> DEFINE t == With(f, codec)
<1>1. /\ f.todo \in Seq(Keys) /\ f.parts \in Seq(CodecType) /\ f.key \in Keys \cup {None}
      /\ t.key = f.key /\ t.todo = Tail(f.todo)
  BY WithType DEF FrameType
<1>2. t.parts = IF f.key = None \/ f.key.side = codec.key.side THEN Append(f.parts, codec) ELSE f.parts
  BY <1>1 DEF With, FrameType
<1> HIDE DEF t
<1>3. \A i \in 1..Len(t.parts) : ~t.parts[i].boxed
  <2>1. \A i \in 1..Len(f.parts) : ~f.parts[i].boxed
    BY DEF FrameFits
  <2>2. CASE t.parts = f.parts
    BY <2>1, <2>2
  <2>3. CASE t.parts = Append(f.parts, codec)
    <3>1. \A i \in 1..(Len(f.parts) + 1) : i \in 1..Len(f.parts) \/ i = Len(f.parts) + 1
      BY <1>1
    <3> QED BY <1>1, <2>1, <2>3, <3>1, PartsAppend
  <2> QED BY <1>2, <2>2, <2>3
<1>4. CASE f.key = None
  <2>1. Len(f.todo) = 1 /\ f.parts = <<>>
    BY <1>4 DEF BottomOK
  <2>2. t.todo = <<>> /\ t.parts = Append(<<>>, codec)
    BY <1>1, <1>2, <1>4, <2>1, TailOfOne
  <2>3. t.parts[1] = codec
    BY <2>2
  <2>4. codec.key = r
    BY <1>4 DEF FrameFits, RequestFits
  <2> QED BY <1>1, <1>3, <1>4, <2>2, <2>3, <2>4 DEF FrameFits, RequestFits, t
<1>5. CASE f.key # None
  <2> DEFINE k == f.key
             all == PartsOf(k)
  <2>1. k \in Keys /\ k # None /\ t.key = k
    BY <1>1, <1>5
  <2>2. PartsGathered(f)
    BY <1>5 DEF FrameFits
  <2>3. PICK n \in 0..Len(all) :
          /\ Len(f.todo) = Len(all) - n /\ \A i \in 1..Len(f.todo) : f.todo[i] = all[n + i]
          /\ Len(f.parts) = Taken(k, n) /\ \A i \in 1..Len(f.parts) : f.parts[i].key = CodecsIn(k)[i]
    BY <2>2 DEF PartsGathered
  <2>4. Len(all) \in Nat
    BY <2>1, TakenAll
  <2>5. /\ Len(f.todo) \in Nat /\ Len(f.todo) >= 1 /\ Head(f.todo) = f.todo[1]
        /\ Len(t.todo) = Len(f.todo) - 1 /\ \A i \in 1..Len(t.todo) : t.todo[i] = f.todo[i + 1]
    BY <1>1, TodoTail
  <2>6. n \in Nat /\ n < Len(all) /\ n + 1 \in 0..Len(all)
    BY <2>3, <2>4, <2>5
  <2>7. codec.key = all[n + 1]
    <3>1. 1 \in 1..Len(f.todo)
      BY <2>5
    <3> QED BY <2>3, <2>5, <3>1
  <2>8. Len(t.todo) = Len(all) - (n + 1) /\ \A i \in 1..Len(t.todo) : t.todo[i] = all[(n + 1) + i]
    <3>1. Len(t.todo) = Len(all) - (n + 1)
      BY <2>3, <2>4, <2>5, <2>6
    <3>2. ASSUME NEW i \in 1..Len(t.todo) PROVE t.todo[i] = all[(n + 1) + i]
      <4>1. i + 1 \in 1..Len(f.todo) /\ n + (i + 1) = (n + 1) + i
        BY <2>5, <2>6
      <4>2. f.todo[i + 1] = all[n + (i + 1)]
        BY <2>3, <4>1
      <4> QED BY <2>5, <4>1, <4>2
    <3> QED BY <3>1, <3>2
  <2> HIDE DEF k, all
  <2>9. /\ codec.key.side = k.side => /\ Taken(k, n + 1) = Taken(k, n) + 1
                                      /\ CodecsIn(k)[Taken(k, n) + 1] = codec.key
        /\ codec.key.side # k.side => Taken(k, n + 1) = Taken(k, n)
    BY <2>1, <2>6, <2>7, TakenNext DEF all
  <2>10. Len(t.parts) = Taken(k, n + 1) /\ \A i \in 1..Len(t.parts) : t.parts[i].key = CodecsIn(k)[i]
    <3>1. CASE codec.key.side = k.side
      <4>1. t.parts = Append(f.parts, codec)
        BY <1>2, <3>1 DEF k
      <4>2. Len(t.parts) = Len(f.parts) + 1 /\ Len(f.parts) \in Nat
        BY <1>1, <4>1, PartsAppend
      <4>3. ASSUME NEW i \in 1..Len(t.parts) PROVE t.parts[i].key = CodecsIn(k)[i]
        <5>1. i \in 1..Len(f.parts) \/ i = Len(f.parts) + 1
          BY <4>2
        <5> QED BY <1>1, <2>3, <2>9, <3>1, <4>1, <5>1, PartsAppend
      <4> QED BY <2>3, <2>9, <3>1, <4>2, <4>3
    <3>2. CASE codec.key.side # k.side
      BY <1>2, <1>5, <2>3, <2>9, <3>2 DEF k
    <3> QED BY <3>1, <3>2
  <2>11. PartsGathered(t)
    BY <2>1, <2>6, <2>8, <2>10 DEF PartsGathered, all
  <2> QED BY <1>3, <1>5, <2>1, <2>11 DEF FrameFits, t, k
<1> QED BY <1>4, <1>5

(* A new frame, for a key or for a call.                                   *)
LEMMA FrameStarts ==
  ASSUME NEW k \in Keys, NEW r
  PROVE  FrameFits(Frame(k, PartsOf(k)), r)
<1> DEFINE f == Frame(k, PartsOf(k))
<1>1. f.key = k /\ f.todo = PartsOf(k) /\ f.parts = <<>> /\ k # None
  BY PartsOfType, FrameIsFrame, KeysFacts
<1>2. Len(PartsOf(k)) \in Nat /\ Taken(k, 0) = 0
  BY TakenAll
<1> HIDE DEF f
<1>3. \A i \in 1..Len(f.parts) : FALSE
  BY <1>1
<1>4. Len(f.parts) = 0
  BY <1>1
<1>5. PartsGathered(f)
  <2>1. 0 \in 0..Len(PartsOf(k)) /\ Len(f.todo) = Len(PartsOf(k)) - 0
    BY <1>1, <1>2
  <2>2. \A i \in 1..Len(f.todo) : f.todo[i] = PartsOf(k)[0 + i]
    BY <1>1, <1>2
  <2> QED BY <1>1, <1>2, <1>3, <1>4, <2>1, <2>2 DEF PartsGathered
<1> QED BY <1>1, <1>3, <1>5 DEF FrameFits, f

LEMMA CallStarts ==
  ASSUME NEW k \in Keys
  PROVE  Len(Call1(k)) = 1 /\ FrameFits(Call1(k)[1], k)
<1> DEFINE f == Frame(None, <<k>>)
<1>1. <<k>> \in Seq(Keys) /\ None \in Keys \cup {None} /\ Head(<<k>>) = k
  OBVIOUS
<1>2. f.key = None /\ f.todo = <<k>> /\ f.parts = <<>>
  BY <1>1, FrameIsFrame
<1>3. Len(Call1(k)) = 1 /\ Call1(k)[1] = f
  BY Call1OK
<1> HIDE DEF f
<1>4. \A i \in 1..Len(f.parts) : FALSE
  BY <1>2
<1> QED BY <1>1, <1>2, <1>3, <1>4 DEF FrameFits, RequestFits

(* The parts a frame has when nothing is left to ask for.                  *)
LEMMA FrameEnds ==
  ASSUME NEW f \in FrameType, NEW r, FrameFits(f, r), f.todo = <<>>, f.key # None,
         NEW c, NEW m, NEW w, FrameGood(f, c, m, w)
  PROVE  PartsFit(f.parts, c, f.key, w)
<1> DEFINE k == f.key
<1>1. k \in Keys
  BY DEF FrameType
<1>2. PartsGathered(f)
  BY DEF FrameFits
<1>3. PICK n \in 0..Len(PartsOf(k)) :
        /\ Len(f.todo) = Len(PartsOf(k)) - n
        /\ Len(f.parts) = Taken(k, n) /\ \A i \in 1..Len(f.parts) : f.parts[i].key = CodecsIn(k)[i]
  BY <1>2 DEF PartsGathered
<1>4. Len(PartsOf(k)) \in Nat /\ Taken(k, Len(PartsOf(k))) = Len(CodecsIn(k))
  BY <1>1, TakenAll
<1>5. n = Len(PartsOf(k))
  <2>1. Len(f.todo) = 0
    OBVIOUS
  <2> QED BY <1>3, <1>4, <2>1
<1> HIDE DEF k
<1>6. Len(f.parts) = Len(CodecsIn(k))
  BY <1>3, <1>4, <1>5
<1> QED BY <1>3, <1>6 DEF PartsFit, FrameGood, PartsKnown, WrapsOf, FrameFits, k

LEMMA NoParts ==
  ASSUME NEW c, NEW w, NEW parts, Len(parts) = 0
  PROVE  PartsFit(parts, c, Key("enc", KeyType), w)
<1> DEFINE k == Key("enc", KeyType)
<1>1. CodecsIn(k) = <<>>
  <2>1. Kind[k.type] # "struct"
    BY TypesAssumption DEF Key
  <2> HIDE DEF k
  <2>2. CodecsIn(k) = PartsOf(k)
    BY <2>1 DEF CodecsIn
  <2> QED BY <2>2, KeyHasNoParts DEF k
<1>2. Len(CodecsIn(k)) = 0
  BY <1>1
<1> HIDE DEF k
<1>3. \A i \in 1..Len(CodecsIn(k)) : FALSE
  BY <1>2
<1> QED BY <1>2, <1>3 DEF PartsFit, k

(* What a ctx has finished stays made of the right parts.                  *)
LEMMA FitsKept ==
  ASSUME NEW m1, NEW m2, NEW c, NEW w, CtxFits(m1, c, w),
         \A k \in Keys : m2[c][k] # None /\ m2[c][k].filled =>
           m2[c][k] = m1[c][k] \/ PartsFit(m2[c][k].parts, c, k, w)
  PROVE  CtxFits(m2, c, w)
  BY DEF CtxFits

LEMMA AnswersKept ==
  ASSUME NEW codec, NEW k, NEW m1, NEW m2, Answers(codec, k, m1),
         CtxFits(m1, codec.ctx, codec.wraps) => CtxFits(m2, codec.ctx, codec.wraps)
  PROVE  Answers(codec, k, m2)
  BY DEF Answers

LEMMA FramesKept ==
  ASSUME NEW h \in Goroutines, FramesFit(h), pc'[h] = pc[h], want'[h] = want[h], stack'[h] = stack[h]
  PROVE  FramesFit(h)'
  BY DEF FramesFit, Request

(* Steps that make nothing.                                                *)
LEMMA QuietFits ==
  ASSUME FitsInv, NEW g \in Goroutines, UNCHANGED <<made, exts>>,
         \A h \in Goroutines : h # g => /\ pc'[h] = pc[h] /\ got'[h] = got[h] /\ calls'[h] = calls[h]
                                       /\ stack'[h] = stack[h] /\ want'[h] = want[h],
         \A k \in Keys : cache'[k] = cache[k] \/ Answers(cache'[k], k, made),
         got'[g] # None => Answers(got'[g], want'[g], made),
         Making(g)' => FramesFit(g)',
         pc'[g] = "build" => CtxFits(made, Ctx(g)', exts)
  PROVE  FitsInv'
<1>1. \A k \in Keys : cache'[k] # None => Answers(cache'[k], k, made')
  BY DEF FitsInv
<1>2. \A h \in Goroutines : got'[h] # None => Answers(got'[h], want'[h], made')
  BY DEF FitsInv
<1>3. \A h \in Goroutines : Making(h)' => FramesFit(h)'
  BY FramesKept DEF FitsInv, Making
<1>4. \A h \in Goroutines : pc'[h] = "build" => CtxFits(made', Ctx(h)', exts')
  BY DEF FitsInv, Ctx
<1> QED BY <1>1, <1>2, <1>3, <1>4 DEF FitsInv

LEMMA FitsInit == Init => FitsInv
  BY DEF Init, FitsInv, Making

LEMMA TakeFits ==
  ASSUME ShapeInv, FitsInv, NEW g \in Goroutines, Take(g)
  PROVE  FitsInv'
<1> DEFINE k == Head(Top(g).todo)
           d == Decorated(Ctx(g), k)
<1>1. /\ Making(g) /\ UNCHANGED <<exts, cache, made, calls, pc, want, got>>
      /\ \A h \in Goroutines : h # g => stack'[h] = stack[h]
      /\ k \in Keys /\ d \in CodecType /\ Len(stack'[g]) = Len(stack[g])
      /\ stack'[g][1] = With(stack[g][1], d)
      /\ \A i \in 2..Len(stack[g]) : stack'[g][i] = stack[g][i]
  BY TakeStack
<1>2. /\ Len(stack[g]) \in Nat /\ Len(stack[g]) >= 1 /\ StackOK(stack[g]) /\ Top(g) = stack[g][1]
      /\ stack[g][1] \in FrameType /\ Top(g).todo # <<>> /\ Ctx(g) \in Ctxs /\ Typed
  BY <1>1, TopType, CtxType DEF StackOK, Take, ShapeInv
<1>3. d.key = k /\ ~d.boxed
  BY <1>1, <1>2, DecoratedType, DecoratedBare
<1> HIDE DEF d
<1>4. FramesFit(g)'
  <2>1. Request(g)' = Request(g)
    BY <1>1 DEF Request
  <2>2. FramesFit(g)
    BY <1>1 DEF FitsInv
  <2>3. FrameFits(With(stack[g][1], d), Request(g))
    <3>1. FrameFits(stack[g][1], Request(g))
      BY <1>2, <2>2 DEF FramesFit
    <3>2. stack[g][1].key = None => BottomOK(stack[g][1])
      BY <1>2, KeysFacts DEF StackOK
    <3> QED BY <1>1, <1>2, <1>3, <3>1, <3>2, FrameTakes
  <2>4. \A i \in 1..Len(stack'[g]) : FrameFits(stack'[g][i], Request(g))
    <3> SUFFICES ASSUME NEW i \in 1..Len(stack'[g]) PROVE FrameFits(stack'[g][i], Request(g))
      OBVIOUS
    <3>1. i = 1 \/ (i \in 2..Len(stack[g]) /\ i \in 1..Len(stack[g]))
      BY <1>1, <1>2
    <3> QED BY <1>1, <2>2, <2>3, <3>1 DEF FramesFit
  <2> QED BY <2>1, <2>4 DEF FramesFit
<1>5. Ctx(g)' = Ctx(g)
  BY <1>1 DEF Ctx
<1>6. got'[g] # None => Answers(got'[g], want'[g], made)
  BY <1>1 DEF FitsInv
<1>7. pc'[g] = "build" => CtxFits(made, Ctx(g)', exts)
  BY <1>1, <1>5 DEF FitsInv
<1> QED BY <1>1, <1>4, <1>6, <1>7, QuietFits

(* The ctx of a build is settled for nobody, and no other build has it.    *)
LEMMA BuildsApart ==
  ASSUME ShapeInv, SettleInv, NEW g \in Goroutines, pc[g] = "build"
  PROVE  /\ Ctx(g) = <<g, calls[g]>> /\ ~Settled(Ctx(g))
         /\ \A k \in Keys : cache[k] # None => cache[k].ctx # Ctx(g)
         /\ \A h \in Goroutines : got[h] # None => got[h].ctx # Ctx(g)
         /\ \A h \in Goroutines : h # g /\ pc[h] = "build" => Ctx(h) # Ctx(g)
<1>1. Ctx(g) = <<g, calls[g]>> /\ calls[g] \in Nat
  BY DEF Ctx, ShapeInv, Typed
<1>2. ~Settled(Ctx(g))
  BY <1>1 DEF Settled
<1> QED BY <1>1, <1>2 DEF SettleInv, CodecsSettled, Ctx

(* A step of g that changes one entry of the ctx it makes codecs in, and   *)
(* its own stack.                                                          *)
LEMMA MakingFits ==
  ASSUME ShapeInv, SettleInv, FitsInv, NEW g \in Goroutines, Making(g),
         UNCHANGED <<exts, cache, calls, pc, want, got>>,
         \A h \in Goroutines : h # g => stack'[h] = stack[h],
         NEW k \in Keys,
         \A c \in Ctxs, j \in Keys : c # Ctx(g) \/ j # k => made'[c][j] = made[c][j],
         \/ ~made'[Ctx(g)][k].filled
         \/ PartsFit(made'[Ctx(g)][k].parts, Ctx(g), k, exts),
         pc[g] = "key" /\ made'[Ctx(g)][k].filled =>
           k = Key("enc", KeyType) /\ Len(made'[Ctx(g)][k].parts) = 0,
         FramesFit(g)'
  PROVE  FitsInv'
<1> DEFINE c == Ctx(g)
<1>1. Typed /\ c \in Ctxs /\ pc[g] \in {"build", "key"}
  BY CtxType DEF ShapeInv
<1>2. ASSUME NEW b \in Ctxs, NEW w, CtxFits(made, b, w), b # c \/ pc[g] = "key" \/ w = exts
      PROVE  CtxFits(made', b, w)
  <2>1. ASSUME NEW j \in Keys, made'[b][j] # None, made'[b][j].filled
        PROVE  made'[b][j] = made[b][j] \/ PartsFit(made'[b][j].parts, b, j, w)
    <3>1. CASE b # c \/ j # k
      BY <3>1
    <3>2. CASE b = c /\ j = k /\ pc[g] = "key"
      BY <2>1, <3>2, NoParts
    <3>3. CASE b = c /\ j = k /\ w = exts
      BY <2>1, <3>3
    <3> QED BY <1>2, <3>1, <3>2, <3>3
  <2> QED BY <1>2, <2>1, FitsKept
<1>3. ASSUME NEW codec \in CodecType, NEW j, Answers(codec, j, made), codec.ctx # c \/ pc[g] = "key"
      PROVE  Answers(codec, j, made')
  <2>1. codec.ctx \in Ctxs
    BY DEF CodecType
  <2> QED BY <1>2, <1>3, <2>1, AnswersKept
<1>4. /\ \A j \in Keys : cache[j] # None => cache[j] \in CodecType
      /\ \A h \in Goroutines : got[h] # None => got[h] \in CodecType
  BY <1>1 DEF Typed
<1>5. /\ \A j \in Keys : cache[j] # None => cache[j].ctx # c \/ pc[g] = "key"
      /\ \A h \in Goroutines : got[h] # None => got[h].ctx # c \/ pc[g] = "key"
  BY <1>1, BuildsApart
<1>6. \A j \in Keys : cache'[j] # None => Answers(cache'[j], j, made')
  BY <1>3, <1>4, <1>5 DEF FitsInv
<1>7. \A h \in Goroutines : got'[h] # None => Answers(got'[h], want'[h], made')
  BY <1>3, <1>4, <1>5 DEF FitsInv
<1>8. \A h \in Goroutines : Making(h)' => FramesFit(h)'
  BY FramesKept DEF FitsInv, Making
<1>9. ASSUME NEW h \in Goroutines, pc[h] = "build" PROVE CtxFits(made', Ctx(h), exts)
  <2>1. Ctx(h) \in Ctxs /\ CtxFits(made, Ctx(h), exts)
    BY <1>9, CtxType DEF FitsInv, Making
  <2> QED BY <1>2, <2>1
<1>10. \A h \in Goroutines : pc'[h] = "build" => CtxFits(made', Ctx(h)', exts')
  BY <1>9 DEF Ctx
<1> QED BY <1>6, <1>7, <1>8, <1>10 DEF FitsInv

LEMMA OpenFits ==
  ASSUME ShapeInv, SettleInv, FitsInv, NEW g \in Goroutines, Open(g)
  PROVE  FitsInv'
<1> DEFINE k == Head(Top(g).todo)
           c == Ctx(g)
<1>1. /\ Making(g) /\ k \in Keys
      /\ UNCHANGED <<exts, cache, calls, pc, want, got>>
      /\ made' = [made EXCEPT ![c][k] = Placeholder]
      /\ \A h \in Goroutines : h # g => stack'[h] = stack[h]
      /\ Len(stack'[g]) = Len(stack[g]) + 1
      /\ stack'[g][1] = Frame(k, PartsOf(k))
      /\ \A i \in 1..Len(stack[g]) : stack'[g][i + 1] = stack[g][i]
  BY OpenStack
<1>2. c \in Ctxs /\ Typed /\ Len(stack[g]) \in Nat
  BY <1>1, CtxType, TopType DEF ShapeInv
<1>3. /\ made'[c][k] = Placeholder
      /\ \A d \in Ctxs, j \in Keys : (d # c \/ j # k) => made'[d][j] = made[d][j]
  BY <1>1, <1>2 DEF Typed
<1>4. ~Placeholder.filled
  BY DEF Placeholder
<1> HIDE DEF k
<1>5. FramesFit(g)'
  <2>1. Request(g)' = Request(g)
    BY <1>1 DEF Request
  <2>2. FramesFit(g)
    BY <1>1 DEF FitsInv
  <2>3. \A i \in 1..Len(stack'[g]) : FrameFits(stack'[g][i], Request(g))
    <3> SUFFICES ASSUME NEW i \in 1..Len(stack'[g]) PROVE FrameFits(stack'[g][i], Request(g))
      OBVIOUS
    <3>1. CASE i = 1
      BY <1>1, <3>1, FrameStarts
    <3>2. CASE i # 1
      <4>1. i - 1 \in 1..Len(stack[g]) /\ (i - 1) + 1 = i
        BY <1>1, <1>2, <3>2
      <4>2. stack'[g][i] = stack[g][i - 1]
        BY <1>1, <4>1
      <4> QED BY <2>2, <4>1, <4>2 DEF FramesFit
    <3> QED BY <3>1, <3>2
  <2> QED BY <2>1, <2>3 DEF FramesFit
<1> QED BY <1>1, <1>3, <1>4, <1>5, MakingFits

LEMMA CloseFits ==
  ASSUME ShapeInv, PartsInv, SettleInv, FitsInv, NEW g \in Goroutines, Close(g)
  PROVE  FitsInv'
<1> DEFINE k == Top(g).key
           c == Ctx(g)
           d == Decorated(c, k)
           e == Made(Top(g).parts)
<1>1. /\ Making(g) /\ k \in Keys /\ d \in CodecType
      /\ UNCHANGED <<exts, cache, calls, pc, want, got>>
      /\ made' = [made EXCEPT ![c][k] = e]
      /\ \A h \in Goroutines : h # g => stack'[h] = stack[h]
      /\ Len(stack'[g]) = Len(stack[g]) - 1 /\ Len(stack[g]) >= 2
      /\ stack'[g][1] = With(stack[g][2], d)
      /\ \A i \in 2..(Len(stack[g]) - 1) : stack'[g][i] = stack[g][i + 1]
      /\ stack[g][2] \in FrameType /\ stack[g][2].todo # <<>>
  BY CloseStack
<1>2. /\ c \in Ctxs /\ Typed /\ Len(stack[g]) \in Nat
      /\ Top(g) = stack[g][1] /\ Top(g) \in FrameType /\ StackOK(stack[g])
      /\ Top(g).todo = <<>> /\ k # None
  BY <1>1, CtxType, TopType, KeysFacts DEF ShapeInv, Close
<1>3. /\ made'[c][k] = e
      /\ \A b \in Ctxs, j \in Keys : (b # c \/ j # k) => made'[b][j] = made[b][j]
  BY <1>1, <1>2 DEF Typed
<1>4. d.key = k /\ ~d.boxed
  BY <1>1, <1>2, DecoratedType, DecoratedBare
<1>5. e.parts = Top(g).parts
  BY DEF Made
<1>6. FramesFit(g) /\ 1 \in 1..Len(stack[g]) /\ 2 \in 1..Len(stack[g])
  BY <1>1, <1>2 DEF FitsInv
<1>7. Head(stack[g][2].todo) = k
  <2>1. 2 \in 2..Len(stack[g]) /\ 2 - 1 = 1
    BY <1>1, <1>2
  <2> QED BY <1>2, <2>1 DEF StackOK
<1>8. PartsFit(e.parts, c, k, exts)
  <2>1. FrameGood(stack[g][1], c, made, exts)
    BY <1>1, <1>6 DEF PartsInv, FramesGood
  <2>2. FrameFits(stack[g][1], Request(g))
    BY <1>6 DEF FramesFit
  <2> QED BY <1>2, <1>5, <2>1, <2>2, FrameEnds
<1> HIDE DEF d, e
<1>9. pc[g] = "key" => k = Key("enc", KeyType) /\ Len(e.parts) = 0
  <2> SUFFICES ASSUME pc[g] = "key" PROVE k = Key("enc", KeyType) /\ Len(e.parts) = 0
    OBVIOUS
  <2>1. Len(stack[g]) = 2
    BY <1>1, <1>2 DEF SettleInv, Own, KeyCall
  <2>2. stack[g][2].key = None
    BY <1>2, <2>1 DEF StackOK, BottomOK
  <2>3. FrameFits(stack[g][2], Key("enc", KeyType))
    BY <1>6 DEF FramesFit, Request
  <2>4. k = Key("enc", KeyType)
    BY <1>1, <1>7, <2>2, <2>3 DEF FrameFits, RequestFits
  <2>5. CodecsIn(k) = <<>>
    <3>1. Kind[k.type] # "struct"
      BY <2>4, TypesAssumption DEF Key
    <3> QED BY <2>4, <3>1, KeyHasNoParts DEF CodecsIn
  <2> QED BY <1>8, <2>4, <2>5 DEF PartsFit
<1>10. FramesFit(g)'
  <2>1. Request(g)' = Request(g)
    BY <1>1 DEF Request
  <2>2. FrameFits(With(stack[g][2], d), Request(g))
    <3>1. FrameFits(stack[g][2], Request(g))
      BY <1>6 DEF FramesFit
    <3>2. stack[g][2].key = None => BottomOK(stack[g][2])
      <4>1. CASE Len(stack[g]) = 2
        BY <1>2, <4>1 DEF StackOK
      <4>2. CASE Len(stack[g]) # 2
        <5>1. \A n \in Nat : n >= 2 /\ n # 2 => 2 \in 1..(n - 1)
          OBVIOUS
        <5>2. 2 \in 1..(Len(stack[g]) - 1)
          BY <1>1, <1>2, <4>2, <5>1
        <5> QED BY <1>2, <5>2, KeysFacts DEF StackOK
      <4> QED BY <4>1, <4>2
    <3> QED BY <1>1, <1>4, <1>7, <3>1, <3>2, FrameTakes
  <2>3. \A i \in 1..Len(stack'[g]) : FrameFits(stack'[g][i], Request(g))
    <3> SUFFICES ASSUME NEW i \in 1..Len(stack'[g]) PROVE FrameFits(stack'[g][i], Request(g))
      OBVIOUS
    <3>1. CASE i = 1
      BY <1>1, <2>2, <3>1
    <3>2. CASE i # 1
      <4>1. i \in 2..(Len(stack[g]) - 1) /\ i + 1 \in 1..Len(stack[g])
        BY <1>1, <1>2, <3>2
      <4> QED BY <1>1, <1>6, <4>1 DEF FramesFit
    <3> QED BY <3>1, <3>2
  <2> QED BY <2>1, <2>3 DEF FramesFit
<1> HIDE DEF k, c
<1> QED BY <1>1, <1>3, <1>8, <1>9, <1>10, MakingFits DEF c

LEMMA StoreFits ==
  ASSUME ShapeInv, PartsInv, FitsInv, NEW g \in Goroutines, Store(g)
  PROVE  FitsInv'
<1> DEFINE b == Boxed(Result(g))
           k == want[g]
<1>1. /\ b \in CodecType /\ b.wraps = exts /\ b.ctx = <<g, calls[g]>> /\ k \in Keys
      /\ cache' = [cache EXCEPT ![k] = b] /\ got' = [got EXCEPT ![g] = b]
  BY StoredCodec
<1>2. /\ pc[g] = "build" /\ Returned(g) /\ Making(g) /\ pc'[g] = "use"
      /\ UNCHANGED <<exts, made, calls, want>> /\ Typed
      /\ \A h \in Goroutines : h # g => pc'[h] = pc[h] /\ stack'[h] = stack[h] /\ got'[h] = got[h]
  BY DEF Store, Making, ShapeInv, Typed
<1>3. /\ Len(stack[g]) = 1 /\ Len(Top(g).parts) = 1 /\ Result(g) \in CodecType /\ Top(g) = stack[g][1]
  BY <1>2, ResultType, TopType
<1>4. Result(g).key = k
  <2>1. FrameFits(stack[g][1], k)
    <3>1. FramesFit(g) /\ 1 \in 1..Len(stack[g])
      BY <1>2, <1>3 DEF FitsInv
    <3> QED BY <1>2, <3>1 DEF FramesFit, Request
  <2>2. stack[g][1].key = None /\ stack[g][1].parts # <<>>
    BY <1>2, <1>3 DEF Returned
  <2> QED BY <1>3, <2>1, <2>2 DEF FrameFits, RequestFits, Result
<1>5. b.key = k /\ b.boxed = (k.side = "enc" /\ k.type \in PtrShaped)
  <2>1. b.key = k
    BY <1>3, <1>4, BoxedType
  <2>2. b.boxed = (Result(g).key.side = "enc" /\ Result(g).key.type \in PtrShaped)
    BY <1>3 DEF Boxed, CodecType
  <2> QED BY <1>4, <2>1, <2>2
<1> HIDE DEF b, k
<1>6. Answers(b, k, made)
  <2>1. CtxFits(made, <<g, calls[g]>>, exts)
    BY <1>2 DEF FitsInv, Ctx
  <2> QED BY <1>1, <1>5, <2>1 DEF Answers
<1>7. \A j \in Keys : cache'[j] = cache[j] \/ Answers(cache'[j], j, made)
  BY <1>1, <1>2, <1>6 DEF Typed
<1>8. got'[g] # None => Answers(got'[g], want'[g], made)
  BY <1>1, <1>2, <1>6 DEF Typed, k
<1>9. ~Making(g)' /\ pc'[g] # "build"
  BY <1>2 DEF Making
<1> QED BY <1>2, <1>7, <1>8, <1>9, QuietFits

LEMMA FitsNext ==
  ASSUME ShapeInv, PartsInv, SettleInv, FitsInv, [Next]_vars
  PROVE  FitsInv'
<1>1. Typed
  BY DEF ShapeInv
<1>2. CASE UNCHANGED vars
  BY <1>2 DEF vars, FitsInv, Making, FramesFit, Request, Ctx
<1>3. ASSUME NEW e \in Extensions, RegisterExtension(e) PROVE FitsInv'
  <2>1. UNCHANGED <<cache, made, calls, pc, want, got, stack>> /\ \A g \in Goroutines : pc[g] = "idle"
    BY <1>3 DEF RegisterExtension
  <2> QED BY <2>1 DEF FitsInv, Making
<1>4. ASSUME NEW g \in Goroutines, NEW k \in Requests, Ask(g, k) PROVE FitsInv'
  <2>1. /\ pc'[g] = "load" /\ got'[g] = None /\ UNCHANGED <<exts, cache, made, stack>>
        /\ \A h \in Goroutines : h # g => /\ pc'[h] = pc[h] /\ got'[h] = got[h] /\ calls'[h] = calls[h]
                                          /\ want'[h] = want[h]
    BY <1>1, <1>4 DEF Ask, Typed
  <2>2. ~Making(g)' /\ pc'[g] # "build"
    BY <2>1 DEF Making
  <2> QED BY <2>1, <2>2, QuietFits
<1>5. ASSUME NEW g \in Goroutines, Hit(g) PROVE FitsInv'
  <2>1. /\ pc'[g] = "use" /\ got'[g] = cache[want[g]] /\ want[g] \in Keys
        /\ UNCHANGED <<exts, cache, made, calls, want, stack>>
        /\ \A h \in Goroutines : h # g => pc'[h] = pc[h] /\ got'[h] = got[h]
    BY <1>1, <1>5 DEF Hit, Lookup, Typed, ShapeInv, Placed
  <2>2. ~Making(g)' /\ pc'[g] # "build"
    BY <2>1 DEF Making
  <2>3. got'[g] # None => Answers(got'[g], want'[g], made)
    BY <2>1 DEF FitsInv
  <2> QED BY <2>1, <2>2, <2>3, QuietFits
<1>6. ASSUME NEW g \in Goroutines, Miss(g) \/ Return(g) PROVE FitsInv'
  <2>1. /\ pc'[g] \in {"again", "idle"} /\ UNCHANGED <<exts, cache, made, calls, want, got>>
        /\ \A h \in Goroutines : h # g => pc'[h] = pc[h] /\ stack'[h] = stack[h]
    BY <1>1, <1>6 DEF Miss, Return, Typed
  <2>2. ~Making(g)' /\ pc'[g] # "build"
    BY <2>1 DEF Making
  <2>3. got'[g] # None => Answers(got'[g], want'[g], made)
    BY <2>1 DEF FitsInv
  <2> QED BY <2>1, <2>2, <2>3, QuietFits
<1>7. ASSUME NEW g \in Goroutines, Build(g) PROVE FitsInv'
  <2>1. /\ pc[g] = "again" /\ pc'[g] = "build" /\ stack'[g] = Call1(want[g]) /\ want[g] \in Keys
        /\ UNCHANGED <<exts, cache, made, calls, want, got>>
        /\ \A h \in Goroutines : h # g => pc'[h] = pc[h] /\ stack'[h] = stack[h]
    BY <1>1, <1>7 DEF Build, Typed, ShapeInv, Placed
  <2>2. FramesFit(g)'
    <3>1. Len(stack'[g]) = 1 /\ FrameFits(stack'[g][1], want[g])
      BY <2>1, CallStarts
    <3>2. \A i \in 1..Len(stack'[g]) : i = 1
      BY <3>1
    <3> QED BY <2>1, <3>1, <3>2 DEF FramesFit, Request
  <2>3. CtxFits(made, Ctx(g)', exts)
    <3>1. calls[g] \in 1..MaxCalls
      <4>1. calls[g] \in 0..MaxCalls /\ calls[g] > 0
        BY <1>1, <2>1 DEF ShapeInv, Placed, Typed
      <4> QED BY <4>1, TypesAssumption
    <3>2. \A k \in Keys : made[<<g, calls[g]>>][k] = None
      BY <2>1, <3>1 DEF SettleInv, Fresh, Ahead
    <3>3. Ctx(g)' = <<g, calls[g]>>
      BY <2>1 DEF Ctx
    <3> QED BY <3>2, <3>3 DEF CtxFits
  <2>4. got'[g] # None => Answers(got'[g], want'[g], made)
    BY <2>1 DEF FitsInv
  <2> QED BY <2>1, <2>2, <2>3, <2>4, QuietFits
<1>8. ASSUME NEW g \in Goroutines, EncodeKey(g) PROVE FitsInv'
  <2> DEFINE k == Key("enc", KeyType)
  <2>1. /\ pc'[g] = "key" /\ stack'[g] = Call1(k) /\ k \in Keys
        /\ UNCHANGED <<exts, cache, made, calls, want, got>>
        /\ \A h \in Goroutines : h # g => pc'[h] = pc[h] /\ stack'[h] = stack[h]
    BY <1>1, <1>8, KeysFacts, TypesAssumption DEF EncodeKey, Typed
  <2>2. FramesFit(g)'
    <3>1. Len(stack'[g]) = 1 /\ FrameFits(stack'[g][1], k)
      BY <2>1, CallStarts
    <3>2. \A i \in 1..Len(stack'[g]) : i = 1
      BY <3>1
    <3> QED BY <2>1, <3>1, <3>2 DEF FramesFit, Request
  <2>3. got'[g] # None => Answers(got'[g], want'[g], made)
    BY <2>1 DEF FitsInv
  <2> QED BY <2>1, <2>2, <2>3, QuietFits
<1>9. ASSUME NEW g \in Goroutines, Take(g) \/ Open(g) \/ Close(g) \/ Store(g) PROVE FitsInv'
  BY <1>9, TakeFits, OpenFits, CloseFits, StoreFits
<1> QED BY <1>2, <1>3, <1>4, <1>5, <1>6, <1>7, <1>8, <1>9 DEF Next, Run

(* A codec that is used is the codec of the type that was asked for, boxed *)
(* if the value is, and made, down to its last part, of the codecs of the  *)
(* elements and fields in their order, each decorated once (reflect.go:119) *)
(* by the extensions there were when it was made.                          *)
THEOREM EveryCodecFits == Spec => []CodecFits
<1>1. Init => FitsInv
  BY FitsInit
<1>2. ShapeInv /\ PartsInv /\ SettleInv /\ FitsInv /\ [Next]_vars => FitsInv'
  BY FitsNext
<1>3. ShapeInv /\ FitsInv => CodecFits
  <2> SUFFICES ASSUME ShapeInv, FitsInv, NEW g \in Goroutines, pc[g] = "use"
               PROVE  /\ got[g].key = want[g]
                      /\ got[g].boxed = (want[g].side = "enc" /\ want[g].type \in PtrShaped)
                      /\ ~got[g].custom =>
                           \A k \in Keys : Finished(got[g].ctx, k) => FitsKey(got[g].ctx, k, got[g].wraps)
    BY DEF CodecFits
  <2>1. got[g] # None
    BY NoneAssumption DEF ShapeInv, Placed
  <2>2. Answers(got[g], want[g], made)
    BY <2>1 DEF FitsInv
  <2>3. ASSUME ~got[g].custom, NEW k \in Keys, Finished(got[g].ctx, k)
        PROVE  FitsKey(got[g].ctx, k, got[g].wraps)
    <3>1. made[got[g].ctx][k] # None /\ made[got[g].ctx][k].filled
      BY <2>3 DEF Finished
    <3>2. PartsFit(made[got[g].ctx][k].parts, got[g].ctx, k, got[g].wraps)
      BY <2>2, <2>3, <3>1 DEF Answers, CtxFits
    <3> QED BY <3>2 DEF PartsFit, FitsKey, Parts
  <2> QED BY <2>2, <2>3 DEF Answers
<1> QED BY <1>1, <1>2, <1>3, LayersAlways, PTL DEF Spec
=============================================================================
