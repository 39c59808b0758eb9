------------------------------- MODULE Stream -------------------------------
(* Marshal and Encoder.Encode: values written through Streams that come    *)
(* from a shared pool (stream.go, pool.go, config.go:299, adapter.go:126,  *)
(* and the encoders of structs, slices, sorted maps and Marshalers).       *)
(*                                                                         *)
(* Several goroutines encode at once.  Each Marshal borrows a stream and   *)
(* copies the result out of it; the encoder of a sorted map borrows one    *)
(* more, encodes its members there in the order of Go's map iteration, and *)
(* writes them sorted.  An Encoder owns a stream with a writer, which may  *)
(* take a part of what it is given and fail.  A value may fail to encode,  *)
(* and a MarshalJSON method may panic, which unwinds through Marshal.      *)
EXTENDS Naturals, Sequences

CONSTANTS
  Goroutines,
  StreamIds,     \* bound: the streams the pool can make
  Names,         \* member names, in sorted order
  Steps,         \* the values of indentionStep
  Values,        \* Values[n]: the values encoded with indentionStep = n
  Calls,         \* which of Marshal and Encode the goroutines call
  MaxCalls,      \* bound: calls of all goroutines
  MaxFailures,   \* bound: failures of all writers
  None

\* A value: a scalar, one that cannot be encoded ("bad"), one whose MarshalJSON
\* succeeds ("marshaler") or panics ("panic"), or made of parts.  The names of
\* the members of an object or a map are indexes into Names.
Kinds == {"scalar", "bad", "marshaler", "panic", "array", "object", "map"}

ASSUME ValuesAssumption ==
  /\ Steps \subseteq Nat
  /\ Calls \subseteq {"Marshal", "Encode"}
  /\ MaxCalls \in Nat /\ MaxFailures \in Nat
  /\ None \notin StreamIds \cup Goroutines /\ StreamIds \cap Goroutines = {}

VARIABLES
  step,      \* frozenConfig.indentionStep
  streams,   \* the Stream structs that were made; an Encoder's has its owner's name
  pool,      \* streamPool
  stack,     \* the Encode calls each goroutine is in, innermost first
  call,      \* the API call each goroutine is in
  result,    \* what its last Marshal returned
  sent,      \* the values given to its Encoder
  written,   \* what the writer of its Encoder took
  calls,     \* number of calls so far
  failures   \* failures of writers so far

vars == <<step, streams, pool, stack, call, result, sent, written, calls, failures>>

----------------------------------------------------------------------------
(* Writing into the buffer (stream.go:67-210).                             *)
NewStream == [buf |-> <<>>, err |-> "nil", indention |-> 0]
Put(s, bytes) == [s EXCEPT !.buf = @ \o bytes]

WriteIndention(s, delta) ==
  IF s.indention = 0 THEN s
  ELSE Put(s, <<"\n">> \o [i \in 1..(s.indention - delta) |-> " "])
WriteStartFlat(s, bracket) == WriteIndention(Put(s, <<bracket>>), 0)
WriteStart(s, bracket) ==
  WriteIndention(Put([s EXCEPT !.indention = @ + step], <<bracket>>), 0)
WriteEnd(s, bracket) ==
  LET t == WriteIndention(s, step) IN Put([t EXCEPT !.indention = @ - step], <<bracket>>)
WriteMore(s) == WriteIndention(Put(s, <<",">>), 0)
Colon(s) == IF s.indention > 0 THEN <<":", " ">> ELSE <<":">>
WriteObjectField(s, name) == Put(s, <<Names[name]>> \o Colon(s))

(* Stream.Write: the bytes join the buffer, and with a writer the whole    *)
(* buffer is offered to it; it takes n bytes, the rest stays.              *)
WriteKeepsAll(s, bytes, n) == Put(s, bytes)
Write(s, bytes, n) == [s EXCEPT !.buf = SubSeq(@ \o bytes, n + 1, Len(@) + Len(bytes))]

HasWriter(id) == id \in Goroutines
\* how much of len bytes the writer of stream id takes, with no error or with one
Taken(id, len) ==
  IF ~HasWriter(id) THEN {0} ELSE IF failures < MaxFailures THEN 0..len ELSE {len}

----------------------------------------------------------------------------
(* The pool (pool.go:19): Borrow resets the buffer, Return the error.  Get *)
(* may make a stream while others wait in the pool.                        *)
Made == DOMAIN streams
Borrowed(id) == IF id \in Made THEN [streams[id] EXCEPT !.buf = <<>>] ELSE NewStream
CanBorrow == {id \in StreamIds : id \in pool \/ id \notin Made}
Borrow(id) == [i \in Made \cup {id} |-> IF i = id THEN Borrowed(id) ELSE streams[i]]
ReturnedWithError(s) == s
Returned(s) == [s EXCEPT !.err = "nil"]

----------------------------------------------------------------------------
\* one call of a ValEncoder: its value, the stream it writes on, how many
\* parts it has begun; a map's also has the order it iterates in, its
\* subStream, where in it the last member begins, and the members encoded
Frame(v, id) ==
  [val |-> v, on |-> id, at |-> 0, order |-> <<>>, sub |-> None, subAt |-> 0, members |-> <<>>,
   sorted |-> FALSE]
Top(g) == Head(stack[g])
On(g) == streams[Top(g).on]
Encoding(g, kinds) == stack[g] # <<>> /\ Top(g).val.kind \in kinds

Pop(g) == stack' = [stack EXCEPT ![g] = Tail(@)]
Push(g, frame, v, id) == stack' = [stack EXCEPT ![g] = <<Frame(v, id), frame>> \o Tail(@)]
Replace(g, frame) == stack' = [stack EXCEPT ![g] = <<frame>> \o Tail(@)]
Emit(g, s) == streams' = [streams EXCEPT ![Top(g).on] = s]

EncodeScalar(g) ==
  /\ Encoding(g, {"scalar"})
  /\ Emit(g, Put(On(g), <<"1">>))
  /\ Pop(g)
  /\ UNCHANGED <<step, pool, call, result, sent, written, calls, failures>>

(* stream_float.go:17: an infinity or NaN.                                 *)
EncodeBad(g) ==
  /\ Encoding(g, {"bad"})
  /\ Emit(g, [On(g) EXCEPT !.err = "bad"])
  /\ Pop(g)
  /\ UNCHANGED <<step, pool, call, result, sent, written, calls, failures>>

(* The bytes are offered with all that is buffered; what Stream.Write      *)
(* returns is dropped.                                                     *)
Offer(g, s, bytes) ==
  \E n \in Taken(Top(g).on, Len(s.buf) + Len(bytes)) :
    /\ Emit(g, Write(s, bytes, n))
    /\ written' = IF HasWriter(Top(g).on)
                  THEN [written EXCEPT ![g] = @ \o SubSeq(s.buf \o bytes, 1, n)] ELSE written
    /\ failures' = IF HasWriter(Top(g).on) /\ n # Len(s.buf) + Len(bytes) THEN failures + 1 ELSE failures

(* reflect_marshaler.go:108                                                *)
EncodeMarshaler(g) ==
  /\ Encoding(g, {"marshaler"})
  /\ Offer(g, On(g), <<"m">>)
  /\ Pop(g)
  /\ UNCHANGED <<step, pool, call, result, sent, calls>>

----------------------------------------------------------------------------
(* sliceEncoder and structEncoder.                                         *)
Bracket(v) == IF v.kind = "array" THEN <<"[", "]">> ELSE <<"{", "}">>

EncodePart(g) ==
  /\ Encoding(g, {"array", "object"}) /\ Top(g).at < Len(Top(g).val.parts)
  /\ LET f == Top(g)
         i == f.at + 1
         begun == IF i = 1 THEN WriteStart(On(g), Bracket(f.val)[1]) ELSE WriteMore(On(g))
     IN
     /\ Emit(g, IF f.val.kind = "object" THEN WriteObjectField(begun, f.val.names[i]) ELSE begun)
     /\ Push(g, [f EXCEPT !.at = i], f.val.parts[i], f.on)
  /\ UNCHANGED <<step, pool, call, result, sent, written, calls, failures>>

EncodeEnd(g) ==
  /\ Encoding(g, {"array", "object"}) /\ Top(g).at = Len(Top(g).val.parts)
  /\ Emit(g, IF Len(Top(g).val.parts) = 0 THEN Put(On(g), Bracket(Top(g).val))
             ELSE WriteEnd(On(g), Bracket(Top(g).val)[2]))
  /\ Pop(g)
  /\ UNCHANGED <<step, pool, call, result, sent, written, calls, failures>>

----------------------------------------------------------------------------
(* sortKeysMapEncoder (reflect_map.go:288).                                *)
Orders(v) == {o \in [1..Len(v.parts) -> 1..Len(v.parts)] : \A i, j \in DOMAIN o : o[i] = o[j] => i = j}

MapStart(g) ==
  /\ Encoding(g, {"map"}) /\ Top(g).sub = None
  /\ \E id \in CanBorrow, o \in Orders(Top(g).val) :
       /\ streams' = [Borrow(id) EXCEPT ![Top(g).on] = WriteStart(@, "{")]
       /\ pool' = pool \ {id}
       /\ Replace(g, [Top(g) EXCEPT !.sub = id, !.order = o])
  /\ UNCHANGED <<step, call, result, sent, written, calls, failures>>

\* the members encoded once the one begun last is complete
Members(f) ==
  IF f.at = 0 THEN <<>>
  ELSE Append(f.members,
         [name |-> f.val.names[f.order[f.at]],
          bytes |-> SubSeq(streams[f.sub].buf, f.subAt + 1, Len(streams[f.sub].buf))])
\* the error of the subStream, unless there is one already
Inherit(s, sub) == IF s.err = "nil" /\ sub.err # "nil" THEN [s EXCEPT !.err = sub.err] ELSE s

MapMember(g) ==
  /\ Encoding(g, {"map"}) /\ Top(g).sub # None /\ ~Top(g).sorted
  /\ Top(g).at < Len(Top(g).val.parts)
  /\ LET f == Top(g)
         sub == streams[f.sub]
         i == f.order[f.at + 1]
     IN
     /\ streams' = [streams EXCEPT
                      ![f.on] = Inherit(@, sub),
                      ![f.sub] = Put(@, <<Names[f.val.names[i]]>> \o Colon(On(g)))]
     /\ Push(g, [f EXCEPT !.at = @ + 1, !.members = Members(f), !.subAt = Len(sub.buf)],
             f.val.parts[i], f.sub)
  /\ UNCHANGED <<step, pool, call, result, sent, written, calls, failures>>

\* the indexes of some names in the order of the names
Ordering(names) ==
  CHOOSE o \in [DOMAIN names -> DOMAIN names] :
    \A i, j \in DOMAIN names : i < j => o[i] # o[j] /\ names[o[i]] <= names[o[j]]
Sorted(members) ==
  LET o == Ordering([i \in DOMAIN members |-> members[i].name])
  IN [i \in DOMAIN members |-> members[o[i]]]
MapSort(g) ==
  /\ Encoding(g, {"map"}) /\ Top(g).sub # None /\ ~Top(g).sorted
  /\ Top(g).at = Len(Top(g).val.parts)
  /\ Replace(g, [Top(g) EXCEPT !.sorted = TRUE, !.at = 0, !.members = Sorted(Members(Top(g)))])
  /\ UNCHANGED <<step, streams, pool, call, result, sent, written, calls, failures>>

MapWrite(g) ==
  /\ Encoding(g, {"map"}) /\ Top(g).sorted /\ Top(g).at < Len(Top(g).members)
  /\ LET f == Top(g) IN
     /\ Offer(g, IF f.at = 0 THEN On(g) ELSE WriteMore(On(g)), f.members[f.at + 1].bytes)
     /\ Replace(g, [f EXCEPT !.at = @ + 1])
  /\ UNCHANGED <<step, pool, call, result, sent, calls>>

MapEndLeaks(g) ==
  /\ Encoding(g, {"map"}) /\ Top(g).sorted /\ Top(g).at = Len(Top(g).members)
  /\ Emit(g, WriteEnd(Inherit(On(g), streams[Top(g).sub]), "}"))
  /\ Pop(g)
  /\ UNCHANGED <<step, pool, call, result, sent, written, calls, failures>>
MapEnd(g) ==
  /\ Encoding(g, {"map"}) /\ Top(g).sorted /\ Top(g).at = Len(Top(g).members)
  /\ streams' = [streams EXCEPT
                   ![Top(g).on] = WriteEnd(Inherit(@, streams[Top(g).sub]), "}"),
                   ![Top(g).sub] = Returned(@)]
  /\ pool' = pool \cup {Top(g).sub}
  /\ Pop(g)
  /\ UNCHANGED <<step, call, result, sent, written, calls, failures>>

----------------------------------------------------------------------------
(* frozenConfig.Marshal.                                                   *)
Idle(g) == call[g].name = "none"
NoCall == [name |-> "none", val |-> None, stream |-> None]

Marshal(g, v) ==
  /\ Idle(g) /\ "Marshal" \in Calls /\ calls < MaxCalls
  /\ \E id \in CanBorrow :
       /\ streams' = Borrow(id)
       /\ pool' = pool \ {id}
       /\ call' = [call EXCEPT ![g] = [name |-> "Marshal", val |-> v, stream |-> id]]
       /\ stack' = [stack EXCEPT ![g] = <<Frame(v, id)>>]
  /\ calls' = calls + 1
  /\ UNCHANGED <<step, result, sent, written, failures>>

\* a slice: its own bytes, or a view of the buffer of a stream
View(id) == [of |-> id, bytes |-> streams[id].buf]
Copy(id) == [of |-> None, bytes |-> streams[id].buf]
BytesOf(slice) ==
  IF slice.of = None THEN slice.bytes
  ELSE LET now == streams[slice.of].buf IN
       [i \in 1..Len(slice.bytes) |-> IF i <= Len(now) THEN now[i] ELSE slice.bytes[i]]

MarshalReturns(g) ==
  /\ call[g].name = "Marshal" /\ stack[g] = <<>>
  /\ LET id == call[g].stream IN
     /\ result' = [result EXCEPT ![g] =
          [val |-> call[g].val, err |-> streams[id].err, slice |-> Copy(id)]]
     /\ streams' = [streams EXCEPT ![id] = Returned(@)]
     /\ pool' = pool \cup {id}
  /\ call' = [call EXCEPT ![g] = NoCall]
  /\ UNCHANGED <<step, stack, sent, written, calls, failures>>

\* the subStreams of the calls g is in, and all the streams it has borrowed
Subs(g) == {stack[g][i].sub : i \in 1..Len(stack[g])} \ {None}
InUse(g) == ({call[g].stream} \ {None, g}) \cup Subs(g)

(* A MarshalJSON method panics and the caller recovers: the deferred        *)
(* ReturnStream of Marshal runs, the subStreams on the way are never       *)
(* returned and are collected.                                             *)
Panic(g) ==
  /\ Encoding(g, {"panic"})
  /\ streams' = [id \in Made \ Subs(g) |-> IF id \in InUse(g) THEN Returned(streams[id]) ELSE streams[id]]
  /\ pool' = pool \cup (InUse(g) \ Subs(g))
  /\ stack' = [stack EXCEPT ![g] = <<>>]
  /\ call' = [call EXCEPT ![g] = NoCall]
  /\ sent' = IF call[g].name = "Encode" THEN [sent EXCEPT ![g][Len(sent[g])].err = "panic"] ELSE sent
  /\ UNCHANGED <<step, result, written, calls, failures>>

----------------------------------------------------------------------------
(* Encoder.Encode on the Encoder g owns.                                   *)
Encode(g, v) ==
  /\ Idle(g) /\ "Encode" \in Calls /\ calls < MaxCalls
  /\ call' = [call EXCEPT ![g] = [name |-> "Encode", val |-> v, stream |-> g]]
  /\ stack' = [stack EXCEPT ![g] = <<Frame(v, g)>>]
  /\ sent' = [sent EXCEPT ![g] = Append(@, [val |-> v, err |-> "running"])]
  /\ calls' = calls + 1
  /\ UNCHANGED <<step, streams, pool, result, written, failures>>

\* Stream.Flush: nothing is written once there is an error, and an error of the
\* writer leaves the buffer as it is
Flushed(s, n) ==
  IF s.err # "nil" THEN s
  ELSE IF n # Len(s.buf) THEN [s EXCEPT !.err = "write"] ELSE [s EXCEPT !.buf = <<>>]

EncodeReturns(g) ==
  /\ call[g].name = "Encode" /\ stack[g] = <<>>
  /\ LET s == Put(streams[g], <<"\n">>) IN
     \E n \in IF s.err = "nil" THEN Taken(g, Len(s.buf)) ELSE {0} :
       /\ streams' = [streams EXCEPT ![g] = Flushed(s, n)]
       /\ written' = [written EXCEPT ![g] = @ \o SubSeq(s.buf, 1, n)]
       /\ failures' = IF s.err = "nil" /\ n # Len(s.buf) THEN failures + 1 ELSE failures
       /\ sent' = [sent EXCEPT ![g][Len(sent[g])].err = Flushed(s, n).err]
  /\ call' = [call EXCEPT ![g] = NoCall]
  /\ UNCHANGED <<step, pool, stack, result, calls>>

----------------------------------------------------------------------------
Init ==
  /\ step \in Steps
  /\ streams = [id \in Goroutines |-> NewStream]
  /\ pool = {}
  /\ stack = [g \in Goroutines |-> <<>>]
  /\ call = [g \in Goroutines |-> NoCall]
  /\ result = [g \in Goroutines |-> None]
  /\ sent = [g \in Goroutines |-> <<>>]
  /\ written = [g \in Goroutines |-> <<>>]
  /\ calls = 0
  /\ failures = 0

Run(g) ==
  \/ EncodeScalar(g) \/ EncodeBad(g) \/ EncodeMarshaler(g) \/ EncodePart(g) \/ EncodeEnd(g)
  \/ MapStart(g) \/ MapMember(g) \/ MapSort(g) \/ MapWrite(g) \/ MapEnd(g)
  \/ MarshalReturns(g) \/ Panic(g) \/ EncodeReturns(g)
Next == \E g \in Goroutines : Run(g) \/ \E v \in Values[step] : Marshal(g, v) \/ Encode(g, v)

Spec == Init /\ [][Next]_vars

----------------------------------------------------------------------------
\* The indention of a stream is never negative and never more than a step for
\* each Encode call on it (stream.go:201 would write no space, or too much).
TypeOK ==
  /\ step \in Steps /\ pool \subseteq StreamIds
  /\ \A id \in Made : streams[id].indention \in Nat /\ streams[id].err \in {"nil", "bad", "write"}
  /\ \A g \in Goroutines :
       /\ Idle(g) => stack[g] = <<>>
       /\ Len(sent[g]) <= calls
  /\ calls \in 0..MaxCalls /\ failures \in 0..MaxFailures

\* Every stream that was made is in the pool or in the hands of one goroutine:
\* none is lent twice, none is forgotten (pool.go:13 "a thread safe pool of
\* streams").
PoolBalance ==
  /\ \A g \in Goroutines : InUse(g) \cap pool = {} /\ call[g].stream \notin Subs(g)
  /\ \A g, h \in Goroutines : g # h => InUse(g) \cap InUse(h) = {}
  /\ Made \cap StreamIds = pool \cup UNION {InUse(g) : g \in Goroutines}
=============================================================================
