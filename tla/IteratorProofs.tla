--------------------------- MODULE IteratorProofs ---------------------------
(***************************************************************************)
(* Iterator keeps its type, its buffer is always the window of the input   *)
(* at inputOffset, and what it captures is a stretch of the input; the     *)
(* calls in progress keep what they owe each other, and the client gets    *)
(* the value that stands where it asked: for every input, buffer size, way *)
(* of splitting the input and depth limit.                                 *)
(***************************************************************************)
EXTENDS Iterator, DataLemmas

----------------------------------------------------------------------------
(* The inductive invariant.                                                *)

\* what is always true of the Iterator struct s: its ranges,
InRange(s, src) ==
  /\ s \in IteratorType
  /\ s.head <= s.tail /\ s.tail <= Len(s.buf)
  /\ s.capturing => s.captureStartedAt \in 0..s.head
  /\ src = "reader" => Len(s.buf) = BufSize

\* the window of the input it holds,
Window(s, inp, d) ==
  /\ d = s.inputOffset + s.tail
  /\ \A i \in 1..s.tail : s.buf[i] = inp[s.inputOffset + i]

\* and the stretch of the input it has captured
Stretch(s, inp) ==
  /\ Len(s.captured) <= s.inputOffset + s.captureStartedAt
  /\ \A k \in 1..Len(s.captured) :
       s.captured[k] = inp[s.inputOffset + s.captureStartedAt - Len(s.captured) + k]

Good(s, inp, d, src, dry) ==
  /\ InRange(s, src)
  /\ Window(s, inp, d)
  /\ s.capturing /\ dry = "nil" => Stretch(s, inp)

\* the frames that wait for a call to return
Waiting ==
  {"arrNext", "objNext", "objName", "skipNumber", "slowFloat32", "slowFloat64", "bigFloat",
   "stopCapture", "decoded", "trailing", "end", "rawWait"}
Outer == {"decoded", "trailing", "end"}
\* the frames under which there is no capture
Outermost == {"stopCapture", "readNil", "firstLoad"}

StackOK(s) ==
  /\ s \in Seq(FrameType)
  /\ \A k \in 2..Len(s) : s[k].at \in Waiting
  /\ \A k \in 1..Len(s) :
       s[k].at \in Outermost => \A j \in (k + 1)..Len(s) : s[j].at \in Outer
HasStop(s) == \E k \in 1..Len(s) : s[k].at = "stopCapture"

\* the byte before head was read by the call in progress
CanUnread(s) ==
  s.err = "nil" => s.head > 0 /\ (s.capturing => s.head > s.captureStartedAt)

Inv ==
  /\ input \in Inputs /\ source \in Sources
  /\ delivered \in 0..Len(input)
  /\ Good(it, input, delivered, source, op.dry)
  /\ StackOK(stk)
  /\ it.capturing = HasStop(stk)
  /\ In("raw") => Top.i \in it.head..it.tail
  /\ In("u4") => Len(stk) >= 2 /\ stk[2].at = "rawWait"
  /\ tok \in Byte \cup {None}
  /\ tok # None => CanUnread(it) /\ ~Idle
  /\ num \in Seq(Byte)
  /\ op \in OperationType
  /\ nops \in 0..MaxOps

LEMMA InvImplies == Inv => TypeOK /\ WindowIsInput /\ CaptureIsInput
  BY DEF Inv, TypeOK, WindowIsInput, CaptureIsInput, Good, InRange, Window, Stretch, StackOK

----------------------------------------------------------------------------
(* The stack.                                                              *)

LEMMA StackBecome ==
  ASSUME NEW s, StackOK(s), s # <<>>, NEW f \in FrameType, f.at # "stopCapture",
         f.at \in Outermost => Head(s).at \in Outermost
  PROVE  LET t == <<f>> \o Tail(s) IN
         /\ StackOK(t) /\ t # <<>> /\ Head(t) = f
         /\ Head(s).at # "stopCapture" => HasStop(t) = HasStop(s)
<1> DEFINE t == <<f>> \o Tail(s)
<1>1. /\ s \in Seq(FrameType) /\ Tail(s) \in Seq(FrameType) /\ Len(Tail(s)) = Len(s) - 1
      /\ \A i \in 1..Len(Tail(s)) : Tail(s)[i] = s[i + 1]
      /\ Len(s) \in Nat /\ Len(s) >= 1 /\ Head(s) = s[1]
  BY HeadTailProperties DEF StackOK
<1>2. /\ t \in Seq(FrameType) /\ Len(t) = Len(s) /\ t # <<>> /\ Head(t) = f /\ t[1] = f
      /\ \A k \in 2..Len(s) : t[k] = Tail(s)[k - 1]
  BY <1>1, ConsProperties
<1>3. \A k \in 2..Len(s) : t[k] = s[k]
  BY <1>1, <1>2
<1> HIDE DEF t
<1>4. ASSUME NEW k \in 1..Len(t), t[k].at \in Outermost, NEW j \in (k + 1)..Len(t)
      PROVE  t[j].at \in Outer
  <2>1. s[k].at \in Outermost /\ j \in 2..Len(s) /\ k \in 1..Len(s)
    BY <1>1, <1>2, <1>3, <1>4
  <2>2. s[j].at \in Outer
    BY <1>2, <1>4, <2>1 DEF StackOK
  <2> QED BY <1>3, <2>1, <2>2
<1>5. StackOK(t)
  BY <1>2, <1>3, <1>4 DEF StackOK
<1>6. HasStop(t) => HasStop(s)
  BY <1>1, <1>2, <1>3 DEF HasStop
<1>7. Head(s).at # "stopCapture" /\ HasStop(s) => HasStop(t)
  BY <1>1, <1>2, <1>3 DEF HasStop
<1> QED BY <1>2, <1>5, <1>6, <1>7 DEF t, HasStop

LEMMA StackReturn ==
  ASSUME NEW s, StackOK(s), s # <<>>
  PROVE  LET t == Tail(s) IN
         /\ StackOK(t)
         /\ t # <<>> => Head(t).at \in Waiting
         /\ Head(s).at # "stopCapture" => HasStop(t) = HasStop(s)
         /\ Head(s).at \in Outermost => ~HasStop(t)
<1> DEFINE t == Tail(s)
<1>1. /\ s \in Seq(FrameType) /\ t \in Seq(FrameType) /\ Len(t) = Len(s) - 1
      /\ \A i \in 1..Len(t) : t[i] = s[i + 1]
      /\ Len(s) \in Nat /\ Len(s) >= 1 /\ Head(s) = s[1]
  BY HeadTailProperties DEF StackOK
<1> HIDE DEF t
<1>2. ASSUME NEW k \in 1..Len(t), t[k].at \in Outermost, NEW j \in (k + 1)..Len(t)
      PROVE  t[j].at \in Outer
  <2>1. k + 1 \in 1..Len(s) /\ j + 1 \in (k + 1 + 1)..Len(s) /\ j \in 1..Len(t)
    BY <1>1, <1>2
  <2>2. s[k + 1].at \in Outermost /\ t[j] = s[j + 1]
    BY <1>1, <1>2, <2>1
  <2> QED BY <2>1, <2>2 DEF StackOK
<1>3. StackOK(t)
  <2>1. \A k \in 2..Len(t) : t[k].at \in Waiting
    BY <1>1 DEF StackOK
  <2> QED BY <1>1, <1>2, <2>1 DEF StackOK
<1>4. t # <<>> => Head(t).at \in Waiting
  <2>1. t # <<>> => Head(t) = t[1] /\ Len(t) >= 1
    BY <1>1
  <2> QED BY <1>1, <2>1 DEF StackOK
<1>5. HasStop(t) => HasStop(s)
  BY <1>1 DEF HasStop
<1>6. Head(s).at \in Outermost => ~HasStop(t)
  <2>1. ASSUME Head(s).at \in Outermost, NEW k \in 1..Len(t)
        PROVE  t[k].at # "stopCapture"
    <3>1. k + 1 \in (1 + 1)..Len(s) /\ 1 \in 1..Len(s)
      BY <1>1
    <3>2. s[k + 1].at \in Outer
      BY <1>1, <2>1, <3>1 DEF StackOK
    <3> QED BY <1>1, <3>2 DEF Outer
  <2> QED BY <2>1 DEF HasStop
<1>7. ASSUME Head(s).at # "stopCapture", HasStop(s) PROVE HasStop(t)
  <2>1. PICK k \in 1..Len(s) : s[k].at = "stopCapture"
    BY <1>7 DEF HasStop
  <2>2. k # 1 /\ k - 1 \in 1..Len(t) /\ t[k - 1] = s[k]
    BY <1>1, <1>7, <2>1
  <2> QED BY <2>1, <2>2 DEF HasStop
<1> QED BY <1>3, <1>4, <1>5, <1>6, <1>7 DEF t, HasStop

LEMMA StackCall ==
  ASSUME NEW s, StackOK(s), s # <<>>, NEW f \in FrameType, NEW g \in FrameType,
         g.at \in Waiting, f.at \notin Outermost,
         g.at = "stopCapture" => Head(s).at = "readNil"
  PROVE  LET t == <<f, g>> \o Tail(s) IN
         /\ StackOK(t) /\ t # <<>> /\ Head(t) = f /\ Len(t) >= 2 /\ t[2] = g
         /\ Head(s).at # "stopCapture" /\ g.at # "stopCapture" => HasStop(t) = HasStop(s)
         /\ g.at = "stopCapture" => HasStop(t)
<1> DEFINE t == <<f, g>> \o Tail(s)
<1>1. /\ s \in Seq(FrameType) /\ Tail(s) \in Seq(FrameType) /\ Len(Tail(s)) = Len(s) - 1
      /\ \A i \in 1..Len(Tail(s)) : Tail(s)[i] = s[i + 1]
      /\ Len(s) \in Nat /\ Len(s) >= 1 /\ Head(s) = s[1]
  BY HeadTailProperties DEF StackOK
<1>2. <<f, g>> \in Seq(FrameType) /\ Len(<<f, g>>) = 2 /\ <<f, g>>[1] = f /\ <<f, g>>[2] = g
  OBVIOUS
<1>3. /\ t \in Seq(FrameType) /\ Len(t) = 2 + Len(Tail(s))
      /\ \A i \in 1..(2 + Len(Tail(s))) :
           t[i] = IF i <= 2 THEN <<f, g>>[i] ELSE Tail(s)[i - 2]
  BY <1>1, <1>2, ConcatProperties
<1>4. Len(t) = Len(s) + 1 /\ t[1] = f /\ t[2] = g /\ \A k \in 3..Len(t) : t[k] = s[k - 1]
  BY <1>1, <1>2, <1>3
<1>5. t # <<>> /\ Head(t) = f
  BY <1>1, <1>3, <1>4
<1> HIDE DEF t
<1>6. \A k \in 2..Len(t) : t[k].at \in Waiting
  <2>1. \A k \in 3..Len(t) : k - 1 \in 2..Len(s)
    BY <1>1, <1>4
  <2> QED BY <1>1, <1>4, <2>1 DEF StackOK
<1>7. ASSUME NEW k \in 1..Len(t), t[k].at \in Outermost, NEW j \in (k + 1)..Len(t)
      PROVE  t[j].at \in Outer
  <2>1. k # 1 /\ j \in 3..Len(t) /\ j - 1 \in 2..Len(s) /\ t[j] = s[j - 1]
    BY <1>1, <1>4, <1>7
  <2>2. CASE k = 2
    <3>1. Head(s).at \in Outermost
      BY <1>4, <1>7, <2>2 DEF Waiting, Outermost
    <3> QED BY <1>1, <2>1, <3>1 DEF StackOK
  <2>3. CASE k # 2
    <3>1. k - 1 \in 2..Len(s) /\ t[k] = s[k - 1] /\ j - 1 \in (k - 1 + 1)..Len(s)
      BY <1>1, <1>4, <1>7, <2>1, <2>3
    <3> QED BY <1>1, <1>7, <2>1, <3>1 DEF StackOK
  <2> QED BY <2>2, <2>3
<1>8. StackOK(t)
  BY <1>3, <1>6, <1>7 DEF StackOK
<1>9. ASSUME HasStop(t), g.at # "stopCapture" PROVE HasStop(s)
  <2>1. PICK k \in 1..Len(t) : t[k].at = "stopCapture"
    BY <1>9 DEF HasStop
  <2>2. k # 1 /\ k # 2
    BY <1>4, <1>9, <2>1 DEF Outermost
  <2>3. k - 1 \in 1..Len(s) /\ s[k - 1] = t[k]
    BY <1>1, <1>4, <2>2
  <2> QED BY <2>1, <2>3 DEF HasStop
<1>10. g.at = "stopCapture" => HasStop(t)
  BY <1>1, <1>4 DEF HasStop
<1>11. ASSUME Head(s).at # "stopCapture", HasStop(s) PROVE HasStop(t)
  <2>1. PICK k \in 1..Len(s) : s[k].at = "stopCapture"
    BY <1>11 DEF HasStop
  <2>2. k # 1 /\ k + 1 \in 3..Len(t) /\ t[k + 1] = s[k]
    BY <1>1, <1>4, <1>11, <2>1
  <2>3. k + 1 \in 1..Len(t) /\ t[k + 1].at = "stopCapture"
    BY <2>1, <2>2
  <2> QED BY <2>3 DEF HasStop
<1> QED BY <1>1, <1>4, <1>5, <1>8, <1>9, <1>10, <1>11 DEF t, HasStop

----------------------------------------------------------------------------
(* The helpers of the Iterator struct keep it good.                        *)

LEMMA Ranges ==
  ASSUME NEW s, NEW src, InRange(s, src)
  PROVE  /\ s.buf \in Seq(Byte) /\ s.captured \in Seq(Byte) /\ s.capturing \in BOOLEAN
         /\ s.head \in Nat /\ s.tail \in Nat /\ s.inputOffset \in Nat /\ s.depth \in Int
         /\ Len(s.buf) \in Nat /\ Len(s.captured) \in Nat /\ s.captureStartedAt \in Int
         /\ s.err \in Errors
BY DEF InRange, IteratorType

LEMMA GoodSetHead ==
  ASSUME NEW s, NEW inp, NEW d, NEW src, NEW dry, Good(s, inp, d, src, dry),
         NEW h \in s.head..s.tail
  PROVE  /\ Good(SetHead(s, h), inp, d, src, dry)
         /\ SetHead(s, h).head = h /\ SetHead(s, h).tail = s.tail
         /\ SetHead(s, h).capturing = s.capturing /\ SetHead(s, h).err = s.err
         /\ SetHead(s, h).captureStartedAt = s.captureStartedAt
<1>1. h \in Nat /\ s.head <= h /\ h <= s.tail
  BY Ranges DEF Good
<1>2. s \in IteratorType
  BY DEF Good, InRange
<1>3. /\ SetHead(s, h) \in IteratorType
      /\ SetHead(s, h).head = h /\ SetHead(s, h).tail = s.tail
      /\ SetHead(s, h).buf = s.buf /\ SetHead(s, h).inputOffset = s.inputOffset
      /\ SetHead(s, h).capturing = s.capturing /\ SetHead(s, h).err = s.err
      /\ SetHead(s, h).captureStartedAt = s.captureStartedAt
      /\ SetHead(s, h).captured = s.captured
  BY <1>1, <1>2 DEF SetHead, IteratorType
<1>4. InRange(SetHead(s, h), src)
  <2>1. /\ s.head \in Nat /\ s.tail \in Nat /\ s.tail <= Len(s.buf)
        /\ s.capturing => s.captureStartedAt \in 0..s.head
        /\ src = "reader" => Len(s.buf) = BufSize
    BY <1>2 DEF Good, InRange, IteratorType
  <2>2. s.capturing => s.captureStartedAt \in 0..h
    BY <1>1, <2>1
  <2> QED BY <1>1, <1>3, <2>1, <2>2 DEF InRange
<1>5. Window(SetHead(s, h), inp, d)
  BY <1>3 DEF Good, Window
<1>6. s.capturing /\ dry = "nil" => Stretch(SetHead(s, h), inp)
  BY <1>3 DEF Good, Stretch
<1> QED BY <1>3, <1>4, <1>5, <1>6 DEF Good

\* error and depth play no part in it
LEMMA GoodElsewhere ==
  ASSUME NEW s, NEW inp, NEW d, NEW src, NEW dry, Good(s, inp, d, src, dry),
         NEW e \in Errors, NEW n \in Int
  PROVE  /\ Good([s EXCEPT !.err = e], inp, d, src, dry)
         /\ Good([s EXCEPT !.depth = n], inp, d, src, dry)
<1>1. s \in IteratorType
  BY DEF Good, InRange
<1>2. [s EXCEPT !.err = e] \in IteratorType /\ [s EXCEPT !.depth = n] \in IteratorType
  BY <1>1 DEF IteratorType
<1>3. ASSUME NEW t \in {[s EXCEPT !.err = e], [s EXCEPT !.depth = n]}
      PROVE  Good(t, inp, d, src, dry)
  <2>1. /\ t \in IteratorType
        /\ t.head = s.head /\ t.tail = s.tail /\ t.buf = s.buf
        /\ t.inputOffset = s.inputOffset /\ t.capturing = s.capturing
        /\ t.captureStartedAt = s.captureStartedAt /\ t.captured = s.captured
    BY <1>1, <1>2 DEF IteratorType
  <2>2. InRange(t, src)
    BY <2>1 DEF Good, InRange
  <2>3. Window(t, inp, d)
    BY <2>1 DEF Good, Window
  <2>4. t.capturing /\ dry = "nil" => Stretch(t, inp)
    BY <2>1 DEF Good, Stretch
  <2> QED BY <2>2, <2>3, <2>4 DEF Good
<1> QED BY <1>3

LEMMA GoodSetError ==
  ASSUME NEW s, NEW inp, NEW d, NEW src, NEW dry, Good(s, inp, d, src, dry),
         NEW e \in Errors
  PROVE  /\ Good(SetError(s, e), inp, d, src, dry)
         /\ SetError(s, e).capturing = s.capturing
         /\ SetError(s, e).head = s.head /\ SetError(s, e).tail = s.tail
         /\ SetError(s, e).err = e
<1>1. s \in IteratorType
  BY DEF Good, InRange
<1> QED BY <1>1, GoodElsewhere, 0 \in Int DEF SetError, IteratorType

LEMMA GoodReport ==
  ASSUME NEW s, NEW inp, NEW d, NEW src, NEW dry, Good(s, inp, d, src, dry)
  PROVE  Good(Report(s), inp, d, src, dry) /\ Report(s).capturing = s.capturing
<1>1. "bad" \in Errors
  BY DEF Errors
<1> QED BY <1>1, GoodSetError DEF Report

LEMMA GoodUnread ==
  ASSUME NEW s, NEW inp, NEW d, NEW src, NEW dry, Good(s, inp, d, src, dry), CanUnread(s)
  PROVE  /\ Good(Unread(s), inp, d, src, dry)
         /\ Unread(s).capturing = s.capturing
         /\ Unread(s).head \in 0..Unread(s).tail
<1>0. s \in IteratorType /\ s.head \in Nat /\ s.tail \in Nat /\ s.head <= s.tail
      /\ s.captureStartedAt \in Int
  BY Ranges DEF Good, InRange
<1>1. CASE s.err # "nil"
  BY <1>0, <1>1 DEF Unread
<1>2. CASE s.err = "nil"
  <2> DEFINE t == SetHead(s, s.head - 1)
  <2>1. s.head > 0 /\ (s.capturing => s.head > s.captureStartedAt)
    BY <1>2 DEF CanUnread
  <2>2. /\ t \in IteratorType
        /\ t.head = s.head - 1 /\ t.tail = s.tail /\ t.buf = s.buf
        /\ t.inputOffset = s.inputOffset /\ t.capturing = s.capturing
        /\ t.captureStartedAt = s.captureStartedAt /\ t.captured = s.captured
    <3>1. s.head - 1 \in Nat
      BY <1>0, <2>1
    <3> QED BY <1>0, <3>1 DEF SetHead, IteratorType
  <2>3. InRange(t, src)
    BY <1>0, <2>1, <2>2, Ranges DEF Good, InRange
  <2>4. Window(t, inp, d)
    BY <2>2 DEF Good, Window
  <2>5. t.capturing /\ dry = "nil" => Stretch(t, inp)
    BY <2>2 DEF Good, Stretch
  <2>6. Unread(s) = t
    BY <1>2 DEF Unread
  <2> QED BY <1>0, <2>1, <2>2, <2>3, <2>4, <2>5, <2>6 DEF Good
<1> QED BY <1>1, <1>2

LEMMA GoodDepth ==
  ASSUME NEW s, NEW inp, NEW d, NEW src, NEW dry, Good(s, inp, d, src, dry)
  PROVE  /\ Good(IncrementDepth(s), inp, d, src, dry)
         /\ IncrementDepth(s).capturing = s.capturing
         /\ Good(DecrementDepth(s), inp, d, src, dry)
         /\ DecrementDepth(s).capturing = s.capturing
<1>0. s \in IteratorType /\ s.depth + 1 \in Int /\ s.depth - 1 \in Int /\ "nil" \in Errors
  <2>1. s \in IteratorType /\ s.depth \in Int
    BY DEF Good, InRange, IteratorType
  <2>2. s.depth + 1 \in Int /\ s.depth - 1 \in Int
    BY <2>1
  <2> QED BY <2>1, <2>2 DEF Errors
<1>1. Good(Deeper(s), inp, d, src, dry) /\ Deeper(s).capturing = s.capturing
  BY <1>0, GoodElsewhere DEF Deeper, IteratorType
<1>2. Good(Shallower(s), inp, d, src, dry) /\ Shallower(s).capturing = s.capturing
  BY <1>0, GoodElsewhere DEF Shallower, IteratorType
<1> QED BY <1>1, <1>2, GoodReport DEF IncrementDepth, DecrementDepth

LEMMA BytesType ==
  ASSUME NEW s, NEW src, InRange(s, src),
         NEW lo \in Nat, NEW hi \in Nat, hi <= s.tail
  PROVE  /\ Bytes(s, lo, hi) \in Seq(Byte)
         /\ Len(Bytes(s, lo, hi)) = IF lo <= hi THEN hi - lo ELSE 0
         /\ \A i \in 1..(hi - lo) : Bytes(s, lo, hi)[i] = s.buf[lo + i]
<1>1. s.buf \in Seq(Byte) /\ s.tail \in Nat /\ Len(s.buf) \in Nat /\ s.tail <= Len(s.buf)
  BY DEF InRange, IteratorType
<1>2. \A i \in (lo + 1)..hi : s.buf[i] \in Byte
  BY <1>1, ElementOfSeq
<1>3. /\ SubSeq(s.buf, lo + 1, hi) \in Seq(Byte)
      /\ Len(SubSeq(s.buf, lo + 1, hi)) = IF lo + 1 <= hi THEN hi - (lo + 1) + 1 ELSE 0
      /\ \A i \in 1..(hi - (lo + 1) + 1) : SubSeq(s.buf, lo + 1, hi)[i] = s.buf[lo + 1 + i - 1]
  BY <1>2, SubSeqProperties, lo + 1 \in Int, hi \in Int
<1>4. \A i \in 1..(hi - lo) : lo + 1 + i - 1 = lo + i
  OBVIOUS
<1> QED BY <1>3, <1>4 DEF Bytes

LEMMA AtType ==
  ASSUME NEW s, NEW src, InRange(s, src), NEW p \in 0..(s.tail - 1)
  PROVE  At(s, p) \in Byte
<1>1. s.buf \in Seq(Byte) /\ s.tail \in Nat /\ Len(s.buf) \in Nat /\ p + 1 \in 1..Len(s.buf)
  BY DEF InRange, IteratorType
<1> QED BY <1>1, ElementOfSeq DEF At

\* the bytes SaveCapture appends are those from captureStartedAt to tail
LEMMA Saved ==
  ASSUME NEW s, NEW src, InRange(s, src), s.capturing
  PROVE  LET L == Len(s.captured)
             cs == s.captureStartedAt
             saved == s.captured \o Bytes(s, cs, s.tail)
         IN /\ saved \in Seq(Byte)
            /\ Len(saved) = L + (s.tail - cs)
            /\ \A k \in 1..L : saved[k] = s.captured[k]
            /\ \A k \in 1..(s.tail - cs) : saved[L + k] = s.buf[cs + k]
<1> DEFINE L == Len(s.captured)
           cs == s.captureStartedAt
           rest == Bytes(s, cs, s.tail)
           saved == s.captured \o rest
<1>1. /\ s.captured \in Seq(Byte) /\ L \in Nat /\ s.tail \in Nat
      /\ cs \in Nat /\ cs <= s.tail
  <2>1. /\ s.captured \in Seq(Byte) /\ s.head \in Nat /\ s.tail \in Nat
        /\ s.head <= s.tail /\ s.captureStartedAt \in 0..s.head
    BY DEF InRange, IteratorType
  <2> QED BY <2>1
<1>2. /\ rest \in Seq(Byte) /\ Len(rest) = s.tail - cs
      /\ \A i \in 1..(s.tail - cs) : rest[i] = s.buf[cs + i]
  <2> HIDE DEF cs
  <2> QED BY <1>1, BytesType, s.tail <= s.tail, ZenonT(60)
<1> HIDE DEF rest, cs
<1>3. /\ saved \in Seq(Byte) /\ Len(saved) = L + Len(rest)
      /\ \A i \in 1..(L + Len(rest)) : saved[i] = IF i <= L THEN s.captured[i] ELSE rest[i - L]
  BY <1>1, <1>2, ConcatProperties, ZenonT(60)
<1> HIDE DEF saved, L
<1>4. \A k \in 1..L : saved[k] = s.captured[k]
  BY <1>1, <1>2, <1>3
<1>5. \A k \in 1..(s.tail - cs) : saved[L + k] = s.buf[cs + k]
  <2> TAKE k \in 1..(s.tail - cs)
  <2>1. L + k \in 1..(L + Len(rest)) /\ ~(L + k <= L) /\ L + k - L = k
    BY <1>1, <1>2
  <2>2. saved[L + k] = rest[L + k - L]
    BY <1>1, <1>2, <1>3, <2>1
  <2> QED BY <1>2, <2>1, <2>2
<1>6. Len(saved) = L + (s.tail - cs)
  BY <1>2, <1>3
<1> QED BY <1>3, <1>4, <1>5, <1>6 DEF saved, L, cs, rest

\* SaveCapture changes the capture only, which is then a stretch of the input
\* that ends where the buffer ends
LEMMA SaveCaptureProperties ==
  ASSUME NEW s, NEW inp, NEW d, NEW src, NEW dry, Good(s, inp, d, src, dry)
  PROVE  LET t == SaveCapture(s) IN
         /\ InRange(t, src) /\ Window(t, inp, d)
         /\ t.head = s.head /\ t.tail = s.tail /\ t.buf = s.buf /\ t.err = s.err
         /\ t.inputOffset = s.inputOffset /\ t.capturing = s.capturing
         /\ s.capturing => t.captureStartedAt = 0
         /\ s.capturing /\ dry = "nil" =>
              /\ Len(t.captured) <= s.inputOffset + s.tail
              /\ \A k \in 1..Len(t.captured) :
                   t.captured[k] = inp[s.inputOffset + s.tail - Len(t.captured) + k]
<1> DEFINE t == SaveCapture(s)
           L == Len(s.captured)
           cs == s.captureStartedAt
           saved == s.captured \o Bytes(s, cs, s.tail)
<1>0. /\ s \in IteratorType /\ InRange(s, src) /\ s.head \in Nat /\ s.tail \in Nat
      /\ s.inputOffset \in Nat /\ L \in Nat
  BY Ranges DEF Good, InRange
<1>1. CASE ~s.capturing
  BY <1>0, <1>1 DEF SaveCapture, Good
<1>2. CASE s.capturing
  <2>1. /\ saved \in Seq(Byte) /\ Len(saved) = L + (s.tail - cs)
        /\ \A k \in 1..L : saved[k] = s.captured[k]
        /\ \A k \in 1..(s.tail - cs) : saved[L + k] = s.buf[cs + k]
        /\ cs \in Nat /\ cs <= s.tail
    <3>1. cs \in Nat /\ cs <= s.tail
      BY <1>0, <1>2 DEF InRange
    <3> QED BY <1>0, <1>2, <3>1, Saved
  <2>2. t = [s EXCEPT !.captured = saved, !.captureStartedAt = 0]
    BY <1>2 DEF SaveCapture
  <2> HIDE DEF saved
  <2>3. /\ t \in IteratorType /\ t.captured = saved /\ t.captureStartedAt = 0
        /\ t.head = s.head /\ t.tail = s.tail /\ t.buf = s.buf /\ t.err = s.err
        /\ t.inputOffset = s.inputOffset /\ t.capturing = s.capturing
    BY <1>0, <2>1, <2>2, 0 \in Int DEF IteratorType
  <2> HIDE DEF t
  <2>4. InRange(t, src)
    BY <1>0, <2>3 DEF InRange
  <2>5. Window(t, inp, d)
    BY <2>3 DEF Good, Window
  <2>6. ASSUME dry = "nil"
        PROVE  /\ Len(saved) <= s.inputOffset + s.tail
               /\ \A k \in 1..Len(saved) :
                    saved[k] = inp[s.inputOffset + s.tail - Len(saved) + k]
    <3>1. /\ L <= s.inputOffset + cs
          /\ \A k \in 1..L : s.captured[k] = inp[s.inputOffset + cs - L + k]
          /\ \A i \in 1..s.tail : s.buf[i] = inp[s.inputOffset + i]
      BY <1>2, <2>6 DEF Good, Stretch, Window
    <3> HIDE DEF L, cs
    <3>2. s.inputOffset + s.tail - Len(saved) = s.inputOffset + cs - L
      BY <1>0, <2>1
    <3>3. ASSUME NEW k \in 1..Len(saved)
          PROVE  saved[k] = inp[s.inputOffset + cs - L + k]
      <4>1. CASE k <= L
        <5>1. k \in 1..L
          BY <1>0, <2>1, <4>1
        <5> QED BY <2>1, <3>1, <5>1
      <4>2. CASE k > L
        <5> DEFINE m == k - L
        <5>1. m \in 1..(s.tail - cs) /\ L + m = k /\ cs + m \in 1..s.tail
              /\ s.inputOffset + (cs + m) = s.inputOffset + cs - L + k
          BY <1>0, <2>1, <4>2, SMTT(30)
        <5> HIDE DEF m
        <5>2. saved[L + m] = s.buf[cs + m] /\ s.buf[cs + m] = inp[s.inputOffset + (cs + m)]
          BY <2>1, <3>1, <5>1
        <5> QED BY <5>1, <5>2
      <4>3. k \in Int
        BY <1>0, <2>1
      <4> QED BY <1>0, <4>1, <4>2, <4>3
    <3>4. Len(saved) <= s.inputOffset + s.tail
      BY <1>0, <2>1, <3>1
    <3> QED BY <3>2, <3>3, <3>4
  <2> QED BY <1>2, <2>3, <2>4, <2>5, <2>6 DEF t
<1> QED BY <1>1, <1>2

LEMMA GoodRefill ==
  ASSUME NEW s, NEW d \in Nat, NEW dry, Good(s, input, d, "reader", dry),
         input \in Seq(Byte), NEW n \in 1..BufSize, d + n <= Len(input)
  PROVE  /\ Good(Refill(s, d, n), input, d + n, "reader", dry)
         /\ Refill(s, d, n).capturing = s.capturing
<1> DEFINE t == SaveCapture(s)
           B == [i \in 1..BufSize |-> IF i <= n THEN input[d + i] ELSE s.buf[i]]
           r == Refill(s, d, n)
<1>1. /\ InRange(t, "reader") /\ Window(t, input, d)
      /\ t.head = s.head /\ t.tail = s.tail /\ t.buf = s.buf /\ t.err = s.err
      /\ t.inputOffset = s.inputOffset /\ t.capturing = s.capturing
      /\ s.capturing => t.captureStartedAt = 0
      /\ s.capturing /\ dry = "nil" =>
           /\ Len(t.captured) <= s.inputOffset + s.tail
           /\ \A k \in 1..Len(t.captured) :
                t.captured[k] = input[s.inputOffset + s.tail - Len(t.captured) + k]
  BY SaveCaptureProperties
<1>2. r = [t EXCEPT !.buf = B, !.inputOffset = @ + s.tail, !.head = 0, !.tail = n]
  BY DEF Refill
<1> HIDE DEF t, B
<1>3. t \in IteratorType /\ s.tail \in Nat /\ s.inputOffset \in Nat
  <2>1. t \in IteratorType
    BY <1>1 DEF InRange
  <2> QED BY <1>1, <2>1 DEF IteratorType
<1>4. B \in Seq(Byte) /\ Len(B) = BufSize /\ \A i \in 1..n : B[i] = input[d + i]
  <2>1. BufSize \in Nat /\ n \in Nat
    BY BufSizeAssumption
  <2>2. s.buf \in Seq(Byte) /\ Len(s.buf) = BufSize
    BY <1>1, <1>3 DEF InRange, IteratorType
  <2>3. ASSUME NEW i \in 1..BufSize
        PROVE  (IF i <= n THEN input[d + i] ELSE s.buf[i]) \in Byte
    <3>1. CASE i <= n
      <4>1. d + i \in 1..Len(input)
        BY <2>1, <2>3, <3>1
      <4> QED BY <3>1, <4>1, ElementOfSeq
    <3>2. CASE ~(i <= n)
      BY <2>2, <3>2, ElementOfSeq
    <3> QED BY <3>1, <3>2
  <2>4. B \in [1..BufSize -> Byte]
    BY <2>3 DEF B
  <2>5. \A i \in 1..n : i \in 1..BufSize /\ i <= n
    BY <2>1
  <2>6. \A i \in 1..n : B[i] = input[d + i]
    BY <2>5 DEF B
  <2> QED BY <2>1, <2>4, <2>6
<1>5. /\ r \in IteratorType
      /\ r.buf = B /\ r.head = 0 /\ r.tail = n /\ r.inputOffset = s.inputOffset + s.tail
      /\ r.capturing = t.capturing /\ r.captured = t.captured
      /\ r.captureStartedAt = t.captureStartedAt
  <2>1. t.inputOffset + s.tail \in Nat /\ n \in Nat /\ 0 \in Nat
    BY <1>1, <1>3
  <2> QED BY <1>1, <1>2, <1>3, <1>4, <2>1 DEF IteratorType
<1> HIDE DEF r
<1>6. InRange(r, "reader")
  <2>1. n \in Nat /\ n <= BufSize /\ 0 <= n
    BY BufSizeAssumption
  <2>2. t.capturing => t.captureStartedAt \in 0..0
    BY <1>1
  <2> QED BY <1>4, <1>5, <2>1, <2>2 DEF InRange
<1>7. Window(r, input, d + n)
  <2>1. d = s.inputOffset + s.tail
    BY <1>1 DEF Window
  <2> QED BY <1>3, <1>4, <1>5, <2>1 DEF Window
<1>8. ASSUME r.capturing, dry = "nil" PROVE Stretch(r, input)
  <2>1. s.inputOffset + s.tail = r.inputOffset + r.captureStartedAt
    BY <1>1, <1>3, <1>5, <1>8
  <2>2. /\ Len(r.captured) <= s.inputOffset + s.tail
        /\ \A k \in 1..Len(r.captured) :
             r.captured[k] = input[s.inputOffset + s.tail - Len(r.captured) + k]
    BY <1>1, <1>5, <1>8
  <2>3. /\ r.inputOffset \in Nat /\ r.captureStartedAt \in Int /\ Len(r.captured) \in Nat
        /\ s.inputOffset \in Nat /\ s.tail \in Nat
    <3>1. r.captured \in Seq(Byte) /\ r.inputOffset \in Nat /\ r.captureStartedAt \in Int
      BY <1>5 DEF IteratorType
    <3> QED BY <1>3, <3>1
  <2> DEFINE a == s.inputOffset
             b == s.tail
             c == r.inputOffset
             e == r.captureStartedAt
             m == Len(r.captured)
  <2>4. a \in Nat /\ b \in Nat /\ c \in Nat /\ e \in Int /\ m \in Nat /\ a + b = c + e
    BY <2>1, <2>3
  <2>5. \A k \in 1..m : r.captured[k] = input[a + b - m + k]
    BY <2>2
  <2>6. m <= a + b
    BY <2>2
  <2> HIDE DEF a, b, c, e, m
  <2>7. m <= c + e /\ \A k \in 1..m : r.captured[k] = input[c + e - m + k]
    <3>1. \A k \in 1..m : a + b - m + k = c + e - m + k
      BY <2>4
    <3> QED BY <2>4, <2>5, <2>6, <3>1
  <2> QED BY <2>7 DEF Stretch, c, e, m
<1> QED BY <1>1, <1>5, <1>6, <1>7, <1>8 DEF Good, r

LEMMA GoodCapture ==
  ASSUME NEW s, NEW inp, NEW d, NEW src, NEW dry, Good(s, inp, d, src, dry)
  PROVE  /\ Good(StartCapture(s), inp, d, src, dry) /\ StartCapture(s).capturing
         /\ Good(StopCapture(s), inp, d, src, dry) /\ ~StopCapture(s).capturing
         /\ s.capturing => Captured(s) \in Seq(Byte)
<1>1. /\ s \in IteratorType /\ InRange(s, src)
      /\ s.head \in Nat /\ s.inputOffset \in Nat /\ s.tail \in Nat /\ s.head <= s.tail
      /\ s.captured \in Seq(Byte)
  BY DEF Good, InRange, IteratorType
<1>2. Good(StartCapture(s), inp, d, src, dry) /\ StartCapture(s).capturing
  <2> DEFINE t == StartCapture(s)
  <2>1. s.head \in Int /\ <<>> \in Seq(Byte) /\ TRUE \in BOOLEAN /\ Len(<<>>) = 0
    BY <1>1
  <2>2. /\ t \in IteratorType
        /\ t.head = s.head /\ t.tail = s.tail /\ t.buf = s.buf
        /\ t.inputOffset = s.inputOffset /\ t.capturing = TRUE
        /\ t.captureStartedAt = s.head /\ t.captured = <<>>
    BY <1>1, <2>1 DEF StartCapture, IteratorType
  <2> HIDE DEF t
  <2>3. s.head \in 0..s.head /\ 0 <= s.inputOffset + s.head /\ 1..0 = {}
    BY <1>1
  <2>4. InRange(t, src)
    BY <1>1, <2>2, <2>3 DEF InRange
  <2>5. Window(t, inp, d)
    BY <2>2 DEF Good, Window
  <2>6. Stretch(t, inp)
    BY <2>1, <2>2, <2>3 DEF Stretch
  <2> QED BY <2>2, <2>4, <2>5, <2>6 DEF Good, t
<1>3. Good(StopCapture(s), inp, d, src, dry) /\ ~StopCapture(s).capturing
  <2> DEFINE t == StopCapture(s)
  <2>1. -1 \in Int /\ <<>> \in Seq(Byte) /\ FALSE \in BOOLEAN
    OBVIOUS
  <2>2. /\ t \in IteratorType
        /\ t.head = s.head /\ t.tail = s.tail /\ t.buf = s.buf
        /\ t.inputOffset = s.inputOffset /\ t.capturing = FALSE
    BY <1>1, <2>1 DEF StopCapture, IteratorType
  <2> HIDE DEF t
  <2>3. InRange(t, src)
    BY <1>1, <2>2 DEF InRange
  <2>4. Window(t, inp, d)
    BY <2>2 DEF Good, Window
  <2> QED BY <2>2, <2>3, <2>4 DEF Good, t
<1>4. ASSUME s.capturing PROVE Captured(s) \in Seq(Byte)
  <2>1. s.captureStartedAt \in Nat
    BY <1>1, <1>4 DEF InRange
  <2>2. Bytes(s, s.captureStartedAt, s.head) \in Seq(Byte)
    BY <1>1, <2>1, BytesType
  <2> QED BY <1>1, <2>2 DEF Captured
<1> QED BY <1>2, <1>3, <1>4

----------------------------------------------------------------------------
(* Frames.                                                                 *)

LEMMA LabelsList ==
  Labels = {"skip", "arr", "arrFirst", "arrNext", "obj", "objFirst", "objColon",
   "objKey", "objNext", "float32", "float64", "readNil", "more", "whatIsNext",
   "trailing", "literal", "rawLoad", "u4", "raw", "rawWait", "objName", "number",
   "numberLoad", "positiveFloat32", "positiveFloat64", "slowFloat32", "slowFloat64", "skipNumber", "bigFloat", "firstLoad",
   "noMore", "stopCapture", "decoded", "end"}
  BY DEF Labels, TokenFrames, ByteFrames, OtherFrames

LEMMA FrameTyped ==
  ASSUME NEW l \in Labels
  PROVE  Frame(l) \in FrameType /\ Frame(l).at = l /\ Frame(l).acc = <<>>
BY DEF Frame, FrameType

LEMMA LiteralTyped ==
  ASSUME NEW bytes \in Seq(Byte)
  PROVE  Literal(bytes) \in FrameType /\ Literal(bytes).at = "literal"
BY LabelsList DEF Literal, Frame, FrameType

LEMMA RawFrameTyped ==
  ASSUME NEW s, NEW src, InRange(s, src)
  PROVE  RawFrame(s) \in FrameType /\ RawFrame(s).at = "raw" /\ RawFrame(s).i = s.head
<1>1. s.head \in Nat /\ s.inputOffset + s.head \in Nat
  BY DEF InRange, IteratorType
<1>2. Frame("raw") \in FrameType /\ Frame("raw").at = "raw"
  BY FrameTyped, LabelsList
<1> QED BY <1>1, <1>2 DEF RawFrame, FrameType, Offset

----------------------------------------------------------------------------
(* What a handler does to the iterator, and to the stack.                  *)

OK(s) == Good(s, input, delivered, source, op.dry)
Same(s) == OK(s) /\ s.capturing = it.capturing

LEMMA TopProperties ==
  ASSUME Inv, stk # <<>>
  PROVE  /\ Top \in FrameType /\ Top.at \in Labels /\ Top.i \in Nat /\ Top.esc \in BOOLEAN
         /\ Top.acc \in Seq(Byte) /\ Top.from \in Nat
<1>1. stk \in Seq(FrameType) /\ Top = stk[1] /\ 1 \in 1..Len(stk)
  BY DEF Inv, StackOK, Top
<1>2. Top \in FrameType
  BY <1>1, ElementOfSeq
<1> QED BY <1>2 DEF FrameType

LEMMA BecomeOK ==
  ASSUME Inv, stk # <<>>, NEW s, NEW f \in FrameType,
         f.at \notin Outermost \cup {"u4"}, Top.at # "stopCapture",
         Same(s), f.at = "raw" => f.i \in s.head..s.tail,
         Become(s, f), Rest, num' \in Seq(Byte)
  PROVE  Inv'
<1>1. /\ StackOK(stk') /\ stk' # <<>> /\ Head(stk') = f
      /\ HasStop(stk') = HasStop(stk)
  BY StackBecome DEF Inv, Become, Top, Outermost
<1>2. tok' = None /\ it' = s
  BY DEF Become
<1>3. Good(it', input', delivered', source', op'.dry)
  BY <1>2 DEF Same, OK, Rest
<1>4. it'.capturing = HasStop(stk')
  BY <1>1, <1>2 DEF Same, Inv
<1>5. (In("raw") => Top.i \in it.head..it.tail)' /\ (In("u4") => Len(stk) >= 2 /\ stk[2].at = "rawWait")'
  BY <1>1, <1>2 DEF In, Top
<1> QED BY <1>1, <1>2, <1>3, <1>4, <1>5 DEF Inv, Rest

LEMMA CallOK ==
  ASSUME Inv, stk # <<>>, NEW s, NEW f \in FrameType, NEW g \in FrameType,
         f.at \notin Outermost, g.at \in Waiting, Top.at # "stopCapture",
         f.at = "u4" => g.at = "rawWait", OK(s), f.at = "raw" => f.i \in s.head..s.tail,
         IF g.at = "stopCapture" THEN Top.at = "readNil" /\ s.capturing = TRUE
                                 ELSE s.capturing = it.capturing,
         Call(s, f, g), Rest, num' \in Seq(Byte)
  PROVE  Inv'
<1>1. /\ StackOK(stk') /\ stk' # <<>> /\ Head(stk') = f /\ Len(stk') >= 2 /\ stk'[2] = g
      /\ g.at # "stopCapture" => HasStop(stk') = HasStop(stk)
      /\ g.at = "stopCapture" => HasStop(stk')
  BY StackCall DEF Inv, Call, Top
<1>2. tok' = None /\ it' = s
  BY DEF Call
<1>3. Good(it', input', delivered', source', op'.dry)
  BY <1>2 DEF OK, Rest
<1>4. it'.capturing = HasStop(stk')
  BY <1>1, <1>2 DEF Inv, HasStop
<1>5. (In("raw") => Top.i \in it.head..it.tail)' /\ (In("u4") => Len(stk) >= 2 /\ stk[2].at = "rawWait")'
  BY <1>1, <1>2 DEF In, Top
<1> QED BY <1>1, <1>2, <1>3, <1>4, <1>5 DEF Inv, Rest

LEMMA ReturnOK ==
  ASSUME Inv, stk # <<>>, NEW s, OK(s),
         IF Top.at = "stopCapture" THEN s.capturing = FALSE ELSE s.capturing = it.capturing,
         Return(s), UNCHANGED <<input, source, delivered, nops>>,
         op' \in OperationType, op'.dry = op.dry, num' \in Seq(Byte)
  PROVE  Inv'
<1>1. /\ StackOK(stk')
      /\ stk' # <<>> => Head(stk').at \in Waiting
      /\ Top.at # "stopCapture" => HasStop(stk') = HasStop(stk)
      /\ Top.at = "stopCapture" => ~HasStop(stk')
  BY StackReturn DEF Inv, Return, Top, Outermost
<1>2. tok' = None /\ it' = s
  BY DEF Return
<1>3. Good(it', input', delivered', source', op'.dry)
  BY <1>2 DEF OK
<1>4. it'.capturing = HasStop(stk')
  BY <1>1, <1>2 DEF Inv, HasStop
<1>5. (In("raw") => Top.i \in it.head..it.tail)' /\ (In("u4") => Len(stk) >= 2 /\ stk[2].at = "rawWait")'
  BY <1>1 DEF In, Top, Waiting
<1> QED BY <1>1, <1>2, <1>3, <1>4, <1>5 DEF Inv

----------------------------------------------------------------------------
(* The struct after a handler's helpers.                                   *)

LEMMA Unchanged ==
  ASSUME Inv
  PROVE  /\ Same(it) /\ Same(Report(it))
         /\ \A e \in Errors : Same(SetError(it, e))
         /\ \A p \in it.head..it.tail : Same(SetHead(it, p)) /\ Same(Report(SetHead(it, p)))
         /\ Same(IncrementDepth(it)) /\ Same(DecrementDepth(it))
         /\ Same(DecrementDepth(Report(it)))
<1>1. OK(it)
  BY DEF Inv, OK
<1>2. Same(it)
  BY <1>1 DEF Same
<1>3. Same(Report(it)) /\ Same(IncrementDepth(it)) /\ Same(DecrementDepth(it))
  BY <1>1, GoodReport, GoodDepth DEF OK, Same
<1>4. \A e \in Errors : Same(SetError(it, e))
  BY <1>1, GoodSetError DEF OK, Same
<1>5. \A p \in it.head..it.tail : Same(SetHead(it, p))
  BY <1>1, GoodSetHead DEF OK, Same
<1>6. \A p \in it.head..it.tail : Same(Report(SetHead(it, p)))
  BY <1>5, GoodReport DEF OK, Same
<1>7. Same(DecrementDepth(Report(it)))
  BY <1>3, GoodDepth DEF OK, Same
<1> QED BY <1>2, <1>3, <1>4, <1>5, <1>6, <1>7

LEMMA Unreads ==
  ASSUME Inv, tok # None
  PROVE  /\ Same(Unread(it)) /\ Same(Report(Unread(it)))
         /\ Same(DecrementDepth(Report(Unread(it))))
         /\ Unread(it).head \in 0..Unread(it).tail
<1>1. Same(Unread(it)) /\ Unread(it).head \in 0..Unread(it).tail
  BY GoodUnread DEF Inv, OK, Same
<1>2. Same(Report(Unread(it)))
  BY <1>1, GoodReport DEF OK, Same
<1>3. Same(DecrementDepth(Report(Unread(it))))
  BY <1>2, GoodDepth DEF OK, Same
<1> QED BY <1>1, <1>2, <1>3

LEMMA Ends ==
  ASSUME Inv
  PROVE  /\ it.head \in Nat /\ it.tail \in Nat /\ it.head <= it.tail
         /\ it.inputOffset \in Nat /\ it.captured \in Seq(Byte)
         /\ it.head \in it.head..it.tail /\ it.tail \in it.head..it.tail
         /\ it.depth \in Int /\ it.err \in Errors /\ InRange(it, source)
         /\ input \in Seq(Byte) /\ delivered \in Nat /\ Len(input) \in Nat
<1>1. InRange(it, source) /\ input \in Seq(Byte)
  BY InputsAssumption DEF Inv, Good
<1>2. it.head \in Nat /\ it.tail \in Nat /\ it.head <= it.tail
  BY <1>1 DEF InRange, IteratorType
<1>3. it.inputOffset \in Nat /\ it.captured \in Seq(Byte) /\ it.depth \in Int /\ it.err \in Errors
  BY <1>1 DEF InRange, IteratorType
<1>4. Len(input) \in Nat /\ delivered \in Nat
  BY <1>1 DEF Inv
<1> QED BY <1>1, <1>2, <1>3, <1>4

----------------------------------------------------------------------------
(* loadMore, nextToken and readByte.                                       *)

Loading == {"numberLoad", "firstLoad"} \cup TokenFrames \cup ByteFrames

\* the stack a failed load leaves
LEMMA LoadFailedOK ==
  ASSUME Inv, stk # <<>>, Top.at \in Loading,
         stk' = LoadFailed, it'.capturing = it.capturing
  PROVE  /\ StackOK(stk') /\ stk' # <<>> /\ it'.capturing = HasStop(stk')
         /\ ~(In("raw"))' /\ (In("u4") => Len(stk) >= 2 /\ stk[2].at = "rawWait")'
         /\ FailedToken \in Byte \cup {None}
<1>1. Top.at \notin {"raw", "stopCapture"} /\ Top \in FrameType
  BY TopProperties DEF Loading, TokenFrames, ByteFrames
<1>0. FailedToken \in Byte \cup {None}
  <2>1. NUL \in Byte
    BY DEF Byte
  <2> QED BY <2>1 DEF FailedToken
<1>2. CASE Top.at = "numberLoad"
  <2> DEFINE f == [Top EXCEPT !.at = "number", !.esc = TRUE]
  <2>1. f \in FrameType /\ f.at = "number"
    BY <1>1, LabelsList DEF FrameType
  <2>2. stk' = <<f>> \o Tail(stk)
    BY <1>2 DEF LoadFailed
  <2> HIDE DEF f
  <2>3. StackOK(stk') /\ stk' # <<>> /\ Head(stk') = f /\ HasStop(stk') = HasStop(stk)
    BY <1>1, <2>1, <2>2, StackBecome DEF Inv, Top, Outermost
  <2> QED BY <1>0, <2>1, <2>3 DEF Inv, In, Top
<1>3. CASE Top.at = "firstLoad"
  <2>1. stk' = <<Frame("noMore")>>
    BY <1>3 DEF LoadFailed
  <2>2. Frame("noMore") \in FrameType /\ Frame("noMore").at = "noMore"
    BY FrameTyped, LabelsList
  <2>3. StackOK(stk') /\ ~HasStop(stk') /\ Head(stk').at = "noMore"
    BY <2>1, <2>2 DEF StackOK, HasStop, Outermost
  <2>4. ~HasStop(stk)
    <3>1. ~HasStop(Tail(stk)) /\ HasStop(Tail(stk)) = HasStop(stk)
      BY <1>1, <1>3, StackReturn DEF Inv, Top, Outermost
    <3> QED BY <3>1
  <2>5. HasStop(stk) = FALSE /\ HasStop(stk') = FALSE
    BY <2>3, <2>4 DEF HasStop
  <2>6. it'.capturing = HasStop(stk')
    BY <2>5 DEF Inv
  <2>7. stk' # <<>>
    BY <2>1
  <2> QED BY <1>0, <2>3, <2>6, <2>7 DEF In, Top
<1>4. CASE Top.at \notin {"numberLoad", "firstLoad"}
  BY <1>0, <1>1, <1>4 DEF LoadFailed, Inv, In, Top
<1> QED BY <1>2, <1>3, <1>4

LEMMA LoadSliceInv == ASSUME Inv, LoadSlice PROVE Inv'
<1>1. /\ stk # <<>> /\ Top.at \in Loading
  BY DEF LoadSlice, Blocked, Loading
<1>2. Same(it') /\ it'.err # "nil"
  <2>1. CASE it.err = "nil"
    <3>1. Same(SetHead(it, it.tail)) /\ "EOF" \in Errors
      BY Unchanged, Ends DEF Errors
    <3> QED BY <2>1, <3>1, GoodSetError DEF LoadSlice, Same, OK
  <2>2. CASE it.err # "nil"
    BY <2>2, Unchanged DEF LoadSlice
  <2> QED BY <2>1, <2>2
<1>3. stk' = LoadFailed /\ tok' = FailedToken
  BY DEF LoadSlice
<1>4. UNCHANGED <<input, source, delivered, num, op, nops>>
  BY DEF LoadSlice
<1>5. OK(it)' /\ (CanUnread(it))'
  BY <1>2, <1>4 DEF Same, OK, CanUnread
<1> QED BY <1>1, <1>2, <1>3, <1>4, <1>5, LoadFailedOK DEF Inv, OK, Same, Idle

LEMMA LoadFailsInv == ASSUME Inv, LoadFails PROVE Inv'
<1>1. /\ stk # <<>> /\ Top.at \in Loading
  BY DEF LoadFails, Blocked, Loading
<1>2. PICK e \in ReadErrors :
        /\ it' = IF it.err = "nil" THEN SetError(SaveCapture(it), e) ELSE SaveCapture(it)
        /\ op' = [op EXCEPT !.dry = IF @ = "ioerr" THEN @ ELSE e]
  BY DEF LoadFails
<1>3. e \in Errors /\ e # "nil"
  BY ReadErrorsAssumption DEF Errors
<1>4. op' \in OperationType /\ op'.dry # "nil"
  BY <1>2, <1>3 DEF Inv, OperationType
<1>5. /\ Good(SaveCapture(it), input, delivered, source, op'.dry)
      /\ SaveCapture(it).capturing = it.capturing /\ SaveCapture(it).err = it.err
  <2>1. Good(it, input, delivered, source, op.dry)
    BY DEF Inv
  <2>2. InRange(SaveCapture(it), source) /\ Window(SaveCapture(it), input, delivered)
        /\ SaveCapture(it).capturing = it.capturing /\ SaveCapture(it).err = it.err
    BY <2>1, SaveCaptureProperties
  <2> QED BY <1>4, <2>2 DEF Good
<1>6. Good(it', input, delivered, source, op'.dry) /\ it'.capturing = it.capturing /\ it'.err # "nil"
  BY <1>2, <1>3, <1>5, GoodSetError
<1>7. stk' = LoadFailed /\ tok' = FailedToken /\ UNCHANGED <<input, source, delivered, num, nops>>
  BY DEF LoadFails
<1>8. (CanUnread(it))'
  BY <1>6 DEF CanUnread
<1> QED BY <1>1, <1>4, <1>6, <1>7, <1>8, LoadFailedOK DEF Inv, Idle

LEMMA LoadMoreInv == ASSUME Inv, LoadMore PROVE Inv'
<1>1. /\ stk # <<>> /\ Top.at \in Loading /\ source = "reader" /\ tok = None
  BY DEF LoadMore, Blocked, Loading
<1>2. PICK n \in 1..BufSize :
        /\ delivered + n <= Len(input)
        /\ it' = Refill(it, delivered, n)
        /\ delivered' = delivered + n
  BY DEF LoadMore
<1>3. UNCHANGED <<input, source, tok, num, op, nops>> /\ stk' = Loaded
  BY DEF LoadMore
<1>4. Good(it', input', delivered', source', op'.dry) /\ it'.capturing = it.capturing
  <2>1. Good(it, input, delivered, "reader", op.dry)
    BY <1>1 DEF Inv
  <2> QED BY <1>1, <1>2, <1>3, <2>1, Ends, GoodRefill
<1>5. delivered' \in 0..Len(input')
  BY <1>2, <1>3, Ends, BufSizeAssumption
<1>6. Top.at \notin {"raw", "stopCapture"} /\ Top \in FrameType
  BY <1>1, TopProperties DEF Loading, TokenFrames, ByteFrames
<1>7. /\ StackOK(stk') /\ HasStop(stk') = HasStop(stk)
      /\ ~(In("raw"))' /\ (In("u4") => Len(stk) >= 2 /\ stk[2].at = "rawWait")'
  <2>1. CASE Top.at = "numberLoad"
    <3> DEFINE f == [Top EXCEPT !.at = "number"]
    <3>1. f \in FrameType /\ f.at = "number" /\ stk' = <<f>> \o Tail(stk)
      BY <1>3, <1>6, <2>1, LabelsList DEF FrameType, Loaded
    <3> HIDE DEF f
    <3> QED BY <1>1, <1>6, <3>1, StackBecome DEF Inv, Top, Outermost, In
  <2>2. CASE Top.at = "firstLoad"
    <3> DEFINE f == Frame("readNil")
    <3>1. f \in FrameType /\ f.at = "readNil" /\ stk' = <<f>> \o Tail(stk)
      BY <1>3, <2>2, FrameTyped, LabelsList DEF Loaded
    <3> HIDE DEF f
    <3> QED BY <1>1, <1>6, <2>2, <3>1, StackBecome DEF Inv, Top, Outermost, In
  <2>3. CASE Top.at \notin {"numberLoad", "firstLoad"}
    BY <1>3, <1>6, <2>3 DEF Loaded, Inv, In, Top
  <2> QED BY <2>1, <2>2, <2>3
<1> QED BY <1>1, <1>3, <1>4, <1>5, <1>7 DEF Inv

LEMMA HeadMoves ==
  ASSUME Inv, stk # <<>>, Top.at # "raw",
         NEW p \in 0..(it.tail - 1), NEW h \in it.head..it.tail, h > it.head,
         it' = SetHead(it, h), tok' = At(it, p),
         UNCHANGED <<stk, num, input, source, delivered, op, nops>>
  PROVE  Inv'
<1>1. /\ Good(it', input, delivered, source, op.dry)
      /\ it'.capturing = it.capturing /\ it'.head = h
      /\ it'.captureStartedAt = it.captureStartedAt
  BY GoodSetHead DEF Inv
<1>2. tok' \in Byte
  BY AtType, Ends
<1>3. (CanUnread(it))'
  <2>1. it.capturing => it.captureStartedAt \in 0..it.head
    BY Ends DEF InRange
  <2>2. h > 0 /\ (it.capturing => h > it.captureStartedAt)
    BY <2>1, Ends
  <2> QED BY <1>1, <2>2 DEF CanUnread
<1>4. ~(In("raw"))' /\ (In("u4") => Len(stk) >= 2 /\ stk[2].at = "rawWait")'
  BY DEF Inv, In, Top
<1> QED BY <1>1, <1>2, <1>3, <1>4 DEF Inv, Idle

LEMMA NextTokenInv == ASSUME Inv, NextToken PROVE Inv'
<1>1. PICK p \in it.head..it.tail : IsToken(it, p) /\ it' = SetHead(it, p + 1) /\ tok' = At(it, p)
  BY DEF NextToken
<1>2. /\ stk # <<>> /\ Top.at \in TokenFrames
      /\ UNCHANGED <<stk, num, input, source, delivered, op, nops>>
  BY DEF NextToken, Registers, Rest
<1>3. p + 1 \in it.head..it.tail /\ p + 1 > it.head /\ p + 1 > 0 /\ p \in 0..(it.tail - 1)
  BY <1>1, Ends DEF IsToken
<1> QED BY <1>1, <1>2, <1>3, HeadMoves DEF TokenFrames

LEMMA ReadByteInv == ASSUME Inv, ReadByte PROVE Inv'
<1>1. /\ stk # <<>> /\ Top.at \in ByteFrames /\ it.head < it.tail
      /\ it' = SetHead(it, it.head + 1) /\ tok' = At(it, it.head)
      /\ UNCHANGED <<stk, num, input, source, delivered, op, nops>>
  BY DEF ReadByte, Registers, Rest
<1>2. it.head + 1 \in it.head..it.tail /\ it.head + 1 > it.head /\ it.head \in 0..(it.tail - 1)
  BY <1>1, Ends
<1> QED BY <1>1, <1>2, HeadMoves DEF ByteFrames

----------------------------------------------------------------------------
(* The handlers: each ends in Become, Call or Return of a good struct.     *)

\* the labels a handler may give to the innermost frame with fresh locals
Fresher == Labels \ (Outermost \cup {"u4", "raw"})

LEMMA Steps ==
  ASSUME Inv, stk # <<>>, Top.at # "stopCapture", Rest, num' \in Seq(Byte), NEW s, Same(s)
  PROVE  /\ Return(s) => Inv'
         /\ \A l \in Fresher : Become(s, Frame(l)) => Inv'
         /\ \A bytes \in Seq(Byte) : Become(s, Literal(bytes)) => Inv'
         /\ Become(s, RawFrame(s)) => Inv'
         /\ \A l \in Fresher, m \in Waiting \ {"stopCapture"} :
              Call(s, Frame(l), Frame(m)) => Inv'
         /\ \A m \in Waiting \ {"stopCapture"} : Call(s, RawFrame(s), Frame(m)) => Inv'
         /\ \A bytes \in Seq(Byte), m \in Waiting \ {"stopCapture"} :
              Call(s, Literal(bytes), Frame(m)) => Inv'
<1>1. OK(s) /\ s.capturing = it.capturing
  BY DEF Same
<1>2. ASSUME Return(s) PROVE Inv'
  <2>1. op' \in OperationType /\ op'.dry = op.dry /\ UNCHANGED <<input, source, delivered, nops>>
    BY DEF Inv, Rest
  <2> QED BY <1>1, <1>2, <2>1, ReturnOK
<1>3. ASSUME NEW l \in Fresher
      PROVE  Frame(l) \in FrameType /\ Frame(l).at \notin Outermost \cup {"u4", "raw"}
  BY FrameTyped DEF Fresher
<1>4. ASSUME NEW m \in Waiting \ {"stopCapture"}
      PROVE  Frame(m) \in FrameType /\ Frame(m).at \in Waiting /\ Frame(m).at # "stopCapture"
  <2>1. m \in Labels
    BY LabelsList DEF Waiting
  <2> QED BY <2>1, FrameTyped
<1>5. ASSUME NEW bytes \in Seq(Byte)
      PROVE  Literal(bytes) \in FrameType /\ Literal(bytes).at \notin Outermost \cup {"u4", "raw"}
  BY LiteralTyped DEF Outermost
<1>6. /\ RawFrame(s) \in FrameType /\ RawFrame(s).at = "raw"
      /\ RawFrame(s).i \in s.head..s.tail
  <2>1. InRange(s, source)
    BY <1>1 DEF OK, Good
  <2>2. s.head \in s.head..s.tail
    BY <2>1 DEF InRange, IteratorType
  <2> QED BY <2>1, <2>2, RawFrameTyped
<1>7. "raw" \notin Outermost \cup {"u4"}
  BY DEF Outermost
<1>8. ASSUME NEW l \in Fresher, Become(s, Frame(l)) PROVE Inv'
  BY <1>3, <1>8, BecomeOK
<1>9. ASSUME NEW bytes \in Seq(Byte), Become(s, Literal(bytes)) PROVE Inv'
  BY <1>5, <1>9, BecomeOK
<1>10. ASSUME Become(s, RawFrame(s)) PROVE Inv'
  BY <1>6, <1>7, <1>10, BecomeOK
<1>11. ASSUME NEW l \in Fresher, NEW m \in Waiting \ {"stopCapture"},
              Call(s, Frame(l), Frame(m))
       PROVE  Inv'
  BY <1>1, <1>3, <1>4, <1>11, CallOK
<1>12. ASSUME NEW m \in Waiting \ {"stopCapture"}, Call(s, RawFrame(s), Frame(m)) PROVE Inv'
  BY <1>1, <1>4, <1>6, <1>7, <1>12, CallOK
<1>13. ASSUME NEW bytes \in Seq(Byte), NEW m \in Waiting \ {"stopCapture"},
              Call(s, Literal(bytes), Frame(m))
       PROVE  Inv'
  BY <1>1, <1>4, <1>5, <1>13, CallOK
<1> QED BY <1>2, <1>8, <1>9, <1>10, <1>11, <1>12, <1>13

LEMMA FresherList ==
  {"skip", "arr", "arrFirst", "arrNext", "obj", "objFirst", "objColon", "objKey",
   "objNext", "objName", "float64", "float32", "positiveFloat32", "positiveFloat64", "number"} \subseteq Fresher
BY LabelsList DEF Fresher, Outermost

LEMMA WaitingList ==
  {"arrNext", "objNext", "objName", "skipNumber", "slowFloat32", "slowFloat64", "bigFloat"}
    \subseteq Waiting \ {"stopCapture"}
BY DEF Waiting

LEMMA LiteralBytes ==
  /\ <<"u", "l", "l">> \in Seq(Byte) /\ <<"r", "u", "e">> \in Seq(Byte)
  /\ <<"a", "l", "s", "e">> \in Seq(Byte)
<1>1. {"u", "l", "r", "e", "a", "s"} \subseteq Byte
  BY DEF Byte, NumberChars, Hex, EscapeChars
<1> QED BY <1>1

LEMMA NumSame == ASSUME Inv, Registers PROVE num' \in Seq(Byte)
BY DEF Inv, Registers

LEMMA SkipLiteralInv == ASSUME Inv, SkipLiteral PROVE Inv'
<1>1. /\ stk # <<>> /\ Top.at = "literal" /\ Rest /\ num' \in Seq(Byte)
  BY NumSame DEF SkipLiteral, Got, In
<1>2. Same(it) /\ Same(Report(it))
  BY Unchanged
<1>3. CASE Return(Report(it)) \/ Return(it)
  BY <1>1, <1>2, <1>3, Steps
<1>4. CASE Become(it, Literal(Tail(Top.acc))) /\ Len(Top.acc) > 1
  <2>1. Tail(Top.acc) \in Seq(Byte)
    BY <1>1, <1>4, TopProperties
  <2> QED BY <1>1, <1>2, <1>4, <2>1, Steps
<1> QED BY <1>3, <1>4 DEF SkipLiteral

LEMMA ReadArrayStartInv == ASSUME Inv, ReadArrayStart PROVE Inv'
<1>1. /\ stk # <<>> /\ Top.at = "arr" /\ Rest /\ num' \in Seq(Byte) /\ tok # None
  BY NumSame DEF ReadArrayStart, Got, In
<1>2. Same(it) /\ Same(IncrementDepth(it)) /\ Same(Report(Unread(it)))
  BY <1>1, Unchanged, Unreads
<1>3. "arrFirst" \in Fresher /\ <<"u", "l", "l">> \in Seq(Byte)
  BY FresherList, LiteralBytes
<1>4. \/ Become(IncrementDepth(it), Frame("arrFirst"))
      \/ Return(IncrementDepth(it))
      \/ Become(it, Literal(<<"u", "l", "l">>))
      \/ Return(Report(Unread(it)))
  BY DEF ReadArrayStart
<1> QED BY <1>1, <1>2, <1>3, <1>4, Steps

LEMMA ReadArrayFirstInv == ASSUME Inv, ReadArrayFirst PROVE Inv'
<1>1. /\ stk # <<>> /\ Top.at = "arrFirst" /\ Rest /\ num' \in Seq(Byte) /\ tok # None
  BY NumSame DEF ReadArrayFirst, Got, In
<1>2. Same(DecrementDepth(it)) /\ Same(Unread(it))
  BY <1>1, Unchanged, Unreads
<1>3. "skip" \in Fresher /\ "arrNext" \in Waiting \ {"stopCapture"}
  BY FresherList, WaitingList
<1>4. Return(DecrementDepth(it)) \/ Call(Unread(it), Frame("skip"), Frame("arrNext"))
  BY DEF ReadArrayFirst
<1> QED BY <1>1, <1>2, <1>3, <1>4, Steps

LEMMA ReadArrayNextInv == ASSUME Inv, ReadArrayNext PROVE Inv'
<1>1. /\ stk # <<>> /\ Top.at = "arrNext" /\ Rest /\ num' \in Seq(Byte) /\ tok # None
  BY NumSame DEF ReadArrayNext, Got, In
<1>2. Same(it) /\ Same(DecrementDepth(it)) /\ Same(DecrementDepth(Report(Unread(it))))
  BY <1>1, Unchanged, Unreads
<1>3. "skip" \in Fresher /\ "arrNext" \in Waiting \ {"stopCapture"}
  BY FresherList, WaitingList
<1>4. \/ Call(it, Frame("skip"), Frame("arrNext"))
      \/ Return(DecrementDepth(it))
      \/ Return(DecrementDepth(Report(Unread(it))))
  BY DEF ReadArrayNext
<1> QED BY <1>1, <1>2, <1>3, <1>4, Steps

LEMMA ReadObjectStartInv == ASSUME Inv, ReadObjectStart PROVE Inv'
<1>1. /\ stk # <<>> /\ Top.at = "obj" /\ Rest /\ num' \in Seq(Byte) /\ tok # None
  BY NumSame DEF ReadObjectStart, Got, In
<1>2. Same(it) /\ Same(IncrementDepth(it)) /\ Same(Report(Unread(it)))
  BY <1>1, Unchanged, Unreads
<1>3. "objFirst" \in Fresher /\ <<"u", "l", "l">> \in Seq(Byte)
  BY FresherList, LiteralBytes
<1>4. \/ Become(IncrementDepth(it), Frame("objFirst"))
      \/ Return(IncrementDepth(it))
      \/ Become(it, Literal(<<"u", "l", "l">>))
      \/ Return(Report(Unread(it)))
  BY DEF ReadObjectStart
<1> QED BY <1>1, <1>2, <1>3, <1>4, Steps

LEMMA ReadObjectFirstInv == ASSUME Inv, ReadObjectFirst PROVE Inv'
<1>1. /\ stk # <<>> /\ Top.at = "objFirst" /\ Rest /\ num' \in Seq(Byte) /\ tok # None
  BY NumSame DEF ReadObjectFirst, Got, In
<1>2. Same(it) /\ Same(DecrementDepth(it)) /\ Same(DecrementDepth(Report(Unread(it))))
  BY <1>1, Unchanged, Unreads
<1>3. "objName" \in Waiting \ {"stopCapture"}
  BY WaitingList
<1>4. \/ Call(it, RawFrame(it), Frame("objName"))
      \/ Return(DecrementDepth(it))
      \/ Return(DecrementDepth(Report(Unread(it))))
  BY DEF ReadObjectFirst
<1> QED BY <1>1, <1>2, <1>3, <1>4, Steps

LEMMA ReadObjectNameInv == ASSUME Inv, ReadObjectName PROVE Inv'
<1>1. /\ stk # <<>> /\ Top.at = "objName" /\ Rest /\ num' \in Seq(Byte)
  BY DEF ReadObjectName, In, Inv
<1>2. Same(it) /\ \A p \in it.head..it.tail : Same(SetHead(it, p))
  BY Unchanged
<1>3. "objColon" \in Fresher
  BY FresherList
<1>4. \/ \E p \in it.head..it.tail : Become(SetHead(it, p), Frame("objColon"))
      \/ Become(it, Frame("objColon"))
  BY DEF ReadObjectName
<1> QED BY <1>1, <1>2, <1>3, <1>4, Steps

LEMMA ReadObjectColonInv == ASSUME Inv, ReadObjectColon PROVE Inv'
<1>1. /\ stk # <<>> /\ Top.at = "objColon" /\ Rest /\ num' \in Seq(Byte) /\ tok # None
  BY NumSame DEF ReadObjectColon, Got, In
<1>2. Same(it) /\ Same(Report(Unread(it)))
  BY <1>1, Unchanged, Unreads
<1>3. "skip" \in Fresher /\ "objNext" \in Waiting \ {"stopCapture"}
  BY FresherList, WaitingList
<1>4. Call(it, Frame("skip"), Frame("objNext")) \/ Return(Report(Unread(it)))
  BY DEF ReadObjectColon
<1> QED BY <1>1, <1>2, <1>3, <1>4, Steps

LEMMA ReadObjectNextInv == ASSUME Inv, ReadObjectNext PROVE Inv'
<1>1. /\ stk # <<>> /\ Top.at = "objNext" /\ Rest /\ num' \in Seq(Byte) /\ tok # None
  BY NumSame DEF ReadObjectNext, Got, In
<1>2. Same(it) /\ Same(DecrementDepth(it)) /\ Same(Report(Unread(it)))
  BY <1>1, Unchanged, Unreads
<1>3. "objKey" \in Fresher
  BY FresherList
<1>4. \/ Become(it, Frame("objKey")) \/ Return(DecrementDepth(it))
      \/ Return(Report(Unread(it)))
  BY DEF ReadObjectNext
<1> QED BY <1>1, <1>2, <1>3, <1>4, Steps

LEMMA ReadObjectKeyInv == ASSUME Inv, ReadObjectKey PROVE Inv'
<1>1. /\ stk # <<>> /\ Top.at = "objKey" /\ Rest /\ num' \in Seq(Byte) /\ tok # None
  BY DEF ReadObjectKey, Got, In, Inv
<1>2. Same(it) /\ Same(Report(Unread(it)))
  BY <1>1, Unchanged, Unreads
<1>3. /\ "objName" \in Fresher /\ "objName" \in Waiting \ {"stopCapture"}
      /\ <<"u", "l", "l">> \in Seq(Byte)
  BY FresherList, WaitingList, LiteralBytes
<1>4. \/ Call(it, RawFrame(it), Frame("objName"))
      \/ Call(it, Literal(<<"u", "l", "l">>), Frame("objName"))
      \/ Become(Report(Unread(it)), Frame("objName"))
  BY DEF ReadObjectKey
<1> QED BY <1>1, <1>2, <1>3, <1>4, Steps

----------------------------------------------------------------------------
(* Numbers.                                                                *)

LEMMA SkipNumberInv ==
  ASSUME Inv, stk # <<>>, Top.at = "skip", tok # None, Rest, num' \in Seq(Byte), SkipNumber(it)
  PROVE  Inv'
<1>1. PICK p \in it.head..it.tail :
        \/ Return(SetHead(it, p))
        \/ Return(Report(it))
        \/ Return(Unread(it))
        \/ Call(Unread(it), Frame("float64"), Frame("skipNumber"))
  BY DEF SkipNumber
<1>2. Same(SetHead(it, p)) /\ Same(Report(it)) /\ Same(Unread(it))
  BY Unchanged, Unreads
<1>3. "float64" \in Fresher /\ "skipNumber" \in Waiting \ {"stopCapture"}
  BY FresherList, WaitingList
<1> QED BY <1>1, <1>2, <1>3, Steps

LEMMA SkipNumberAgainInv == ASSUME Inv, SkipNumberAgain PROVE Inv'
<1>1. /\ stk # <<>> /\ Top.at = "skipNumber" /\ Rest /\ num' \in Seq(Byte)
  BY NumSame DEF SkipNumberAgain, In
<1>2. "nil" \in Errors
  BY DEF Errors
<1>3. Same(it) /\ Same(SetError(it, "nil"))
  BY <1>2, Unchanged
<1>4. "number" \in Fresher /\ "bigFloat" \in Waiting \ {"stopCapture"}
  BY FresherList, WaitingList
<1>5. Return(it) \/ Call(SetError(it, "nil"), Frame("number"), Frame("bigFloat"))
  BY DEF SkipNumberAgain
<1> QED BY <1>1, <1>3, <1>4, <1>5, Steps

LEMMA ReadFloatInv == ASSUME Inv, ReadFloat PROVE Inv'
<1>1. /\ stk # <<>> /\ Top.at # "stopCapture" /\ Rest /\ num' \in Seq(Byte) /\ tok # None
  BY NumSame DEF ReadFloat, Got, In
<1>2. Same(it) /\ Same(Unread(it))
  BY <1>1, Unchanged, Unreads
<1>3. {"positiveFloat32", "positiveFloat64"} \subseteq Fresher
  BY FresherList
<1>4. \E l \in {"positiveFloat32", "positiveFloat64"} :
        Become(it, Frame(l)) \/ Become(Unread(it), Frame(l))
  BY DEF ReadFloat
<1> QED BY <1>1, <1>2, <1>3, <1>4, Steps

LEMMA ReadPositiveFloatInv == ASSUME Inv, ReadPositiveFloat PROVE Inv'
<1>1. /\ stk # <<>> /\ Top.at # "stopCapture" /\ Rest /\ num' \in Seq(Byte)
  BY NumSame DEF ReadPositiveFloat, In
<1>2. Same(it) /\ Same(Report(it)) /\ \A p \in it.head..it.tail : Same(SetHead(it, p))
  BY Unchanged
<1>3. "number" \in Fresher /\ {"slowFloat32", "slowFloat64"} \subseteq Waiting \ {"stopCapture"}
  BY FresherList, WaitingList
<1>4. \/ \E p \in it.head..it.tail : Return(SetHead(it, p))
      \/ Return(Report(it))
      \/ \E l \in {"slowFloat32", "slowFloat64"} : Call(it, Frame("number"), Frame(l))
  BY DEF ReadPositiveFloat
<1> QED BY <1>1, <1>2, <1>3, <1>4, Steps

LEMMA ReadNumberAsBytesInv == ASSUME Inv, ReadNumberAsBytes PROVE Inv'
<1>1. stk # <<>> /\ Top.at = "number" /\ Rest /\ Top.acc \in Seq(Byte)
  BY TopProperties DEF ReadNumberAsBytes, In
<1>2. \A p \in it.head..it.tail : Top.acc \o Bytes(it, it.head, p) \in Seq(Byte)
  <2> TAKE p \in it.head..it.tail
  <2>1. it.head \in Nat /\ p \in Nat /\ p <= it.tail
    BY Ends
  <2>2. Bytes(it, it.head, p) \in Seq(Byte)
    BY <2>1, BytesType, Ends
  <2> QED BY <1>1, <2>2
<1>3. ASSUME NEW bytes \in Seq(Byte), NEW s, Same(s), ReadNumberDone(bytes, s) PROVE Inv'
  <2>1. Same(Report(s))
    BY <1>3, GoodReport DEF Same, OK
  <2>2. num' \in Seq(Byte)
    BY <1>3 DEF ReadNumberDone
  <2>3. Return(Report(s)) \/ Return(s)
    BY <1>3 DEF ReadNumberDone
  <2> QED BY <1>1, <1>3, <2>1, <2>2, <2>3, Steps
<1>4. CASE ReadNumberDone(Top.acc, it)
  BY <1>1, <1>3, <1>4, Unchanged
<1>5. ASSUME NEW p \in it.head..it.tail,
             ReadNumberDone(Top.acc \o Bytes(it, it.head, p), SetHead(it, p))
      PROVE  Inv'
  BY <1>2, <1>3, <1>5, Unchanged
<1>6. ASSUME NEW p \in it.head..it.tail, UNCHANGED num,
             Become(it, [Frame("numberLoad") EXCEPT !.acc = Top.acc \o Bytes(it, it.head, p)])
      PROVE  Inv'
  <2> DEFINE acc == Top.acc \o Bytes(it, it.head, p)
             f == [Frame("numberLoad") EXCEPT !.acc = acc]
  <2>1. acc \in Seq(Byte)
    BY <1>2
  <2> HIDE DEF acc
  <2>2. f \in FrameType /\ f.at = "numberLoad"
    BY <2>1, LabelsList DEF Frame, FrameType
  <2>3. Become(it, f) /\ num' \in Seq(Byte)
    BY <1>6 DEF acc, Inv
  <2> HIDE DEF f
  <2> QED BY <1>1, <2>2, <2>3, BecomeOK, Unchanged DEF Outermost
<1> QED BY <1>4, <1>5, <1>6 DEF ReadNumberAsBytes

LEMMA SlowFloatInv == ASSUME Inv, SlowFloat PROVE Inv'
<1>1. /\ stk # <<>> /\ Top.at # "stopCapture" /\ Rest /\ num' \in Seq(Byte)
  BY NumSame DEF SlowFloat, In
<1>2. "bad" \in Errors
  BY DEF Errors
<1>3. Same(it) /\ Same(Report(it)) /\ Same(SetError(it, "bad"))
  BY <1>2, Unchanged
<1>4. Return(it) \/ Return(Report(it)) \/ Return(SetError(it, "bad"))
  BY DEF SlowFloat
<1> QED BY <1>1, <1>3, <1>4, Steps

LEMMA ReadBigFloatInv == ASSUME Inv, ReadBigFloat PROVE Inv'
<1>1. /\ stk # <<>> /\ Top.at = "bigFloat" /\ Rest /\ num' \in Seq(Byte)
  BY NumSame DEF ReadBigFloat, In
<1>2. "bad" \in Errors
  BY DEF Errors
<1>3. Same(it) /\ Same(SetError(it, "bad"))
  BY <1>2, Unchanged
<1>4. Return(it) \/ Return(SetError(it, "bad"))
  BY DEF ReadBigFloat
<1> QED BY <1>1, <1>3, <1>4, Steps

LEMMA ReadNumbersInv == ASSUME Inv, ReadNumbers PROVE Inv'
BY SkipNumberAgainInv, ReadFloatInv, ReadPositiveFloatInv, ReadNumberAsBytesInv,
   SlowFloatInv, ReadBigFloatInv DEF ReadNumbers

----------------------------------------------------------------------------
(* Strings.                                                                *)

LEMMA SkipStringInv ==
  ASSUME Inv, stk # <<>>, Top.at = "skip", Rest, num' \in Seq(Byte), SkipString(it)
  PROVE  Inv'
<1>1. PICK p \in it.head..it.tail :
        \/ p < it.tail /\ Return(SetHead(it, p + 1))
        \/ Become(SetHead(it, p), RawFrame(SetHead(it, p)))
        \/ Become(it, RawFrame(it))
  BY DEF SkipString
<1>2. Same(it) /\ Same(SetHead(it, p))
  BY Unchanged
<1>3. CASE p < it.tail /\ Return(SetHead(it, p + 1))
  <2>1. p + 1 \in it.head..it.tail
    BY <1>3, Ends
  <2>2. Same(SetHead(it, p + 1))
    BY <2>1, Unchanged
  <2> QED BY <1>3, <2>2, Steps
<1> QED BY <1>1, <1>2, <1>3, Steps

LEMMA SkipInv == ASSUME Inv, Skip PROVE Inv'
<1>1. /\ stk # <<>> /\ Top.at = "skip" /\ Rest /\ num' \in Seq(Byte) /\ tok # None
  BY NumSame DEF Skip, Got, In
<1>2. Same(it) /\ Same(Unread(it)) /\ Same(Report(Unread(it)))
  BY <1>1, Unchanged, Unreads
<1>3. "float32" \in Fresher /\ "arr" \in Fresher /\ "obj" \in Fresher
  BY FresherList
<1>4. \/ SkipString(it) \/ SkipNumber(it)
      \/ \E bytes \in Seq(Byte) : Become(it, Literal(bytes))
      \/ Become(Unread(it), Frame("float32"))
      \/ Become(Unread(it), Frame("arr"))
      \/ Become(Unread(it), Frame("obj"))
      \/ Return(Report(Unread(it)))
  BY LiteralBytes DEF Skip
<1>5. CASE SkipString(it)
  BY <1>1, <1>5, SkipStringInv
<1>6. CASE SkipNumber(it)
  BY <1>1, <1>6, SkipNumberInv
<1> QED BY <1>1, <1>2, <1>3, <1>4, <1>5, <1>6, Steps

\* s is what it becomes, f what the innermost frame becomes
RawNext(s, f) ==
  /\ Same(s) /\ f \in FrameType
  /\ f.at \in {"raw", "rawLoad"} /\ (f.at = "raw" => f.i \in s.head..s.tail)

LEMMA RawNextOK ==
  ASSUME Inv, stk # <<>>, Top.at # "stopCapture", Rest, num' \in Seq(Byte),
         NEW s, NEW f, RawNext(s, f), Become(s, f)
  PROVE  Inv'
BY BecomeOK DEF RawNext, Outermost

LEMMA RawAcc ==
  ASSUME Inv, stk # <<>>, NEW i \in Nat, i <= it.tail
  PROVE  Top.acc \o Bytes(it, it.head, i) \in Seq(Byte)
<1>1. it.head \in Nat
  BY Ends
<1>2. Bytes(it, it.head, i) \in Seq(Byte)
  BY <1>1, BytesType, Ends
<1> QED BY <1>2, TopProperties

LEMMA ReadRawStringInnerInv == ASSUME Inv, ReadRawStringInner PROVE Inv'
<1>1. /\ stk # <<>> /\ Top.at = "raw" /\ Rest /\ num' \in Seq(Byte)
      /\ Top \in FrameType /\ Top.i \in Nat /\ Top.i \in it.head..it.tail
      /\ it.head \in Nat /\ it.tail \in Nat
  BY TopProperties, Ends DEF ReadRawStringInner, In, Inv
<1>2. Same(it) /\ \A p \in it.head..it.tail : Same(SetHead(it, p)) /\ Same(Report(SetHead(it, p)))
  BY Unchanged
<1>3. ASSUME NEW s, Same(s), RawStringFails(s) PROVE Inv'
  <2>1. Same(Report(s)) /\ Return(Report(s))
    BY <1>3, GoodReport DEF Same, OK, RawStringFails
  <2> QED BY <1>1, <2>1, Steps
<1>4. ASSUME Top.i < it.tail, RawStringEnds PROVE Inv'
  <2>1. Top.i + 1 \in it.head..it.tail /\ Return(SetHead(it, Top.i + 1))
    BY <1>1, <1>4 DEF RawStringEnds
  <2> QED BY <1>1, <1>2, <2>1, Steps
<1>5. ASSUME Top.i < it.tail, NEW e \in BOOLEAN,
             Become(it, [Top EXCEPT !.esc = e, !.i = @ + 1])
      PROVE  Inv'
  <2> DEFINE f == [Top EXCEPT !.esc = e, !.i = @ + 1]
  <2>1. Top.i + 1 \in Nat /\ Top.i + 1 \in it.head..it.tail
    BY <1>1, <1>5
  <2>2. f \in FrameType /\ f.at = "raw" /\ f.i = Top.i + 1
    BY <1>1, <2>1 DEF FrameType
  <2>3. RawNext(it, f)
    BY <1>2, <2>1, <2>2 DEF RawNext
  <2> QED BY <1>1, <1>5, <2>3, RawNextOK
<1>6. ASSUME Top.i < it.tail, RawStringUnicode PROVE Inv'
  <2>1. Top.i + 1 \in it.head..it.tail /\ Top.i + 1 \in Nat /\ Top.i + 1 <= it.tail
    BY <1>1, <1>6
  <2> DEFINE s == SetHead(it, Top.i + 1)
  <2>2. Same(s)
    BY <1>2, <2>1
  <2>3. CASE Call(s, Frame("u4"), [Top EXCEPT !.at = "rawWait", !.esc = FALSE,
                                   !.acc = @ \o Bytes(it, it.head, Top.i + 1)])
    <3> DEFINE acc == Top.acc \o Bytes(it, it.head, Top.i + 1)
               g == [Top EXCEPT !.at = "rawWait", !.esc = FALSE, !.acc = acc]
    <3>1. acc \in Seq(Byte)
      BY <1>1, <2>1, RawAcc
    <3>2. Call(s, Frame("u4"), g)
      BY <2>3
    <3> HIDE DEF acc
    <3>3. g \in FrameType /\ g.at = "rawWait"
      BY <1>1, <3>1, LabelsList DEF FrameType
    <3>4. Frame("u4") \in FrameType /\ Frame("u4").at = "u4"
      BY FrameTyped, LabelsList
    <3>5. "rawWait" \in Waiting /\ "u4" \notin Outermost
      BY DEF Waiting, Outermost
    <3> HIDE DEF g, s
    <3> QED BY <1>1, <2>2, <3>2, <3>3, <3>4, <3>5, CallOK DEF Same
  <2>4. CASE /\ Top.i + 4 < it.tail
             /\ Become(SetHead(it, Top.i + 5),
                       [Top EXCEPT !.esc = FALSE, !.i = Top.i + 5,
                                   !.acc = @ \o Bytes(it, it.head, Top.i + 5)])
    <3> DEFINE acc == Top.acc \o Bytes(it, it.head, Top.i + 5)
               f == [Top EXCEPT !.esc = FALSE, !.i = Top.i + 5, !.acc = acc]
    <3>1. Top.i + 5 \in it.head..it.tail /\ Top.i + 5 \in Nat /\ Top.i + 5 <= it.tail
      BY <1>1, <2>4
    <3>2. acc \in Seq(Byte)
      BY <1>1, <3>1, RawAcc
    <3>3. Become(SetHead(it, Top.i + 5), f)
      BY <2>4
    <3> HIDE DEF acc
    <3>4. f \in FrameType /\ f.at = "raw" /\ f.i = Top.i + 5
      BY <1>1, <3>1, <3>2 DEF FrameType
    <3> HIDE DEF f
    <3>5. /\ Same(SetHead(it, Top.i + 5))
          /\ SetHead(it, Top.i + 5).head = Top.i + 5 /\ SetHead(it, Top.i + 5).tail = it.tail
      BY <1>2, <3>1, GoodSetHead DEF Inv
    <3>6. Top.i + 5 \in (Top.i + 5)..it.tail
      BY <1>1, <3>1
    <3>7. RawNext(SetHead(it, Top.i + 5), f)
      BY <3>4, <3>5, <3>6 DEF RawNext
    <3> QED BY <1>1, <3>3, <3>7, RawNextOK
  <2>5. CASE RawStringFails(s)
    BY <1>3, <2>2, <2>5
  <2> QED BY <1>6, <2>3, <2>4, <2>5 DEF RawStringUnicode
<1>7. ASSUME Top.i < it.tail, NEW c, RawStringByte(c) PROVE Inv'
  <2>1. Top.esc \in BOOLEAN /\ FALSE \in BOOLEAN /\ (~Top.esc) \in BOOLEAN
    BY <1>1 DEF FrameType
  <2>2. \/ RawStringEnds \/ RawStringUnicode \/ RawStringFails(it)
        \/ Become(it, [Top EXCEPT !.esc = FALSE, !.i = @ + 1])
        \/ Become(it, [Top EXCEPT !.esc = ~Top.esc, !.i = @ + 1])
    BY <1>7 DEF RawStringByte
  <2> QED BY <1>2, <1>3, <1>4, <1>5, <1>6, <1>7, <2>1, <2>2
<1>8. ASSUME Become(SetHead(it, it.tail),
                    [Top EXCEPT !.at = "rawLoad", !.acc = @ \o Bytes(it, it.head, it.tail)])
      PROVE  Inv'
  <2> DEFINE acc == Top.acc \o Bytes(it, it.head, it.tail)
             f == [Top EXCEPT !.at = "rawLoad", !.acc = acc]
  <2>1. acc \in Seq(Byte)
    BY <1>1, RawAcc
  <2>2. Become(SetHead(it, it.tail), f)
    BY <1>8
  <2> HIDE DEF acc
  <2>3. f \in FrameType /\ f.at = "rawLoad"
    BY <1>1, <2>1, LabelsList DEF FrameType
  <2> HIDE DEF f
  <2>4. RawNext(SetHead(it, it.tail), f)
    BY <1>2, <2>3, Ends DEF RawNext
  <2> QED BY <1>1, <2>2, <2>4, RawNextOK
<1>9. \/ RawStringFails(it)
      \/ Top.i < it.tail /\ RawStringByte(At(it, Top.i))
      \/ Become(SetHead(it, it.tail),
                [Top EXCEPT !.at = "rawLoad", !.acc = @ \o Bytes(it, it.head, it.tail)])
  BY DEF ReadRawStringInner
<1> QED BY <1>2, <1>3, <1>7, <1>8, <1>9

LEMMA ReadRawStringMoreInv == ASSUME Inv, ReadRawStringMore PROVE Inv'
<1>1. /\ stk # <<>> /\ Top.at = "rawLoad" /\ Rest /\ num' \in Seq(Byte)
      /\ Top \in FrameType /\ tok # None
  BY TopProperties DEF ReadRawStringMore, Got, In, Inv
<1>2. /\ Same(Unread(it)) /\ Same(Report(it))
      /\ Unread(it).head \in 0..Unread(it).tail
  BY <1>1, Unchanged, Unreads
<1>3. ASSUME Return(Report(it)) PROVE Inv'
  BY <1>1, <1>2, <1>3, Steps
<1>4. ASSUME Become(Unread(it), [Top EXCEPT !.at = "raw", !.i = Unread(it).head]) PROVE Inv'
  <2> DEFINE f == [Top EXCEPT !.at = "raw", !.i = Unread(it).head]
  <2>1. /\ Unread(it).head \in Nat
        /\ Unread(it).head \in Unread(it).head..Unread(it).tail
    <3>1. Unread(it).tail = it.tail
      BY <1>1, Ends DEF Unread, SetHead, InRange, IteratorType
    <3> QED BY <1>2, <3>1, Ends
  <2>2. f \in FrameType /\ f.at = "raw" /\ f.i = Unread(it).head
    BY <1>1, <2>1, LabelsList DEF FrameType
  <2>3. RawNext(Unread(it), f)
    BY <1>2, <2>1, <2>2 DEF RawNext
  <2> QED BY <1>1, <1>4, <2>3, RawNextOK
<1> QED BY <1>3, <1>4 DEF ReadRawStringMore, RawStringFails

LEMMA ReadAndFillU4Inv == ASSUME Inv, ReadAndFillU4 PROVE Inv'
<1> DEFINE caller == stk[2]
           f(bytes) == [caller EXCEPT !.at = "raw", !.acc = @ \o bytes, !.i = it.head]
<1>1. /\ stk # <<>> /\ Top.at = "u4" /\ Rest /\ num' = num /\ tok' = None
      /\ tok \in Byte \cup {None} /\ tok # None
      /\ Top \in FrameType /\ Top.acc \in Seq(Byte) /\ StackOK(stk) /\ Len(stk) >= 2
      /\ caller.at = "rawWait"
  BY TopProperties DEF ReadAndFillU4, Got, In, Inv, Registers
<1>2. Same(it) /\ Same(Report(it))
  BY Unchanged
<1>3. /\ stk \in Seq(FrameType) /\ Tail(stk) \in Seq(FrameType) /\ Tail(stk) # <<>>
      /\ Head(Tail(stk)) = caller /\ caller \in FrameType /\ caller.at \in Waiting
  BY <1>1, HeadTailProperties, ElementOfSeq DEF StackOK
<1>4. /\ StackOK(Tail(stk)) /\ HasStop(Tail(stk)) = HasStop(stk)
  BY <1>1, StackReturn DEF Top
<1>5. ASSUME NEW bytes \in Seq(Byte), it' = it \/ it' = Report(it),
             stk' = <<f(bytes)>> \o Tail(Tail(stk))
      PROVE  Inv'
  <2>1. caller.acc \o bytes \in Seq(Byte) /\ it.head \in Nat
    BY <1>3, Ends DEF FrameType
  <2>2. f(bytes) \in FrameType /\ f(bytes).at = "raw" /\ f(bytes).i = it.head
    BY <1>3, <2>1, LabelsList DEF FrameType
  <2> HIDE DEF f
  <2>3. /\ StackOK(stk') /\ stk' # <<>> /\ Head(stk') = f(bytes)
        /\ HasStop(stk') = HasStop(stk)
    BY <1>1, <1>3, <1>4, <1>5, <2>2, StackBecome DEF Outermost
  <2>4. Same(it') /\ it'.head = it.head /\ it'.tail = it.tail
    <3>1. Report(it).head = it.head /\ Report(it).tail = it.tail
      BY Ends DEF Report, SetError, InRange, IteratorType
    <3> QED BY <1>2, <1>5, <3>1
  <2>5. Good(it', input', delivered', source', op'.dry) /\ it'.capturing = HasStop(stk')
    BY <1>1, <2>3, <2>4 DEF Same, OK, Rest, Inv
  <2>6. (In("raw") => Top.i \in it.head..it.tail)' /\ (In("u4") => Len(stk) >= 2 /\ stk[2].at = "rawWait")'
    BY <2>2, <2>3, <2>4, Ends DEF In, Top
  <2> QED BY <1>1, <2>3, <2>5, <2>6 DEF Inv, Rest
<1>6. CASE it' = it /\ tok \in Hex /\ Len(Top.acc) < 3
           /\ stk' = <<[Top EXCEPT !.acc = Append(@, tok)]>> \o Tail(stk)
  <2> DEFINE g == [Top EXCEPT !.acc = Append(@, tok)]
  <2>1. Append(Top.acc, tok) \in Seq(Byte)
    BY <1>1
  <2>2. g \in FrameType /\ g.at = "u4"
    BY <1>1, <2>1 DEF FrameType
  <2> HIDE DEF g
  <2>3. /\ StackOK(stk') /\ stk' # <<>> /\ Head(stk') = g /\ HasStop(stk') = HasStop(stk)
    BY <1>1, <1>6, <2>2, StackBecome DEF Outermost, Top, g
  <2>4. Len(stk') >= 2 /\ stk'[2] = caller
    <3>1. stk' = <<g>> \o Tail(stk)
      BY <1>6 DEF g
    <3>2. Len(Tail(stk)) = Len(stk) - 1 /\ Tail(stk)[1] = caller /\ Len(stk) \in Nat
      BY <1>1, <1>3, HeadTailProperties
    <3>3. Len(stk') = Len(Tail(stk)) + 1 /\ \A k \in 2..(Len(Tail(stk)) + 1) : stk'[k] = Tail(stk)[k - 1]
      BY <1>3, <2>2, <3>1, ConsProperties
    <3>4. 2 \in 2..(Len(Tail(stk)) + 1) /\ 2 - 1 = 1
      BY <1>1, <3>2
    <3> QED BY <1>1, <3>2, <3>3, <3>4
  <2>5. Good(it', input', delivered', source', op'.dry) /\ it'.capturing = HasStop(stk')
    BY <1>1, <1>2, <1>6, <2>3 DEF Same, OK, Rest, Inv
  <2> QED BY <1>1, <2>2, <2>3, <2>4, <2>5 DEF Inv, Rest, In, Top
<1>8. Append(Top.acc, tok) \in Seq(Byte)
  BY <1>1
<1>9. \/ /\ it' = it \/ it' = Report(it)
         /\ stk' = <<f(Top.acc)>> \o Tail(Tail(stk))
      \/ it' = it /\ stk' = <<f(Append(Top.acc, tok))>> \o Tail(Tail(stk))
      \/ /\ it' = it /\ tok \in Hex /\ Len(Top.acc) < 3
         /\ stk' = <<[Top EXCEPT !.acc = Append(@, tok)]>> \o Tail(stk)
  BY DEF ReadAndFillU4
<1> HIDE DEF f
<1> QED BY <1>1, <1>5, <1>6, <1>8, <1>9

LEMMA ReadStringsInv == ASSUME Inv, ReadStrings PROVE Inv'
BY ReadRawStringInnerInv, ReadRawStringMoreInv, ReadAndFillU4Inv DEF ReadStrings

----------------------------------------------------------------------------
(* The clients.                                                            *)

LEMMA Stack1 ==
  ASSUME NEW f \in FrameType
  PROVE  /\ StackOK(<<f>>) /\ <<f>> # <<>> /\ Head(<<f>>) = f
         /\ f.at # "stopCapture" => HasStop(<<f>>) = FALSE
BY DEF StackOK, HasStop

LEMMA Stack2 ==
  ASSUME NEW f \in FrameType, NEW g \in FrameType, g.at \in Outer
  PROVE  /\ StackOK(<<f, g>>) /\ <<f, g>> # <<>> /\ Head(<<f, g>>) = f
         /\ f.at # "stopCapture" => HasStop(<<f, g>>) = FALSE
<1>1. g.at \in Waiting /\ g.at # "stopCapture"
  BY DEF Outer, Waiting
<1> QED BY <1>1 DEF StackOK, HasStop

LEMMA OuterFrames ==
  /\ \A l \in Outer : Frame(l) \in FrameType /\ Frame(l).at = l
  /\ \A l \in {"skip", "stopCapture", "whatIsNext", "firstLoad", "readNil", "more"} :
       Frame(l) \in FrameType /\ Frame(l).at = l
BY FrameTyped, LabelsList DEF Outer

LEMMA StartOK ==
  ASSUME Inv, NEW name, NEW s, NEW frames, Start(name, s, frames),
         Good(s, input, delivered, source, "nil"),
         StackOK(frames), frames # <<>>, Head(frames).at \notin {"raw", "u4"},
         s.capturing = HasStop(frames)
  PROVE  Inv'
<1>1. /\ Idle /\ name \in Clients /\ nops < MaxOps /\ nops' = nops + 1
      /\ op' = Operation(name) /\ it' = s /\ stk' = frames
      /\ UNCHANGED <<input, source, delivered, tok, num>>
  BY DEF Start
<1>2. Offset(it) \in Nat
  BY Ends DEF Offset
<1>3. op' \in OperationType /\ op'.dry = "nil"
  BY <1>1, <1>2, Ends DEF Operation, OperationType, Errors
<1>4. nops' \in 0..MaxOps
  BY <1>1, MaxOpsAssumption DEF Inv
<1>5. tok' = None
  BY <1>1 DEF Inv
<1> QED BY <1>1, <1>3, <1>4, <1>5 DEF Inv, In, Top

LEMMA IdleGood ==
  ASSUME Inv, Idle
  PROVE  /\ Good(it, input, delivered, source, "nil") /\ it.capturing = FALSE
         /\ Good(StartCapture(it), input, delivered, source, "nil")
         /\ StartCapture(it).capturing = TRUE
<1>1. HasStop(stk) = FALSE
  BY DEF Idle, HasStop
<1>2. it.capturing = FALSE
  BY <1>1 DEF Inv
<1>3. Good(it, input, delivered, source, "nil")
  BY <1>2 DEF Inv, Good
<1>4. Good(StartCapture(it), input, delivered, source, "nil")
  BY <1>3, GoodCapture
<1>5. StartCapture(it).capturing = TRUE
  BY <1>3 DEF StartCapture, Good, InRange, IteratorType
<1> QED BY <1>2, <1>3, <1>4, <1>5

LEMMA StartsInv ==
  ASSUME Inv, StartSkip \/ StartSkipAndReturnBytes \/ StartWhatIsNext \/ StartDecode
                \/ StartMore \/ StartUnmarshal \/ StartValid
  PROVE  Inv'
<1>0. ASSUME NEW name, NEW s, NEW frames, Start(name, s, frames) PROVE Idle
  BY <1>0 DEF Start
<1>1. "end" \in Outer /\ "decoded" \in Outer /\ "trailing" \in Outer
  BY DEF Outer
<1>2. ASSUME NEW name, NEW l \in {"skip", "whatIsNext", "more"},
             Start(name, it, <<Frame(l), Frame("end")>>)
      PROVE  Inv'
  <2> DEFINE f == Frame(l)
             g == Frame("end")
             frames == <<f, g>>
  <2>1. f \in FrameType /\ f.at = l /\ g \in FrameType /\ g.at = "end"
    BY <1>1, OuterFrames
  <2> HIDE DEF f, g
  <2>2. StackOK(frames) /\ frames # <<>> /\ Head(frames) = f /\ HasStop(frames) = FALSE
    BY <1>1, <2>1, Stack2
  <2>3. Start(name, it, frames)
    BY <1>2 DEF f, g
  <2> HIDE DEF frames
  <2> QED BY <1>0, <2>1, <2>2, <2>3, IdleGood, StartOK
<1>3. ASSUME StartSkipAndReturnBytes PROVE Inv'
  <2> DEFINE f == Frame("skip")
             g == Frame("stopCapture")
             h == Frame("end")
             frames == <<f, g, h>>
  <2>1. /\ f \in FrameType /\ f.at = "skip" /\ g \in FrameType /\ g.at = "stopCapture"
        /\ h \in FrameType /\ h.at = "end"
    BY <1>1, OuterFrames
  <2> HIDE DEF f, g, h
  <2>2. "stopCapture" \in Waiting /\ "skip" \notin Outermost
    BY DEF Waiting, Outermost
  <2>3. StackOK(frames) /\ frames # <<>> /\ Head(frames) = f /\ HasStop(frames) = TRUE
    <3>1. StackOK(frames)
      BY <1>1, <2>1, <2>2 DEF StackOK, Waiting, Outer
    <3>2. frames # <<>> /\ Head(frames) = f /\ Len(frames) = 3 /\ frames[2] = g /\ 2 \in 1..3
      OBVIOUS
    <3>3. \E k \in 1..Len(frames) : frames[k].at = "stopCapture"
      BY <2>1, <3>2
    <3> QED BY <3>1, <3>2, <3>3 DEF HasStop
  <2>4. Start("SkipAndReturnBytes", StartCapture(it), frames)
    BY <1>3 DEF StartSkipAndReturnBytes, f, g, h, frames
  <2> QED BY <1>0, <2>1, <2>3, <2>4, IdleGood, StartOK
<1>4. ASSUME NEW l \in {"firstLoad", "readNil"},
             Start("Decode", it, <<Frame(l), Frame("decoded"), Frame("end")>>)
      PROVE  Inv'
  <2> DEFINE f == Frame(l)
             g == Frame("decoded")
             h == Frame("end")
             frames == <<f, g, h>>
  <2>1. /\ f \in FrameType /\ f.at = l /\ g \in FrameType /\ g.at = "decoded"
        /\ h \in FrameType /\ h.at = "end"
    BY <1>1, OuterFrames
  <2> HIDE DEF f, g, h
  <2>2. "decoded" \in Waiting /\ "end" \in Waiting
    BY DEF Waiting
  <2>3. StackOK(frames)
    BY <1>1, <2>1, <2>2 DEF StackOK
  <2>4. frames # <<>> /\ Head(frames) = f /\ HasStop(frames) = FALSE
    <3>1. frames # <<>> /\ Head(frames) = f
      OBVIOUS
    <3>2. HasStop(frames) = FALSE
      BY <2>1 DEF HasStop
    <3> QED BY <3>1, <3>2
  <2>5. Start("Decode", it, frames)
    BY <1>4 DEF f, g, h
  <2> HIDE DEF frames
  <2> QED BY <1>0, <2>1, <2>3, <2>4, <2>5, IdleGood, StartOK
<1>5. ASSUME StartMore PROVE Inv'
  <2>1. CASE Start("More", it, <<Frame("end")>>)
    <3> DEFINE f == Frame("end")
               frames == <<f>>
    <3>1. f \in FrameType /\ f.at = "end"
      BY <1>1, OuterFrames
    <3> HIDE DEF f
    <3>2. StackOK(frames) /\ frames # <<>> /\ Head(frames) = f /\ HasStop(frames) = FALSE
      BY <3>1, Stack1
    <3>3. Start("More", it, frames)
      BY <2>1 DEF f
    <3> HIDE DEF frames
    <3> QED BY <1>0, <3>1, <3>2, <3>3, IdleGood, StartOK
  <2>2. CASE Start("More", it, <<Frame("more"), Frame("end")>>)
    BY <1>2, <2>2
  <2> QED BY <1>5, <2>1, <2>2 DEF StartMore
<1>6. ASSUME StartUnmarshal PROVE Inv'
  <2> DEFINE f == Frame("readNil")
             g == Frame("decoded")
             h == Frame("trailing")
             e == Frame("end")
             frames == <<f, g, h, e>>
  <2>1. /\ f \in FrameType /\ f.at = "readNil" /\ g \in FrameType /\ g.at = "decoded"
        /\ h \in FrameType /\ h.at = "trailing" /\ e \in FrameType /\ e.at = "end"
    BY <1>1, OuterFrames
  <2> HIDE DEF f, g, h, e
  <2>2. StackOK(frames)
    BY <1>1, <2>1 DEF StackOK, Waiting
  <2>3. HasStop(frames) = FALSE
    BY <2>1 DEF HasStop
  <2>4. frames # <<>> /\ Head(frames) = f
    OBVIOUS
  <2>5. Start("Unmarshal", it, frames)
    BY <1>6 DEF StartUnmarshal, f, g, h, e
  <2> HIDE DEF frames
  <2> QED BY <1>0, <2>1, <2>2, <2>3, <2>4, <2>5, IdleGood, StartOK
<1>7. StartDecode => \E l \in {"firstLoad", "readNil"} :
        Start("Decode", it, <<Frame(l), Frame("decoded"), Frame("end")>>)
  BY DEF StartDecode
<1> QED BY <1>2, <1>3, <1>4, <1>5, <1>6, <1>7 DEF StartSkip, StartWhatIsNext, StartValid

LEMMA ResetInv == ASSUME Inv, Reset PROVE Inv'
<1>1. /\ Idle /\ nops < MaxOps /\ nops' = nops + 1 /\ input' \in Inputs
      /\ it' = [it EXCEPT !.buf = IF source = "bytes" THEN input' ELSE @, !.head = 0,
                          !.tail = IF source = "bytes" THEN Len(input') ELSE 0,
                          !.depth = 0, !.inputOffset = 0]
      /\ delivered' = it'.tail
      /\ op' = [NoOperation EXCEPT !.name = "Reset"]
      /\ UNCHANGED <<source, stk, tok, num>>
  BY DEF Reset
<1>2. input' \in Seq(Byte) /\ Len(input') \in Nat
  BY <1>1, InputsAssumption
<1>3. it.capturing = FALSE /\ it \in IteratorType /\ InRange(it, source)
  BY <1>1, IdleGood DEF Good, InRange
<1>4. /\ it' \in IteratorType
      /\ it'.head = 0 /\ it'.inputOffset = 0 /\ it'.capturing = FALSE
      /\ it'.tail = IF source = "bytes" THEN Len(input') ELSE 0
      /\ it'.buf = IF source = "bytes" THEN input' ELSE it.buf
  <2> DEFINE b == IF source = "bytes" THEN input' ELSE it.buf
             n == IF source = "bytes" THEN Len(input') ELSE 0
  <2>1. b \in Seq(Byte) /\ n \in Nat /\ 0 \in Int /\ 0 \in Nat
    BY <1>2, <1>3 DEF IteratorType
  <2>2. it' = [it EXCEPT !.buf = b, !.head = 0, !.tail = n, !.depth = 0, !.inputOffset = 0]
    BY <1>1
  <2> HIDE DEF b, n
  <2>3. /\ it' \in IteratorType
        /\ it'.head = 0 /\ it'.inputOffset = 0 /\ it'.capturing = it.capturing
        /\ it'.tail = n /\ it'.buf = b
    BY <1>3, <2>1, <2>2 DEF IteratorType
  <2> QED BY <1>3, <2>3 DEF b, n
<1>5. InRange(it', source)
  <2>1. Len(it.buf) \in Nat /\ 0 <= Len(it.buf)
    BY <1>3 DEF IteratorType
  <2> QED BY <1>2, <1>3, <1>4, <2>1 DEF InRange
<1>6. Window(it', input', delivered')
  BY <1>1, <1>2, <1>4 DEF Window
<1>7. op' \in OperationType
  <2>1. NoOperation \in OperationType
    BY DEF NoOperation, OperationType, Errors
  <2> QED BY <1>1, <2>1 DEF OperationType
<1>8. delivered' \in 0..Len(input')
  BY <1>1, <1>2, <1>4
<1>9. nops' \in 0..MaxOps
  BY <1>1, MaxOpsAssumption DEF Inv
<1>10. tok' = None /\ it'.capturing = HasStop(stk')
  BY <1>1, <1>3, <1>4 DEF Inv
<1> QED BY <1>1, <1>4, <1>5, <1>6, <1>7, <1>8, <1>9, <1>10 DEF Inv, Good, In, Top, Idle

LEMMA CompleteInv == ASSUME Inv, Complete PROVE Inv'
<1>1. ASSUME ReadNil PROVE Inv'
  <2>1. /\ stk # <<>> /\ Top.at = "readNil" /\ Rest /\ num' \in Seq(Byte) /\ tok # None
    BY <1>1, NumSame DEF ReadNil, Got, In
  <2>2. CASE Become(it, Literal(<<"u", "l", "l">>))
    BY <2>1, <2>2, LiteralBytes, Unchanged, Steps
  <2>3. CASE Call(StartCapture(Unread(it)), Frame("skip"), Frame("stopCapture"))
    <3> DEFINE s == StartCapture(Unread(it))
               f == Frame("skip")
               g == Frame("stopCapture")
    <3>1. OK(Unread(it))
      BY <2>1, Unreads DEF Same
    <3>2. OK(s) /\ s.capturing = TRUE
      BY <3>1, GoodCapture DEF OK, StartCapture, Good, InRange, IteratorType
    <3>3. /\ f \in FrameType /\ f.at = "skip" /\ g \in FrameType /\ g.at = "stopCapture"
      BY OuterFrames
    <3>4. "skip" \notin Outermost /\ "stopCapture" \in Waiting
      BY DEF Outermost, Waiting
    <3> HIDE DEF s, f, g
    <3>5. Call(s, f, g)
      BY <2>3 DEF s, f, g
    <3> QED BY <2>1, <3>2, <3>3, <3>4, <3>5, CallOK
  <2> QED BY <1>1, <2>2, <2>3 DEF ReadNil
<1>2. ASSUME ReturnCaptured PROVE Inv'
  <2>1. /\ stk # <<>> /\ Top.at = "stopCapture" /\ num' \in Seq(Byte)
        /\ UNCHANGED <<input, source, delivered, nops>>
        /\ op' = [op EXCEPT !.bytes = Captured(it)] /\ Return(StopCapture(it))
    BY <1>2, NumSame DEF ReturnCaptured, In
  <2>2. it.capturing
    <3>1. HasStop(stk)
      BY <2>1 DEF HasStop, Inv, StackOK, Top
    <3> QED BY <3>1 DEF Inv
  <2>3. Captured(it) \in Seq(Byte) /\ OK(StopCapture(it))
    BY <2>2, GoodCapture DEF Inv, OK
  <2>4. StopCapture(it).capturing = FALSE
    BY Ends DEF StopCapture, InRange, IteratorType
  <2>5. op' \in OperationType /\ op'.dry = op.dry
    BY <2>1, <2>3 DEF Inv, OperationType
  <2> QED BY <2>1, <2>3, <2>4, <2>5, ReturnOK
<1>3. ASSUME Decoded \/ Trailing PROVE Inv'
  <2>1. /\ stk # <<>> /\ Top.at # "stopCapture" /\ Rest /\ num' \in Seq(Byte)
        /\ Return(it) \/ Return(Report(it))
    BY <1>3, NumSame DEF Decoded, Trailing, Got, In
  <2> QED BY <2>1, Unchanged, Steps
<1>4. ASSUME Peek \/ Finish PROVE Inv'
  <2>1. /\ stk # <<>> /\ Top.at # "stopCapture" /\ num' \in Seq(Byte)
        /\ UNCHANGED <<input, source, delivered, nops>>
        /\ Return(it) \/ (tok # None /\ Return(Unread(it)))
    BY <1>4, NumSame DEF Peek, Finish, Got, In
  <2>2. op' \in OperationType /\ op'.dry = op.dry
    <3>1. CASE Peek
      <4>1. (tok \notin {NUL, "]", "}"}) \in BOOLEAN
        OBVIOUS
      <4> QED BY <3>1, <4>1 DEF Peek, Inv, OperationType
    <3>2. CASE Finish
      <4> DEFINE ok == IF op.name = "Valid" THEN it.err = "nil"
                       ELSE IF op.name = "More" THEN op.more
                       ELSE ~Failing(it) /\ In("end")
      <4>1. op \in OperationType /\ op.more \in BOOLEAN
        BY DEF Inv, OperationType
      <4>2. ok \in BOOLEAN
        BY <4>1
      <4>3. op' = [op EXCEPT !.ok = ok]
        BY <3>2 DEF Finish
      <4> HIDE DEF ok
      <4> QED BY <4>1, <4>2, <4>3 DEF OperationType
    <3> QED BY <1>4, <3>1, <3>2
  <2>3. Same(it) /\ (tok # None => Same(Unread(it)))
    BY Unchanged, Unreads
  <2>4. \E s \in {it, Unread(it)} : Same(s) /\ Return(s)
    BY <2>1, <2>3
  <2> QED BY <2>1, <2>2, <2>4, ReturnOK DEF Same
<1> QED BY <1>1, <1>2, <1>3, <1>4 DEF Complete

----------------------------------------------------------------------------
(* The theorems.                                                           *)

LEMMA InitInv == ASSUME Init PROVE Inv
<1>1. input \in Inputs /\ input \in Seq(Byte) /\ Len(input) \in Nat /\ source \in Sources
  BY InputsAssumption DEF Init
<1>2. /\ stk = <<>> /\ tok = None /\ num = <<>> /\ op = NoOperation /\ nops = 0
      /\ delivered = it.tail
  BY DEF Init
<1>3. \/ it = Fresh(input, Len(input)) /\ source = "bytes"
      \/ it = Fresh([i \in 1..BufSize |-> NUL], 0) /\ source = "reader"
  BY SourcesAssumption DEF Init
<1>4. [i \in 1..BufSize |-> NUL] \in Seq(Byte) /\ Len([i \in 1..BufSize |-> NUL]) = BufSize
  <2>1. NUL \in Byte /\ BufSize \in Nat
    BY BufSizeAssumption DEF Byte
  <2> QED BY <2>1
<1>5. ASSUME NEW b \in Seq(Byte), NEW n \in 0..Len(b), it = Fresh(b, n),
             \A i \in 1..n : b[i] = input[i], source = "reader" => Len(b) = BufSize
      PROVE  /\ Good(it, input, n, source, "nil") /\ it.capturing = FALSE /\ it.tail = n
  <2>1. n \in Nat /\ n <= Len(b) /\ <<>> \in Seq(Byte) /\ "nil" \in Errors
    BY <1>5 DEF Errors
  <2>2. it \in IteratorType
    BY <1>5, <2>1 DEF Fresh, IteratorType
  <2>3. InRange(it, source)
    BY <1>5, <2>1, <2>2 DEF Fresh, InRange
  <2>4. Window(it, input, n)
    BY <1>5, <2>1 DEF Fresh, Window
  <2> QED BY <1>5, <2>3, <2>4 DEF Fresh, Good
<1>6. Good(it, input, delivered, source, "nil") /\ it.capturing = FALSE /\ delivered \in 0..Len(input)
  <2>1. CASE it = Fresh(input, Len(input)) /\ source = "bytes"
    <3>1. Len(input) \in 0..Len(input)
      BY <1>1
    <3> QED BY <1>1, <1>2, <1>5, <2>1, <3>1
  <2>2. CASE it = Fresh([i \in 1..BufSize |-> NUL], 0) /\ source = "reader"
    <3> DEFINE b == [i \in 1..BufSize |-> NUL]
    <3>1. 0 \in 0..Len(b) /\ 1..0 = {} /\ 0 \in 0..Len(input)
      BY <1>1, <1>4, BufSizeAssumption
    <3>2. b \in Seq(Byte) /\ Len(b) = BufSize /\ it = Fresh(b, 0)
      BY <1>4, <2>2
    <3> HIDE DEF b
    <3> QED BY <1>2, <1>5, <2>2, <3>1, <3>2
  <2> QED BY <1>3, <2>1, <2>2
<1>7. op \in OperationType /\ op.dry = "nil"
  BY <1>2 DEF NoOperation, OperationType, Errors
<1>8. StackOK(stk) /\ HasStop(stk) = FALSE
  BY <1>2 DEF StackOK, HasStop
<1>9. nops \in 0..MaxOps /\ num \in Seq(Byte)
  BY <1>2, MaxOpsAssumption
<1> QED BY <1>1, <1>2, <1>6, <1>7, <1>8, <1>9 DEF Inv, In

\* Every step of the iterator, of its clients and of the reader keeps the invariant.
LEMMA NextInv == ASSUME Inv, [Next]_vars PROVE Inv'
<1>1. CASE Load
  BY <1>1, LoadSliceInv, LoadMoreInv, LoadFailsInv DEF Load
<1>2. CASE NextToken \/ ReadByte \/ SkipLiteral \/ Skip
  BY <1>2, NextTokenInv, ReadByteInv, SkipLiteralInv, SkipInv
<1>3. CASE ReadNumbers \/ ReadStrings \/ Complete
  BY <1>3, ReadNumbersInv, ReadStringsInv, CompleteInv
<1>4. CASE ReadArray
  BY <1>4, ReadArrayStartInv, ReadArrayFirstInv, ReadArrayNextInv DEF ReadArray
<1>5. CASE ReadObject
  BY <1>5, ReadObjectStartInv, ReadObjectFirstInv, ReadObjectNameInv, ReadObjectColonInv,
     ReadObjectNextInv, ReadObjectKeyInv DEF ReadObject
<1>6. CASE Begin
  BY <1>6, StartsInv, ResetInv DEF Begin
<1>7. CASE UNCHANGED vars
  BY <1>7 DEF vars, Inv, Idle, In, Top
<1> QED BY <1>1, <1>2, <1>3, <1>4, <1>5, <1>6, <1>7 DEF Next, Run, Pause

LEMMA Invariance == Spec => []Inv
<1>1. Init => Inv
  BY InitInv
<1>2. Inv /\ [Next]_vars => Inv'
  BY NextInv
<1> QED BY <1>1, <1>2, PTL DEF Spec

\* Every field of the Iterator struct stays in the range of its Go type: head
\* never passes tail, tail never passes the buffer, and a capture starts at or
\* before head, so no slice expression of iter.go or iter_skip.go panics.
THEOREM TypeCorrect == Spec => []TypeOK
<1>1. Inv => TypeOK
  BY InvImplies
<1> QED BY <1>1, Invariance, PTL

\* For every input, buffer size and way the reader cuts the input into reads,
\* the buffer is the window of the input that starts at inputOffset: loadMore
\* loses and repeats nothing.
THEOREM WindowCorrect == Spec => []WindowIsInput
<1>1. Inv => WindowIsInput
  BY InvImplies
<1> QED BY <1>1, Invariance, PTL

\* What loadMore saves of a capture is, with the bytes still in the buffer, one
\* stretch of the input, however often the buffer is refilled.
THEOREM CaptureCorrect == Spec => []CaptureIsInput
<1>1. Inv => CaptureIsInput
  BY InvImplies
<1> QED BY <1>1, Invariance, PTL

----------------------------------------------------------------------------
(* What the calls in progress owe each other: an array or object gives     *)
(* back the level it takes, an error stays where it is, and the callback   *)
(* of an object gets the name that stands in the input.                    *)

----------------------------------------------------------------------------
(* Levels and errors.                                                      *)

\* the frames of arrays and objects that have taken a level
LevelLabels ==
  {"arrFirst", "arrNext", "objFirst", "objName", "objColon", "objNext", "objKey"}
LevelFrames == {f \in FrameType : f.at \in LevelLabels}
Levels(s) == Count(s, LevelFrames)
LevelOf(f) == IF f.at \in LevelLabels THEN 1 ELSE 0

\* the frames of ReadFloat32 and of ReadFloat64, which skipNumber calls and whose error it clears
FloatLabels == {"float64", "positiveFloat32", "positiveFloat64", "number", "numberLoad", "slowFloat32", "slowFloat64"}
Retries(s) == \E k \in 1..Len(s) : s[k].at = "skipNumber"

\* nothing but ReadFloat64 runs above skipNumber, and below the frames of an
\* operation there are only others of it
Shape(s) ==
  /\ \A k \in 1..Len(s) : s[k].at = "skipNumber" =>
       \A j \in 1..(k - 1) : s[j].at \in FloatLabels
  /\ \A k \in 1..Len(s) : s[k].at \in Outer =>
       \A j \in (k + 1)..Len(s) : s[j].at \in Outer

\* The depth is that of the operation's start and a level for each open array
\* and object, unless an error has ended one early; an error skipNumber will
\* clear was made by ReadFloat64, which takes no level, and no skipNumber runs
\* with an error that was there before.
DepthInv ==
  /\ Shape(stk)
  /\ ~Failing(it) \/ Retries(stk) => it.depth = op.depth + Levels(stk)
  /\ Failing(op) => it.err = op.err /\ ~Retries(stk)

LEMMA LevelsOfTail ==
  ASSUME NEW s \in Seq(FrameType), s # <<>>
  PROVE  /\ Levels(s) = Levels(Tail(s)) + LevelOf(Head(s))
         /\ Levels(s) \in Nat /\ Levels(Tail(s)) \in Nat
<1> DEFINE t == Tail(s)
           f == Head(s)
<1>1. t \in Seq(FrameType) /\ f \in FrameType /\ s = <<f>> \o t
  BY ConsHeadTail
<1> HIDE DEF t, f
<1>2. Levels(s) = Levels(t) + (IF f \in LevelFrames THEN 1 ELSE 0)
  <2>1. Count(<<f>> \o t, LevelFrames) = Count(t, LevelFrames) + (IF f \in LevelFrames THEN 1 ELSE 0)
    BY <1>1, CountCons
  <2> QED BY <1>1, <2>1 DEF Levels
<1>3. f \in LevelFrames <=> f.at \in LevelLabels
  BY <1>1 DEF LevelFrames
<1>4. Levels(s) \in Nat /\ Levels(t) \in Nat
  BY <1>1, CountIsNat DEF Levels
<1>5. Levels(s) = Levels(t) + LevelOf(f)
  BY <1>2, <1>3 DEF LevelOf
<1> QED BY <1>4, <1>5 DEF t, f

LEMMA LevelsOfCons ==
  ASSUME NEW s \in Seq(FrameType), NEW f \in FrameType
  PROVE  Levels(<<f>> \o s) = Levels(s) + LevelOf(f)
<1>1. Levels(<<f>> \o s) = Levels(s) + (IF f \in LevelFrames THEN 1 ELSE 0)
  BY CountCons DEF Levels
<1>2. f \in LevelFrames <=> f.at \in LevelLabels
  BY DEF LevelFrames
<1> QED BY <1>1, <1>2 DEF LevelOf

\* no retry is in progress unless ReadFloat64 runs
LEMMA RetryTop ==
  ASSUME NEW s \in Seq(FrameType), s # <<>>, Shape(s), Retries(s)
  PROVE  Head(s).at \in FloatLabels \cup {"skipNumber"}
<1>1. PICK k \in 1..Len(s) : s[k].at = "skipNumber"
  BY DEF Retries
<1>2. Head(s) = s[1] /\ Len(s) \in Nat
  OBVIOUS
<1>3. CASE k = 1
  BY <1>1, <1>2, <1>3
<1>4. CASE k # 1
  <2>1. 1 \in 1..(k - 1)
    BY <1>1, <1>4
  <2> QED BY <1>1, <1>2, <2>1 DEF Shape
<1> QED BY <1>3, <1>4

LEMMA ShapeOfTail ==
  ASSUME NEW s \in Seq(FrameType), s # <<>>, Shape(s)
  PROVE  /\ Shape(Tail(s))
         /\ Retries(Tail(s)) => Retries(s)
         /\ Retries(Tail(s)) => Head(s).at \in FloatLabels
<1> DEFINE t == Tail(s)
<1>1. /\ t \in Seq(FrameType) /\ Len(t) = Len(s) - 1 /\ Len(s) \in Nat /\ Len(s) >= 1
      /\ \A k \in 1..Len(t) : t[k] = s[k + 1] /\ Head(s) = s[1]
  BY HeadTailProperties
<1> HIDE DEF t
<1>2. ASSUME NEW k \in 1..Len(t), t[k].at = "skipNumber"
      PROVE  /\ k + 1 \in 1..Len(s) /\ s[k + 1].at = "skipNumber" /\ Head(s).at \in FloatLabels
             /\ \A j \in 1..(k - 1) : t[j].at \in FloatLabels
  <2>1. k + 1 \in 1..Len(s) /\ s[k + 1].at = "skipNumber"
    BY <1>1, <1>2
  <2>2. \A j \in 1..(k + 1 - 1) : s[j].at \in FloatLabels
    BY <2>1 DEF Shape
  <2>3. 1 \in 1..(k + 1 - 1) /\ \A j \in 1..(k - 1) : j + 1 \in 1..(k + 1 - 1) /\ t[j] = s[j + 1]
    BY <1>1, <1>2
  <2>4. Head(s).at \in FloatLabels
    BY <1>1, <1>2, <2>2, <2>3
  <2> QED BY <2>1, <2>2, <2>3, <2>4
<1>3. ASSUME NEW k \in 1..Len(t), t[k].at \in Outer, NEW j \in (k + 1)..Len(t) PROVE t[j].at \in Outer
  <2>1. k + 1 \in 1..Len(s) /\ j + 1 \in (k + 1 + 1)..Len(s) /\ j \in 1..Len(t)
    BY <1>1
  <2>2. s[k + 1].at \in Outer
    BY <1>1, <1>3
  <2>3. s[j + 1].at \in Outer
    BY <2>1, <2>2 DEF Shape
  <2> QED BY <1>1, <2>1, <2>3
<1>4. Shape(t)
  BY <1>2, <1>3 DEF Shape
<1>5. Retries(t) => Retries(s) /\ Head(s).at \in FloatLabels
  BY <1>2 DEF Retries
<1> QED BY <1>4, <1>5 DEF t

LEMMA ShapeOfCons ==
  ASSUME NEW s \in Seq(FrameType), Shape(s), NEW f \in FrameType, f.at \notin Outer,
         Retries(s) => f.at \in FloatLabels
  PROVE  /\ Shape(<<f>> \o s)
         /\ Retries(<<f>> \o s) <=> Retries(s) \/ f.at = "skipNumber"
<1> DEFINE t == <<f>> \o s
<1>1. /\ t \in Seq(FrameType) /\ Len(t) = Len(s) + 1 /\ t[1] = f /\ Len(s) \in Nat
      /\ \A k \in 2..Len(t) : t[k] = s[k - 1] /\ k - 1 \in 1..Len(s)
  <2>1. Len(s) \in Nat
    OBVIOUS
  <2> QED BY <2>1, ConsProperties
<1> HIDE DEF t
<1>2. ASSUME NEW k \in 1..Len(t), t[k].at = "skipNumber", NEW j \in 1..(k - 1) PROVE t[j].at \in FloatLabels
  <2>1. k \in 2..Len(t) /\ s[k - 1].at = "skipNumber" /\ k - 1 \in 1..Len(s)
    BY <1>1, <1>2
  <2>2. CASE j = 1
    BY <1>1, <2>1, <2>2 DEF Retries
  <2>3. CASE j # 1
    <3>1. j \in 2..Len(t) /\ j - 1 \in 1..(k - 1 - 1) /\ t[j] = s[j - 1]
      BY <1>1, <1>2, <2>1, <2>3
    <3> QED BY <2>1, <3>1 DEF Shape
  <2> QED BY <2>2, <2>3
<1>3. ASSUME NEW k \in 1..Len(t), t[k].at \in Outer, NEW j \in (k + 1)..Len(t) PROVE t[j].at \in Outer
  <2>1. k \in 2..Len(t) /\ j \in 2..Len(t)
    BY <1>1, <1>3
  <2>2. /\ k - 1 \in 1..Len(s) /\ s[k - 1].at \in Outer /\ j - 1 \in (k - 1 + 1)..Len(s)
        /\ t[j] = s[j - 1]
    BY <1>1, <1>3, <2>1
  <2>3. s[j - 1].at \in Outer
    BY <2>2 DEF Shape
  <2> QED BY <2>2, <2>3
<1>4. Shape(t)
  BY <1>2, <1>3 DEF Shape
<1>5. Retries(t) <=> Retries(s) \/ f.at = "skipNumber"
  <2>1. ASSUME NEW k \in 1..Len(t), t[k].at = "skipNumber" PROVE Retries(s) \/ f.at = "skipNumber"
    <3>1. CASE k = 1
      BY <1>1, <2>1, <3>1
    <3>2. CASE k # 1
      <4>1. s[k - 1].at = "skipNumber" /\ k - 1 \in 1..Len(s)
        BY <1>1, <2>1, <3>2
      <4> QED BY <4>1 DEF Retries
    <3> QED BY <3>1, <3>2
  <2>2. ASSUME NEW k \in 1..Len(s), s[k].at = "skipNumber" PROVE Retries(t)
    <3>1. k + 1 \in 2..Len(t) /\ k + 1 - 1 = k /\ k + 1 \in 1..Len(t)
      BY <1>1
    <3>2. t[k + 1] = s[k]
      BY <1>1, <3>1
    <3> QED BY <2>2, <3>1, <3>2 DEF Retries
  <2>3. f.at = "skipNumber" => Retries(t)
    BY <1>1 DEF Retries
  <2> QED BY <2>1, <2>2, <2>3 DEF Retries
<1> QED BY <1>4, <1>5 DEF t

LEMMA DepthInvImplies == ASSUME Inv, DepthInv PROVE DepthRestored /\ ErrorIsSticky
<1>1. ASSUME In("decoded") \/ In("end"), ~Failing(it) PROVE it.depth = op.depth
  <2>1. stk \in Seq(FrameType) /\ stk # <<>> /\ 1 \in 1..Len(stk) /\ stk[1].at \in Outer
    BY <1>1 DEF In, Top, Inv, StackOK, Outer
  <2>2. \A k \in 1..Len(stk) : stk[k].at \in Outer
    <3>1. \A k \in (1 + 1)..Len(stk) : stk[k].at \in Outer
      BY <2>1 DEF DepthInv, Shape
    <3>2. \A k \in 1..Len(stk) : k = 1 \/ k \in (1 + 1)..Len(stk)
      BY <2>1
    <3> QED BY <2>1, <3>1, <3>2
  <2>3. \A k \in 1..Len(stk) : stk[k] \notin LevelFrames
    BY <2>2 DEF LevelFrames, LevelLabels, Outer
  <2>4. Levels(stk) = 0
    BY <2>1, <2>3, CountIsNat DEF Levels
  <2>5. it.depth = op.depth + Levels(stk) /\ op.depth \in Int
    BY <1>1 DEF DepthInv, Inv, OperationType
  <2> QED BY <2>4, <2>5
<1> QED BY <1>1 DEF DepthRestored, ErrorIsSticky, DepthInv, Failing

----------------------------------------------------------------------------
(* A step of the innermost call: n levels more, or an error that ends it.  *)

Kept(s, n) ==
  /\ s.depth \in Int
  /\ Failing(it) => s.err = it.err
  /\ s.depth = it.depth + n \/ (Failing(s) /\ Top.at \notin FloatLabels)

\* the operation in progress stays the same one
SameOp == op'.depth = op.depth /\ op'.err = op.err

LEMMA StackFacts ==
  ASSUME Inv, DepthInv, stk # <<>>
  PROVE  /\ stk \in Seq(FrameType) /\ Tail(stk) \in Seq(FrameType) /\ Top \in FrameType
         /\ Shape(Tail(stk))
         /\ Retries(Tail(stk)) => Retries(stk) /\ Top.at \in FloatLabels
         /\ Retries(stk) => Top.at \in FloatLabels \cup {"skipNumber"}
         /\ Levels(stk) = Levels(Tail(stk)) + LevelOf(Top)
         /\ Levels(stk) \in Nat /\ Levels(Tail(stk)) \in Nat
         /\ it.depth \in Int /\ op.depth \in Int
<1>1. stk \in Seq(FrameType) /\ Shape(stk)
  BY DEF Inv, StackOK, DepthInv
<1>2. Tail(stk) \in Seq(FrameType)
  BY <1>1, HeadTailProperties
<1>3. it.depth \in Int /\ op.depth \in Int
  BY Ends DEF Inv, OperationType
<1> QED BY <1>1, <1>2, <1>3, TopProperties, ShapeOfTail, RetryTop, LevelsOfTail DEF Top

\* what is left to show of the new stack
LEMMA DepthKept ==
  ASSUME Inv, DepthInv, stk # <<>>, NEW n \in Int, Kept(it', n), SameOp,
         Shape(stk'), Levels(stk') = Levels(stk) + n,
         Retries(stk') => Retries(stk) /\ Top.at \in FloatLabels
  PROVE  DepthInv'
<1>1. /\ it.depth \in Int /\ op.depth \in Int /\ Levels(stk) \in Nat
  BY StackFacts
<1>2. ASSUME ~Failing(it') \/ Retries(stk') PROVE it'.depth = op'.depth + Levels(stk')
  <2>1. it'.depth = it.depth + n
    BY <1>2 DEF Kept
  <2>2. it.depth = op.depth + Levels(stk)
    BY <1>2 DEF Kept, Failing, DepthInv
  <2> QED BY <1>1, <2>1, <2>2 DEF SameOp
<1>3. ASSUME Failing(op') PROVE it'.err = op'.err /\ ~Retries(stk')
  BY <1>3 DEF SameOp, DepthInv, Failing, Kept
<1> QED BY <1>2, <1>3 DEF DepthInv

LEMMA DepthReturn ==
  ASSUME Inv, DepthInv, stk # <<>>, SameOp, NEW s, Return(s), Kept(s, -LevelOf(Top))
  PROVE  DepthInv'
<1>1. it' = s /\ stk' = Tail(stk) /\ -LevelOf(Top) \in Int
  BY DEF Return, LevelOf
<1>2. Levels(stk') = Levels(stk) + (-LevelOf(Top)) /\ LevelOf(Top) \in Int
  BY <1>1, StackFacts DEF LevelOf
<1>3. Shape(stk') /\ (Retries(stk') => Retries(stk) /\ Top.at \in FloatLabels)
  BY <1>1, StackFacts
<1> QED BY <1>1, <1>2, <1>3, DepthKept

\* a frame that may take the place of the innermost one
MayFollow(f) ==
  /\ f \in FrameType /\ f.at \notin Outer /\ f.at # "skipNumber"
  /\ Top.at \in FloatLabels => f.at \in FloatLabels

LEMMA DepthReplace ==
  ASSUME Inv, DepthInv, stk # <<>>, SameOp, NEW f, MayFollow(f), stk' = <<f>> \o Tail(stk),
         Kept(it', LevelOf(f) - LevelOf(Top))
  PROVE  DepthInv'
<1> DEFINE t == Tail(stk)
<1>0. LevelOf(f) - LevelOf(Top) \in Int /\ LevelOf(f) \in Int /\ LevelOf(Top) \in Int
  BY DEF LevelOf
<1>1. stk' = <<f>> \o t
  OBVIOUS
<1>2. /\ t \in Seq(FrameType) /\ Shape(t) /\ (Retries(t) => Retries(stk) /\ Top.at \in FloatLabels)
      /\ Levels(stk) = Levels(t) + LevelOf(Top) /\ Levels(t) \in Nat
  BY StackFacts
<1> HIDE DEF t
<1>3. Shape(stk') /\ (Retries(stk') => Retries(t))
  BY <1>1, <1>2, ShapeOfCons DEF MayFollow
<1>4. Levels(stk') = Levels(t) + LevelOf(f)
  BY <1>1, <1>2, LevelsOfCons DEF MayFollow
<1>5. Levels(stk') = Levels(stk) + (LevelOf(f) - LevelOf(Top))
  BY <1>0, <1>2, <1>4
<1> QED BY <1>0, <1>1, <1>2, <1>3, <1>5, DepthKept

LEMMA DepthBecome ==
  ASSUME Inv, DepthInv, stk # <<>>, SameOp, NEW s, NEW f, MayFollow(f), Become(s, f),
         Kept(s, LevelOf(f) - LevelOf(Top))
  PROVE  DepthInv'
BY DepthReplace DEF Become

LEMMA DepthCall ==
  ASSUME Inv, DepthInv, stk # <<>>, SameOp, NEW s, NEW f, NEW g,
         MayFollow(f), MayFollow(g), Call(s, f, g),
         Kept(s, LevelOf(f) + LevelOf(g) - LevelOf(Top))
  PROVE  DepthInv'
<1> DEFINE t == Tail(stk)
           u == <<g>> \o t
<1>1. it' = s /\ stk' = <<f, g>> \o t /\ LevelOf(f) + LevelOf(g) - LevelOf(Top) \in Int
      /\ LevelOf(f) \in Int /\ LevelOf(g) \in Int /\ LevelOf(Top) \in Int
  BY DEF Call, LevelOf
<1>2. /\ t \in Seq(FrameType) /\ Shape(t) /\ (Retries(t) => Retries(stk) /\ Top.at \in FloatLabels)
      /\ Levels(stk) = Levels(t) + LevelOf(Top) /\ Levels(t) \in Nat
  BY StackFacts
<1> HIDE DEF t
<1>3. u \in Seq(FrameType) /\ stk' = <<f>> \o u
  BY <1>1, <1>2, ConsTwo DEF MayFollow
<1>4. Shape(u) /\ (Retries(u) => Retries(t)) /\ Levels(u) = Levels(t) + LevelOf(g)
  BY <1>2, ShapeOfCons, LevelsOfCons DEF MayFollow
<1> HIDE DEF u
<1>5. Shape(stk') /\ (Retries(stk') => Retries(u))
  BY <1>2, <1>3, <1>4, ShapeOfCons DEF MayFollow
<1>6. Levels(stk') = Levels(u) + LevelOf(f)
  BY <1>3, LevelsOfCons DEF MayFollow
<1>7. Levels(stk') = Levels(stk) + (LevelOf(f) + LevelOf(g) - LevelOf(Top))
  BY <1>1, <1>2, <1>4, <1>6
<1> QED BY <1>1, <1>2, <1>4, <1>5, <1>7, DepthKept

\* the helpers of the Iterator struct
LEMMA KeptFacts ==
  ASSUME Inv
  PROVE  /\ Kept(it, 0) /\ Kept(Unread(it), 0) /\ Kept(Report(it), 0)
         /\ \A h \in Nat : Kept(SetHead(it, h), 0) /\ Kept(Report(SetHead(it, h)), 0)
         /\ Kept(IncrementDepth(it), 1) /\ Kept(DecrementDepth(it), -1)
         /\ ~Failing(it) => Unread(it).depth = it.depth /\ ~Failing(Unread(it))
<1>1. it \in IteratorType /\ it.depth \in Int /\ it.head \in Nat
  BY Ends DEF InRange
<1>2. ASSUME NEW h \in Int
      PROVE  SetHead(it, h).depth = it.depth /\ SetHead(it, h).err = it.err
  BY <1>1 DEF SetHead, IteratorType
<1>3. \A h \in Int : Report(SetHead(it, h)).depth = it.depth /\ (Failing(it) => Report(SetHead(it, h)).err = it.err)
  BY <1>1 DEF SetHead, Report, SetError, Failing, IteratorType
<1>4. Report(it).depth = it.depth /\ (Failing(it) => Report(it).err = it.err)
  BY <1>1 DEF Report, SetError, IteratorType
<1>5. it.head - 1 \in Int /\ Unread(it).depth = it.depth /\ Unread(it).err = it.err
  BY <1>1, <1>2 DEF Unread
<1>6. Deeper(it).depth = it.depth + 1 /\ Deeper(it).err = it.err /\ it.depth + 1 \in Int /\ Deeper(it) \in IteratorType
  BY <1>1, SMTT(30) DEF Deeper, IteratorType
<1>7. Shallower(it).depth = it.depth - 1 /\ Shallower(it).err = it.err /\ it.depth - 1 \in Int /\ Shallower(it) \in IteratorType
  BY <1>1 DEF Shallower, IteratorType
<1>8. \A s \in IteratorType : Report(s).depth = s.depth /\ (Failing(s) => Report(s).err = s.err)
  BY DEF Report, SetError, IteratorType
<1>9. Kept(IncrementDepth(it), 1)
  <2>1. IncrementDepth(it).depth = it.depth + 1
    BY <1>6, <1>8 DEF IncrementDepth
  <2>2. Failing(it) => IncrementDepth(it).err = it.err
    BY <1>6, <1>8 DEF IncrementDepth, Failing
  <2> QED BY <1>6, <2>1, <2>2 DEF Kept
<1>10. Kept(DecrementDepth(it), -1)
  <2>1. DecrementDepth(it).depth = it.depth - 1
    BY <1>7, <1>8 DEF DecrementDepth
  <2>2. Failing(it) => DecrementDepth(it).err = it.err
    BY <1>7, <1>8 DEF DecrementDepth, Failing
  <2> QED BY <1>1, <1>7, <2>1, <2>2 DEF Kept
<1> QED BY <1>1, <1>2, <1>3, <1>4, <1>5, <1>9, <1>10 DEF Kept, Failing

\* an error that is reported ends the call, whatever level it had taken
Ending(s) == s \in IteratorType /\ (Failing(it) => s.err = it.err)

LEMMA EndingReport ==
  ASSUME NEW s, Ending(s), Top.at \notin FloatLabels, NEW n
  PROVE  Ending(Report(s)) /\ Failing(Report(s)) /\ Kept(Report(s), n)
<1>1. Report(s) \in IteratorType /\ Failing(Report(s))
  BY DEF Report, SetError, IteratorType, Errors, Failing, Ending
<1>2. Failing(it) => Report(s).err = it.err
  BY DEF Report, Ending, Failing
<1>3. Report(s).depth \in Int
  BY <1>1 DEF IteratorType
<1> QED BY <1>1, <1>2, <1>3 DEF Ending, Kept

LEMMA EndingDepth ==
  ASSUME NEW s, Ending(s)
  PROVE  /\ Ending(Deeper(s)) /\ Deeper(s).err = s.err
         /\ Ending(Shallower(s)) /\ Shallower(s).err = s.err
<1>1. s \in IteratorType /\ s.depth + 1 \in Int /\ s.depth - 1 \in Int
  BY DEF Ending, IteratorType
<1>2. Deeper(s) \in IteratorType /\ Deeper(s).err = s.err
  BY <1>1 DEF Deeper, IteratorType
<1>3. Shallower(s) \in IteratorType /\ Shallower(s).err = s.err
  BY <1>1 DEF Shallower, IteratorType
<1> QED BY <1>2, <1>3 DEF Ending

LEMMA KeptReported ==
  ASSUME Inv, tok # None, Top.at \notin FloatLabels, NEW n
  PROVE  /\ Kept(Report(it), n) /\ Kept(Report(Unread(it)), n)
         /\ Kept(DecrementDepth(Report(Unread(it))), n)
         /\ ~(it.depth + 1 <= MaxDepth) => Kept(IncrementDepth(it), n)
<1>1. Ending(it) /\ Ending(Unread(it))
  <2>1. it \in IteratorType /\ Unread(it) \in IteratorType
    BY Ends, Unreads DEF InRange, Same, OK, Good
  <2>2. Unread(it).err = it.err
    BY <2>1 DEF Unread, SetHead, IteratorType
  <2> QED BY <2>1, <2>2 DEF Ending
<1>2. Kept(Report(it), n) /\ Kept(Report(Unread(it)), n)
  BY <1>1, EndingReport
<1>3. Kept(DecrementDepth(Report(Unread(it))), n)
  <2> DEFINE s == Report(Unread(it))
             d == Shallower(s)
  <2>1. Ending(s) /\ Failing(s)
    BY <1>1, EndingReport
  <2> HIDE DEF s
  <2>2. Ending(d) /\ Failing(d)
    BY <2>1, EndingDepth DEF Failing
  <2>3. d.depth \in Int
    BY <2>2 DEF Ending, IteratorType
  <2>4. DecrementDepth(s) = IF s.depth - 1 >= 0 THEN d ELSE Report(d)
    BY DEF DecrementDepth
  <2> HIDE DEF d
  <2>5. Report(d) = d
    BY <2>2 DEF Report
  <2> QED BY <2>2, <2>3, <2>4, <2>5 DEF Ending, Kept, s
<1>4. ASSUME ~(it.depth + 1 <= MaxDepth) PROVE Kept(IncrementDepth(it), n)
  <2>1. IncrementDepth(it) = Report(Deeper(it))
    BY <1>4 DEF IncrementDepth
  <2>2. Ending(Deeper(it))
    BY <1>1, EndingDepth
  <2> QED BY <2>1, <2>2, EndingReport
<1> QED BY <1>2, <1>3, <1>4

Plain == Labels \ (Outer \cup {"skipNumber"})
LevelOfLabel(l) == IF l \in LevelLabels THEN 1 ELSE 0

LEMMA PlainList ==
  {"skip", "arr", "arrFirst", "arrNext", "obj", "objFirst", "objColon", "objKey", "objNext",
   "objName", "float64", "float32", "positiveFloat32", "positiveFloat64", "number", "slowFloat32", "slowFloat64", "bigFloat",
   "numberLoad", "readNil", "noMore", "stopCapture", "u4"} \subseteq Plain
BY LabelsList DEF Plain, Outer

LEMMA Followers ==
  ASSUME NEW l \in Plain, Top.at \in FloatLabels => l \in FloatLabels
  PROVE  MayFollow(Frame(l)) /\ LevelOf(Frame(l)) = LevelOfLabel(l)
BY FrameTyped DEF MayFollow, Plain, LevelOf, LevelOfLabel

LEMMA StringFollowers ==
  ASSUME Top.at \notin FloatLabels
  PROVE  /\ \A bytes \in Seq(Byte) : MayFollow(Literal(bytes)) /\ LevelOf(Literal(bytes)) = 0
         /\ \A s : InRange(s, source) => MayFollow(RawFrame(s)) /\ LevelOf(RawFrame(s)) = 0
<1>1. ASSUME NEW bytes \in Seq(Byte) PROVE MayFollow(Literal(bytes)) /\ LevelOf(Literal(bytes)) = 0
  BY LiteralTyped DEF MayFollow, LevelOf, LevelLabels, Outer
<1>2. ASSUME NEW s, InRange(s, source) PROVE MayFollow(RawFrame(s)) /\ LevelOf(RawFrame(s)) = 0
  BY <1>2, RawFrameTyped DEF MayFollow, LevelOf, LevelLabels, Outer
<1> QED BY <1>1, <1>2

LEMMA DepthSteps ==
  ASSUME Inv, DepthInv, stk # <<>>, Rest, NEW n \in Int, NEW s, Kept(s, n)
  PROVE  /\ Return(s) /\ n = -LevelOf(Top) => DepthInv'
         /\ \A l \in Plain :
              /\ Become(s, Frame(l)) /\ n = LevelOfLabel(l) - LevelOf(Top)
              /\ Top.at \in FloatLabels => l \in FloatLabels
              => DepthInv'
         /\ \A l, m \in Plain :
              /\ Call(s, Frame(l), Frame(m))
              /\ n = LevelOfLabel(l) + LevelOfLabel(m) - LevelOf(Top)
              /\ Top.at \in FloatLabels => l \in FloatLabels /\ m \in FloatLabels
              => DepthInv'
<1>1. SameOp
  BY DEF SameOp, Rest
<1>2. ASSUME Return(s), n = -LevelOf(Top) PROVE DepthInv'
  BY <1>1, <1>2, DepthReturn
<1>3. ASSUME NEW l \in Plain, Become(s, Frame(l)), n = LevelOfLabel(l) - LevelOf(Top),
             Top.at \in FloatLabels => l \in FloatLabels
      PROVE  DepthInv'
  <2>1. MayFollow(Frame(l)) /\ LevelOf(Frame(l)) = LevelOfLabel(l)
    BY <1>3, Followers
  <2> QED BY <1>1, <1>3, <2>1, DepthBecome
<1>4. ASSUME NEW l \in Plain, NEW m \in Plain, Call(s, Frame(l), Frame(m)),
             n = LevelOfLabel(l) + LevelOfLabel(m) - LevelOf(Top),
             Top.at \in FloatLabels => l \in FloatLabels /\ m \in FloatLabels
      PROVE  DepthInv'
  <2>1. /\ MayFollow(Frame(l)) /\ LevelOf(Frame(l)) = LevelOfLabel(l)
        /\ MayFollow(Frame(m)) /\ LevelOf(Frame(m)) = LevelOfLabel(m)
    BY <1>4, Followers
  <2> QED BY <1>1, <1>4, <2>1, DepthCall
<1> QED BY <1>2, <1>3, <1>4

\* where a frame takes no level and runs no number
LEMMA StringSteps ==
  ASSUME Inv, DepthInv, stk # <<>>, Rest, Top.at \notin FloatLabels, NEW n \in Int, NEW s, Kept(s, n)
  PROVE  /\ \A bytes \in Seq(Byte) :
              Become(s, Literal(bytes)) /\ n + LevelOf(Top) = 0 => DepthInv'
         /\ \A r : InRange(r, source) /\ Become(s, RawFrame(r)) /\ n + LevelOf(Top) = 0 => DepthInv'
         /\ \A r : InRange(r, source) /\ Call(s, RawFrame(r), Frame("objName"))
                     /\ n + LevelOf(Top) = 1 => DepthInv'
         /\ \A bytes \in Seq(Byte) :
              Call(s, Literal(bytes), Frame("objName")) /\ n + LevelOf(Top) = 1 => DepthInv'
<1>1. SameOp
  BY DEF SameOp, Rest
<1>2. /\ n + LevelOf(Top) = 0 => n = 0 - LevelOf(Top)
      /\ n + LevelOf(Top) = 1 => n = 0 + 1 - LevelOf(Top)
  BY DEF LevelOf
<1>3. MayFollow(Frame("objName")) /\ LevelOf(Frame("objName")) = 1
  BY Followers, PlainList DEF LevelOfLabel, LevelLabels
<1>4. ASSUME NEW bytes \in Seq(Byte), Become(s, Literal(bytes)), n + LevelOf(Top) = 0 PROVE DepthInv'
  <2>1. MayFollow(Literal(bytes)) /\ LevelOf(Literal(bytes)) = 0
    BY StringFollowers
  <2> QED BY <1>1, <1>2, <1>4, <2>1, DepthBecome
<1>5. ASSUME NEW r, InRange(r, source), Become(s, RawFrame(r)), n + LevelOf(Top) = 0 PROVE DepthInv'
  <2>1. MayFollow(RawFrame(r)) /\ LevelOf(RawFrame(r)) = 0
    BY <1>5, StringFollowers
  <2> QED BY <1>1, <1>2, <1>5, <2>1, DepthBecome
<1>6. ASSUME NEW r, InRange(r, source), Call(s, RawFrame(r), Frame("objName")), n + LevelOf(Top) = 1
      PROVE  DepthInv'
  <2>1. MayFollow(RawFrame(r)) /\ LevelOf(RawFrame(r)) = 0
    BY <1>6, StringFollowers
  <2> QED BY <1>1, <1>2, <1>3, <1>6, <2>1, DepthCall
<1>7. ASSUME NEW bytes \in Seq(Byte), Call(s, Literal(bytes), Frame("objName")), n + LevelOf(Top) = 1
      PROVE  DepthInv'
  <2>1. MayFollow(Literal(bytes)) /\ LevelOf(Literal(bytes)) = 0
    BY StringFollowers
  <2> QED BY <1>1, <1>2, <1>3, <1>7, <2>1, DepthCall
<1> QED BY <1>4, <1>5, <1>6, <1>7

LEMMA LiteralStep ==
  ASSUME Inv, DepthInv, stk # <<>>, Rest, Top.at \notin FloatLabels, Kept(it, 0), NEW bytes \in Seq(Byte)
  PROVE  /\ Become(it, Literal(bytes)) /\ LevelOf(Top) = 0 => DepthInv'
         /\ Call(it, Literal(bytes), Frame("objName")) /\ LevelOf(Top) = 1 => DepthInv'
BY StringSteps

----------------------------------------------------------------------------
(* The handlers.                                                           *)

LEMMA SkipLiteralDepth == ASSUME Inv, DepthInv, SkipLiteral PROVE DepthInv'
<1>1. stk # <<>> /\ Top.at = "literal" /\ Rest
  BY DEF SkipLiteral, Got, In
<1>2. LevelOf(Top) = 0 /\ Top.at \notin FloatLabels
  BY <1>1 DEF LevelOf, LevelLabels, FloatLabels
<1>3. CASE Return(Report(it)) \/ Return(it)
  BY <1>1, <1>2, <1>3, KeptFacts, DepthSteps
<1>4. CASE Become(it, Literal(Tail(Top.acc))) /\ Len(Top.acc) > 1
  <2>1. Tail(Top.acc) \in Seq(Byte)
    BY <1>1, <1>4, TopProperties
  <2> QED BY <1>1, <1>2, <1>4, <2>1, KeptFacts, LiteralStep
<1> QED BY <1>3, <1>4 DEF SkipLiteral

LEMMA ReadArrayStartDepth == ASSUME Inv, DepthInv, ReadArrayStart PROVE DepthInv'
<1>1. stk # <<>> /\ Top.at = "arr" /\ Rest /\ tok # None
  BY DEF ReadArrayStart, Got, In
<1>2. LevelOf(Top) = 0 /\ Top.at \notin FloatLabels
  BY <1>1 DEF LevelOf, LevelLabels, FloatLabels
<1>3. CASE Become(IncrementDepth(it), Frame("arrFirst"))
  BY <1>1, <1>2, <1>3, KeptFacts, DepthSteps, PlainList DEF LevelOfLabel, LevelLabels
<1>4. CASE ~(it.depth + 1 <= MaxDepth) /\ Return(IncrementDepth(it))
  BY <1>1, <1>2, <1>4, KeptReported, DepthSteps
<1>5. ASSUME NEW bytes \in Seq(Byte), Become(it, Literal(bytes)) PROVE DepthInv'
  BY <1>1, <1>2, <1>5, KeptFacts, LiteralStep
<1>6. CASE Return(Report(Unread(it)))
  BY <1>1, <1>2, <1>6, KeptReported, DepthSteps
<1> QED BY <1>3, <1>4, <1>5, <1>6, LiteralBytes DEF ReadArrayStart

LEMMA ReadArrayFirstDepth == ASSUME Inv, DepthInv, ReadArrayFirst PROVE DepthInv'
<1>1. stk # <<>> /\ Top.at = "arrFirst" /\ Rest
  BY DEF ReadArrayFirst, Got, In
<1>2. LevelOf(Top) = 1 /\ Top.at \notin FloatLabels
  BY <1>1 DEF LevelOf, LevelLabels, FloatLabels
<1>3. CASE Return(DecrementDepth(it))
  BY <1>1, <1>2, <1>3, KeptFacts, DepthSteps
<1>4. CASE Call(Unread(it), Frame("skip"), Frame("arrNext"))
  BY <1>1, <1>2, <1>4, KeptFacts, DepthSteps, PlainList DEF LevelOfLabel, LevelLabels
<1> QED BY <1>3, <1>4 DEF ReadArrayFirst

LEMMA ReadArrayNextDepth == ASSUME Inv, DepthInv, ReadArrayNext PROVE DepthInv'
<1>1. stk # <<>> /\ Top.at = "arrNext" /\ Rest /\ tok # None
  BY DEF ReadArrayNext, Got, In
<1>2. LevelOf(Top) = 1 /\ Top.at \notin FloatLabels
  BY <1>1 DEF LevelOf, LevelLabels, FloatLabels
<1>3. CASE Call(it, Frame("skip"), Frame("arrNext"))
  BY <1>1, <1>2, <1>3, KeptFacts, DepthSteps, PlainList DEF LevelOfLabel, LevelLabels
<1>4. CASE Return(DecrementDepth(it))
  BY <1>1, <1>2, <1>4, KeptFacts, DepthSteps
<1>5. CASE Return(DecrementDepth(Report(Unread(it))))
  BY <1>1, <1>2, <1>5, KeptReported, DepthSteps
<1> QED BY <1>3, <1>4, <1>5 DEF ReadArrayNext

LEMMA ReadObjectStartDepth == ASSUME Inv, DepthInv, ReadObjectStart PROVE DepthInv'
<1>1. stk # <<>> /\ Top.at = "obj" /\ Rest /\ tok # None
  BY DEF ReadObjectStart, Got, In
<1>2. LevelOf(Top) = 0 /\ Top.at \notin FloatLabels
  BY <1>1 DEF LevelOf, LevelLabels, FloatLabels
<1>3. CASE Become(IncrementDepth(it), Frame("objFirst"))
  BY <1>1, <1>2, <1>3, KeptFacts, DepthSteps, PlainList DEF LevelOfLabel, LevelLabels
<1>4. CASE ~(it.depth + 1 <= MaxDepth) /\ Return(IncrementDepth(it))
  BY <1>1, <1>2, <1>4, KeptReported, DepthSteps
<1>5. ASSUME NEW bytes \in Seq(Byte), Become(it, Literal(bytes)) PROVE DepthInv'
  BY <1>1, <1>2, <1>5, KeptFacts, LiteralStep
<1>6. CASE Return(Report(Unread(it)))
  BY <1>1, <1>2, <1>6, KeptReported, DepthSteps
<1> QED BY <1>3, <1>4, <1>5, <1>6, LiteralBytes DEF ReadObjectStart

LEMMA ReadObjectFirstDepth == ASSUME Inv, DepthInv, ReadObjectFirst PROVE DepthInv'
<1>1. stk # <<>> /\ Top.at = "objFirst" /\ Rest /\ tok # None
  BY DEF ReadObjectFirst, Got, In
<1>2. LevelOf(Top) = 1 /\ Top.at \notin FloatLabels
  BY <1>1 DEF LevelOf, LevelLabels, FloatLabels
<1>3. CASE Call(it, RawFrame(it), Frame("objName"))
  BY <1>1, <1>2, <1>3, KeptFacts, Ends, StringSteps
<1>4. CASE Return(DecrementDepth(it))
  BY <1>1, <1>2, <1>4, KeptFacts, DepthSteps
<1>5. CASE Return(DecrementDepth(Report(Unread(it))))
  BY <1>1, <1>2, <1>5, KeptReported, DepthSteps
<1> QED BY <1>3, <1>4, <1>5 DEF ReadObjectFirst

LEMMA ReadObjectNameDepth == ASSUME Inv, DepthInv, ReadObjectName PROVE DepthInv'
<1>1. stk # <<>> /\ Top.at = "objName" /\ Rest
  BY DEF ReadObjectName, In
<1>2. LevelOf(Top) = 1 /\ Top.at \notin FloatLabels
  BY <1>1 DEF LevelOf, LevelLabels, FloatLabels
<1>3. \/ \E p \in it.head..it.tail : Become(SetHead(it, p), Frame("objColon"))
      \/ Become(it, Frame("objColon"))
  BY DEF ReadObjectName
<1>4. \A p \in it.head..it.tail : Kept(SetHead(it, p), 0)
  BY KeptFacts, Ends
<1> QED BY <1>1, <1>2, <1>3, <1>4, KeptFacts, DepthSteps, PlainList DEF LevelOfLabel, LevelLabels

LEMMA ReadObjectColonDepth == ASSUME Inv, DepthInv, ReadObjectColon PROVE DepthInv'
<1>1. stk # <<>> /\ Top.at = "objColon" /\ Rest /\ tok # None
  BY DEF ReadObjectColon, Got, In
<1>2. LevelOf(Top) = 1 /\ Top.at \notin FloatLabels
  BY <1>1 DEF LevelOf, LevelLabels, FloatLabels
<1>3. CASE Call(it, Frame("skip"), Frame("objNext"))
  BY <1>1, <1>2, <1>3, KeptFacts, DepthSteps, PlainList DEF LevelOfLabel, LevelLabels
<1>4. CASE Return(Report(Unread(it)))
  BY <1>1, <1>2, <1>4, KeptReported, DepthSteps
<1> QED BY <1>3, <1>4 DEF ReadObjectColon

LEMMA ReadObjectNextDepth == ASSUME Inv, DepthInv, ReadObjectNext PROVE DepthInv'
<1>1. stk # <<>> /\ Top.at = "objNext" /\ Rest /\ tok # None
  BY DEF ReadObjectNext, Got, In
<1>2. LevelOf(Top) = 1 /\ Top.at \notin FloatLabels
  BY <1>1 DEF LevelOf, LevelLabels, FloatLabels
<1>3. CASE Become(it, Frame("objKey"))
  BY <1>1, <1>2, <1>3, KeptFacts, DepthSteps, PlainList DEF LevelOfLabel, LevelLabels
<1>4. CASE Return(DecrementDepth(it))
  BY <1>1, <1>2, <1>4, KeptFacts, DepthSteps
<1>5. CASE Return(Report(Unread(it)))
  BY <1>1, <1>2, <1>5, KeptReported, DepthSteps
<1> QED BY <1>3, <1>4, <1>5 DEF ReadObjectNext

LEMMA ReadObjectKeyDepth == ASSUME Inv, DepthInv, ReadObjectKey PROVE DepthInv'
<1>1. stk # <<>> /\ Top.at = "objKey" /\ Rest /\ tok # None
  BY DEF ReadObjectKey, Got, In
<1>2. LevelOf(Top) = 1 /\ Top.at \notin FloatLabels
  BY <1>1 DEF LevelOf, LevelLabels, FloatLabels
<1>3. CASE Call(it, RawFrame(it), Frame("objName"))
  BY <1>1, <1>2, <1>3, KeptFacts, Ends, StringSteps
<1>4. ASSUME NEW bytes \in Seq(Byte), Call(it, Literal(bytes), Frame("objName")) PROVE DepthInv'
  BY <1>1, <1>2, <1>4, KeptFacts, LiteralStep
<1>5. CASE Become(Report(Unread(it)), Frame("objName"))
  <2>1. Kept(Report(Unread(it)), 0)
    BY <1>1, <1>2, KeptReported
  <2> QED BY <1>1, <1>2, <1>5, <2>1, DepthSteps, PlainList DEF LevelOfLabel, LevelLabels
<1> QED BY <1>3, <1>4, <1>5, LiteralBytes DEF ReadObjectKey

LEMMA SkipNumberDepth ==
  ASSUME Inv, DepthInv, stk # <<>>, Top.at = "skip", tok # None, Rest, SkipNumber(it)
  PROVE  DepthInv'
<1>1. PICK p \in it.head..it.tail :
        \/ Return(SetHead(it, p)) \/ Return(Report(it)) \/ Return(Unread(it))
        \/ ~Failing(it) /\ Call(Unread(it), Frame("float64"), Frame("skipNumber"))
  BY DEF SkipNumber
<1>2. LevelOf(Top) = 0 /\ Top.at \notin FloatLabels /\ Top.at # "skipNumber"
  BY DEF LevelOf, LevelLabels, FloatLabels
<1>3. Kept(SetHead(it, p), 0) /\ Kept(Report(it), 0) /\ Kept(Unread(it), 0)
  BY KeptFacts, Ends
<1>4. CASE Return(SetHead(it, p)) \/ Return(Report(it)) \/ Return(Unread(it))
  BY <1>2, <1>3, <1>4, DepthSteps
<1>5. CASE ~Failing(it) /\ Call(Unread(it), Frame("float64"), Frame("skipNumber"))
  <2> DEFINE t == Tail(stk)
             f == Frame("float64")
             g == Frame("skipNumber")
             u == <<g>> \o t
  <2>1. /\ f \in FrameType /\ f.at = "float64" /\ g \in FrameType /\ g.at = "skipNumber"
    BY FrameTyped, LabelsList
  <2>2. /\ it' = Unread(it) /\ stk' = <<f, g>> \o t
    BY <1>5 DEF Call
  <2> HIDE DEF f, g
  <2>3. /\ t \in Seq(FrameType) /\ Shape(t) /\ ~Retries(t) /\ Levels(stk) = Levels(t)
        /\ Levels(t) \in Nat
    BY <1>2, StackFacts
  <2> HIDE DEF t
  <2>4. u \in Seq(FrameType) /\ stk' = <<f>> \o u
    BY <2>1, <2>2, <2>3, ConsTwo
  <2>5. Shape(u) /\ Levels(u) = Levels(t)
    <3>1. LevelOf(g) = 0 /\ g.at \notin Outer
      BY <2>1 DEF LevelOf, LevelLabels, Outer
    <3> QED BY <2>1, <2>3, <3>1, ShapeOfCons, LevelsOfCons
  <2> HIDE DEF u
  <2>6. Shape(stk') /\ Levels(stk') = Levels(u)
    <3>1. LevelOf(f) = 0 /\ f.at \notin Outer /\ f.at \in FloatLabels
      BY <2>1 DEF LevelOf, LevelLabels, Outer, FloatLabels
    <3>2. Levels(u) \in Nat
      BY <2>3, <2>5
    <3> QED BY <2>1, <2>4, <2>5, <3>1, <3>2, ShapeOfCons, LevelsOfCons
  <2>7. it'.depth = it.depth /\ op' = op
    BY <1>5, <2>2, KeptFacts DEF Rest
  <2>8. ~Failing(op) /\ it.depth = op.depth + Levels(stk)
    BY <1>5 DEF DepthInv, Failing
  <2> QED BY <2>3, <2>5, <2>6, <2>7, <2>8 DEF DepthInv
<1> QED BY <1>1, <1>4, <1>5

LEMMA SkipNumberAgainDepth == ASSUME Inv, DepthInv, SkipNumberAgain PROVE DepthInv'
<1>1. stk # <<>> /\ Top.at = "skipNumber" /\ Rest
  BY DEF SkipNumberAgain, In
<1>2. LevelOf(Top) = 0 /\ Top.at \notin FloatLabels
  BY <1>1 DEF LevelOf, LevelLabels, FloatLabels
<1>3. CASE Return(it)
  BY <1>1, <1>2, <1>3, KeptFacts, DepthSteps
<1>4. CASE Call(SetError(it, "nil"), Frame("number"), Frame("bigFloat"))
  <2> DEFINE t == Tail(stk)
             f == Frame("number")
             g == Frame("bigFloat")
             u == <<g>> \o t
  <2>1. /\ f \in FrameType /\ f.at = "number" /\ g \in FrameType /\ g.at = "bigFloat"
    BY FrameTyped, LabelsList
  <2>2. /\ it' = SetError(it, "nil") /\ stk' = <<f, g>> \o t
    BY <1>4 DEF Call
  <2>3. Retries(stk)
    <3>1. stk \in Seq(FrameType) /\ 1 \in 1..Len(stk) /\ stk[1] = Top
      BY <1>1, StackFacts DEF Top
    <3> QED BY <1>1, <3>1 DEF Retries
  <2> HIDE DEF f, g
  <2>4. /\ t \in Seq(FrameType) /\ Shape(t) /\ ~Retries(t) /\ Levels(stk) = Levels(t)
        /\ Levels(t) \in Nat
    BY <1>1, <1>2, StackFacts
  <2> HIDE DEF t
  <2>5. u \in Seq(FrameType) /\ stk' = <<f>> \o u
    BY <2>1, <2>2, <2>4, ConsTwo
  <2>6. Shape(u) /\ Levels(u) = Levels(t) /\ ~Retries(u)
    <3>1. LevelOf(g) = 0 /\ g.at \notin Outer
      BY <2>1 DEF LevelOf, LevelLabels, Outer
    <3> QED BY <2>1, <2>4, <3>1, ShapeOfCons, LevelsOfCons
  <2> HIDE DEF u
  <2>7. Shape(stk') /\ Levels(stk') = Levels(u)
    <3>1. LevelOf(f) = 0 /\ f.at \notin Outer
      BY <2>1 DEF LevelOf, LevelLabels, Outer
    <3>2. Levels(u) \in Nat
      BY <2>4, <2>6
    <3> QED BY <2>1, <2>5, <2>6, <3>1, <3>2, ShapeOfCons, LevelsOfCons
  <2>8. it'.depth = it.depth /\ op' = op
    BY <1>1, <2>2, Ends DEF SetError, InRange, IteratorType, Rest
  <2>9. ~Failing(op) /\ it.depth = op.depth + Levels(stk)
    BY <2>3 DEF DepthInv
  <2> QED BY <2>4, <2>6, <2>7, <2>8, <2>9 DEF DepthInv
<1> QED BY <1>3, <1>4 DEF SkipNumberAgain

LEMMA SkipDepth == ASSUME Inv, DepthInv, Skip PROVE DepthInv'
<1>1. /\ stk # <<>> /\ Top.at = "skip" /\ Rest /\ tok # None
  BY DEF Skip, Got, In
<1>2. LevelOf(Top) = 0 /\ Top.at \notin FloatLabels
  BY <1>1 DEF LevelOf, LevelLabels, FloatLabels
<1>3. ASSUME NEW l \in {"float32", "arr", "obj"}, Become(Unread(it), Frame(l)) PROVE DepthInv'
  BY <1>1, <1>2, <1>3, KeptFacts, DepthSteps, PlainList DEF LevelOfLabel, LevelLabels
<1>4. ASSUME NEW bytes \in Seq(Byte), Become(it, Literal(bytes)) PROVE DepthInv'
  BY <1>1, <1>2, <1>4, KeptFacts, LiteralStep
<1>5. CASE Return(Report(Unread(it)))
  BY <1>1, <1>2, <1>5, KeptReported, DepthSteps
<1>6. CASE SkipNumber(it)
  BY <1>1, <1>6, SkipNumberDepth
<1>7. CASE SkipString(it)
  <2>1. PICK p \in it.head..it.tail :
          \/ Return(SetHead(it, p + 1))
          \/ Become(SetHead(it, p), RawFrame(SetHead(it, p)))
          \/ Become(it, RawFrame(it))
    BY <1>7 DEF SkipString
  <2>2. /\ Kept(it, 0) /\ Kept(SetHead(it, p), 0) /\ Kept(SetHead(it, p + 1), 0)
    <3>1. p \in Nat /\ p + 1 \in Nat
      BY Ends
    <3> QED BY <3>1, KeptFacts
  <2>3. InRange(it, source) /\ InRange(SetHead(it, p), source)
    BY Unchanged DEF Same, OK, Good
  <2> QED BY <1>1, <1>2, <2>1, <2>2, <2>3, DepthSteps, StringSteps
<1>8. \/ SkipString(it) \/ SkipNumber(it)
      \/ \E bytes \in Seq(Byte) : Become(it, Literal(bytes))
      \/ \E l \in {"float32", "arr", "obj"} : Become(Unread(it), Frame(l))
      \/ Return(Report(Unread(it)))
  BY <1>1, LiteralBytes DEF Skip
<1> QED BY <1>3, <1>4, <1>5, <1>6, <1>7, <1>8

LEMMA ReadFloatDepth == ASSUME Inv, DepthInv, ReadFloat PROVE DepthInv'
<1>1. /\ stk # <<>> /\ Top.at \in {"float32", "float64"} /\ Rest
      /\ \E l \in {"positiveFloat32", "positiveFloat64"} :
           Become(it, Frame(l)) \/ Become(Unread(it), Frame(l))
  BY DEF ReadFloat, Got, In
<1>2. LevelOf(Top) = 0
  BY <1>1 DEF LevelOf, LevelLabels
<1>3. {"positiveFloat32", "positiveFloat64"} \subseteq FloatLabels
  BY DEF FloatLabels
<1> QED BY <1>1, <1>2, <1>3, KeptFacts, DepthSteps, PlainList DEF LevelOfLabel, LevelLabels

LEMMA ReadPositiveFloatDepth == ASSUME Inv, DepthInv, ReadPositiveFloat PROVE DepthInv'
<1>1. /\ stk # <<>> /\ Top.at \in {"positiveFloat32", "positiveFloat64"} /\ Rest
      /\ \/ \E p \in it.head..it.tail : Return(SetHead(it, p))
         \/ Return(Report(it))
         \/ \E l \in {"slowFloat32", "slowFloat64"} : Call(it, Frame("number"), Frame(l))
  BY DEF ReadPositiveFloat, In
<1>2. LevelOf(Top) = 0
  BY <1>1 DEF LevelOf, LevelLabels
<1>3. {"number", "slowFloat32", "slowFloat64"} \subseteq FloatLabels
  BY DEF FloatLabels
<1>4. \A p \in it.head..it.tail : Kept(SetHead(it, p), 0)
  BY KeptFacts, Ends
<1>5. CASE \E l \in {"slowFloat32", "slowFloat64"} : Call(it, Frame("number"), Frame(l))
  BY <1>1, <1>2, <1>3, <1>5, KeptFacts, DepthSteps, PlainList DEF LevelOfLabel, LevelLabels
<1> QED BY <1>1, <1>2, <1>4, <1>5, KeptFacts, DepthSteps

LEMMA ReadNumberAsBytesDepth == ASSUME Inv, DepthInv, ReadNumberAsBytes PROVE DepthInv'
<1>1. /\ stk # <<>> /\ Top.at = "number" /\ Rest
  BY DEF ReadNumberAsBytes, In
<1>2. LevelOf(Top) = 0 /\ SameOp
  BY <1>1 DEF LevelOf, LevelLabels, SameOp, Rest
<1>3. \A p \in it.head..it.tail :
        Kept(SetHead(it, p), 0) /\ Kept(Report(SetHead(it, p)), 0)
  BY KeptFacts, Ends
<1>4. ASSUME NEW s, Kept(s, 0), Return(s) PROVE DepthInv'
  BY <1>1, <1>2, <1>4, DepthSteps
<1>5. ASSUME NEW p \in it.head..it.tail,
             Become(it, [Frame("numberLoad") EXCEPT !.acc = Top.acc \o Bytes(it, it.head, p)])
      PROVE  DepthInv'
  <2> DEFINE acc == Top.acc \o Bytes(it, it.head, p)
             f == [Frame("numberLoad") EXCEPT !.acc = acc]
  <2>1. acc \in Seq(Byte)
    BY <1>1, RawAcc, Ends
  <2> HIDE DEF acc
  <2>2. f \in FrameType /\ f.at = "numberLoad"
    BY <2>1, LabelsList DEF Frame, FrameType
  <2>3. Become(it, f)
    BY <1>5 DEF acc
  <2> HIDE DEF f
  <2>4. MayFollow(f) /\ LevelOf(f) = 0
    BY <2>2 DEF MayFollow, LevelOf, LevelLabels, FloatLabels, Outer
  <2> QED BY <1>1, <1>2, <2>3, <2>4, KeptFacts, DepthBecome
<1>6. ASSUME NEW bytes, NEW s, ReadNumberDone(bytes, s) PROVE Return(Report(s)) \/ Return(s)
  BY <1>6 DEF ReadNumberDone
<1>7. CASE ReadNumberDone(Top.acc, it)
  BY <1>4, <1>6, <1>7, KeptFacts
<1>8. ASSUME NEW p \in it.head..it.tail,
             ReadNumberDone(Top.acc \o Bytes(it, it.head, p), SetHead(it, p))
      PROVE  DepthInv'
  BY <1>3, <1>4, <1>6, <1>8
<1> QED BY <1>5, <1>7, <1>8 DEF ReadNumberAsBytes

LEMMA SlowFloatDepth == ASSUME Inv, DepthInv, SlowFloat \/ ReadBigFloat PROVE DepthInv'
<1>1. /\ stk # <<>> /\ Top.at \in {"slowFloat32", "slowFloat64", "bigFloat"} /\ Rest
      /\ \/ Return(it) \/ Return(Report(it))
         \/ ~Failing(it) /\ Return(SetError(it, "bad"))
  BY DEF SlowFloat, ReadBigFloat, In
<1>2. LevelOf(Top) = 0
  BY <1>1 DEF LevelOf, LevelLabels
<1>3. ASSUME ~Failing(it) PROVE Kept(SetError(it, "bad"), 0)
  BY <1>3, KeptFacts DEF Report
<1> QED BY <1>1, <1>2, <1>3, KeptFacts, DepthSteps

LEMMA ReadNumbersDepth == ASSUME Inv, DepthInv, ReadNumbers PROVE DepthInv'
BY SkipNumberAgainDepth, ReadFloatDepth, ReadPositiveFloatDepth, ReadNumberAsBytesDepth,
   SlowFloatDepth DEF ReadNumbers

\* the frames of a string call take no level, whatever their locals
LEMMA RawFollows ==
  ASSUME NEW f \in FrameType, f.at \in {"raw", "rawLoad", "rawWait", "u4"}, Top.at \notin FloatLabels
  PROVE  MayFollow(f) /\ LevelOf(f) = 0
BY DEF MayFollow, LevelOf, LevelLabels, Outer

LEMMA ReadRawStringInnerDepth == ASSUME Inv, DepthInv, ReadRawStringInner PROVE DepthInv'
<1>1. /\ stk # <<>> /\ Top.at = "raw" /\ Rest
      /\ Top \in FrameType /\ Top.i \in Nat /\ Top.i \in it.head..it.tail /\ Top.acc \in Seq(Byte)
      /\ it.head \in Nat /\ it.tail \in Nat
  BY TopProperties, Ends DEF ReadRawStringInner, In, Inv
<1>2. LevelOf(Top) = 0 /\ Top.at \notin FloatLabels /\ SameOp
  BY <1>1 DEF LevelOf, LevelLabels, FloatLabels, SameOp, Rest
<1>3. /\ Kept(it, 0) /\ Kept(Report(it), 0)
      /\ \A h \in Nat : Kept(SetHead(it, h), 0) /\ Kept(Report(SetHead(it, h)), 0)
  BY KeptFacts
<1>4. ASSUME NEW s, Kept(s, 0), Return(s) PROVE DepthInv'
  BY <1>1, <1>2, <1>4, DepthSteps
<1>5. ASSUME NEW s, Kept(s, 0), NEW f \in FrameType, f.at \in {"raw", "rawLoad"}, Become(s, f)
      PROVE  DepthInv'
  <2>1. MayFollow(f) /\ LevelOf(f) = 0
    BY <1>2, <1>5, RawFollows
  <2> QED BY <1>1, <1>2, <1>5, <2>1, DepthBecome
<1>6. ASSUME NEW h \in Nat, RawStringFails(SetHead(it, h)) PROVE DepthInv'
  BY <1>3, <1>4, <1>6 DEF RawStringFails
<1>7. CASE RawStringFails(it)
  BY <1>3, <1>4, <1>7 DEF RawStringFails
<1>8. ASSUME Top.i < it.tail, RawStringEnds PROVE DepthInv'
  <2>1. Top.i + 1 \in Nat /\ Return(SetHead(it, Top.i + 1))
    BY <1>1, <1>8 DEF RawStringEnds
  <2> QED BY <1>3, <1>4, <2>1
<1>9. ASSUME Top.i < it.tail, NEW e \in BOOLEAN, Become(it, [Top EXCEPT !.esc = e, !.i = @ + 1])
      PROVE  DepthInv'
  <2> DEFINE f == [Top EXCEPT !.esc = e, !.i = @ + 1]
  <2>1. Top.i + 1 \in Nat
    BY <1>1
  <2>2. f \in FrameType /\ f.at = "raw"
    BY <1>1, <2>1 DEF FrameType
  <2> QED BY <1>3, <1>5, <1>9, <2>2
<1>10. ASSUME Top.i < it.tail, RawStringUnicode PROVE DepthInv'
  <2>1. Top.i + 1 \in Nat /\ Top.i + 1 <= it.tail
    BY <1>1, <1>10
  <2> DEFINE s == SetHead(it, Top.i + 1)
  <2>2. CASE Call(s, Frame("u4"), [Top EXCEPT !.at = "rawWait", !.esc = FALSE,
                                   !.acc = @ \o Bytes(it, it.head, Top.i + 1)])
    <3> DEFINE acc == Top.acc \o Bytes(it, it.head, Top.i + 1)
               f == Frame("u4")
               g == [Top EXCEPT !.at = "rawWait", !.esc = FALSE, !.acc = acc]
    <3>1. acc \in Seq(Byte)
      BY <1>1, <2>1, RawAcc
    <3>2. Call(s, f, g)
      BY <2>2
    <3> HIDE DEF acc
    <3>3. g \in FrameType /\ g.at = "rawWait"
      BY <1>1, <3>1, LabelsList DEF FrameType
    <3>4. f \in FrameType /\ f.at = "u4"
      BY FrameTyped, LabelsList
    <3>5. Kept(s, 0)
      BY <1>3, <2>1
    <3> HIDE DEF f, g, s
    <3>6. /\ MayFollow(f) /\ LevelOf(f) = 0 /\ MayFollow(g) /\ LevelOf(g) = 0
      BY <1>2, <3>3, <3>4, RawFollows
    <3> QED BY <1>1, <1>2, <3>2, <3>5, <3>6, DepthCall
  <2>3. CASE /\ Top.i + 4 < it.tail
             /\ Become(SetHead(it, Top.i + 5),
                       [Top EXCEPT !.esc = FALSE, !.i = Top.i + 5,
                                   !.acc = @ \o Bytes(it, it.head, Top.i + 5)])
    <3> DEFINE acc == Top.acc \o Bytes(it, it.head, Top.i + 5)
               f == [Top EXCEPT !.esc = FALSE, !.i = Top.i + 5, !.acc = acc]
    <3>1. Top.i + 5 \in Nat /\ Top.i + 5 <= it.tail
      BY <1>1, <2>3
    <3>2. acc \in Seq(Byte)
      BY <1>1, <3>1, RawAcc
    <3>3. Become(SetHead(it, Top.i + 5), f)
      BY <2>3
    <3> HIDE DEF acc
    <3>4. f \in FrameType /\ f.at = "raw"
      BY <1>1, <3>1, <3>2 DEF FrameType
    <3> HIDE DEF f
    <3> QED BY <1>3, <1>5, <3>1, <3>3, <3>4
  <2>4. CASE RawStringFails(s)
    BY <1>6, <2>1, <2>4
  <2> QED BY <1>10, <2>2, <2>3, <2>4 DEF RawStringUnicode
<1>11. ASSUME Top.i < it.tail, NEW c, RawStringByte(c) PROVE DepthInv'
  <2>1. Top.esc \in BOOLEAN /\ FALSE \in BOOLEAN /\ (~Top.esc) \in BOOLEAN
    BY <1>1 DEF FrameType
  <2>2. \/ RawStringEnds \/ RawStringUnicode \/ RawStringFails(it)
        \/ Become(it, [Top EXCEPT !.esc = FALSE, !.i = @ + 1])
        \/ Become(it, [Top EXCEPT !.esc = ~Top.esc, !.i = @ + 1])
    BY <1>11 DEF RawStringByte
  <2> QED BY <1>7, <1>8, <1>9, <1>10, <1>11, <2>1, <2>2
<1>12. ASSUME Become(SetHead(it, it.tail),
                     [Top EXCEPT !.at = "rawLoad", !.acc = @ \o Bytes(it, it.head, it.tail)])
       PROVE  DepthInv'
  <2> DEFINE acc == Top.acc \o Bytes(it, it.head, it.tail)
             f == [Top EXCEPT !.at = "rawLoad", !.acc = acc]
  <2>1. acc \in Seq(Byte)
    BY <1>1, RawAcc
  <2>2. Become(SetHead(it, it.tail), f)
    BY <1>12
  <2> HIDE DEF acc
  <2>3. f \in FrameType /\ f.at = "rawLoad"
    BY <1>1, <2>1, LabelsList DEF FrameType
  <2> HIDE DEF f
  <2> QED BY <1>1, <1>3, <1>5, <2>2, <2>3
<1>13. \/ RawStringFails(it)
       \/ Top.i < it.tail /\ RawStringByte(At(it, Top.i))
       \/ Become(SetHead(it, it.tail),
                 [Top EXCEPT !.at = "rawLoad", !.acc = @ \o Bytes(it, it.head, it.tail)])
  BY DEF ReadRawStringInner
<1> QED BY <1>7, <1>11, <1>12, <1>13

LEMMA ReadRawStringMoreDepth == ASSUME Inv, DepthInv, ReadRawStringMore PROVE DepthInv'
<1>1. /\ stk # <<>> /\ Top.at = "rawLoad" /\ Rest /\ Top \in FrameType /\ tok # None
  BY TopProperties DEF ReadRawStringMore, Got, In
<1>2. LevelOf(Top) = 0 /\ Top.at \notin FloatLabels /\ SameOp
  BY <1>1 DEF LevelOf, LevelLabels, FloatLabels, SameOp, Rest
<1>3. CASE Return(Report(it))
  BY <1>1, <1>2, <1>3, KeptFacts, DepthSteps
<1>4. CASE Become(Unread(it), [Top EXCEPT !.at = "raw", !.i = Unread(it).head])
  <2> DEFINE f == [Top EXCEPT !.at = "raw", !.i = Unread(it).head]
  <2>1. Unread(it).head \in Nat
    BY <1>1, Unreads, Ends
  <2>2. f \in FrameType /\ f.at = "raw"
    BY <1>1, <2>1, LabelsList DEF FrameType
  <2>3. Become(Unread(it), f)
    BY <1>4
  <2> HIDE DEF f
  <2>4. MayFollow(f) /\ LevelOf(f) = 0
    BY <1>2, <2>2, RawFollows
  <2> QED BY <1>1, <1>2, <2>3, <2>4, KeptFacts, DepthBecome
<1> QED BY <1>3, <1>4 DEF ReadRawStringMore, RawStringFails

LEMMA ReadAndFillU4Depth == ASSUME Inv, DepthInv, ReadAndFillU4 PROVE DepthInv'
<1> DEFINE t == Tail(stk)
           caller == stk[2]
           f(bytes) == [caller EXCEPT !.at = "raw", !.acc = @ \o bytes, !.i = it.head]
<1>1. /\ stk # <<>> /\ Top.at = "u4" /\ Rest /\ Top \in FrameType /\ Top.acc \in Seq(Byte)
      /\ tok \in Byte \cup {None} /\ tok # None /\ Len(stk) >= 2 /\ caller.at = "rawWait"
  BY TopProperties DEF ReadAndFillU4, Got, In, Inv
<1>2. LevelOf(Top) = 0 /\ Top.at \notin FloatLabels /\ SameOp
  BY <1>1 DEF LevelOf, LevelLabels, FloatLabels, SameOp, Rest
<1>3. Kept(it, 0) /\ Kept(Report(it), 0)
  BY KeptFacts
<1>4. /\ t \in Seq(FrameType) /\ t # <<>> /\ Head(t) = caller /\ caller \in FrameType
      /\ Shape(t) /\ ~Retries(t) /\ Levels(stk) = Levels(t)
  <2>1. stk \in Seq(FrameType) /\ Shape(t) /\ ~Retries(t) /\ Levels(stk) = Levels(t)
    BY <1>1, <1>2, StackFacts
  <2>2. t \in Seq(FrameType) /\ t # <<>> /\ Head(t) = caller
    <3>1. Len(stk) \in Nat /\ Len(stk) >= 2
      BY <1>1, <2>1
    <3>2. t \in Seq(FrameType) /\ Len(t) = Len(stk) - 1 /\ \A i \in 1..Len(t) : t[i] = stk[i + 1]
      BY <1>1, <2>1, HeadTailProperties
    <3> HIDE DEF t
    <3>3. 1 \in 1..Len(t) /\ 1 + 1 = 2
      BY <3>1, <3>2
    <3> QED BY <3>2, <3>3
  <2>3. caller \in FrameType
    BY <1>1, <2>1, ElementOfSeq
  <2> QED BY <2>1, <2>2, <2>3
<1>5. ASSUME NEW bytes \in Seq(Byte), it' = it \/ it' = Report(it),
             stk' = <<f(bytes)>> \o Tail(t)
      PROVE  DepthInv'
  <2>1. caller.acc \o bytes \in Seq(Byte) /\ it.head \in Nat
    BY <1>4, Ends DEF FrameType
  <2>2. f(bytes) \in FrameType /\ f(bytes).at = "raw"
    BY <1>4, <2>1, LabelsList DEF FrameType
  <2> HIDE DEF f, t, caller
  <2>3. /\ Tail(t) \in Seq(FrameType) /\ Shape(Tail(t)) /\ ~Retries(Tail(t))
        /\ Levels(t) = Levels(Tail(t)) + LevelOf(caller) /\ Levels(Tail(t)) \in Nat
    BY <1>4, HeadTailProperties, ShapeOfTail, LevelsOfTail
  <2>4. LevelOf(caller) = 0 /\ LevelOf(f(bytes)) = 0 /\ f(bytes).at \notin Outer /\ f(bytes).at # "skipNumber"
    BY <1>1, <2>2 DEF LevelOf, LevelLabels, Outer
  <2>5. Shape(stk') /\ ~Retries(stk')
    BY <1>5, <2>2, <2>3, <2>4, ShapeOfCons
  <2>6. Levels(stk') = Levels(Tail(t)) + 0
    BY <1>5, <2>2, <2>3, <2>4, LevelsOfCons
  <2>7. Levels(stk') = Levels(stk) + 0 /\ Kept(it', 0) /\ 0 \in Int
    BY <1>3, <1>4, <1>5, <2>3, <2>4, <2>6
  <2> QED BY <1>1, <1>2, <2>5, <2>7, DepthKept
<1>6. CASE it' = it /\ stk' = <<[Top EXCEPT !.acc = Append(@, tok)]>> \o t
  <2> DEFINE g == [Top EXCEPT !.acc = Append(@, tok)]
  <2>1. Append(Top.acc, tok) \in Seq(Byte)
    BY <1>1
  <2>2. g \in FrameType /\ g.at = "u4"
    BY <1>1, <2>1 DEF FrameType
  <2>3. stk' = <<g>> \o Tail(stk)
    BY <1>6
  <2> HIDE DEF g, t
  <2>4. MayFollow(g) /\ LevelOf(g) = 0
    BY <1>2, <2>2, RawFollows
  <2>5. it' = it
    BY <1>6
  <2>6. Kept(it', LevelOf(g) - LevelOf(Top))
    BY <1>2, <1>3, <2>4, <2>5
  <2> QED BY <1>1, <1>2, <2>3, <2>4, <2>6, DepthReplace
<1>7. Append(Top.acc, tok) \in Seq(Byte)
  BY <1>1
<1>8. \/ /\ it' = it \/ it' = Report(it)
         /\ stk' = <<f(Top.acc)>> \o Tail(t)
      \/ it' = it /\ stk' = <<f(Append(Top.acc, tok))>> \o Tail(t)
      \/ it' = it /\ stk' = <<[Top EXCEPT !.acc = Append(@, tok)]>> \o t
  BY DEF ReadAndFillU4
<1> HIDE DEF f
<1> QED BY <1>1, <1>5, <1>6, <1>7, <1>8

LEMMA ReadStringsDepth == ASSUME Inv, DepthInv, ReadStrings PROVE DepthInv'
BY ReadRawStringInnerDepth, ReadRawStringMoreDepth, ReadAndFillU4Depth DEF ReadStrings

----------------------------------------------------------------------------
(* loadMore, nextToken and readByte.                                       *)

LEMMA NextByteDepth == ASSUME Inv, DepthInv, NextToken \/ ReadByte PROVE DepthInv'
<1>1. /\ \E h \in Nat : it' = SetHead(it, h)
      /\ UNCHANGED <<stk, op>>
  <2>1. it.head + 1 \in Nat /\ \A p \in it.head..it.tail : p + 1 \in Nat
    BY Ends
  <2> QED BY <2>1 DEF NextToken, ReadByte, Rest
<1>2. it'.depth = it.depth /\ it'.err = it.err
  BY <1>1, Ends DEF SetHead, InRange, IteratorType
<1> QED BY <1>1, <1>2 DEF DepthInv, Failing

LEMMA LoadingDepth ==
  ASSUME Inv, DepthInv, stk # <<>>, SameOp, Top.at \in Loading, Kept(it', 0),
         stk' = Loaded \/ stk' = LoadFailed
  PROVE  DepthInv'
<1>1. LevelOf(Top) \in {0, 1} /\ Top \in FrameType /\ stk \in Seq(FrameType) /\ Shape(stk)
  BY StackFacts DEF LevelOf, DepthInv
<1>2. CASE Top.at = "numberLoad"
  <2>1. ASSUME NEW f \in FrameType, f.at = "number", stk' = <<f>> \o Tail(stk) PROVE DepthInv'
    <3>1. MayFollow(f) /\ LevelOf(f) = 0 /\ LevelOf(Top) = 0
      BY <1>2, <2>1 DEF MayFollow, LevelOf, LevelLabels, FloatLabels, Outer
    <3> QED BY <2>1, <3>1, DepthReplace
  <2>2. /\ [Top EXCEPT !.at = "number"] \in FrameType /\ [Top EXCEPT !.at = "number"].at = "number"
        /\ [Top EXCEPT !.at = "number", !.esc = TRUE] \in FrameType
        /\ [Top EXCEPT !.at = "number", !.esc = TRUE].at = "number"
    BY <1>1, LabelsList DEF FrameType
  <2>3. \/ stk' = <<[Top EXCEPT !.at = "number"]>> \o Tail(stk)
        \/ stk' = <<[Top EXCEPT !.at = "number", !.esc = TRUE]>> \o Tail(stk)
    BY <1>2 DEF Loaded, LoadFailed
  <2> QED BY <2>1, <2>2, <2>3
<1>3. CASE Top.at = "firstLoad"
  <2>1. LevelOf(Top) = 0 /\ Top.at \notin FloatLabels
    BY <1>3 DEF LevelOf, LevelLabels, FloatLabels
  <2>2. CASE stk' = Loaded
    <3> DEFINE f == Frame("readNil")
    <3>1. stk' = <<f>> \o Tail(stk)
      BY <1>3, <2>2 DEF Loaded
    <3>2. MayFollow(f) /\ LevelOf(f) = 0
      BY <2>1, Followers, PlainList DEF LevelOfLabel, LevelLabels
    <3> HIDE DEF f
    <3> QED BY <2>1, <3>1, <3>2, DepthReplace
  <2>3. CASE stk' = LoadFailed
    <3> DEFINE f == Frame("noMore")
    <3>1. stk' = <<f>> /\ f \in FrameType /\ f.at = "noMore"
      BY <1>3, <2>3, FrameTyped, LabelsList DEF LoadFailed
    <3> HIDE DEF f
    <3>2. Len(stk') = 1 /\ stk'[1] = f /\ stk' \in Seq(FrameType)
      BY <3>1
    <3>3. Shape(stk') /\ ~Retries(stk')
      BY <3>1, <3>2 DEF Shape, Retries, Outer
    <3>4. Levels(stk') = 0
      <4>1. f \notin LevelFrames
        BY <3>1 DEF LevelFrames, LevelLabels
      <4>2. \A k \in 1..Len(stk') : stk'[k] \notin LevelFrames
        BY <3>2, <4>1
      <4> QED BY <3>2, <4>2, CountIsNat DEF Levels
    <3>5. Levels(stk) = 0
      <4>1. 1 \in 1..Len(stk) /\ stk[1] = Top /\ Len(stk) \in Nat
        BY <1>1 DEF Top
      <4>2. \A k \in (1 + 1)..Len(stk) : stk[k].at \in Outer
        BY <1>3, <4>1 DEF Inv, StackOK, Outermost
      <4>3. \A k \in 1..Len(stk) : k = 1 \/ k \in (1 + 1)..Len(stk)
        BY <4>1
      <4>4. \A k \in 1..Len(stk) : stk[k] \notin LevelFrames
        BY <1>3, <4>1, <4>2, <4>3 DEF LevelFrames, LevelLabels, Outer
      <4> QED BY <1>1, <4>4, CountIsNat DEF Levels
    <3>6. Levels(stk') = Levels(stk) + 0 /\ 0 \in Int
      BY <3>4, <3>5
    <3> QED BY <3>3, <3>6, DepthKept
  <2> QED BY <2>2, <2>3
<1>4. CASE Top.at \notin {"numberLoad", "firstLoad"}
  <2>1. stk' = stk
    BY <1>4 DEF Loaded, LoadFailed
  <2>2. it.depth \in Int
    BY Ends
  <2>3. (~Failing(it') => it'.depth = it.depth) /\ (Failing(it) => it'.err = it.err)
        /\ (Top.at \in FloatLabels => it'.depth = it.depth)
    BY <2>2 DEF Kept
  <2>4. Retries(stk) => Top.at \in FloatLabels
    <3>1. Top.at # "skipNumber"
      BY DEF Loading, TokenFrames, ByteFrames
    <3> QED BY <3>1, StackFacts
  <2> QED BY <2>1, <2>3, <2>4 DEF DepthInv, SameOp, Failing
<1> QED BY <1>2, <1>3, <1>4

LEMMA LoadDepth == ASSUME Inv, DepthInv, Load PROVE DepthInv'
<1>1. stk # <<>> /\ Top.at \in Loading /\ (stk' = Loaded \/ stk' = LoadFailed)
  BY DEF Load, LoadSlice, LoadMore, LoadFails, Blocked, Loading
<1>2. SameOp
  BY DEF Load, LoadSlice, LoadMore, LoadFails, SameOp, Inv, OperationType
<1>3. it \in IteratorType /\ it.depth \in Int /\ it.head \in Nat /\ it.tail \in Nat
      /\ it.captured \in Seq(Byte) /\ it.inputOffset \in Nat
  BY Ends DEF InRange
<1>4. SaveCapture(it).depth = it.depth /\ SaveCapture(it).err = it.err
      /\ DOMAIN SaveCapture(it) = DOMAIN it
  BY <1>3 DEF SaveCapture, IteratorType
<1>5. it'.depth = it.depth /\ (Failing(it) => it'.err = it.err)
  <2>1. CASE LoadSlice
    BY <1>3, <2>1 DEF LoadSlice, SetError, SetHead, Failing, IteratorType
  <2>2. CASE LoadMore
    <3>1. PICK n : it' = Refill(it, delivered, n)
      BY <2>2 DEF LoadMore
    <3>2. it'.depth = SaveCapture(it).depth /\ it'.err = SaveCapture(it).err
      BY <1>3, <1>4, <3>1 DEF Refill, IteratorType
    <3> QED BY <1>4, <3>2
  <2>3. CASE LoadFails
    <3>1. PICK e : it' = IF it.err = "nil" THEN SetError(SaveCapture(it), e) ELSE SaveCapture(it)
      BY <2>3 DEF LoadFails
    <3> QED BY <1>3, <1>4, <3>1 DEF SetError, Failing, IteratorType
  <2> QED BY <2>1, <2>2, <2>3 DEF Load
<1>6. Kept(it', 0)
  BY <1>3, <1>5 DEF Kept
<1> QED BY <1>1, <1>2, <1>6, LoadingDepth

----------------------------------------------------------------------------
(* The clients.                                                            *)

LEMMA StartDepth ==
  ASSUME Inv, NEW name, NEW s, NEW frames \in Seq(FrameType), Start(name, s, frames),
         s.depth = it.depth, s.err = it.err, Shape(frames),
         \A k \in 1..Len(frames) : frames[k].at \notin LevelLabels \cup {"skipNumber"}
  PROVE  DepthInv'
<1>1. it' = s /\ stk' = frames /\ op' = Operation(name)
  BY DEF Start
<1>2. op'.depth = it.depth /\ op'.err = it.err /\ it.depth \in Int
  BY <1>1, Ends DEF Operation
<1>3. Levels(frames) = 0
  <2>1. \A k \in 1..Len(frames) : frames[k] \notin LevelFrames
    BY DEF LevelFrames
  <2> QED BY <2>1, CountIsNat DEF Levels
<1>4. ~Retries(frames)
  BY DEF Retries
<1> QED BY <1>1, <1>2, <1>3, <1>4 DEF DepthInv, Failing

LEMMA ClientFrame ==
  ASSUME NEW l \in {"skip", "stopCapture", "whatIsNext", "firstLoad", "readNil", "more", "decoded",
                    "trailing", "end"}
  PROVE  Frame(l) \in FrameType /\ Frame(l).at = l /\ l \notin LevelLabels \cup {"skipNumber"}
BY FrameTyped, LabelsList DEF LevelLabels

LEMMA StartsDepth ==
  ASSUME Inv, StartSkip \/ StartSkipAndReturnBytes \/ StartWhatIsNext \/ StartDecode
                \/ StartMore \/ StartUnmarshal \/ StartValid
  PROVE  DepthInv'
<1>0. "end" \in Outer /\ "decoded" \in Outer /\ "trailing" \in Outer /\ "stopCapture" \notin Outer
      /\ \A l \in {"skip", "whatIsNext", "firstLoad", "readNil", "more"} : l \notin Outer
  BY DEF Outer
<1>1. ASSUME NEW name, NEW l \in {"skip", "whatIsNext", "more"},
             Start(name, it, <<Frame(l), Frame("end")>>)
      PROVE  DepthInv'
  <2> DEFINE f == Frame(l)
             g == Frame("end")
             frames == <<f, g>>
  <2>1. /\ f \in FrameType /\ f.at = l /\ l \notin LevelLabels \cup {"skipNumber"}
        /\ g \in FrameType /\ g.at = "end" /\ "end" \notin LevelLabels \cup {"skipNumber"}
    BY ClientFrame
  <2> HIDE DEF f, g
  <2>2. frames \in Seq(FrameType) /\ Shape(frames)
    BY <1>0, <2>1 DEF Shape
  <2>3. \A k \in 1..Len(frames) : frames[k].at \notin LevelLabels \cup {"skipNumber"}
    BY <2>1
  <2>4. Start(name, it, frames)
    BY <1>1 DEF f, g
  <2> HIDE DEF frames
  <2> QED BY <2>2, <2>3, <2>4, StartDepth
<1>2. ASSUME NEW s, s.depth = it.depth, s.err = it.err, NEW name, NEW l \in {"skip", "firstLoad", "readNil"},
             NEW m \in {"stopCapture", "decoded"}, Start(name, s, <<Frame(l), Frame(m), Frame("end")>>)
      PROVE  DepthInv'
  <2> DEFINE f == Frame(l)
             g == Frame(m)
             h == Frame("end")
             frames == <<f, g, h>>
  <2>1. /\ f \in FrameType /\ f.at = l /\ l \notin LevelLabels \cup {"skipNumber"}
        /\ g \in FrameType /\ g.at = m /\ m \notin LevelLabels \cup {"skipNumber"}
        /\ h \in FrameType /\ h.at = "end" /\ "end" \notin LevelLabels \cup {"skipNumber"}
    BY ClientFrame
  <2> HIDE DEF f, g, h
  <2>2. frames \in Seq(FrameType) /\ Shape(frames)
    BY <1>0, <2>1 DEF Shape
  <2>3. \A k \in 1..Len(frames) : frames[k].at \notin LevelLabels \cup {"skipNumber"}
    BY <2>1
  <2>4. Start(name, s, frames)
    BY <1>2 DEF f, g, h
  <2> HIDE DEF frames
  <2> QED BY <1>2, <2>2, <2>3, <2>4, StartDepth
<1>3. CASE StartSkipAndReturnBytes
  <2>1. StartCapture(it).depth = it.depth /\ StartCapture(it).err = it.err
    BY Ends DEF StartCapture, InRange, IteratorType
  <2> QED BY <1>2, <1>3, <2>1 DEF StartSkipAndReturnBytes
<1>4. CASE StartDecode
  BY <1>2, <1>4 DEF StartDecode
<1>5. CASE StartMore
  <2>1. ASSUME Start("More", it, <<Frame("end")>>) PROVE DepthInv'
    <3> DEFINE f == Frame("end")
               frames == <<f>>
    <3>1. f \in FrameType /\ f.at = "end" /\ "end" \notin LevelLabels \cup {"skipNumber"}
      BY ClientFrame
    <3> HIDE DEF f
    <3>2. frames \in Seq(FrameType) /\ Shape(frames)
      BY <3>1 DEF Shape
    <3>3. \A k \in 1..Len(frames) : frames[k].at \notin LevelLabels \cup {"skipNumber"}
      BY <3>1
    <3>4. Start("More", it, frames)
      BY <2>1 DEF f
    <3> HIDE DEF frames
    <3> QED BY <3>2, <3>3, <3>4, StartDepth
  <2> QED BY <1>1, <1>5, <2>1 DEF StartMore
<1>6. CASE StartUnmarshal
  <2> DEFINE f == Frame("readNil")
             g == Frame("decoded")
             h == Frame("trailing")
             e == Frame("end")
             frames == <<f, g, h, e>>
  <2>1. /\ f \in FrameType /\ f.at = "readNil" /\ "readNil" \notin LevelLabels \cup {"skipNumber"}
        /\ g \in FrameType /\ g.at = "decoded" /\ "decoded" \notin LevelLabels \cup {"skipNumber"}
        /\ h \in FrameType /\ h.at = "trailing" /\ "trailing" \notin LevelLabels \cup {"skipNumber"}
        /\ e \in FrameType /\ e.at = "end" /\ "end" \notin LevelLabels \cup {"skipNumber"}
    BY ClientFrame
  <2> HIDE DEF f, g, h, e
  <2>2. frames \in Seq(FrameType) /\ Shape(frames)
    BY <1>0, <2>1 DEF Shape
  <2>3. \A k \in 1..Len(frames) : frames[k].at \notin LevelLabels \cup {"skipNumber"}
    BY <2>1
  <2>4. Start("Unmarshal", it, frames)
    BY <1>6 DEF StartUnmarshal, f, g, h, e
  <2> HIDE DEF frames
  <2> QED BY <2>2, <2>3, <2>4, StartDepth
<1> QED BY <1>1, <1>3, <1>4, <1>5, <1>6 DEF StartSkip, StartWhatIsNext, StartValid

LEMMA IdleStack == Shape(<<>>) /\ ~Retries(<<>>) /\ Levels(<<>>) = 0
<1>1. <<>> \in Seq(FrameType) /\ Len(<<>>) = 0 /\ 1..0 = {}
  OBVIOUS
<1>2. \A k \in 1..Len(<<>>) : <<>>[k] \notin LevelFrames
  BY <1>1
<1>3. Levels(<<>>) = 0
  BY <1>1, <1>2, CountIsNat DEF Levels
<1> QED BY <1>1, <1>3 DEF Shape, Retries

LEMMA ResetDepth == ASSUME Inv, Reset PROVE DepthInv'
<1>1. it'.depth = 0
  BY Ends DEF Reset, InRange, IteratorType
<1>2. op'.depth = 0 /\ op'.err = "nil" /\ stk' = <<>>
  BY DEF Reset, NoOperation, Idle
<1> QED BY <1>1, <1>2, IdleStack DEF DepthInv, Failing

LEMMA CompleteDepth == ASSUME Inv, DepthInv, Complete PROVE DepthInv'
<1>1. CASE ReadNil
  <2>1. /\ stk # <<>> /\ Top.at = "readNil" /\ Rest /\ tok # None
    BY <1>1 DEF ReadNil, Got, In
  <2>2. LevelOf(Top) = 0 /\ Top.at \notin FloatLabels
    BY <2>1 DEF LevelOf, LevelLabels, FloatLabels
  <2>3. ASSUME NEW bytes \in Seq(Byte), Become(it, Literal(bytes)) PROVE DepthInv'
    BY <2>1, <2>2, <2>3, KeptFacts, LiteralStep
  <2>4. CASE Call(StartCapture(Unread(it)), Frame("skip"), Frame("stopCapture"))
    <3> DEFINE s == StartCapture(Unread(it))
    <3>1. Unread(it) \in IteratorType /\ Kept(Unread(it), 0)
      BY <2>1, Unreads, KeptFacts DEF Same, OK, Good, InRange
    <3>2. s.depth = Unread(it).depth /\ s.err = Unread(it).err
      BY <3>1 DEF StartCapture, IteratorType
    <3>3. Kept(s, 0)
      BY <3>1, <3>2 DEF Kept, Failing
    <3> HIDE DEF s
    <3>4. Call(s, Frame("skip"), Frame("stopCapture"))
      BY <2>4 DEF s
    <3> QED BY <2>1, <2>2, <3>3, <3>4, DepthSteps, PlainList DEF LevelOfLabel, LevelLabels
  <2> QED BY <1>1, <2>3, <2>4, LiteralBytes DEF ReadNil
<1>2. CASE ReturnCaptured
  <2>1. /\ stk # <<>> /\ Top.at = "stopCapture" /\ Return(StopCapture(it)) /\ SameOp
    BY <1>2 DEF ReturnCaptured, In, SameOp, Inv, OperationType
  <2>2. LevelOf(Top) = 0
    BY <2>1 DEF LevelOf, LevelLabels
  <2>3. StopCapture(it).depth = it.depth /\ StopCapture(it).err = it.err
    BY Ends DEF StopCapture, InRange, IteratorType
  <2>4. Kept(StopCapture(it), 0)
    BY <2>3, Ends DEF Kept
  <2>5. Kept(StopCapture(it), -LevelOf(Top))
    BY <2>2, <2>4 DEF Kept
  <2> QED BY <2>1, <2>5, DepthReturn
<1>3. CASE Decoded \/ Trailing \/ Peek \/ Finish
  <2>1. /\ stk # <<>> /\ Top.at \in {"decoded", "trailing", "more", "whatIsNext", "end", "noMore"}
        /\ \E s \in {it, Report(it), Unread(it)} : Return(s)
        /\ SameOp
    BY <1>3 DEF Decoded, Trailing, Peek, Finish, Got, In, SameOp, Rest, Inv, OperationType
  <2>2. LevelOf(Top) = 0
    BY <2>1 DEF LevelOf, LevelLabels
  <2>3. \A s \in {it, Report(it), Unread(it)} : Kept(s, 0)
    BY KeptFacts
  <2>4. \A s \in {it, Report(it), Unread(it)} : Kept(s, -LevelOf(Top))
    BY <2>2, <2>3 DEF Kept
  <2> QED BY <2>1, <2>4, DepthReturn
<1> QED BY <1>1, <1>2, <1>3 DEF Complete

LEMMA DepthInit == ASSUME Init PROVE DepthInv
<1>1. it.depth = 0 /\ it.err = "nil" /\ op.depth = 0 /\ op.err = "nil" /\ stk = <<>>
  BY DEF Init, Fresh, NoOperation
<1> QED BY <1>1, IdleStack DEF DepthInv, Failing

LEMMA DepthNext == ASSUME Inv, DepthInv, [Next]_vars PROVE DepthInv'
<1>1. CASE Load \/ NextToken \/ ReadByte \/ SkipLiteral \/ Skip
  BY <1>1, LoadDepth, NextByteDepth, SkipLiteralDepth, SkipDepth
<1>2. CASE ReadNumbers \/ ReadStrings \/ Complete
  BY <1>2, ReadNumbersDepth, ReadStringsDepth, CompleteDepth
<1>3. CASE ReadArray
  BY <1>3, ReadArrayStartDepth, ReadArrayFirstDepth, ReadArrayNextDepth DEF ReadArray
<1>4. CASE ReadObject
  BY <1>4, ReadObjectStartDepth, ReadObjectFirstDepth, ReadObjectNameDepth, ReadObjectColonDepth,
     ReadObjectNextDepth, ReadObjectKeyDepth DEF ReadObject
<1>5. CASE Begin
  BY <1>5, StartsDepth, ResetDepth DEF Begin
<1>6. CASE UNCHANGED vars
  BY <1>6 DEF vars, DepthInv, Failing
<1> QED BY <1>1, <1>2, <1>3, <1>4, <1>5, <1>6 DEF Next, Run, Pause

LEMMA DepthInvariance == Spec => [](Inv /\ DepthInv)
<1>1. Init => Inv /\ DepthInv
  BY InitInv, DepthInit
<1>2. Inv /\ DepthInv /\ [Next]_vars => (Inv /\ DepthInv)'
  BY NextInv, DepthNext
<1> QED BY <1>1, <1>2, PTL DEF Spec

\* Arrays and objects give back every level they take: ReadVal's nesting check
\* and the end of a call find the depth the operation began with, unless an
\* error is reported (DecrementDepth is not reached on every error path).
THEOREM LevelsReturned == Spec => []DepthRestored
<1>1. Inv /\ DepthInv => DepthRestored
  BY DepthInvImplies
<1> QED BY <1>1, DepthInvariance, PTL

\* The first error other than EOF stays: no operation that begins with one held
\* forgets it or puts another in its place, the number that skipNumber tries
\* again with ReadBigFloat included.
THEOREM ErrorsStay == Spec => []ErrorIsSticky
<1>1. Inv /\ DepthInv => ErrorIsSticky
  BY DepthInvImplies
<1> QED BY <1>1, DepthInvariance, PTL

----------------------------------------------------------------------------
(* Names.                                                                  *)

RawStringType ==
  {r \in [isNil : BOOLEAN, isRaw : BOOLEAN, lo : Nat, hi : Nat, bytes : Seq(Byte),
          from : Nat, to : Nat] : r.isNil => ~r.isRaw}

\* the frames of readRawStringInner and skipFourBytes, the only calls made for a name
StringFrames == {"raw", "rawLoad", "rawWait", "literal"}
Paired(s) == \A k \in 2..Len(s) : s[k].at = "objName" => s[k - 1].at \in StringFrames

\* the RawString r is its text: a view of the buffer, or a copy
Named(s, r) ==
  ~r.isNil =>
    IF r.isRaw THEN /\ s.inputOffset + r.lo = r.from /\ s.inputOffset + r.hi = r.to
                    /\ r.hi <= s.tail
               ELSE r.bytes = SubSeq(input, r.from + 1, r.to)

\* the byte read ahead of the bytes collected, which lead from `from' to n
Ahead == IF tok = None THEN 0 ELSE 1
Gathered(bytes, from, n) == from <= n /\ bytes = SubSeq(input, from + 1, n)
Gathering ==
  /\ In("raw") => Gathered(Top.acc, Top.from, Offset(it))
  /\ In("rawLoad") => Gathered(Top.acc, Top.from, Offset(it) - Ahead)
  /\ In("u4") => /\ Gathered(stk[2].acc \o Top.acc, stk[2].from, Offset(it) - Ahead)
                 /\ tok # None => tok = input[Offset(it)]

\* A name is the text of the input from the opening quote to behind the closing
\* one: what readRawStringInner has collected ends at head, and while the rest of
\* the object's field is waited for the name is a view only if the next token is
\* buffered.
NameInv ==
  /\ rs \in RawStringType
  /\ Paired(stk)
  /\ In("objName") \/ In("objColon") => Named(it, rs)
  /\ In("objColon") /\ tok = None /\ rs.isRaw => HasToken(it)
  /\ In("literal") /\ Len(stk) > 1 /\ stk[2].at = "objName" => rs.isNil
  /\ it.err = "nil" => Gathering

\* the bytes of the buffer are those of the input at its offset
LEMMA WindowBytes ==
  ASSUME Inv, NEW lo \in Nat, NEW hi \in Nat, hi <= it.tail
  PROVE  /\ Bytes(it, lo, hi) = SubSeq(input, it.inputOffset + lo + 1, it.inputOffset + hi)
         /\ Bytes(it, lo, hi) \in Seq(Byte)
         /\ it.inputOffset + hi <= Len(input)
<1> DEFINE b == Bytes(it, lo, hi)
<1>0. InRange(it, source)
  BY Ends
<1>2. /\ b \in Seq(Byte) /\ Len(b) = (IF lo <= hi THEN hi - lo ELSE 0)
      /\ \A i \in 1..(hi - lo) : b[i] = it.buf[lo + i]
  BY <1>0, BytesType
<1> HIDE DEF b
<1> DEFINE o == it.inputOffset
           c == o + lo + 1
           d == o + hi
           t == SubSeq(input, c, d)
<1>1. /\ o \in Nat /\ it.tail \in Nat /\ input \in Seq(Byte) /\ Len(input) \in Nat
      /\ delivered = o + it.tail /\ delivered <= Len(input)
      /\ \A i \in 1..it.tail : it.buf[i] = input[o + i]
  BY Ends DEF Inv, Good, Window
<1>3. c \in Int /\ d \in Int /\ c >= 1 /\ d <= Len(input) /\ d - c + 1 = hi - lo
      /\ (c <= d <=> lo + 1 <= hi)
  BY <1>1, SMTT(30)
<1>4. \A i \in 1..(hi - lo) : lo + i \in 1..it.tail /\ o + (lo + i) = c + i - 1
  BY <1>1
<1> HIDE DEF c, d, o
<1>5. \A i \in c..d : input[i] \in Byte
  BY <1>1, <1>3, ElementOfSeq
<1>6. /\ t \in Seq(Byte) /\ Len(t) = (IF c <= d THEN d - c + 1 ELSE 0)
      /\ \A i \in 1..(d - c + 1) : t[i] = input[c + i - 1]
  BY <1>3, <1>5, SubSeqProperties
<1> HIDE DEF t
<1>7. Len(t) = Len(b)
  BY <1>2, <1>3, <1>6
<1>8. ASSUME NEW i \in 1..Len(b) PROVE b[i] = t[i]
  <2>1. i \in 1..(hi - lo) /\ i \in 1..(d - c + 1)
    BY <1>2, <1>3
  <2> QED BY <1>1, <1>2, <1>4, <1>6, <2>1
<1>9. b = t
  BY <1>2, <1>6, <1>7, <1>8, SeqEqual
<1> QED BY <1>2, <1>3, <1>9 DEF b, t, c, d, o

\* ... so collecting them up to position i collects the input
LEMMA GatherBytes ==
  ASSUME Inv, NEW acc, NEW from \in Nat, Gathered(acc, from, Offset(it)),
         NEW i \in it.head..it.tail
  PROVE  /\ Gathered(acc \o Bytes(it, it.head, i), from, it.inputOffset + i)
         /\ acc = <<>> => from = Offset(it)
<1>1. /\ it.inputOffset \in Nat /\ it.head \in Nat /\ it.tail \in Nat /\ i \in Nat /\ i <= it.tail
      /\ input \in Seq(Byte) /\ Len(input) \in Nat
  BY Ends
<1> DEFINE n == Offset(it)
           m == it.inputOffset + i
<1>2. n = it.inputOffset + it.head /\ n \in Nat /\ from <= n /\ acc = SubSeq(input, from + 1, n)
  BY <1>1 DEF Gathered, Offset
<1>3. m \in Nat /\ n <= m /\ m <= Len(input) /\ Bytes(it, it.head, i) = SubSeq(input, n + 1, m)
  <2>1. /\ Bytes(it, it.head, i) = SubSeq(input, it.inputOffset + it.head + 1, m)
        /\ m <= Len(input)
    BY <1>1, WindowBytes
  <2>2. m \in Nat /\ n <= m
    BY <1>1, <1>2
  <2>3. it.inputOffset + it.head + 1 = n + 1
    BY <1>2
  <2> QED BY <2>1, <2>2, <2>3
<1>9. from <= m
  BY <1>1, <1>2, <1>3
<1> HIDE DEF n, m
<1>4. from + 1 \in 1..(Len(input) + 1) /\ n \in (from + 1 - 1)..Len(input) /\ m \in n..Len(input)
  BY <1>1, <1>2, <1>3, SMTT(30)
<1>5. SubSeq(input, from + 1, n) \o SubSeq(input, n + 1, m) = SubSeq(input, from + 1, m)
  BY <1>1, <1>4, ConcatAdjacentSubSeq
<1>6. acc = <<>> => from = n
  <2>1. \A k \in (from + 1)..n : input[k] \in Byte
    BY <1>1, <1>4, ElementOfSeq
  <2>2. Len(SubSeq(input, from + 1, n)) = IF from + 1 <= n THEN n - (from + 1) + 1 ELSE 0
    BY <1>2, <2>1, SubSeqProperties, from + 1 \in Int, n \in Int
  <2> QED BY <1>2, <2>2
<1>7. acc \o Bytes(it, it.head, i) = SubSeq(input, from + 1, m)
  BY <1>2, <1>3, <1>5
<1> QED BY <1>6, <1>7, <1>9 DEF Gathered, n, m

----------------------------------------------------------------------------
(* Names: the stack.                                                       *)

LEMMA PairedTail ==
  ASSUME NEW s \in Seq(FrameType), s # <<>>, Paired(s)
  PROVE  /\ Paired(Tail(s))
         /\ Tail(s) # <<>> /\ Head(Tail(s)).at = "objName" => Head(s).at \in StringFrames
<1> DEFINE t == Tail(s)
<1>1. /\ t \in Seq(FrameType) /\ Len(t) = Len(s) - 1 /\ Len(s) \in Nat /\ Len(s) >= 1
      /\ \A k \in 1..Len(t) : t[k] = s[k + 1] /\ Head(s) = s[1]
  BY HeadTailProperties
<1> HIDE DEF t
<1>2. ASSUME NEW k \in 2..Len(t), t[k].at = "objName" PROVE t[k - 1].at \in StringFrames
  <2>1. k \in 1..Len(t) /\ k - 1 \in 1..Len(t) /\ (k - 1) + 1 = k /\ k + 1 \in 2..Len(s) /\ (k + 1) - 1 = k
    BY <1>1
  <2>2. t[k] = s[k + 1] /\ t[k - 1] = s[k]
    BY <1>1, <2>1
  <2> QED BY <1>2, <2>1, <2>2 DEF Paired
<1>3. ASSUME t # <<>>, Head(t).at = "objName" PROVE Head(s).at \in StringFrames
  <2>1. 1 \in 1..Len(t) /\ Head(t) = t[1] /\ 2 \in 2..Len(s)
    BY <1>1, <1>3
  <2>2. t[1] = s[2] /\ Head(s) = s[1]
    BY <1>1, <2>1
  <2>3. s[2 - 1].at \in StringFrames
    BY <1>3, <2>1, <2>2 DEF Paired
  <2> QED BY <2>2, <2>3
<1> QED BY <1>2, <1>3 DEF Paired, t

LEMMA PairedCons ==
  ASSUME NEW S, NEW s \in Seq(S), NEW f \in S, Paired(s),
         s # <<>> /\ Head(s).at = "objName" => f.at \in StringFrames
  PROVE  Paired(<<f>> \o s)
<1> DEFINE t == <<f>> \o s
<1>1. /\ t \in Seq(S) /\ Len(t) = Len(s) + 1 /\ t[1] = f /\ Len(s) \in Nat
      /\ \A k \in 2..(Len(s) + 1) : t[k] = s[k - 1]
  <2>1. Len(s) \in Nat
    OBVIOUS
  <2> QED BY <2>1, ConsProperties
<1> HIDE DEF t
<1>2. ASSUME NEW k \in 2..Len(t), t[k].at = "objName" PROVE t[k - 1].at \in StringFrames
  <2>1. k \in 2..(Len(s) + 1) /\ t[k] = s[k - 1] /\ k - 1 \in 1..Len(s)
    BY <1>1
  <2>2. CASE k = 2
    <3>1. s # <<>> /\ Head(s) = s[1] /\ k - 1 = 1
      BY <2>1, <2>2
    <3> QED BY <1>1, <1>2, <2>1, <3>1
  <2>3. CASE k # 2
    <3>1. k - 1 \in 2..(Len(s) + 1) /\ k - 1 \in 2..Len(s)
      BY <1>1, <2>1, <2>3
    <3>2. t[k - 1] = s[k - 1 - 1]
      BY <1>1, <3>1
    <3>3. s[k - 1 - 1].at \in StringFrames
      BY <1>2, <2>1, <3>1 DEF Paired
    <3> QED BY <3>2, <3>3
  <2> QED BY <2>2, <2>3
<1> QED BY <1>2 DEF Paired, t

\* the frames NameInv says something of when they are the innermost
Noisy == {"objName", "objColon", "literal", "raw", "rawLoad", "u4"}

LEMMA NameQuiet ==
  ASSUME rs' \in RawStringType, Paired(stk'), stk' # <<>> => Head(stk').at \notin Noisy
  PROVE  NameInv'
<1>1. \A l \in Noisy : ~(stk' # <<>> /\ Head(stk').at = l)
  OBVIOUS
<1>2. /\ ~(In("objName"))' /\ ~(In("objColon"))' /\ ~(In("literal"))'
      /\ ~(In("raw"))' /\ ~(In("rawLoad"))' /\ ~(In("u4"))'
  BY <1>1 DEF In, Top, Noisy
<1> QED BY <1>2 DEF NameInv, Gathering

\* only a string runs above objName
LEMMA NameBelow ==
  ASSUME Inv, NameInv, stk # <<>>
  PROVE  /\ Tail(stk) \in Seq(FrameType) /\ Paired(Tail(stk))
         /\ Tail(stk) # <<>> /\ Head(Tail(stk)).at = "objName" => Top.at \in StringFrames
         /\ Tail(stk) # <<>> => Head(Tail(stk)).at \in Waiting
<1>1. stk \in Seq(FrameType) /\ StackOK(stk) /\ Paired(stk)
  BY DEF Inv, StackOK, NameInv
<1>2. Tail(stk) \in Seq(FrameType)
  BY <1>1, HeadTailProperties
<1>3. Tail(stk) # <<>> => Head(Tail(stk)).at \in Waiting
  BY <1>1, StackReturn
<1> QED BY <1>1, <1>2, <1>3, PairedTail DEF Top

\* the new stack of Become and Call, whatever the frames
LEMMA Pushed ==
  ASSUME NEW s \in Seq(FrameType), NEW f, Paired(s),
         s # <<>> /\ Head(s).at = "objName" => f.at \in StringFrames
  PROVE  /\ Paired(<<f>> \o s) /\ Head(<<f>> \o s) = f /\ <<f>> \o s # <<>>
         /\ Len(<<f>> \o s) > 1 => s # <<>> /\ (<<f>> \o s)[2] = Head(s)
         /\ \E S : <<f>> \o s \in Seq(S)
<1> DEFINE S == FrameType \cup {f}
<1>1. FrameType \subseteq S /\ f \in S
  OBVIOUS
<1> HIDE DEF S
<1>2. s \in Seq(S)
  BY <1>1, SeqMonotonic
<1> DEFINE t == <<f>> \o s
<1>3. /\ t \in Seq(S) /\ Len(t) = Len(s) + 1 /\ t # <<>> /\ Head(t) = f
      /\ \A k \in 2..(Len(s) + 1) : t[k] = s[k - 1]
  BY <1>1, <1>2, ConsProperties
<1>4. Paired(t)
  BY <1>1, <1>2, PairedCons
<1> HIDE DEF t
<1>5. Len(t) > 1 => s # <<>> /\ t[2] = Head(s)
  <2>1. ASSUME Len(t) > 1 PROVE s # <<>> /\ t[2] = Head(s)
    <3>1. Len(s) \in Nat /\ Len(s) >= 1 /\ 2 \in 2..(Len(s) + 1) /\ 2 - 1 = 1
      BY <1>2, <1>3, <2>1
    <3>2. s # <<>> /\ Head(s) = s[1]
      BY <1>2, <3>1
    <3> QED BY <1>3, <3>1, <3>2
  <2> QED BY <2>1
<1> QED BY <1>3, <1>4, <1>5 DEF t

LEMMA NameReturn ==
  ASSUME Inv, NameInv, stk # <<>>, Top.at \notin StringFrames, stk' = Tail(stk),
         rs' \in RawStringType
  PROVE  NameInv'
<1>1. Paired(stk') /\ (stk' # <<>> => Head(stk').at \in Waiting \ {"objName"})
  BY NameBelow
<1>2. \A l \in Waiting \ {"objName"} : l \notin Noisy
  BY DEF Waiting, Noisy
<1> QED BY <1>1, <1>2, NameQuiet

LEMMA NameReplace ==
  ASSUME Inv, NameInv, stk # <<>>, Top.at \notin StringFrames, NEW f,
         stk' = <<f>> \o Tail(stk), f.at \notin Noisy \ {"literal"}, rs' \in RawStringType
  PROVE  NameInv'
<1>1. /\ Paired(stk') /\ Head(stk') = f
      /\ Len(stk') > 1 => Tail(stk) # <<>> /\ stk'[2] = Head(Tail(stk))
  BY NameBelow, Pushed
<1>2. ~(Tail(stk) # <<>> /\ Head(Tail(stk)).at = "objName")
  BY NameBelow
<1>3. CASE f.at \notin Noisy
  BY <1>1, <1>3, NameQuiet
<1>4. CASE f.at = "literal"
  <2>1. \A l \in Noisy \ {"literal"} : ~(In(l))'
    BY <1>1, <1>4 DEF In, Top
  <2>2. /\ ~(In("objName"))' /\ ~(In("objColon"))' /\ ~(In("raw"))' /\ ~(In("rawLoad"))' /\ ~(In("u4"))'
    BY <1>1, <1>4 DEF In, Top
  <2>3. ~(Len(stk') > 1 /\ stk'[2].at = "objName")
    BY <1>1, <1>2
  <2> QED BY <1>1, <2>2, <2>3 DEF NameInv, Gathering
<1> QED BY <1>3, <1>4

LEMMA NamePush ==
  ASSUME Inv, NameInv, stk # <<>>, Top.at \notin StringFrames, NEW f, NEW g,
         stk' = <<f, g>> \o Tail(stk), f.at \notin Noisy, g.at # "objName",
         rs' \in RawStringType
  PROVE  NameInv'
<1> DEFINE t == Tail(stk)
           u == <<g>> \o t
<1>1. t \in Seq(FrameType) /\ Paired(t) /\ ~(t # <<>> /\ Head(t).at = "objName")
  BY NameBelow
<1> HIDE DEF t
<1>2. Paired(u) /\ Head(u) = g
  BY <1>1, Pushed
<1>3. stk' = <<f>> \o u
  BY <1>1, ConsTwo DEF t
<1> DEFINE S == FrameType \cup {f, g}
<1>4. f \in S /\ u \in Seq(S)
  <2>1. FrameType \subseteq S /\ g \in S /\ f \in S
    OBVIOUS
  <2> HIDE DEF S
  <2>2. t \in Seq(S)
    BY <1>1, <2>1, SeqMonotonic
  <2> QED BY <2>1, <2>2, ConsProperties
<1> HIDE DEF u, S
<1>5. Paired(stk') /\ Head(stk') = f
  <2>1. ~(u # <<>> /\ Head(u).at = "objName")
    BY <1>2
  <2>2. Paired(<<f>> \o u)
    BY <1>2, <1>4, <2>1, PairedCons
  <2>3. Head(<<f>> \o u) = f
    BY <1>4, ConsProperties
  <2> QED BY <1>3, <2>2, <2>3
<1> QED BY <1>5, NameQuiet

\* a string that starts at head has collected nothing yet
LEMMA NameStart ==
  ASSUME NEW s, Offset(s) \in Nat
  PROVE  /\ RawFrame(s).at = "raw"
         /\ Gathered(RawFrame(s).acc, RawFrame(s).from, Offset(s))
<1> DEFINE n == Offset(s)
<1>1. RawFrame(s).at = "raw" /\ RawFrame(s).acc = <<>> /\ RawFrame(s).from = n
  BY DEF RawFrame, Frame
<1>2. n \in Int /\ n + 1 \in Int /\ n < n + 1 /\ n <= n
  OBVIOUS
<1> HIDE DEF n
<1>3. SubSeq(input, n + 1, n) = <<>>
  BY <1>2, SubSeqEmpty
<1> QED BY <1>1, <1>2, <1>3 DEF Gathered, n

LEMMA NameRaw ==
  ASSUME Paired(stk'), stk' # <<>>, Head(stk') = RawFrame(it'), Offset(it') \in Nat,
         rs' \in RawStringType, input' = input
  PROVE  NameInv'
<1>1. /\ Head(stk').at = "raw"
      /\ Gathered(Head(stk').acc, Head(stk').from, Offset(it'))
  BY NameStart
<1>2. /\ ~(In("objName"))' /\ ~(In("objColon"))' /\ ~(In("literal"))'
      /\ ~(In("rawLoad"))' /\ ~(In("u4"))'
  BY <1>1 DEF In, Top
<1>3. (Gathered(Top.acc, Top.from, Offset(it)))'
  BY <1>1 DEF Gathered, Top
<1> QED BY <1>2, <1>3 DEF NameInv, Gathering

LEMMA NameSteps ==
  ASSUME Inv, NameInv, stk # <<>>, Top.at \notin StringFrames, rs' \in RawStringType, NEW s
  PROVE  /\ Return(s) => NameInv'
         /\ \A l : l \notin Noisy /\ Become(s, Frame(l)) => NameInv'
         /\ \A bytes : Become(s, Literal(bytes)) => NameInv'
         /\ \A l, m : l \notin Noisy /\ m # "objName" /\ Call(s, Frame(l), Frame(m)) => NameInv'
         /\ Become(s, RawFrame(s)) /\ Offset(s) \in Nat /\ input' = input => NameInv'
<1>1. Return(s) => NameInv'
  BY NameReturn DEF Return
<1>2. ASSUME NEW l, l \notin Noisy, Become(s, Frame(l)) PROVE NameInv'
  <2>1. Frame(l).at \notin Noisy \ {"literal"} /\ stk' = <<Frame(l)>> \o Tail(stk)
    BY <1>2 DEF Frame, Become
  <2> QED BY <2>1, NameReplace
<1>3. ASSUME NEW bytes, Become(s, Literal(bytes)) PROVE NameInv'
  <2>1. Literal(bytes).at \notin Noisy \ {"literal"} /\ stk' = <<Literal(bytes)>> \o Tail(stk)
    BY <1>3 DEF Literal, Frame, Become
  <2> QED BY <2>1, NameReplace
<1>4. ASSUME NEW l, NEW m, l \notin Noisy, m # "objName", Call(s, Frame(l), Frame(m)) PROVE NameInv'
  <2>1. Frame(l).at \notin Noisy /\ Frame(m).at # "objName" /\ stk' = <<Frame(l), Frame(m)>> \o Tail(stk)
    BY <1>4 DEF Frame, Call
  <2> QED BY <2>1, NamePush
<1>5. ASSUME Become(s, RawFrame(s)), Offset(s) \in Nat, input' = input PROVE NameInv'
  <2> DEFINE f == RawFrame(s)
  <2>1. f.at \in StringFrames /\ it' = s /\ stk' = <<f>> \o Tail(stk)
    BY <1>5 DEF RawFrame, Frame, StringFrames, Become
  <2> HIDE DEF f
  <2>2. Paired(stk') /\ stk' # <<>> /\ Head(stk') = f
    BY <2>1, NameBelow, Pushed
  <2> QED BY <1>5, <2>1, <2>2, NameRaw DEF f
<1> QED BY <1>1, <1>2, <1>3, <1>4, <1>5

\* the frames handlers leave behind
LEMMA QuietList ==
  {"skip", "arr", "arrFirst", "arrNext", "obj", "objFirst", "objKey", "objNext", "float32",
   "float64", "positiveFloat32", "positiveFloat64", "number", "slowFloat32", "slowFloat64", "skipNumber", "bigFloat", "numberLoad",
   "readNil", "firstLoad", "noMore", "more", "whatIsNext", "stopCapture", "decoded",
   "trailing", "end"} \cap Noisy = {}
BY DEF Noisy

LEMMA NilStringTyped == NilString \in RawStringType /\ NilString.isNil
BY DEF NilString, RawStringType

LEMMA ReadArrayName == ASSUME Inv, NameInv, ReadArray PROVE NameInv'
<1>1. /\ stk # <<>> /\ Top.at \notin StringFrames /\ rs' \in RawStringType
  BY DEF ReadArray, ReadArrayStart, ReadArrayFirst, ReadArrayNext, Got, In, Registers, NameInv,
     StringFrames
<1>2. \A s : /\ Return(s) => NameInv'
             /\ \A l : l \notin Noisy /\ Become(s, Frame(l)) => NameInv'
             /\ \A bytes : Become(s, Literal(bytes)) => NameInv'
             /\ \A l, m : l \notin Noisy /\ m # "objName" /\ Call(s, Frame(l), Frame(m)) => NameInv'
  BY <1>1, NameSteps
<1>3. CASE ReadArrayStart
  BY <1>2, <1>3, QuietList DEF ReadArrayStart
<1>4. CASE ReadArrayFirst \/ ReadArrayNext
  BY <1>2, <1>4, QuietList DEF ReadArrayFirst, ReadArrayNext
<1> QED BY <1>3, <1>4 DEF ReadArray

LEMMA ReadNumbersName == ASSUME Inv, NameInv, ReadNumbers PROVE NameInv'
<1>1. /\ stk # <<>> /\ Top.at \notin StringFrames /\ rs' \in RawStringType
  BY DEF ReadNumbers, SkipNumberAgain, ReadFloat, ReadPositiveFloat, ReadNumberAsBytes, SlowFloat,
     ReadBigFloat, Got, In, Registers, NameInv, StringFrames
<1>2. \A s : /\ Return(s) => NameInv'
             /\ \A l : l \notin Noisy /\ Become(s, Frame(l)) => NameInv'
             /\ \A l, m : l \notin Noisy /\ m # "objName" /\ Call(s, Frame(l), Frame(m)) => NameInv'
  BY <1>1, NameSteps
<1>3. CASE SkipNumberAgain \/ ReadFloat \/ SlowFloat \/ ReadBigFloat
  BY <1>2, <1>3, QuietList DEF SkipNumberAgain, ReadFloat, SlowFloat, ReadBigFloat
<1>4. CASE ReadPositiveFloat
  BY <1>2, <1>4, QuietList DEF ReadPositiveFloat
<1>5. CASE ReadNumberAsBytes
  <2>1. CASE \E b, s : ReadNumberDone(b, s)
    BY <1>2, <2>1 DEF ReadNumberDone
  <2>2. ASSUME NEW b, Become(it, [Frame("numberLoad") EXCEPT !.acc = b]) PROVE NameInv'
    <3> DEFINE f == [Frame("numberLoad") EXCEPT !.acc = b]
    <3>1. f.at \notin Noisy \ {"literal"} /\ stk' = <<f>> \o Tail(stk)
      BY <2>2 DEF Frame, Become, Noisy
    <3> HIDE DEF f
    <3> QED BY <1>1, <3>1, NameReplace
  <2> QED BY <1>5, <2>1, <2>2 DEF ReadNumberAsBytes
<1> QED BY <1>3, <1>4, <1>5 DEF ReadNumbers

LEMMA SkipLiteralName == ASSUME Inv, NameInv, SkipLiteral PROVE NameInv'
<1>1. /\ stk # <<>> /\ Top.at = "literal" /\ rs' = rs /\ rs \in RawStringType
      /\ Got("literal")
  BY DEF SkipLiteral, Got, In, Registers, NameInv
<1> DEFINE t == Tail(stk)
<1>2. /\ t \in Seq(FrameType) /\ Paired(t) /\ (t # <<>> => Head(t).at \in Waiting)
  BY <1>1, NameBelow
<1>3. t # <<>> /\ Head(t).at = "objName" => rs.isNil
  <2>1. ASSUME t # <<>>, Head(t).at = "objName" PROVE rs.isNil
    <3>1. /\ stk \in Seq(FrameType) /\ Len(t) = Len(stk) - 1 /\ \A i \in 1..Len(t) : t[i] = stk[i + 1]
      BY <1>1, HeadTailProperties DEF Inv, StackOK
    <3>2. Len(t) \in Nat /\ Len(t) >= 1 /\ Head(t) = t[1] /\ 1 \in 1..Len(t)
      BY <1>2, <2>1
    <3>3. Len(stk) > 1 /\ Head(t) = stk[2]
      BY <3>1, <3>2
    <3> QED BY <1>1, <2>1, <3>3 DEF NameInv, In
  <2> QED BY <2>1
<1>4. ASSUME NEW s, Return(s) PROVE NameInv'
  <2>1. stk' = t
    BY <1>4 DEF Return
  <2> HIDE DEF t
  <2>2. CASE t # <<>> /\ Head(t).at = "objName"
    <3>1. rs'.isNil
      BY <1>1, <1>3, <2>2
    <3>2. /\ ~(In("objColon"))' /\ ~(In("literal"))' /\ ~(In("raw"))' /\ ~(In("rawLoad"))' /\ ~(In("u4"))'
      BY <2>1, <2>2 DEF In, Top
    <3>3. (Named(it, rs))'
      BY <3>1 DEF Named
    <3> QED BY <1>1, <1>2, <2>1, <3>2, <3>3 DEF NameInv, Gathering, Named
  <2>3. CASE ~(t # <<>> /\ Head(t).at = "objName")
    <3>1. \A l \in Waiting \ {"objName"} : l \notin Noisy
      BY DEF Waiting, Noisy
    <3> QED BY <1>1, <1>2, <2>1, <2>3, <3>1, NameQuiet
  <2> QED BY <2>2, <2>3
<1>5. ASSUME NEW s, NEW bytes, Become(s, Literal(bytes)) PROVE NameInv'
  <2> DEFINE f == Literal(bytes)
  <2>1. f.at = "literal" /\ f.at \in StringFrames /\ stk' = <<f>> \o t
    BY <1>5 DEF Literal, Frame, StringFrames, Become
  <2> HIDE DEF f, t
  <2>2. /\ Paired(stk') /\ stk' # <<>> /\ Head(stk') = f
        /\ Len(stk') > 1 => t # <<>> /\ stk'[2] = Head(t)
    BY <1>2, <2>1, Pushed
  <2>3. /\ ~(In("objName"))' /\ ~(In("objColon"))' /\ ~(In("raw"))' /\ ~(In("rawLoad"))' /\ ~(In("u4"))'
    BY <2>1, <2>2 DEF In, Top
  <2>4. Len(stk') > 1 /\ stk'[2].at = "objName" => rs'.isNil
    BY <1>1, <1>3, <2>2
  <2> QED BY <1>1, <2>2, <2>3, <2>4 DEF NameInv, Gathering
<1> HIDE DEF t
<1> QED BY <1>4, <1>5 DEF SkipLiteral

LEMMA SkipName == ASSUME Inv, NameInv, Skip PROVE NameInv'
<1>1. /\ stk # <<>> /\ Top.at \notin StringFrames /\ rs' \in RawStringType /\ input' = input
  BY DEF Skip, Got, In, Registers, Rest, NameInv, StringFrames
<1>2. \A s : /\ Return(s) => NameInv'
             /\ \A l : l \notin Noisy /\ Become(s, Frame(l)) => NameInv'
             /\ \A bytes : Become(s, Literal(bytes)) => NameInv'
             /\ \A l, m : l \notin Noisy /\ m # "objName" /\ Call(s, Frame(l), Frame(m)) => NameInv'
             /\ Become(s, RawFrame(s)) /\ Offset(s) \in Nat => NameInv'
  BY <1>1, NameSteps
<1>3. CASE SkipString(it)
  <2>1. \A p \in it.head..it.tail : Offset(SetHead(it, p)) \in Nat
    BY Ends DEF SetHead, Offset, InRange, IteratorType
  <2>2. Offset(it) \in Nat
    BY Ends DEF Offset
  <2> QED BY <1>2, <1>3, <2>1, <2>2 DEF SkipString
<1>4. CASE SkipNumber(it)
  BY <1>2, <1>4, QuietList DEF SkipNumber
<1>5. CASE \/ Become(it, Literal(<<"u", "l", "l">>)) \/ Become(it, Literal(<<"r", "u", "e">>))
           \/ Become(it, Literal(<<"a", "l", "s", "e">>))
  BY <1>2, <1>5
<1>6. CASE \/ Become(Unread(it), Frame("float32")) \/ Become(Unread(it), Frame("arr"))
           \/ Become(Unread(it), Frame("obj")) \/ Return(Report(Unread(it)))
  BY <1>2, <1>6, QuietList
<1> QED BY <1>3, <1>4, <1>5, <1>6 DEF Skip

\* the name after a brace or a comma
LEMMA NameCall ==
  ASSUME Inv, NameInv, stk # <<>>, Top.at \notin StringFrames, NEW f,
         stk' = <<f, Frame("objName")>> \o Tail(stk), rs' \in RawStringType, input' = input,
         \/ f = RawFrame(it') /\ Offset(it') \in Nat
         \/ f.at = "literal" /\ rs'.isNil
  PROVE  NameInv'
<1> DEFINE t == Tail(stk)
           g == Frame("objName")
           u == <<g>> \o t
           S == FrameType \cup {f, g}
<1>1. t \in Seq(FrameType) /\ Paired(t) /\ ~(t # <<>> /\ Head(t).at = "objName")
  BY NameBelow
<1>2. f.at \in StringFrames /\ g.at = "objName"
  BY DEF RawFrame, Frame, StringFrames
<1> HIDE DEF t, g
<1>3. Paired(u) /\ u # <<>> /\ Head(u) = g
  BY <1>1, Pushed
<1>4. stk' = <<f>> \o u
  BY <1>1, ConsTwo DEF t, g
<1>5. f \in S /\ u \in Seq(S)
  <2>1. FrameType \subseteq S /\ g \in S /\ f \in S
    OBVIOUS
  <2> HIDE DEF S
  <2>2. t \in Seq(S)
    BY <1>1, <2>1, SeqMonotonic
  <2> QED BY <2>1, <2>2, ConsProperties
<1> HIDE DEF u, S
<1>6. /\ Paired(stk') /\ stk' # <<>> /\ Head(stk') = f
  <2>1. Paired(<<f>> \o u)
    BY <1>2, <1>3, <1>5, PairedCons
  <2>2. Head(<<f>> \o u) = f /\ <<f>> \o u # <<>>
    BY <1>5, ConsProperties
  <2> QED BY <1>4, <2>1, <2>2
<1>7. CASE f = RawFrame(it') /\ Offset(it') \in Nat
  BY <1>6, <1>7, NameRaw
<1>8. CASE f.at = "literal" /\ rs'.isNil
  <2>1. /\ ~(In("objName"))' /\ ~(In("objColon"))' /\ ~(In("raw"))' /\ ~(In("rawLoad"))' /\ ~(In("u4"))'
    BY <1>6, <1>8 DEF In, Top
  <2> QED BY <1>6, <1>8, <2>1 DEF NameInv, Gathering
<1> QED BY <1>7, <1>8

LEMMA ReadObjectName1 ==
  ASSUME Inv, NameInv,
         ReadObjectStart \/ ReadObjectFirst \/ ReadObjectColon \/ ReadObjectNext \/ ReadObjectKey
  PROVE  NameInv'
<1>0. Offset(it) \in Nat
  BY Ends DEF Offset
<1>1. /\ stk # <<>> /\ Top.at \notin StringFrames /\ input' = input
  BY DEF ReadObjectStart, ReadObjectFirst, ReadObjectColon, ReadObjectNext, ReadObjectKey, Got, In,
     Rest, StringFrames
<1>2. rs' \in RawStringType
  BY NilStringTyped DEF ReadObjectStart, ReadObjectFirst, ReadObjectColon, ReadObjectNext, ReadObjectKey,
     Registers, NameInv
<1>3. \A s : /\ Return(s) => NameInv'
             /\ \A l : l \notin Noisy /\ Become(s, Frame(l)) => NameInv'
             /\ \A bytes : Become(s, Literal(bytes)) => NameInv'
             /\ \A l, m : l \notin Noisy /\ m # "objName" /\ Call(s, Frame(l), Frame(m)) => NameInv'
  BY <1>1, <1>2, NameSteps
<1>4. CASE Call(it, RawFrame(it), Frame("objName"))
  <2>1. stk' = <<RawFrame(it'), Frame("objName")>> \o Tail(stk) /\ it' = it
    BY <1>4 DEF Call
  <2> QED BY <1>0, <1>1, <1>2, <2>1, NameCall
<1>5. CASE ReadObjectStart
  BY <1>3, <1>5, QuietList DEF ReadObjectStart
<1>6. CASE ReadObjectFirst
  BY <1>3, <1>4, <1>6 DEF ReadObjectFirst
<1>7. CASE ReadObjectColon \/ ReadObjectNext
  BY <1>3, <1>7, QuietList DEF ReadObjectColon, ReadObjectNext
<1>8. CASE ReadObjectKey
  <2>1. ASSUME Call(it, Literal(<<"u", "l", "l">>), Frame("objName")), rs' = NilString PROVE NameInv'
    <3> DEFINE f == Literal(<<"u", "l", "l">>)
    <3>1. f.at = "literal" /\ stk' = <<f, Frame("objName")>> \o Tail(stk)
      BY <2>1 DEF Literal, Frame, Call
    <3> HIDE DEF f
    <3> QED BY <1>1, <1>2, <2>1, <3>1, NilStringTyped, NameCall
  <2>2. ASSUME Become(Report(Unread(it)), Frame("objName")), rs' = NilString PROVE NameInv'
    <3> DEFINE f == Frame("objName")
    <3>1. f.at = "objName" /\ stk' = <<f>> \o Tail(stk)
      BY <2>2 DEF Frame, Become
    <3> HIDE DEF f
    <3>2. ~(Tail(stk) # <<>> /\ Head(Tail(stk)).at = "objName") /\ Tail(stk) \in Seq(FrameType) /\ Paired(Tail(stk))
      BY <1>1, NameBelow
    <3>3. Paired(stk') /\ stk' # <<>> /\ Head(stk') = f
      BY <3>1, <3>2, Pushed
    <3>4. /\ ~(In("objColon"))' /\ ~(In("literal"))' /\ ~(In("raw"))' /\ ~(In("rawLoad"))' /\ ~(In("u4"))'
      BY <3>1, <3>3 DEF In, Top
    <3>5. (Named(it, rs))'
      BY <2>2, NilStringTyped DEF Named
    <3> QED BY <1>2, <3>3, <3>4, <3>5 DEF NameInv, Gathering
  <2> QED BY <1>4, <1>8, <2>1, <2>2 DEF ReadObjectKey
<1> QED BY <1>5, <1>6, <1>7, <1>8

LEMMA ReadObjectName2 == ASSUME Inv, NameInv, ReadObjectName PROVE NameInv'
<1>1. /\ stk # <<>> /\ Top.at = "objName" /\ rs \in RawStringType /\ Named(it, rs) /\ input' = input
  BY DEF ReadObjectName, In, NameInv, Rest
<1> DEFINE f == Frame("objColon")
<1>2. f.at = "objColon" /\ ~(Tail(stk) # <<>> /\ Head(Tail(stk)).at = "objName")
      /\ Tail(stk) \in Seq(FrameType) /\ Paired(Tail(stk))
  BY <1>1, NameBelow DEF Frame, StringFrames
<1> HIDE DEF f
<1>3. ASSUME NEW s, Become(s, f), rs' \in RawStringType, (Named(it, rs))', rs'.isRaw => HasToken(s)
      PROVE  NameInv'
  <2>1. it' = s /\ stk' = <<f>> \o Tail(stk)
    BY <1>3 DEF Become
  <2>2. Paired(stk') /\ Head(stk') = f
    BY <1>2, <2>1, Pushed
  <2>3. /\ ~(In("objName"))' /\ ~(In("literal"))' /\ ~(In("raw"))' /\ ~(In("rawLoad"))' /\ ~(In("u4"))'
    BY <1>2, <2>2 DEF In, Top
  <2>4. rs'.isRaw => (HasToken(it))'
    BY <1>3, <2>1 DEF HasToken, IsToken, IsFirstOutside, At
  <2> QED BY <1>3, <2>2, <2>3, <2>4 DEF NameInv, Gathering
<1>4. ASSUME NEW p \in it.head..it.tail, IsToken(it, p), Become(SetHead(it, p), f), rs' = rs
      PROVE  NameInv'
  <2> DEFINE s == SetHead(it, p)
  <2>1. /\ s.inputOffset = it.inputOffset /\ s.tail = it.tail /\ s.head = p /\ s.buf = it.buf
        /\ p \in Nat /\ it.tail \in Nat
    BY Ends DEF SetHead, InRange, IteratorType
  <2>2. HasToken(s)
    <3>1. p < s.tail /\ At(s, p) \notin {Space} /\ p \in s.head..s.tail
      BY <1>4, <2>1 DEF IsToken, IsFirstOutside, At
    <3>2. IsFirstOutside(s, s.head, {Space}, p)
      BY <2>1, <3>1 DEF IsFirstOutside
    <3> QED BY <3>1, <3>2 DEF HasToken, IsToken
  <2>3. it' = s
    BY <1>4 DEF Become
  <2> HIDE DEF s
  <2>4. (Named(it, rs))'
    BY <1>1, <1>4, <2>1, <2>3 DEF Named
  <2> QED BY <1>1, <1>3, <1>4, <2>2, <2>4 DEF s
<1>5. ASSUME ~HasToken(it), Become(it, f),
             rs' = IF rs.isRaw THEN [rs EXCEPT !.isRaw = FALSE, !.bytes = Text(rs)] ELSE rs
      PROVE  NameInv'
  <2>1. it' = it
    BY <1>5 DEF Become
  <2>2. CASE ~rs.isRaw
    <3>1. (Named(it, rs))' /\ rs' = rs
      BY <1>1, <1>5, <2>1, <2>2 DEF Named
    <3> QED BY <1>1, <1>3, <1>5, <2>2, <3>1
  <2>3. CASE rs.isRaw
    <3> DEFINE b == Text(rs)
    <3>1. rs.lo \in Nat /\ rs.hi \in Nat /\ b = Bytes(it, rs.lo, rs.hi) /\ rs.from \in Nat /\ rs.to \in Nat
      BY <1>1, <2>3 DEF RawStringType, Text
    <3> HIDE DEF b
    <3>2. ~rs.isNil => /\ it.inputOffset + rs.lo = rs.from /\ it.inputOffset + rs.hi = rs.to
                       /\ rs.hi <= it.tail
      BY <1>1, <2>3 DEF Named
    <3>3. b \in Seq(Byte)
      BY <1>1, <2>3, <3>1, <3>2, WindowBytes DEF RawStringType
    <3>4. ~rs.isNil => b = SubSeq(input, rs.from + 1, rs.to)
      BY <3>1, <3>2, WindowBytes
    <3>5. rs' = [rs EXCEPT !.isRaw = FALSE, !.bytes = b]
      BY <1>5, <2>3 DEF b
    <3>6. /\ rs' \in RawStringType /\ rs'.isRaw = FALSE /\ rs'.bytes = b /\ rs'.isNil = rs.isNil
          /\ rs'.from = rs.from /\ rs'.to = rs.to
      BY <1>1, <3>3, <3>5 DEF RawStringType
    <3>7. (Named(it, rs))'
      BY <1>1, <3>4, <3>6 DEF Named
    <3> QED BY <1>3, <1>5, <3>6, <3>7
  <2> QED BY <2>2, <2>3
<1> QED BY <1>4, <1>5 DEF ReadObjectName, f

----------------------------------------------------------------------------
(* Names: the string.                                                      *)

\* a string goes on: f takes the place of the innermost frame
LEMMA NameGoesOn ==
  ASSUME Inv, NameInv, stk # <<>>, NEW s, NEW f, Become(s, f), f.at \in {"raw", "rawLoad"},
         rs' = rs, Offset(s) \in Nat, input' = input, s.err = "nil" => Gathered(f.acc, f.from, Offset(s))
  PROVE  NameInv'
<1>1. f.at \in StringFrames /\ it' = s /\ stk' = <<f>> \o Tail(stk) /\ tok' = None
  BY DEF StringFrames, Become
<1>2. Paired(stk') /\ Head(stk') = f
  BY <1>1, NameBelow, Pushed
<1>3. ~(In("objName"))' /\ ~(In("objColon"))' /\ ~(In("literal"))' /\ ~(In("u4"))'
  BY <1>2 DEF In, Top
<1>4. s.err = "nil" => /\ (Gathered(Top.acc, Top.from, Offset(it)))'
                       /\ (Gathered(Top.acc, Top.from, Offset(it) - Ahead))'
  <2>1. Ahead' = 0
    BY <1>1 DEF Ahead
  <2>2. Offset(it') - Ahead' = Offset(it')
    BY <1>1, <2>1
  <2>3. Top' = f /\ Offset(it') = Offset(s)
    BY <1>1, <1>2 DEF Top
  <2>4. f.acc = Top'.acc /\ f.from = Top'.from
    BY <2>3
  <2> QED BY <2>2, <2>3, <2>4 DEF Gathered
<1>5. rs' \in RawStringType
  BY DEF NameInv
<1> QED BY <1>1, <1>2, <1>3, <1>4, <1>5 DEF NameInv, Gathering

\* the string ends: its caller gets the RawString
LEMMA NameEnds ==
  ASSUME Inv, NameInv, stk # <<>>, NEW s, Return(s), rs' \in RawStringType, (Named(it, rs))'
  PROVE  NameInv'
<1>1. Paired(stk') /\ (stk' # <<>> => Head(stk').at \in Waiting)
  BY NameBelow DEF Return
<1>2. /\ ~(In("objColon"))' /\ ~(In("literal"))' /\ ~(In("raw"))' /\ ~(In("rawLoad"))' /\ ~(In("u4"))'
  BY <1>1 DEF In, Top, Waiting
<1> QED BY <1>1, <1>2 DEF NameInv, Gathering

LEMMA NameFails ==
  ASSUME Inv, NameInv, stk # <<>>, NEW s, RawStringFails(s)
  PROVE  NameInv'
<1>1. rs' = NilString /\ Return(Report(s))
  BY DEF RawStringFails
<1>2. rs' \in RawStringType /\ (Named(it, rs))'
  BY <1>1, NilStringTyped DEF Named
<1> QED BY <1>1, <1>2, NameEnds

LEMMA RawStringEndsName ==
  ASSUME Inv, NameInv, In("raw"), it.err = "nil", Top.i < it.tail, RawStringEnds, Rest
  PROVE  NameInv'
<1> DEFINE i == Top.i + 1
           n == it.inputOffset + Top.i + 1
           b == Top.acc \o Bytes(it, it.head, i)
<1>1. /\ stk # <<>> /\ Top.at = "raw" /\ Top.i \in it.head..it.tail /\ Top \in FrameType
      /\ Top.acc \in Seq(Byte) /\ Top.from \in Nat /\ it.head \in Nat /\ it.tail \in Nat
      /\ it.inputOffset \in Nat /\ Top.i \in Nat
  BY TopProperties, Ends DEF In, Inv
<1>2. i \in it.head..it.tail /\ i \in Nat /\ n \in Nat /\ i <= it.tail /\ it.inputOffset + i = n
  <2>1. /\ Top.i \in it.head..it.tail /\ it.head \in Nat /\ it.tail \in Nat
        /\ it.inputOffset \in Nat /\ Top.i \in Nat
    BY <1>1
  <2> QED BY <2>1
<1>3. Gathered(Top.acc, Top.from, Offset(it))
  BY DEF NameInv, Gathering
<1>4. Gathered(b, Top.from, n) /\ (Top.acc = <<>> => Top.from = Offset(it)) /\ b \in Seq(Byte)
  <2>1. Gathered(b, Top.from, it.inputOffset + i) /\ (Top.acc = <<>> => Top.from = Offset(it))
    BY <1>1, <1>2, <1>3, GatherBytes
  <2>2. b \in Seq(Byte)
    BY <1>1, <1>2, RawAcc
  <2> QED BY <1>2, <2>1, <2>2
<1>5. it' = SetHead(it, i) /\ Return(SetHead(it, i))
  BY DEF RawStringEnds, Return
<1>6. rs' = IF Top.acc = <<>>
              THEN [NilString EXCEPT !.isNil = FALSE, !.isRaw = TRUE, !.lo = it.head, !.hi = i,
                                     !.from = Top.from, !.to = n]
              ELSE [NilString EXCEPT !.isNil = FALSE, !.bytes = b, !.from = Top.from, !.to = n]
  BY <1>1 DEF RawStringEnds
<1>7. it'.inputOffset = it.inputOffset /\ it'.tail = it.tail
  BY <1>5, Ends DEF SetHead, InRange, IteratorType
<1> HIDE DEF i, n, b
<1>8. rs' \in RawStringType
  BY <1>1, <1>2, <1>4, <1>6 DEF NilString, RawStringType
<1>9. (Named(it, rs))'
  <2>1. CASE Top.acc = <<>>
    <3>1. /\ rs'.isRaw /\ rs'.lo = it.head /\ rs'.hi = i /\ rs'.from = Top.from /\ rs'.to = n
      BY <1>6, <2>1 DEF NilString
    <3>2. it.inputOffset + it.head = Top.from /\ it.inputOffset + i = n
      BY <1>1, <1>2, <1>4, <2>1 DEF Offset
    <3> QED BY <1>2, <1>7, <3>1, <3>2 DEF Named
  <2>2. CASE Top.acc # <<>>
    <3>1. ~rs'.isRaw /\ rs'.bytes = b /\ rs'.from = Top.from /\ rs'.to = n
      BY <1>6, <2>2 DEF NilString
    <3>2. b = SubSeq(input, Top.from + 1, n) /\ input' = input
      BY <1>4 DEF Gathered, Rest
    <3> QED BY <3>1, <3>2 DEF Named
  <2> QED BY <2>1, <2>2
<1> QED BY <1>1, <1>5, <1>8, <1>9, NameEnds

LEMMA RawStringUnicodeName ==
  ASSUME Inv, NameInv, In("raw"), it.err = "nil", Top.i < it.tail, RawStringUnicode, Rest
  PROVE  NameInv'
<1>1. /\ stk # <<>> /\ Top.at = "raw" /\ Top.i \in it.head..it.tail /\ Top \in FrameType
      /\ Top.acc \in Seq(Byte) /\ Top.from \in Nat /\ it.head \in Nat /\ it.tail \in Nat
      /\ it.inputOffset \in Nat /\ Top.i \in Nat
  BY TopProperties, Ends DEF In, Inv
<1>2. Gathered(Top.acc, Top.from, Offset(it)) /\ input' = input
  BY DEF NameInv, Gathering, Rest
<1>3. ASSUME NEW i \in it.head..it.tail, i \in Nat
      PROVE  /\ Gathered(Top.acc \o Bytes(it, it.head, i), Top.from, Offset(SetHead(it, i)))
             /\ Top.acc \o Bytes(it, it.head, i) \in Seq(Byte)
             /\ Offset(SetHead(it, i)) \in Nat /\ SetHead(it, i).err = it.err
  <2>1. Offset(SetHead(it, i)) = it.inputOffset + i /\ SetHead(it, i).err = it.err
    BY Ends DEF SetHead, Offset, InRange, IteratorType
  <2>2. i <= it.tail /\ it.inputOffset + i \in Nat
    BY <1>1, <1>3
  <2>3. Gathered(Top.acc \o Bytes(it, it.head, i), Top.from, it.inputOffset + i)
    BY <1>1, <1>2, GatherBytes
  <2>4. Top.acc \o Bytes(it, it.head, i) \in Seq(Byte)
    BY <1>1, <1>3, <2>2, RawAcc
  <2> QED BY <2>1, <2>2, <2>3, <2>4
<1>4. ASSUME NEW s, RawStringFails(s) PROVE NameInv'
  BY <1>1, <1>4, NameFails
<1>5. CASE /\ Top.i + 4 < it.tail
           /\ Become(SetHead(it, Top.i + 5),
                     [Top EXCEPT !.esc = FALSE, !.i = Top.i + 5,
                                 !.acc = @ \o Bytes(it, it.head, Top.i + 5)])
           /\ UNCHANGED rs
  <2> DEFINE i == Top.i + 5
             b == Top.acc \o Bytes(it, it.head, i)
             f == [Top EXCEPT !.esc = FALSE, !.i = i, !.acc = b]
             s == SetHead(it, i)
  <2>1. i \in it.head..it.tail /\ i \in Nat
    BY <1>1, <1>5
  <2>2. Gathered(b, Top.from, Offset(s)) /\ Offset(s) \in Nat
    BY <1>3, <2>1
  <2>3. Become(s, f) /\ rs' = rs
    BY <1>5
  <2> HIDE DEF b, s, i
  <2>4. f.at = "raw" /\ f.acc = b /\ f.from = Top.from
    BY <1>1 DEF FrameType
  <2> HIDE DEF f
  <2>5. Gathered(f.acc, f.from, Offset(s))
    BY <2>2, <2>4
  <2> QED BY <1>1, <1>2, <2>2, <2>3, <2>4, <2>5, NameGoesOn
<1>6. CASE /\ Call(SetHead(it, Top.i + 1), Frame("u4"),
                   [Top EXCEPT !.at = "rawWait", !.esc = FALSE,
                               !.acc = @ \o Bytes(it, it.head, Top.i + 1)])
           /\ UNCHANGED rs
  <2> DEFINE i == Top.i + 1
             b == Top.acc \o Bytes(it, it.head, i)
             f == Frame("u4")
             g == [Top EXCEPT !.at = "rawWait", !.esc = FALSE, !.acc = b]
             s == SetHead(it, i)
             t == Tail(stk)
             u == <<g>> \o t
  <2>1. i \in it.head..it.tail /\ i \in Nat
    BY <1>1
  <2>2. Gathered(b, Top.from, Offset(s)) /\ Offset(s) \in Nat /\ b \in Seq(Byte)
    BY <1>3, <2>1
  <2>3. Call(s, f, g) /\ rs' = rs
    BY <1>6
  <2>4. f.at = "u4" /\ f.acc = <<>> /\ f \in FrameType
    BY FrameTyped, LabelsList DEF Frame
  <2>5. t \in Seq(FrameType) /\ Paired(t)
    BY <1>1, NameBelow
  <2> HIDE DEF b, s, i, f, t
  <2>6. g.at = "rawWait" /\ g.acc = b /\ g.from = Top.from /\ g \in FrameType /\ g.at \in StringFrames
    BY <1>1, <2>2, LabelsList DEF FrameType, StringFrames
  <2> HIDE DEF g
  <2>7. it' = s /\ tok' = None /\ stk' = <<f>> \o u
    BY <2>3, <2>5, ConsTwo DEF Call, t
  <2>8. u \in Seq(FrameType) /\ Paired(u) /\ Head(u) = g
    BY <2>5, <2>6, ConsProperties, Pushed
  <2> HIDE DEF u
  <2>9. ~(u # <<>> /\ Head(u).at = "objName")
    BY <2>6, <2>8
  <2>10. /\ Paired(stk') /\ Head(stk') = f /\ stk' # <<>> /\ stk'[2] = g
    <3>1. Len(stk') > 1
      <4>1. Len(stk') = Len(u) + 1 /\ Len(u) \in Nat /\ Len(u) # 0
        BY <2>5, <2>6, <2>7, <2>8, ConsProperties DEF u
      <4> QED BY <4>1
    <3> QED BY <2>7, <2>8, <2>9, <3>1, Pushed
  <2>11. /\ ~(In("objName"))' /\ ~(In("objColon"))' /\ ~(In("literal"))' /\ ~(In("raw"))' /\ ~(In("rawLoad"))'
    BY <2>4, <2>10 DEF In, Top
  <2>12. (Gathered(stk[2].acc \o Top.acc, stk[2].from, Offset(it) - Ahead))'
    <3>1. Ahead' = 0 /\ Offset(s) - 0 = Offset(s)
      BY <2>2, <2>7 DEF Ahead
    <3>2. b \o <<>> = b
      BY <2>2, ConcatEmptySeq
    <3>3. (stk[2].acc \o Top.acc)' = b /\ stk'[2].from = Top.from /\ Offset(it') - Ahead' = Offset(s)
      BY <2>4, <2>6, <2>7, <2>10, <3>1, <3>2 DEF Top
    <3> QED BY <1>2, <2>2, <3>3 DEF Gathered
  <2>13. rs' \in RawStringType
    BY <2>3 DEF NameInv
  <2> QED BY <2>7, <2>10, <2>11, <2>12, <2>13 DEF NameInv, Gathering
<1> QED BY <1>4, <1>5, <1>6 DEF RawStringUnicode

LEMMA ReadRawStringInnerName == ASSUME Inv, NameInv, ReadRawStringInner PROVE NameInv'
<1>1. /\ In("raw") /\ stk # <<>> /\ Top.at = "raw" /\ Rest /\ input' = input
      /\ Top \in FrameType /\ it.head \in Nat /\ it.tail \in Nat /\ it.inputOffset \in Nat
      /\ Offset(it) \in Nat /\ it.tail \in it.head..it.tail
  <2>1. In("raw") /\ Rest /\ input' = input
    BY DEF ReadRawStringInner, Rest
  <2>2. it.head \in Nat /\ it.tail \in Nat /\ it.inputOffset \in Nat /\ it.tail \in it.head..it.tail
    BY Ends
  <2>3. Offset(it) \in Nat
    BY <2>2 DEF Offset
  <2> QED BY <2>1, <2>2, <2>3, TopProperties DEF In
<1>2. ASSUME NEW s, RawStringFails(s) PROVE NameInv'
  BY <1>1, <1>2, NameFails
<1>3. ASSUME NEW e, Become(it, [Top EXCEPT !.esc = e, !.i = @ + 1]), UNCHANGED rs, it.err = "nil"
      PROVE  NameInv'
  <2> DEFINE f == [Top EXCEPT !.esc = e, !.i = @ + 1]
  <2>1. f.at = "raw" /\ f.acc = Top.acc /\ f.from = Top.from
    BY <1>1 DEF FrameType
  <2>2. Become(it, f) /\ rs' = rs
    BY <1>3
  <2> HIDE DEF f
  <2>3. Gathered(f.acc, f.from, Offset(it))
    BY <1>1, <1>3, <2>1 DEF NameInv, Gathering
  <2> QED BY <1>1, <2>1, <2>2, <2>3, NameGoesOn
<1>4. ASSUME NEW c, it.err = "nil", Top.i < it.tail, RawStringByte(c) PROVE NameInv'
  <2>1. \/ RawStringEnds \/ RawStringUnicode \/ RawStringFails(it)
        \/ Become(it, [Top EXCEPT !.esc = FALSE, !.i = @ + 1]) /\ UNCHANGED rs
        \/ Become(it, [Top EXCEPT !.esc = ~Top.esc, !.i = @ + 1]) /\ UNCHANGED rs
    BY <1>4 DEF RawStringByte
  <2>2. RawStringEnds \/ RawStringUnicode => NameInv'
    BY <1>1, <1>4, RawStringEndsName, RawStringUnicodeName
  <2> QED BY <1>2, <1>3, <1>4, <2>1, <2>2
<1>5. ASSUME it.err = "nil", UNCHANGED rs,
             Become(SetHead(it, it.tail),
                    [Top EXCEPT !.at = "rawLoad", !.acc = @ \o Bytes(it, it.head, it.tail)])
      PROVE  NameInv'
  <2> DEFINE b == Top.acc \o Bytes(it, it.head, it.tail)
             f == [Top EXCEPT !.at = "rawLoad", !.acc = b]
             s == SetHead(it, it.tail)
  <2>1. Gathered(Top.acc, Top.from, Offset(it))
    BY <1>1, <1>5 DEF NameInv, Gathering
  <2>2. Gathered(b, Top.from, it.inputOffset + it.tail)
    BY <1>1, <2>1, GatherBytes, TopProperties
  <2>3. Offset(s) = it.inputOffset + it.tail /\ Offset(s) \in Nat
    BY <1>1, Ends DEF SetHead, Offset, InRange, IteratorType
  <2>4. Become(s, f) /\ rs' = rs
    BY <1>5
  <2> HIDE DEF b, s
  <2>5. f.at = "rawLoad" /\ f.acc = b /\ f.from = Top.from
    BY <1>1 DEF FrameType
  <2> HIDE DEF f
  <2>6. Gathered(f.acc, f.from, Offset(s))
    BY <2>2, <2>3, <2>5
  <2> QED BY <1>1, <2>3, <2>4, <2>5, <2>6, NameGoesOn
<1> QED BY <1>2, <1>4, <1>5 DEF ReadRawStringInner

LEMMA ReadRawStringMoreName == ASSUME Inv, NameInv, ReadRawStringMore PROVE NameInv'
<1>1. /\ In("rawLoad") /\ stk # <<>> /\ Top.at = "rawLoad" /\ input' = input /\ tok # None
      /\ Top \in FrameType
  BY TopProperties DEF ReadRawStringMore, Got, In, Rest
<1>2. CASE RawStringFails(it)
  BY <1>1, <1>2, NameFails
<1>3. CASE /\ Become(Unread(it), [Top EXCEPT !.at = "raw", !.i = Unread(it).head])
           /\ UNCHANGED rs
  <2> DEFINE s == Unread(it)
             f == [Top EXCEPT !.at = "raw", !.i = s.head]
  <2>1. it.inputOffset \in Nat /\ it.head \in Nat /\ InRange(it, source)
    BY Ends
  <2>2. it.err = "nil" => it.head > 0
    BY <1>1 DEF Inv, CanUnread
  <2>3. /\ s.err = it.err
        /\ Offset(s) = IF it.err = "nil" THEN Offset(it) - 1 ELSE Offset(it)
    BY <2>1 DEF Unread, SetHead, Offset, InRange, IteratorType
  <2>4. Offset(s) \in Nat
    BY <2>1, <2>2, <2>3 DEF Offset
  <2>5. it.err = "nil" => Gathered(Top.acc, Top.from, Offset(s))
    <3>1. Ahead = 1
      BY <1>1 DEF Ahead
    <3> QED BY <1>1, <2>3, <3>1 DEF NameInv, Gathering
  <2>6. Become(s, f) /\ rs' = rs
    BY <1>3
  <2> HIDE DEF s
  <2>7. f.at = "raw" /\ f.acc = Top.acc /\ f.from = Top.from
    BY <1>1 DEF FrameType
  <2> HIDE DEF f
  <2>8. s.err = "nil" => Gathered(f.acc, f.from, Offset(s))
    BY <2>3, <2>5, <2>7
  <2> QED BY <1>1, <2>4, <2>6, <2>7, <2>8, NameGoesOn
<1> QED BY <1>2, <1>3 DEF ReadRawStringMore

\* readAndFillU4 adds the byte it has read to those of its caller
LEMMA ReadAndFillU4Name == ASSUME Inv, NameInv, ReadAndFillU4 PROVE NameInv'
<1> DEFINE caller == stk[2]
           t == Tail(stk)
           u == Tail(Tail(stk))
           f(bytes) == [caller EXCEPT !.at = "raw", !.acc = @ \o bytes, !.i = it.head]
           more == Append(Top.acc, tok)
<1>1. /\ stk # <<>> /\ In("u4") /\ Top.at = "u4" /\ tok' = None /\ tok # None /\ tok \in Byte
      /\ Top \in FrameType /\ Top.acc \in Seq(Byte) /\ StackOK(stk) /\ Len(stk) >= 2
      /\ caller.at = "rawWait" /\ rs' = rs /\ rs \in RawStringType /\ input' = input
  BY TopProperties DEF ReadAndFillU4, Got, In, Inv, Registers, Rest, NameInv
<1>2. /\ stk \in Seq(FrameType) /\ t \in Seq(FrameType) /\ t # <<>> /\ Paired(t)
      /\ Head(t) = caller /\ caller \in FrameType /\ caller.at # "objName" /\ Len(t) >= 1
      /\ t[1] = caller /\ Len(t) = Len(stk) - 1
  <2>1. /\ stk \in Seq(FrameType) /\ t \in Seq(FrameType) /\ Len(t) = Len(stk) - 1
        /\ \A i \in 1..Len(t) : t[i] = stk[i + 1]
    BY <1>1, HeadTailProperties DEF StackOK
  <2>2. Len(t) >= 1 /\ 1 \in 1..Len(t) /\ 2 \in 1..Len(stk)
    BY <1>1, <2>1
  <2>3. t[1] = caller /\ Head(t) = t[1] /\ t # <<>>
    <3> HIDE DEF t
    <3>1. t[1] = stk[1 + 1]
      BY <2>1, <2>2
    <3> QED BY <2>1, <2>2, <3>1
  <2>4. caller \in FrameType
    BY <2>1, <2>2, ElementOfSeq
  <2> QED BY <1>1, <2>1, <2>2, <2>3, <2>4, NameBelow
<1>3. u \in Seq(FrameType) /\ Paired(u)
      /\ ~(u # <<>> /\ Head(u).at = "objName" /\ "raw" \notin StringFrames)
  BY <1>2, PairedTail, HeadTailProperties DEF StringFrames
<1>4. /\ caller.acc \in Seq(Byte) /\ more \in Seq(Byte)
      /\ caller.acc \o more = Append(caller.acc \o Top.acc, tok)
  <2> DEFINE a == caller.acc
             b == Top.acc
  <2>1. a \in Seq(Byte) /\ b \in Seq(Byte) /\ <<tok>> \in Seq(Byte)
    BY <1>1, <1>2 DEF FrameType
  <2> HIDE DEF a, b
  <2>2. Append(b, tok) = b \o <<tok>> /\ Append(b, tok) \in Seq(Byte)
    BY <1>1, <2>1, AppendIsConcat, AppendProperties
  <2>3. a \o b \in Seq(Byte)
    BY <2>1, ConcatProperties
  <2>4. Append(a \o b, tok) = (a \o b) \o <<tok>>
    BY <1>1, <2>3, AppendIsConcat
  <2>5. (a \o b) \o <<tok>> = a \o (b \o <<tok>>)
    BY <2>1, ConcatAssociative
  <2> QED BY <2>1, <2>2, <2>4, <2>5 DEF a, b
\* ... so the caller has collected up to head
<1>5. it.err = "nil" => Gathered(caller.acc \o more, caller.from, Offset(it))
  <2>1. ASSUME it.err = "nil" PROVE Gathered(caller.acc \o more, caller.from, Offset(it))
    <3> DEFINE n == Offset(it)
               b == caller.acc \o Top.acc
               from == caller.from
    <3>1. Ahead = 1
      BY <1>1 DEF Ahead
    <3>2. from <= n - 1 /\ b = SubSeq(input, from + 1, n - 1) /\ tok = input[n]
      BY <1>1, <2>1, <3>1 DEF NameInv, Gathering, Gathered
    <3>3. from \in Nat /\ n \in Nat /\ input \in Seq(Byte) /\ n <= Len(input) /\ Len(input) \in Nat
      <4>1. from \in Nat
        BY <1>2 DEF FrameType
      <4>2. it.inputOffset + it.head <= Len(input)
        BY Ends DEF Inv, Good, Window
      <4> QED BY <4>1, <4>2, Ends DEF Offset
    <3> HIDE DEF n, b, from
    <3>4. from + 1 \in 1..Len(input) /\ n \in (from + 1)..Len(input)
      BY <3>2, <3>3
    <3>5. SubSeq(input, from + 1, n) = SubSeq(input, from + 1, n - 1) \o <<input[n]>>
      BY <3>3, <3>4, SubSeqRecursiveSecond
    <3>6. b \in Seq(Byte)
      BY <1>1, <1>4, ConcatProperties DEF b
    <3>7. Append(b, tok) = b \o <<tok>>
      BY <1>1, <3>6, AppendIsConcat
    <3>8. Append(b, tok) = SubSeq(input, from + 1, n) /\ from <= n
      BY <3>2, <3>3, <3>5, <3>7
    <3>9. caller.acc \o more = SubSeq(input, from + 1, n)
      BY <1>4, <3>8 DEF b
    <3> QED BY <3>8, <3>9 DEF Gathered, n, from
  <2> QED BY <2>1
<1>6. ASSUME NEW bytes \in Seq(Byte), it'.err = "nil" => bytes = more /\ it' = it /\ it.err = "nil",
             Offset(it') \in Nat,
             stk' = <<f(bytes)>> \o u
      PROVE  NameInv'
  <2> DEFINE g == f(bytes)
  <2>1. caller.acc \o bytes \in Seq(Byte)
    BY <1>4, ConcatProperties
  <2>2. g.at = "raw" /\ g.at \in StringFrames /\ g.acc = caller.acc \o bytes /\ g.from = caller.from
    BY <1>2 DEF FrameType, StringFrames
  <2>3. stk' = <<g>> \o u
    BY <1>6
  <2> HIDE DEF g, u, caller, more
  <2>4. Paired(stk') /\ Head(stk') = g
    BY <1>3, <2>2, <2>3, Pushed
  <2>5. /\ ~(In("objName"))' /\ ~(In("objColon"))' /\ ~(In("literal"))' /\ ~(In("rawLoad"))' /\ ~(In("u4"))'
    BY <2>2, <2>4 DEF In, Top
  <2>6. it'.err = "nil" => (Gathered(Top.acc, Top.from, Offset(it)))'
    <3>1. ASSUME it'.err = "nil" PROVE (Gathered(Top.acc, Top.from, Offset(it)))'
      <4>1. Gathered(g.acc, g.from, Offset(it)) /\ it' = it
        BY <1>5, <1>6, <2>2, <3>1
      <4>2. Top' = g
        BY <2>4 DEF Top
      <4> QED BY <1>1, <4>1, <4>2 DEF Gathered
    <3> QED BY <3>1
  <2> QED BY <1>1, <2>4, <2>5, <2>6 DEF NameInv, Gathering
<1>7. CASE it' = it /\ it.err = "nil"
           /\ stk' = <<[Top EXCEPT !.acc = Append(@, tok)]>> \o Tail(stk)
  <2> DEFINE g == [Top EXCEPT !.acc = more]
  <2>1. g.at = "u4" /\ g.acc = more /\ stk' = <<g>> \o t
    BY <1>1, <1>7 DEF FrameType
  <2> HIDE DEF g, t
  <2>2. Paired(stk') /\ Head(stk') = g /\ (Len(stk') > 1 => stk'[2] = Head(t))
    BY <1>2, <2>1, Pushed
  <2>3. Len(stk') > 1
    <3> DEFINE S == FrameType \cup {g}
    <3>1. FrameType \subseteq S /\ g \in S
      OBVIOUS
    <3> HIDE DEF S
    <3>2. t \in Seq(S)
      BY <1>2, <3>1, SeqMonotonic
    <3>3. Len(stk') = Len(t) + 1 /\ Len(t) \in Nat
      BY <2>1, <3>1, <3>2, ConsProperties
    <3> QED BY <1>2, <3>3
  <2>4. stk'[2] = caller
    BY <1>2, <2>2, <2>3
  <2>5. /\ ~(In("objName"))' /\ ~(In("objColon"))' /\ ~(In("literal"))' /\ ~(In("raw"))' /\ ~(In("rawLoad"))'
    BY <2>1, <2>2 DEF In, Top
  <2>6. (Gathered(stk[2].acc \o Top.acc, stk[2].from, Offset(it) - Ahead))'
    <3>1. Ahead' = 0
      BY <1>1 DEF Ahead
    <3>2. Offset(it) \in Nat
      BY Ends DEF Offset
    <3>3. Offset(it') - Ahead' = Offset(it) /\ Top'.acc = more
      BY <1>7, <2>1, <2>2, <3>1, <3>2 DEF Top
    <3>4. (stk[2].acc \o Top.acc)' = caller.acc \o more /\ stk'[2].from = caller.from
      BY <2>4, <3>3
    <3>5. Gathered(caller.acc \o more, caller.from, Offset(it))
      BY <1>5, <1>7
    <3> HIDE DEF caller, more
    <3> QED BY <1>1, <3>3, <3>4, <3>5 DEF Gathered
  <2> QED BY <1>1, <2>2, <2>5, <2>6 DEF NameInv, Gathering
<1>8. Offset(it) \in Nat /\ Offset(Report(it)) \in Nat /\ Report(it).err # "nil"
  BY Ends DEF Offset, Report, SetError, InRange, IteratorType, Failing
<1>9. \/ it' = it /\ it.err # "nil" /\ stk' = <<f(Top.acc)>> \o Tail(Tail(stk))
      \/ it' = Report(it) /\ stk' = <<f(Top.acc)>> \o Tail(Tail(stk))
      \/ it' = it /\ it.err = "nil" /\ stk' = <<f(more)>> \o Tail(Tail(stk))
      \/ /\ it' = it /\ it.err = "nil"
         /\ stk' = <<[Top EXCEPT !.acc = Append(@, tok)]>> \o Tail(stk)
  BY DEF ReadAndFillU4
<1> HIDE DEF f, more
<1> QED BY <1>1, <1>4, <1>6, <1>7, <1>8, <1>9

----------------------------------------------------------------------------
(* Names: the loads, the byte read ahead, and the rest of the calls.       *)

LEMMA NextTokenName == ASSUME Inv, NameInv, NextToken PROVE NameInv'
<1>1. PICK p \in it.head..it.tail : IsToken(it, p) /\ it' = SetHead(it, p + 1) /\ tok' = At(it, p)
  BY DEF NextToken
<1>2. /\ Top.at \in TokenFrames /\ stk' = stk /\ rs' = rs /\ input' = input
  BY DEF NextToken, Registers, Rest
<1>3. it'.inputOffset = it.inputOffset /\ it'.tail = it.tail
  BY <1>1, Ends DEF SetHead, InRange, IteratorType
<1>4. tok' # None
  <2>1. p \in 0..(it.tail - 1)
    BY <1>1, Ends DEF IsToken
  <2>2. At(it, p) \in Byte
    BY <2>1, AtType, Ends
  <2> QED BY <1>1, <2>2 DEF Byte, None, NumberChars, Digits, Hex, EscapeChars, NumberEnd, NUL, Space,
            Quote, Backslash
<1>5. /\ ~(In("objName"))' /\ ~(In("literal"))' /\ ~(In("raw"))' /\ ~(In("rawLoad"))' /\ ~(In("u4"))'
  BY <1>2 DEF In, Top, TokenFrames
<1>6. (In("objColon"))' => (Named(it, rs))'
  BY <1>2, <1>3 DEF NameInv, In, Top, Named
<1> QED BY <1>2, <1>4, <1>5, <1>6 DEF NameInv, Gathering

LEMMA ReadByteName == ASSUME Inv, NameInv, ReadByte PROVE NameInv'
<1>1. /\ stk # <<>> /\ Top.at \in ByteFrames /\ tok = None /\ it.head < it.tail
      /\ it' = SetHead(it, it.head + 1) /\ tok' = At(it, it.head)
      /\ stk' = stk /\ rs' = rs /\ input' = input
  BY DEF ReadByte, Registers, Rest
<1>2. /\ it.head \in Nat /\ it.tail \in Nat /\ it.inputOffset \in Nat /\ InRange(it, source)
  BY Ends
<1>3. /\ it'.inputOffset = it.inputOffset /\ it'.head = it.head + 1 /\ it'.err = it.err
  BY <1>1, <1>2 DEF SetHead, InRange, IteratorType
<1>4. tok' # None
  <2>1. it.head \in 0..(it.tail - 1)
    BY <1>1, <1>2
  <2>2. At(it, it.head) \in Byte
    BY <1>2, <2>1, AtType
  <2> QED BY <1>1, <2>2 DEF Byte, None, NumberChars, Digits, Hex, EscapeChars, NumberEnd, NUL, Space,
            Quote, Backslash
<1>5. Offset(it') = Offset(it) + 1 /\ Offset(it) \in Nat
  BY <1>2, <1>3 DEF Offset
<1>6. Ahead = 0 /\ Ahead' = 1
  BY <1>1, <1>4 DEF Ahead
<1>7. Offset(it') - Ahead' = Offset(it) - Ahead
  BY <1>5, <1>6
<1>8. tok' = input[Offset(it')]
  <2>1. it.head + 1 \in 1..it.tail
    BY <1>1, <1>2
  <2>2. it.buf[it.head + 1] = input[it.inputOffset + (it.head + 1)]
    BY <2>1 DEF Inv, Good, Window
  <2>3. Offset(it') = it.inputOffset + (it.head + 1)
    BY <1>2, <1>3 DEF Offset
  <2> QED BY <1>1, <2>2, <2>3 DEF At
<1>9. /\ ~(In("objName"))' /\ ~(In("objColon"))' /\ ~(In("raw"))'
  BY <1>1 DEF In, Top, ByteFrames
<1>10. it'.err = "nil" => (Gathering)'
  BY <1>1, <1>3, <1>7, <1>8, <1>9 DEF NameInv, Gathering, Gathered, In, Top
<1> QED BY <1>1, <1>9, <1>10 DEF NameInv, In, Top

LEMMA LoadName == ASSUME Inv, NameInv, Load PROVE NameInv'
<1>1. /\ stk # <<>> /\ tok = None /\ Blocked /\ rs' = rs /\ input' = input
      /\ Top.at \in Loading
  BY DEF Load, LoadSlice, LoadMore, LoadFails, Blocked, Loading
<1>2. stk' = Loaded \/ stk' = LoadFailed
  BY DEF Load, LoadSlice, LoadMore, LoadFails
<1>0. /\ it \in IteratorType /\ it.head \in Nat /\ it.tail \in Nat /\ it.inputOffset \in Nat
      /\ it.captured \in Seq(Byte)
  BY Ends DEF InRange
<1>7. /\ SaveCapture(it).err = it.err /\ SaveCapture(it).inputOffset = it.inputOffset
      /\ DOMAIN SaveCapture(it) = DOMAIN it
  BY <1>0 DEF SaveCapture, IteratorType
<1>3. it'.err = "nil" =>
        tok' = None /\ it.err = "nil" /\ (Top.at \in ByteFrames => Offset(it') = Offset(it))
  <2>1. CASE LoadSlice
    <3>1. it'.err # "nil"
      BY <2>1, Ends DEF LoadSlice, SetError, SetHead, InRange, IteratorType
    <3> QED BY <3>1
  <2>2. CASE LoadFails
    <3>2. PICK e \in ReadErrors :
            it' = IF it.err = "nil" THEN SetError(SaveCapture(it), e) ELSE SaveCapture(it)
      BY <2>2 DEF LoadFails
    <3>3. e # "nil"
      BY ReadErrorsAssumption
    <3>4. it'.err # "nil"
      BY <1>0, <1>7, <3>2, <3>3 DEF SetError, IteratorType
    <3> QED BY <3>4
  <2>3. CASE LoadMore
    <3>1. PICK n \in 1..BufSize : it' = Refill(it, delivered, n)
      BY <2>3 DEF LoadMore
    <3>2. it'.err = it.err /\ it'.head = 0 /\ it'.inputOffset = it.inputOffset + it.tail
      BY <1>0, <1>7, <3>1 DEF Refill, IteratorType
    <3>3. Top.at \in ByteFrames => it.head = it.tail
      BY <1>1 DEF Blocked, TokenFrames, ByteFrames
    <3>4. tok' = None
      BY <1>1, <2>3 DEF LoadMore
    <3> QED BY <1>0, <3>2, <3>3, <3>4 DEF Offset
  <2> QED BY <2>1, <2>2, <2>3 DEF Load
<1>4. CASE Top.at \in {"numberLoad", "firstLoad"}
  <2>1. Top.at \notin StringFrames /\ Top \in FrameType /\ rs' \in RawStringType
    BY <1>1, <1>4, TopProperties DEF StringFrames, NameInv
  <2>2. CASE stk' = <<Frame("noMore")>>
    <3>1. Paired(stk') /\ Head(stk').at = "noMore"
      BY <2>2 DEF Paired, Frame
    <3> QED BY <2>1, <3>1, NameQuiet DEF Noisy
  <2>3. ASSUME NEW f, stk' = <<f>> \o Tail(stk), f.at \in {"number", "readNil"} PROVE NameInv'
    <3>1. f.at \notin Noisy \ {"literal"}
      BY <2>3 DEF Noisy
    <3> QED BY <1>1, <2>1, <2>3, <3>1, NameReplace
  <2>4. /\ [Top EXCEPT !.at = "number"].at = "number"
        /\ [Top EXCEPT !.at = "number", !.esc = TRUE].at = "number"
        /\ Frame("readNil").at = "readNil"
    BY <2>1 DEF FrameType, Frame
  <2> QED BY <1>2, <1>4, <2>2, <2>3, <2>4 DEF Loaded, LoadFailed
<1>5. CASE Top.at \notin {"numberLoad", "firstLoad"}
  <2>1. stk' = stk
    BY <1>2, <1>5 DEF Loaded, LoadFailed
  <2>2. ~(In("objName"))' /\ ~(In("raw"))'
    BY <1>1, <2>1 DEF In, Top, Loading, TokenFrames, ByteFrames
  <2>3. In("objColon") => ~rs.isRaw
    <3>1. In("objColon") => ~HasToken(it)
      BY <1>1 DEF Blocked, In, TokenFrames, ByteFrames
    <3> QED BY <1>1, <3>1 DEF NameInv
  <2>4. (In("objColon"))' => (Named(it, rs))' /\ ~rs'.isRaw
    BY <1>1, <2>1, <2>3 DEF NameInv, Named, In, Top
  <2>5. it'.err = "nil" => Gathering'
    <3>1. ASSUME it'.err = "nil" PROVE Gathering'
      <4>1. Ahead' = Ahead /\ it.err = "nil" /\ tok' = None
        BY <1>1, <1>3, <3>1 DEF Ahead
      <4>2. In("rawLoad") \/ In("u4") => Offset(it') = Offset(it)
        BY <1>3, <3>1 DEF In, ByteFrames
      <4> QED BY <1>1, <2>1, <2>2, <4>1, <4>2 DEF NameInv, Gathering, Gathered, In, Top
    <3> QED BY <3>1
  <2> QED BY <1>1, <2>1, <2>2, <2>4, <2>5 DEF NameInv, In, Top
<1> QED BY <1>4, <1>5

LEMMA CompleteName == ASSUME Inv, NameInv, Complete PROVE NameInv'
<1>1. /\ stk # <<>> /\ Top.at \notin StringFrames /\ rs' \in RawStringType
  BY DEF Complete, ReadNil, ReturnCaptured, Decoded, Trailing, Peek, Finish, Got, In, Registers,
     NameInv, StringFrames
<1>2. \A s : /\ Return(s) => NameInv'
             /\ \A bytes : Become(s, Literal(bytes)) => NameInv'
             /\ \A l, m : l \notin Noisy /\ m # "objName" /\ Call(s, Frame(l), Frame(m)) => NameInv'
  BY <1>1, NameSteps
<1>3. CASE ReadNil
  BY <1>2, <1>3, QuietList DEF ReadNil
<1>4. CASE ~ReadNil
  BY <1>2, <1>4 DEF Complete, ReturnCaptured, Decoded, Trailing, Peek, Finish
<1> QED BY <1>3, <1>4

\* the frames of an operation are none of a string's
LEMMA StartName ==
  ASSUME NameInv, NEW name, NEW s, NEW frames, Start(name, s, frames),
         frames # <<>>, Head(frames) = frames[1], 1 \in 1..Len(frames),
         \A k \in 1..Len(frames) : frames[k].at \notin Noisy, Len(frames) \in Nat
  PROVE  NameInv'
<1>1. stk' = frames /\ rs' \in RawStringType
  BY DEF Start, NameInv
<1>2. \A k \in 2..Len(frames) : k \in 1..Len(frames)
  OBVIOUS
<1>3. Paired(stk') /\ Head(stk').at \notin Noisy
  BY <1>1, <1>2 DEF Paired, Noisy
<1> QED BY <1>1, <1>3, NameQuiet

LEMMA StartsName ==
  ASSUME Inv, NameInv, StartSkip \/ StartSkipAndReturnBytes \/ StartWhatIsNext \/ StartDecode
                         \/ StartMore \/ StartUnmarshal \/ StartValid
  PROVE  NameInv'
<1> DEFINE Client == {"skip", "whatIsNext", "more", "firstLoad", "readNil", "stopCapture", "decoded",
                      "trailing", "end"}
<1>1. \A l \in Client : Frame(l).at \notin Noisy
  BY DEF Frame, Noisy
<1>2. ASSUME NEW name, NEW s, NEW k \in Client, NEW l \in Client, NEW m \in Client, NEW n \in Client,
             \/ Start(name, s, <<Frame(k)>>) \/ Start(name, s, <<Frame(k), Frame(l)>>)
             \/ Start(name, s, <<Frame(k), Frame(l), Frame(m)>>)
             \/ Start(name, s, <<Frame(k), Frame(l), Frame(m), Frame(n)>>)
      PROVE  NameInv'
  <2> DEFINE e == Frame(k)
             f == Frame(l)
             g == Frame(m)
             h == Frame(n)
  <2>1. e.at \notin Noisy /\ f.at \notin Noisy /\ g.at \notin Noisy /\ h.at \notin Noisy
    BY <1>1
  <2> HIDE DEF e, f, g, h
  <2>2. ASSUME NEW frames, frames = <<e>> \/ frames = <<e, f>> \/ frames = <<e, f, g>>
                            \/ frames = <<e, f, g, h>>
        PROVE  /\ frames # <<>> /\ Head(frames) = frames[1] /\ 1 \in 1..Len(frames) /\ Len(frames) \in Nat
               /\ \A i \in 1..Len(frames) : frames[i].at \notin Noisy
    <3>1. CASE frames = <<e>>
      BY <2>1, <3>1
    <3>2. CASE frames = <<e, f>>
      BY <2>1, <3>2
    <3>3. CASE frames = <<e, f, g>>
      BY <2>1, <3>3
    <3>4. CASE frames = <<e, f, g, h>>
      BY <2>1, <3>4
    <3> QED BY <2>2, <3>1, <3>2, <3>3, <3>4
  <2>3. \E frames \in {<<e>>, <<e, f>>, <<e, f, g>>, <<e, f, g, h>>} : Start(name, s, frames)
    BY <1>2 DEF e, f, g, h
  <2> QED BY <2>2, <2>3, StartName
<1>0. {"skip", "end", "readNil", "firstLoad", "decoded", "trailing", "more", "whatIsNext", "stopCapture"}
        \subseteq Client
  OBVIOUS
<1> HIDE DEF Client
<1>3. Start("More", it, <<Frame("end")>>) => NameInv'
  BY <1>0, <1>2
<1>4. ASSUME NEW name, NEW l \in Client, Start(name, it, <<Frame(l), Frame("end")>>) PROVE NameInv'
  BY <1>0, <1>2, <1>4
<1>5. ASSUME NEW name, NEW s, NEW l \in Client, NEW m \in Client,
             Start(name, s, <<Frame(l), Frame(m), Frame("end")>>)
      PROVE  NameInv'
  BY <1>0, <1>2, <1>5
<1>6. Start("Unmarshal", it, <<Frame("readNil"), Frame("decoded"), Frame("trailing"), Frame("end")>>) => NameInv'
  BY <1>0, <1>2
<1>7. CASE StartDecode \/ StartSkipAndReturnBytes
  BY <1>0, <1>5, <1>7 DEF StartDecode, StartSkipAndReturnBytes
<1>8. CASE StartMore \/ StartUnmarshal
  BY <1>0, <1>3, <1>4, <1>6, <1>8 DEF StartMore, StartUnmarshal
<1>9. CASE StartSkip \/ StartWhatIsNext \/ StartValid
  BY <1>0, <1>4, <1>9 DEF StartSkip, StartWhatIsNext, StartValid
<1> QED BY <1>7, <1>8, <1>9

LEMMA NameNext == ASSUME Inv, NameInv, [Next]_vars PROVE NameInv'
<1>1. CASE Load \/ NextToken \/ ReadByte \/ SkipLiteral \/ Skip
  BY <1>1, LoadName, NextTokenName, ReadByteName, SkipLiteralName, SkipName
<1>2. CASE ReadNumbers \/ ReadArray \/ Complete
  BY <1>2, ReadNumbersName, ReadArrayName, CompleteName
<1>3. CASE ReadStrings
  BY <1>3, ReadRawStringInnerName, ReadRawStringMoreName, ReadAndFillU4Name DEF ReadStrings
<1>4. CASE ReadObject
  BY <1>4, ReadObjectName1, ReadObjectName2 DEF ReadObject
<1>5. CASE Begin
  <2>1. CASE Reset
    <3>1. stk' = <<>> /\ rs' \in RawStringType
      BY <2>1 DEF Reset, Idle, NameInv
    <3>2. Paired(stk')
      BY <3>1 DEF Paired
    <3> QED BY <3>1, <3>2, NameQuiet
  <2> QED BY <1>5, <2>1, StartsName DEF Begin
<1>6. CASE UNCHANGED vars
  BY <1>6 DEF vars, NameInv, Gathering, Gathered, Named, Ahead, In, Top, HasToken, IsToken, IsFirstOutside,
     At, Offset
<1> QED BY <1>1, <1>2, <1>3, <1>4, <1>5, <1>6 DEF Next, Run, Pause

LEMMA NameInit == ASSUME Init PROVE NameInv
<1>1. stk = <<>> /\ rs = NilString
  BY DEF Init
<1>2. Paired(stk)
  BY <1>1 DEF Paired
<1> QED BY <1>1, <1>2, NilStringTyped DEF NameInv, Gathering, In

LEMMA NameInvImplies == ASSUME Inv, NameInv PROVE NameIsInput
<1>1. SUFFICES ASSUME Got("objColon"), ~rs.isNil PROVE Text(rs) = SubSeq(input, rs.from + 1, rs.to)
  BY DEF NameIsInput
<1>2. Named(it, rs) /\ rs \in RawStringType
  BY <1>1 DEF Got, NameInv
<1>3. CASE rs.isRaw
  <2>1. /\ rs.lo \in Nat /\ rs.hi \in Nat /\ rs.hi <= it.tail
        /\ it.inputOffset + rs.lo = rs.from /\ it.inputOffset + rs.hi = rs.to
    BY <1>1, <1>2, <1>3 DEF Named, RawStringType
  <2>2. Bytes(it, rs.lo, rs.hi) = SubSeq(input, it.inputOffset + rs.lo + 1, it.inputOffset + rs.hi)
    BY <2>1, WindowBytes
  <2> QED BY <1>3, <2>1, <2>2 DEF Text
<1>4. CASE ~rs.isRaw
  BY <1>1, <1>2, <1>4 DEF Named, Text
<1> QED BY <1>3, <1>4

\* The callback of an object gets the name that stands in the input between the
\* quotes, wherever the reader splits it and whether or not the buffer under it
\* has been refilled since.
THEOREM NameGiven == Spec => []NameIsInput
<1>1. Init => Inv /\ NameInv
  BY InitInv, NameInit
<1>2. Inv /\ NameInv /\ [Next]_vars => (Inv /\ NameInv)'
  BY NextInv, NameNext
<1>3. Inv /\ NameInv => NameIsInput
  BY NameInvImplies
<1> QED BY <1>1, <1>2, <1>3, PTL DEF Spec

----------------------------------------------------------------------------
(* What the client gets: the value after the space it stands before.       *)

\* the frames that look at the next token on behalf of the client
Lookers == {"more", "whatIsNext", "readNil", "firstLoad"}
Looking == ~Idle /\ Top.at \in Lookers
PeekFrame == IF op.name = "More" THEN "more" ELSE "whatIsNext"

\* the token looked at is the first byte after the space
Looked ==
  IF tok = None THEN it.err = "nil" /\ Skipped(op.start, Offset(it))
  ELSE IF it.err = "nil" THEN input[Offset(it)] = tok /\ Skipped(op.start, Offset(it) - 1)
  ELSE Skipped(op.start, Offset(it))

\* where in the input the capture of s begins
Origin(s) == s.inputOffset + s.captureStartedAt - Len(s.captured)

Peeked(n) ==
  \/ Skipped(op.start, n)
  \/ op.name = "More" /\ Skipped(op.start, n - 1) /\ input[n] = NUL
Returned(n) ==
  \E from \in op.start..n : Skipped(op.start, from) /\ op.bytes = SubSeq(input, from + 1, n)

\* Only Unmarshal reads on after its value.
LastRead == \A k \in 1..Len(stk) : stk[k].at = "trailing" => op.name = "Unmarshal"
LookAhead ==
  /\ Looking /\ op.err = "nil" => Looked
  /\ In("firstLoad") => it.head = it.tail
PeekDone ==
  op.name \in {"More", "WhatIsNext"} =>
    /\ \A k \in 1..Len(stk) : stk[k].at \in {PeekFrame, "end"}
    /\ ~Looking /\ op.err = "nil" => Peeked(Offset(it))
CaptureBegins ==
  it.capturing /\ op.dry = "nil" /\ op.err = "nil" => Skipped(op.start, Origin(it))
CaptureDone ==
  op.name \in {"SkipAndReturnBytes", "Decode"} /\ op.bytes # <<>> =>
    /\ \A k \in 1..Len(stk) : stk[k].at \in {"decoded", "end"}
    /\ op.dry = "nil" /\ op.err = "nil" => Returned(Offset(it))

\* What a client is given follows the space where it stood: the token looked at
\* while it is looked at, the bytes captured while they are captured.
LookInv == LastRead /\ LookAhead /\ PeekDone /\ CaptureBegins /\ CaptureDone

LEMMA LookInvImplies == ASSUME Inv, LookInv PROVE PeekKeepsValue /\ CaptureReturnsValue
<1>1. PeekKeepsValue
  <2>1. SUFFICES ASSUME Completed({"More", "WhatIsNext"}), op.err = "nil" PROVE Peeked(Offset(it))
    BY DEF PeekKeepsValue, Peeked
  <2>2. Idle /\ op.name \in {"More", "WhatIsNext"} /\ ~Looking
    BY <2>1 DEF Completed, Looking
  <2> QED BY <2>1, <2>2 DEF LookInv, PeekDone
<1>2. CaptureReturnsValue
  <2>1. SUFFICES ASSUME Completed({"SkipAndReturnBytes", "Decode"}), op.err = "nil", op.dry = "nil",
                        op.bytes # <<>>
                 PROVE  Returned(Offset(it))
    BY DEF CaptureReturnsValue, Returned
  <2>2. op.name \in {"SkipAndReturnBytes", "Decode"}
    BY <2>1 DEF Completed
  <2> QED BY <2>1, <2>2 DEF LookInv, CaptureDone
<1> QED BY <1>1, <1>2

----------------------------------------------------------------------------
(* Space.                                                                  *)

LEMMA SkippedTwice ==
  ASSUME NEW i \in Int, NEW j \in Int, NEW k \in Int, Skipped(i, j), Skipped(j, k)
  PROVE  Skipped(i, k)
<1>1. i <= k
  BY DEF Skipped
<1>2. ASSUME NEW n \in (i + 1)..k PROVE input[n] = Space
  <2>1. n \in (i + 1)..j \/ n \in (j + 1)..k
    OBVIOUS
  <2> QED BY <2>1 DEF Skipped
<1> QED BY <1>1, <1>2 DEF Skipped

\* bytes of the buffer, as positions in the input
LEMMA BlankBytes ==
  ASSUME Inv, NEW p \in it.head..it.tail, \A q \in it.head..(p - 1) : At(it, q) = Space
  PROVE  Skipped(Offset(it), it.inputOffset + p) /\ Offset(it) \in Nat /\ it.inputOffset + p \in Nat
<1>1. /\ it.head \in Nat /\ it.tail \in Nat /\ it.inputOffset \in Nat /\ p \in Nat /\ p <= it.tail
      /\ it.head <= p
  BY Ends
<1>2. Offset(it) = it.inputOffset + it.head
  BY DEF Offset
<1>3. ASSUME NEW k \in (Offset(it) + 1)..(it.inputOffset + p) PROVE input[k] = Space
  <2> DEFINE q == k - it.inputOffset - 1
  <2>1. q \in it.head..(p - 1) /\ q + 1 \in 1..it.tail /\ it.inputOffset + (q + 1) = k
    BY <1>1, <1>2, SMTT(30)
  <2> HIDE DEF q
  <2>2. it.buf[q + 1] = input[it.inputOffset + (q + 1)]
    BY <2>1 DEF Inv, Good, Window
  <2>3. At(it, q) = Space
    BY <2>1
  <2> QED BY <2>1, <2>2, <2>3 DEF At
<1> QED BY <1>1, <1>2, <1>3 DEF Skipped

LEMMA TokenAhead ==
  ASSUME Inv, NEW p \in it.head..it.tail, IsToken(it, p)
  PROVE  /\ Skipped(Offset(it), it.inputOffset + p) /\ Offset(it) \in Nat
         /\ it.inputOffset + p \in Nat /\ At(it, p) = input[it.inputOffset + p + 1]
<1>1. /\ it.head \in Nat /\ it.tail \in Nat /\ it.inputOffset \in Nat /\ p \in Nat /\ p < it.tail
  BY Ends DEF IsToken
<1>2. \A q \in it.head..(p - 1) : At(it, q) = Space
  BY DEF IsToken, IsFirstOutside
<1>3. At(it, p) = input[it.inputOffset + p + 1]
  <2>1. p + 1 \in 1..it.tail /\ it.inputOffset + (p + 1) = it.inputOffset + p + 1
    BY <1>1
  <2>2. it.buf[p + 1] = input[it.inputOffset + (p + 1)]
    BY <2>1 DEF Inv, Good, Window
  <2> QED BY <2>1, <2>2 DEF At
<1> QED BY <1>2, <1>3, BlankBytes

\* a buffer without a token is blank to its end
LEMMA NoTokenAhead ==
  ASSUME Inv, ~HasToken(it)
  PROVE  Skipped(Offset(it), it.inputOffset + it.tail)
<1>1. it.head \in Nat /\ it.tail \in Nat /\ it.head <= it.tail
  BY Ends
<1> DEFINE T == {q \in it.head..(it.tail - 1) : At(it, q) # Space}
<1>2. T = {}
  <2>1. ASSUME T # {} PROVE FALSE
    <3>1. T \in SUBSET Nat
      BY <1>1
    <3>2. PICK p \in T : \A n \in T : p <= n
      BY <2>1, <3>1, LeastNumber
    <3>3. p \in it.head..it.tail /\ p < it.tail /\ At(it, p) # Space /\ p \in Nat
      BY <1>1, <3>2
    <3>4. ASSUME NEW q \in it.head..(p - 1) PROVE At(it, q) = Space
      <4>1. q \in it.head..(it.tail - 1) /\ ~(p <= q)
        BY <1>1, <3>3
      <4> QED BY <3>2, <4>1
    <3>5. IsToken(it, p)
      BY <3>3, <3>4 DEF IsToken, IsFirstOutside
    <3> QED BY <3>3, <3>5 DEF HasToken
  <2> QED BY <2>1
<1>3. \A q \in it.head..(it.tail - 1) : At(it, q) = Space
  BY <1>2
<1>4. it.tail \in it.head..it.tail
  BY <1>1
<1> QED BY <1>3, <1>4, BlankBytes

----------------------------------------------------------------------------
(* A step that leaves the capture and the client's operation alone.        *)

\* s has the capture and the offset of it
Steady(s) ==
  /\ DOMAIN s = DOMAIN it
  /\ s.capturing = it.capturing /\ s.captured = it.captured
  /\ s.captureStartedAt = it.captureStartedAt /\ s.inputOffset = it.inputOffset

SameClient ==
  op'.name = op.name /\ op'.start = op.start /\ op'.err = op.err /\ op'.dry = op.dry

LEMMA StackList ==
  ASSUME Inv
  PROVE  /\ stk \in Seq(FrameType) /\ Len(stk) \in Nat
         /\ stk # <<>> => 1 \in 1..Len(stk) /\ Top = stk[1]
         /\ \A k \in 2..Len(stk) : stk[k].at \in Waiting
         /\ op.start \in Nat /\ op \in OperationType
<1>1. stk \in Seq(FrameType) /\ op \in OperationType /\ \A k \in 2..Len(stk) : stk[k].at \in Waiting
  BY DEF Inv, StackOK
<1>2. Len(stk) \in Nat /\ (stk # <<>> => 1 \in 1..Len(stk) /\ Head(stk) = stk[1])
  BY <1>1
<1>3. op.start \in Nat
  BY <1>1 DEF OperationType
<1> QED BY <1>1, <1>2, <1>3 DEF Top

LEMMA LookStep ==
  ASSUME LookInv, UNCHANGED input, SameClient, Steady(it'), ~Looking', LastRead', PeekDone', CaptureDone'
  PROVE  LookInv'
<1>1. LookAhead'
  <2>1. ~(In("firstLoad"))'
    BY DEF Looking, Lookers, In, Idle
  <2> QED BY <2>1 DEF LookAhead
<1>2. CaptureBegins'
  <2>1. Origin(it') = Origin(it) /\ it'.capturing = it.capturing
    BY DEF Steady, Origin
  <2> QED BY <2>1 DEF LookInv, CaptureBegins, SameClient, Skipped
<1> QED BY <1>1, <1>2 DEF LookInv

\* the handlers that are nobody's last call but one
Inner == Labels \ (Outer \cup {"more", "whatIsNext"})

LEMMA LookHandler ==
  ASSUME Inv, Inv', LookInv, stk # <<>>, Top.at \in Inner, UNCHANGED <<input, op>>, Steady(it'),
         ~Looking', LastRead'
  PROVE  LookInv'
<1>1. Top = stk[1] /\ 1 \in 1..Len(stk)
  BY StackList
<1>2. SameClient /\ UNCHANGED input
  BY DEF SameClient
<1>3. PeekDone'
  <2>1. op.name \notin {"More", "WhatIsNext"}
    <3>1. ASSUME op.name \in {"More", "WhatIsNext"} PROVE FALSE
      <4>1. Top.at \in {PeekFrame, "end"}
        BY <1>1, <3>1 DEF LookInv, PeekDone
      <4> QED BY <4>1 DEF PeekFrame, Inner, Outer
    <3> QED BY <3>1
  <2> QED BY <2>1 DEF PeekDone
<1>4. CaptureDone'
  <2>1. ~(op.name \in {"SkipAndReturnBytes", "Decode"} /\ op.bytes # <<>>)
    <3>1. ASSUME op.name \in {"SkipAndReturnBytes", "Decode"} /\ op.bytes # <<>> PROVE FALSE
      <4>1. Top.at \in {"decoded", "end"}
        BY <1>1, <3>1 DEF LookInv, CaptureDone
      <4> QED BY <4>1 DEF Inner, Outer
    <3> QED BY <3>1
  <2> QED BY <2>1 DEF CaptureDone
<1> QED BY <1>2, <1>3, <1>4, LookStep

LEMMA LookReturn ==
  ASSUME Inv, Inv', LookInv, stk # <<>>, stk' = Tail(stk), op'.name = op.name
  PROVE  LastRead' /\ ~Looking'
<1>1. /\ stk \in Seq(FrameType) /\ Len(Tail(stk)) = Len(stk) - 1 /\ Len(stk) \in Nat
      /\ \A i \in 1..Len(Tail(stk)) : Tail(stk)[i] = stk[i + 1]
  BY StackList, HeadTailProperties
<1>2. \A i \in 1..Len(Tail(stk)) : i + 1 \in 1..Len(stk) /\ i + 1 \in 2..Len(stk)
  BY <1>1
<1>3. LastRead'
  BY <1>1, <1>2 DEF LookInv, LastRead
<1>4. ~Looking'
  <2>1. ASSUME stk' # <<>> PROVE Head(stk').at \notin Lookers
    <3>1. 1 \in 1..Len(stk') /\ Head(stk') = stk'[1]
      BY <2>1, StackList DEF Top
    <3>2. stk'[1].at \in Waiting
      BY <1>1, <1>2, <3>1, StackList
    <3> QED BY <3>1, <3>2 DEF Waiting, Lookers
  <2> QED BY <2>1 DEF Looking, Idle, Top
<1> QED BY <1>3, <1>4

LEMMA LookPush ==
  ASSUME NEW R, NEW t \in Seq(R), NEW f, f.at \notin Lookers \cup {"trailing"},
         \A k \in 1..Len(t) : t[k].at = "trailing" => op.name = "Unmarshal",
         stk' = <<f>> \o t, op'.name = op.name
  PROVE  LastRead' /\ ~Looking'
<1> DEFINE S == R \cup {f}
<1>1. f \in S /\ t \in Seq(S) /\ Len(t) \in Nat
  <2>1. R \subseteq S
    OBVIOUS
  <2>2. Len(t) \in Nat
    OBVIOUS
  <2> HIDE DEF S
  <2> QED BY <2>1, <2>2, SeqMonotonic DEF S
<1> HIDE DEF S
<1>2. /\ Len(stk') = Len(t) + 1 /\ stk'[1] = f /\ Head(stk') = f
      /\ \A k \in 2..(Len(t) + 1) : stk'[k] = t[k - 1]
  BY <1>1, ConsProperties
<1>3. ASSUME NEW k \in 1..Len(stk'), stk'[k].at = "trailing" PROVE op'.name = "Unmarshal"
  <2>1. CASE k = 1
    BY <1>2, <1>3, <2>1
  <2>2. CASE k # 1
    <3>1. k \in 2..(Len(t) + 1) /\ k - 1 \in 1..Len(t)
      BY <1>1, <1>2, <2>2
    <3> QED BY <1>2, <1>3, <3>1
  <2> QED BY <2>1, <2>2
<1> QED BY <1>2, <1>3 DEF LastRead, Looking, Top

LEMMA TailRead ==
  ASSUME LookInv, Inv, stk # <<>>
  PROVE  /\ Tail(stk) \in Seq(FrameType)
         /\ \A k \in 1..Len(Tail(stk)) : Tail(stk)[k].at = "trailing" => op.name = "Unmarshal"
<1>1. /\ Tail(stk) \in Seq(FrameType) /\ Len(Tail(stk)) = Len(stk) - 1 /\ Len(stk) \in Nat
      /\ \A i \in 1..Len(Tail(stk)) : Tail(stk)[i] = stk[i + 1]
  BY StackList, HeadTailProperties
<1>2. \A i \in 1..Len(Tail(stk)) : i + 1 \in 1..Len(stk)
  BY <1>1
<1> QED BY <1>1, <1>2 DEF LookInv, LastRead

LEMMA LookSteps ==
  ASSUME Inv, Inv', LookInv, stk # <<>>, Top.at \in Inner, UNCHANGED <<input, op>>, NEW s, Steady(s)
  PROVE  /\ Return(s) => LookInv'
         /\ \A f : f.at \notin Lookers \cup {"trailing"} /\ Become(s, f) => LookInv'
         /\ \A f, g : f.at \notin Lookers \cup {"trailing"} /\ g.at # "trailing" /\ Call(s, f, g) => LookInv'
<1>1. ASSUME Return(s) PROVE LookInv'
  <2>1. stk' = Tail(stk) /\ it' = s
    BY <1>1 DEF Return
  <2>2. LastRead' /\ ~Looking'
    BY <2>1, LookReturn
  <2> QED BY <2>1, <2>2, LookHandler
<1> DEFINE t == Tail(stk)
<1>2. t \in Seq(FrameType) /\ \A k \in 1..Len(t) : t[k].at = "trailing" => op.name = "Unmarshal"
  BY TailRead
<1>3. ASSUME NEW f, f.at \notin Lookers \cup {"trailing"}, Become(s, f) PROVE LookInv'
  <2>1. stk' = <<f>> \o t /\ it' = s
    BY <1>3 DEF Become
  <2> HIDE DEF t
  <2>2. LastRead' /\ ~Looking'
    BY <1>2, <1>3, <2>1, LookPush
  <2> QED BY <2>1, <2>2, LookHandler
<1>4. ASSUME NEW f, NEW g, f.at \notin Lookers \cup {"trailing"}, g.at # "trailing", Call(s, f, g)
      PROVE  LookInv'
  <2> HIDE DEF t
  <2>1. stk' = <<f, g>> \o t /\ it' = s
    BY <1>4 DEF Call, t
  <2> DEFINE u == <<g>> \o t
             S == FrameType \cup {g}
  <2>2. g \in S /\ t \in Seq(S) /\ Len(t) \in Nat
    <3>1. FrameType \subseteq S
      OBVIOUS
    <3>2. Len(t) \in Nat
      BY <1>2
    <3> HIDE DEF S
    <3> QED BY <1>2, <3>1, <3>2, SeqMonotonic DEF S
  <2> HIDE DEF S
  <2>3. Len(u) = Len(t) + 1 /\ u[1] = g /\ \A k \in 2..(Len(t) + 1) : u[k] = t[k - 1]
    BY <2>2, ConsProperties
  <2>4. stk' = <<f>> \o u
    BY <1>2, <2>1, ConsTwo
  <2>5. Len(u) \in Nat /\ u \in Seq(S)
    BY <2>2, <2>3, ConsProperties
  <2> HIDE DEF u
  <2>6. ASSUME NEW k \in 1..Len(u), u[k].at = "trailing" PROVE op.name = "Unmarshal"
    <3>1. CASE k = 1
      BY <1>4, <2>3, <2>6, <3>1
    <3>2. CASE k # 1
      <4>1. k \in 2..(Len(t) + 1) /\ k - 1 \in 1..Len(t)
        BY <2>2, <2>3, <3>2
      <4> QED BY <1>2, <2>3, <2>6, <4>1
    <3> QED BY <3>1, <3>2
  <2>7. LastRead' /\ ~Looking'
    BY <1>4, <2>4, <2>5, <2>6, LookPush
  <2> QED BY <2>1, <2>7, LookHandler
<1> QED BY <1>1, <1>3, <1>4

\* the helpers of iter.go leave the capture alone
LEMMA Steadies ==
  ASSUME Inv
  PROVE  /\ Steady(it)
         /\ \A s : Steady(s) => /\ \A h : Steady(SetHead(s, h))
                                /\ \A e : Steady(SetError(s, e))
                                /\ Steady(Report(s)) /\ Steady(Unread(s))
                                /\ Steady(IncrementDepth(s)) /\ Steady(DecrementDepth(s))
<1>1. DOMAIN it = {"buf", "head", "tail", "depth", "capturing", "captured", "captureStartedAt",
                   "inputOffset", "err"}
  BY Ends DEF InRange, IteratorType
<1>2. Steady(it)
  BY DEF Steady
<1>3. ASSUME NEW s, Steady(s)
      PROVE  /\ \A h : Steady(SetHead(s, h))
             /\ \A e : Steady(SetError(s, e))
             /\ Steady(Deeper(s)) /\ Steady(Shallower(s))
  BY <1>1, <1>3 DEF Steady, SetHead, SetError, Deeper, Shallower
<1>4. ASSUME NEW s, Steady(s) PROVE Steady(Report(s)) /\ Steady(Unread(s))
  BY <1>3, <1>4 DEF Report, Unread
<1>5. ASSUME NEW s, Steady(s) PROVE Steady(IncrementDepth(s)) /\ Steady(DecrementDepth(s))
  BY <1>3, <1>4, <1>5 DEF IncrementDepth, DecrementDepth
<1> QED BY <1>2, <1>3, <1>4, <1>5

\* what a handler can end in
LEMMA LookEnds ==
  ASSUME Inv, Inv', LookInv, stk # <<>>, Top.at \in Inner, UNCHANGED <<input, op>>, NEW s, Steady(s)
  PROVE  /\ Return(s) => LookInv'
         /\ \A l : l \notin Lookers \cup {"trailing"} /\ Become(s, Frame(l)) => LookInv'
         /\ \A bytes : Become(s, Literal(bytes)) => LookInv'
         /\ \A r : Become(s, RawFrame(r)) => LookInv'
         /\ \A l, m : l \notin Lookers \cup {"trailing"} /\ m # "trailing" /\ Call(s, Frame(l), Frame(m))
              => LookInv'
         /\ \A bytes, m : m # "trailing" /\ Call(s, Literal(bytes), Frame(m)) => LookInv'
         /\ \A r, m : m # "trailing" /\ Call(s, RawFrame(r), Frame(m)) => LookInv'
<1>1. /\ \A l : Frame(l).at = l
      /\ \A bytes : Literal(bytes).at = "literal"
      /\ \A r : RawFrame(r).at = "raw"
  BY DEF Frame, Literal, RawFrame
<1>2. "literal" \notin Lookers \cup {"trailing"} /\ "raw" \notin Lookers \cup {"trailing"}
  BY DEF Lookers
<1> QED BY <1>1, <1>2, LookSteps, Zenon

LEMMA UnlookedList ==
  {"skip", "arr", "arrFirst", "arrNext", "obj", "objFirst", "objColon", "objKey", "objNext", "objName",
   "float32", "float64", "positiveFloat32", "positiveFloat64", "number", "numberLoad", "slowFloat32", "slowFloat64", "skipNumber", "bigFloat",
   "raw", "rawLoad", "rawWait", "u4", "literal", "stopCapture"} \cap (Lookers \cup {"trailing"}) = {}
BY DEF Lookers

LEMMA InnerList ==
  {"skip", "arr", "arrFirst", "arrNext", "obj", "objFirst", "objColon", "objKey", "objNext", "objName",
   "float32", "float64", "positiveFloat32", "positiveFloat64", "number", "numberLoad", "slowFloat32", "slowFloat64", "skipNumber", "bigFloat",
   "raw", "rawLoad", "rawWait", "u4", "literal", "stopCapture", "readNil", "firstLoad"} \subseteq Inner
BY LabelsList DEF Inner, Outer

LEMMA LookArray == ASSUME Inv, Inv', LookInv, ReadArray PROVE LookInv'
<1>1. /\ stk # <<>> /\ Top.at \in Inner /\ UNCHANGED <<input, op>>
  BY InnerList DEF ReadArray, ReadArrayStart, ReadArrayFirst, ReadArrayNext, Got, In, Rest
<1>2. /\ Steady(it) /\ Steady(IncrementDepth(it)) /\ Steady(DecrementDepth(it)) /\ Steady(Unread(it))
      /\ Steady(Report(Unread(it))) /\ Steady(DecrementDepth(Report(Unread(it))))
  BY Steadies
<1>3. \A s : Steady(s) =>
             /\ Return(s) => LookInv'
             /\ \A l : l \notin Lookers \cup {"trailing"} /\ Become(s, Frame(l)) => LookInv'
             /\ \A bytes : Become(s, Literal(bytes)) => LookInv'
             /\ \A l, m : l \notin Lookers \cup {"trailing"} /\ m # "trailing"
                           /\ Call(s, Frame(l), Frame(m)) => LookInv'
  BY <1>1, LookEnds
<1>4. CASE ReadArrayStart
  BY <1>2, <1>3, <1>4, UnlookedList DEF ReadArrayStart
<1>5. CASE ReadArrayFirst \/ ReadArrayNext
  BY <1>2, <1>3, <1>5, UnlookedList DEF ReadArrayFirst, ReadArrayNext
<1> QED BY <1>4, <1>5 DEF ReadArray

LEMMA LookObject == ASSUME Inv, Inv', LookInv, ReadObject PROVE LookInv'
<1>1. /\ stk # <<>> /\ Top.at \in Inner /\ UNCHANGED <<input, op>>
  BY InnerList DEF ReadObject, ReadObjectStart, ReadObjectFirst, ReadObjectName, ReadObjectColon,
     ReadObjectNext, ReadObjectKey, Got, In, Rest
<1>2. /\ Steady(it) /\ Steady(IncrementDepth(it)) /\ Steady(DecrementDepth(it)) /\ Steady(Unread(it))
      /\ Steady(Report(Unread(it))) /\ Steady(DecrementDepth(Report(Unread(it))))
      /\ \A h : Steady(SetHead(it, h))
  BY Steadies
<1>3. \A s : Steady(s) =>
             /\ Return(s) => LookInv'
             /\ \A l : l \notin Lookers \cup {"trailing"} /\ Become(s, Frame(l)) => LookInv'
             /\ \A bytes : Become(s, Literal(bytes)) => LookInv'
             /\ \A l, m : l \notin Lookers \cup {"trailing"} /\ m # "trailing"
                           /\ Call(s, Frame(l), Frame(m)) => LookInv'
             /\ \A bytes, m : m # "trailing" /\ Call(s, Literal(bytes), Frame(m)) => LookInv'
             /\ \A r, m : m # "trailing" /\ Call(s, RawFrame(r), Frame(m)) => LookInv'
  BY <1>1, LookEnds
<1>4. CASE ReadObjectStart
  BY <1>2, <1>3, <1>4, UnlookedList DEF ReadObjectStart
<1>5. CASE ReadObjectFirst \/ ReadObjectName
  BY <1>2, <1>3, <1>5, UnlookedList DEF ReadObjectFirst, ReadObjectName
<1>6. CASE ReadObjectColon \/ ReadObjectNext
  BY <1>2, <1>3, <1>6, UnlookedList DEF ReadObjectColon, ReadObjectNext
<1>7. CASE ReadObjectKey
  BY <1>2, <1>3, <1>7, UnlookedList DEF ReadObjectKey
<1> QED BY <1>4, <1>5, <1>6, <1>7 DEF ReadObject

LEMMA LookNumbers == ASSUME Inv, Inv', LookInv, ReadNumbers PROVE LookInv'
<1>1. /\ stk # <<>> /\ Top.at \in Inner /\ UNCHANGED <<input, op>>
  BY InnerList DEF ReadNumbers, SkipNumberAgain, ReadFloat, ReadPositiveFloat, ReadNumberAsBytes, SlowFloat,
     ReadBigFloat, Got, In, Rest
<1>2. /\ Steady(it) /\ Steady(Unread(it)) /\ Steady(Report(it))
      /\ \A h : Steady(SetHead(it, h)) /\ Steady(Report(SetHead(it, h)))
      /\ \A e : Steady(SetError(it, e))
  BY Steadies
<1>3. \A s : Steady(s) =>
             /\ Return(s) => LookInv'
             /\ \A l : l \notin Lookers \cup {"trailing"} /\ Become(s, Frame(l)) => LookInv'
             /\ \A l, m : l \notin Lookers \cup {"trailing"} /\ m # "trailing"
                           /\ Call(s, Frame(l), Frame(m)) => LookInv'
  BY <1>1, LookEnds
<1>4. CASE SkipNumberAgain \/ ReadFloat
  BY <1>2, <1>3, <1>4, UnlookedList DEF SkipNumberAgain, ReadFloat
<1>5. CASE SlowFloat \/ ReadBigFloat
  BY <1>2, <1>3, <1>5 DEF SlowFloat, ReadBigFloat
<1>6. CASE ReadPositiveFloat
  BY <1>2, <1>3, <1>6, UnlookedList DEF ReadPositiveFloat
<1>7. CASE ReadNumberAsBytes
  <2>1. ASSUME NEW b, NEW s, Steady(s), Steady(Report(s)), ReadNumberDone(b, s) PROVE LookInv'
    BY <1>3, <2>1 DEF ReadNumberDone
  <2>2. ASSUME NEW b, Become(it, [Frame("numberLoad") EXCEPT !.acc = b]) PROVE LookInv'
    <3> DEFINE f == [Frame("numberLoad") EXCEPT !.acc = b]
    <3>1. f.at = "numberLoad"
      BY DEF Frame
    <3>2. f.at \notin Lookers \cup {"trailing"}
      BY <3>1, UnlookedList
    <3> HIDE DEF f
    <3>3. Become(it, f)
      BY <2>2 DEF f
    <3> QED BY <1>1, <1>2, <3>2, <3>3, LookSteps
  <2> QED BY <1>2, <1>7, <2>1, <2>2 DEF ReadNumberAsBytes
<1> QED BY <1>4, <1>5, <1>6, <1>7 DEF ReadNumbers

LEMMA LookSkip == ASSUME Inv, Inv', LookInv, SkipLiteral \/ Skip PROVE LookInv'
<1>1. /\ stk # <<>> /\ Top.at \in Inner /\ UNCHANGED <<input, op>>
  BY InnerList DEF SkipLiteral, Skip, Got, In, Rest
<1>2. /\ Steady(it) /\ Steady(Unread(it)) /\ Steady(Report(it)) /\ Steady(Report(Unread(it)))
      /\ \A h : Steady(SetHead(it, h))
  BY Steadies
<1>3. \A s : Steady(s) =>
             /\ Return(s) => LookInv'
             /\ \A l : l \notin Lookers \cup {"trailing"} /\ Become(s, Frame(l)) => LookInv'
             /\ \A bytes : Become(s, Literal(bytes)) => LookInv'
             /\ \A r : Become(s, RawFrame(r)) => LookInv'
             /\ \A l, m : l \notin Lookers \cup {"trailing"} /\ m # "trailing"
                           /\ Call(s, Frame(l), Frame(m)) => LookInv'
  BY <1>1, LookEnds
<1>4. CASE SkipLiteral
  BY <1>2, <1>3, <1>4 DEF SkipLiteral
<1>5. CASE SkipString(it)
  BY <1>2, <1>3, <1>5 DEF SkipString
<1>6. CASE SkipNumber(it)
  BY <1>2, <1>3, <1>6, UnlookedList DEF SkipNumber
<1>7. CASE \/ Become(it, Literal(<<"u", "l", "l">>)) \/ Become(it, Literal(<<"r", "u", "e">>))
           \/ Become(it, Literal(<<"a", "l", "s", "e">>))
  BY <1>2, <1>3, <1>7
<1>8. CASE \/ Become(Unread(it), Frame("float32")) \/ Become(Unread(it), Frame("arr"))
           \/ Become(Unread(it), Frame("obj")) \/ Return(Report(Unread(it)))
  BY <1>2, <1>3, <1>8, UnlookedList
<1> QED BY <1>4, <1>5, <1>6, <1>7, <1>8 DEF Skip

LEMMA LookString == ASSUME Inv, Inv', LookInv, ReadRawStringInner \/ ReadRawStringMore PROVE LookInv'
<1>1. /\ stk # <<>> /\ Top.at \in {"raw", "rawLoad"} /\ Top.at \in Inner /\ UNCHANGED <<input, op>>
  BY InnerList DEF ReadRawStringInner, ReadRawStringMore, Got, In, Rest
<1>2. /\ Steady(it) /\ Steady(Unread(it)) /\ Steady(Report(it))
      /\ \A h : Steady(SetHead(it, h)) /\ Steady(Report(SetHead(it, h)))
  BY Steadies
<1>3. \A s : Steady(s) =>
             /\ Return(s) => LookInv'
             /\ \A f : f.at \notin Lookers \cup {"trailing"} /\ Become(s, f) => LookInv'
             /\ \A f, g : f.at \notin Lookers \cup {"trailing"} /\ g.at # "trailing" /\ Call(s, f, g)
                  => LookInv'
  BY <1>1, LookSteps
<1>4. /\ \A l \in {"raw", "rawLoad", "u4"} : l \notin Lookers \cup {"trailing"}
      /\ "rawWait" # "trailing"
  BY UnlookedList
<1>5. DOMAIN Top = {"at", "i", "esc", "acc", "from"}
  BY <1>1, TopProperties DEF FrameType
<1>6. ASSUME NEW s, Steady(s), NEW f, f.at \in {"raw", "rawLoad"}, Become(s, f) PROVE LookInv'
  BY <1>3, <1>4, <1>6
<1>7. ASSUME NEW s, Steady(Report(s)), RawStringFails(s) PROVE LookInv'
  BY <1>3, <1>7 DEF RawStringFails
<1>8. RawStringEnds => LookInv'
  BY <1>2, <1>3 DEF RawStringEnds
<1>9. ASSUME RawStringUnicode, Top.at = "raw" PROVE LookInv'
  <2> DEFINE s == SetHead(it, Top.i + 1)
             g == [Top EXCEPT !.at = "rawWait", !.esc = FALSE, !.acc = @ \o Bytes(it, it.head, Top.i + 1)]
             f == [Top EXCEPT !.esc = FALSE, !.i = Top.i + 5, !.acc = @ \o Bytes(it, it.head, Top.i + 5)]
  <2>1. g.at = "rawWait" /\ f.at = "raw" /\ Frame("u4").at = "u4"
    BY <1>5, <1>9 DEF Frame
  <2>2. Steady(s) /\ Steady(Report(s))
    BY <1>2
  <2>3. \/ Call(s, Frame("u4"), g) \/ Become(SetHead(it, Top.i + 5), f) \/ RawStringFails(s)
    BY <1>9 DEF RawStringUnicode
  <2> HIDE DEF s, g, f
  <2>4. Call(s, Frame("u4"), g) => LookInv'
    BY <1>3, <1>4, <2>1, <2>2
  <2> QED BY <1>2, <1>6, <1>7, <2>1, <2>2, <2>3, <2>4
<1>10. ASSUME NEW c, RawStringByte(c), Top.at = "raw" PROVE LookInv'
  <2> DEFINE f == [Top EXCEPT !.esc = FALSE, !.i = @ + 1]
             g == [Top EXCEPT !.esc = ~@, !.i = @ + 1]
  <2>1. f.at = "raw" /\ g.at = "raw"
    BY <1>5, <1>10
  <2>2. RawStringEnds \/ Become(it, f) \/ Become(it, g) \/ RawStringUnicode \/ RawStringFails(it)
    BY <1>10 DEF RawStringByte
  <2> HIDE DEF f, g
  <2> QED BY <1>2, <1>6, <1>7, <1>8, <1>9, <1>10, <2>1, <2>2
<1>11. CASE ReadRawStringInner
  <2> DEFINE f == [Top EXCEPT !.at = "rawLoad", !.acc = @ \o Bytes(it, it.head, it.tail)]
  <2>1. Top.at = "raw" /\ f.at = "rawLoad"
    BY <1>5, <1>11 DEF ReadRawStringInner, In
  <2>2. RawStringFails(it) \/ RawStringByte(At(it, Top.i)) \/ Become(SetHead(it, it.tail), f)
    BY <1>11 DEF ReadRawStringInner
  <2> HIDE DEF f
  <2> QED BY <1>2, <1>6, <1>7, <1>10, <2>1, <2>2
<1>12. CASE ReadRawStringMore
  <2> DEFINE f == [Top EXCEPT !.at = "raw", !.i = Unread(it).head]
  <2>1. f.at = "raw"
    BY <1>5
  <2>2. RawStringFails(it) \/ Become(Unread(it), f)
    BY <1>12 DEF ReadRawStringMore
  <2> HIDE DEF f
  <2> QED BY <1>2, <1>6, <1>7, <2>1, <2>2
<1> QED BY <1>11, <1>12

LEMMA LookU4 == ASSUME Inv, Inv', LookInv, ReadAndFillU4 PROVE LookInv'
<1>1. /\ stk # <<>> /\ Top.at = "u4" /\ Top.at \in Inner /\ UNCHANGED <<input, op>> /\ Len(stk) >= 2
  BY InnerList DEF ReadAndFillU4, Got, In, Rest, Inv
<1>2. Steady(it')
  BY Steadies DEF ReadAndFillU4
<1> DEFINE t == Tail(stk)
           w == Tail(Tail(stk))
<1>3. t \in Seq(FrameType) /\ \A k \in 1..Len(t) : t[k].at = "trailing" => op.name = "Unmarshal"
  BY <1>1, TailRead
<1>4. w \in Seq(FrameType) /\ \A k \in 1..Len(w) : w[k].at = "trailing" => op.name = "Unmarshal"
  <2>1. Len(t) = Len(stk) - 1 /\ Len(stk) \in Nat
    BY <1>1, StackList, HeadTailProperties
  <2> HIDE DEF t
  <2>2. t # <<>>
    <3>1. Len(t) # 0
      BY <1>1, <2>1
    <3> QED BY <1>3, <3>1
  <2>3. Tail(t) \in Seq(FrameType) /\ Len(Tail(t)) = Len(t) - 1 /\ Len(t) \in Nat
        /\ \A i \in 1..Len(Tail(t)) : Tail(t)[i] = t[i + 1]
    BY <1>3, <2>2, HeadTailProperties
  <2>4. \A i \in 1..Len(Tail(t)) : i + 1 \in 1..Len(t)
    BY <2>3
  <2>5. \A k \in 1..Len(Tail(t)) : Tail(t)[k].at = "trailing" => op.name = "Unmarshal"
    BY <1>3, <2>3, <2>4
  <2> QED BY <2>3, <2>5 DEF t
<1>5. ASSUME NEW h, h.at \in {"raw", "u4"}, stk' = <<h>> \o t \/ stk' = <<h>> \o w PROVE LookInv'
  <2> HIDE DEF t, w
  <2>1. h.at \notin Lookers \cup {"trailing"} /\ op'.name = op.name
    BY <1>1, <1>5, UnlookedList
  <2>2. LastRead' /\ ~Looking'
    BY <1>3, <1>4, <1>5, <2>1, LookPush
  <2> QED BY <1>1, <1>2, <2>2, LookHandler
<1> DEFINE e == [Top EXCEPT !.acc = Append(@, tok)]
           f == [stk[2] EXCEPT !.at = "raw", !.acc = @ \o Top.acc, !.i = it.head]
           g == [stk[2] EXCEPT !.at = "raw", !.acc = @ \o Append(Top.acc, tok), !.i = it.head]
<1>6. e.at \in {"raw", "u4"} /\ f.at \in {"raw", "u4"} /\ g.at \in {"raw", "u4"}
  <2>1. 2 \in 1..Len(stk)
    BY <1>1, StackList
  <2>2. Top \in FrameType /\ stk[2] \in FrameType
    BY <1>1, <2>1, TopProperties, StackList, ElementOfSeq
  <2> QED BY <1>1, <2>2 DEF FrameType
<1>7. stk' = <<e>> \o t \/ stk' = <<f>> \o w \/ stk' = <<g>> \o w
  BY DEF ReadAndFillU4
<1> HIDE DEF t, w, e, f, g
<1> QED BY <1>5, <1>6, <1>7

LEMMA LookStrings == ASSUME Inv, Inv', LookInv, ReadStrings PROVE LookInv'
BY LookString, LookU4 DEF ReadStrings

----------------------------------------------------------------------------
(* nextToken, readByte and loadMore.                                       *)

\* a call that looks at bytes is that of the client, or within none of its own
LEMMA LookLabels ==
  ASSUME Inv, LookInv, stk # <<>>, Top.at \in Loading
  PROVE  /\ op.name \in {"More", "WhatIsNext"} => Looking /\ Top.at \in TokenFrames
         /\ ~(op.name \in {"SkipAndReturnBytes", "Decode"} /\ op.bytes # <<>>)
<1>1. Top = stk[1] /\ 1 \in 1..Len(stk)
  BY StackList
<1>2. ASSUME op.name \in {"More", "WhatIsNext"} PROVE Looking /\ Top.at \in TokenFrames
  <2>1. Top.at \in {PeekFrame, "end"}
    BY <1>1, <1>2 DEF LookInv, PeekDone
  <2> QED BY <2>1 DEF PeekFrame, Loading, TokenFrames, ByteFrames, Looking, Lookers, Idle
<1>3. ASSUME op.name \in {"SkipAndReturnBytes", "Decode"}, op.bytes # <<>> PROVE FALSE
  <2>1. Top.at \in {"decoded", "end"}
    BY <1>1, <1>3 DEF LookInv, CaptureDone
  <2> QED BY <2>1 DEF Loading, TokenFrames, ByteFrames
<1> QED BY <1>2, <1>3

LEMMA NoneIsNoByte == None \notin Byte
BY DEF Byte, None, NumberChars, Digits, Hex, EscapeChars, NumberEnd, NUL, Space, Quote, Backslash

LEMMA LookToken == ASSUME Inv, LookInv, NextToken PROVE LookInv'
<1>1. PICK p \in it.head..it.tail : IsToken(it, p) /\ it' = SetHead(it, p + 1) /\ tok' = At(it, p)
  BY DEF NextToken
<1>2. stk # <<>> /\ Top.at \in TokenFrames /\ tok = None /\ UNCHANGED <<stk, input, op>>
  BY DEF NextToken, Rest
<1>3. /\ it.head \in Nat /\ it.tail \in Nat /\ it.inputOffset \in Nat /\ p \in Nat /\ p < it.tail
      /\ it \in IteratorType
  BY <1>1, Ends DEF IsToken, InRange
<1>4. Steady(it') /\ it'.head = p + 1 /\ it'.err = it.err
  BY <1>1, <1>3, Steadies DEF SetHead, IteratorType
<1>5. Offset(it') = it.inputOffset + p + 1 /\ Offset(it') - 1 = it.inputOffset + p
  BY <1>3, <1>4 DEF Offset, Steady
<1>6. /\ Skipped(Offset(it), it.inputOffset + p) /\ Offset(it) \in Nat
      /\ it.inputOffset + p \in Nat /\ tok' = input[it.inputOffset + p + 1]
  BY <1>1, TokenAhead
<1>7. tok' # None
  <2>1. At(it, p) \in Byte
    <3>1. p \in 0..(it.tail - 1)
      BY <1>3
    <3> QED BY <3>1, AtType, Ends
  <2> QED BY <1>1, <2>1, NoneIsNoByte
<1>8. ASSUME Looking, op.err = "nil" PROVE Looked'
  <2>1. it.err = "nil" /\ Skipped(op.start, Offset(it))
    BY <1>2, <1>8 DEF LookInv, LookAhead, Looked
  <2>2. Skipped(op.start, it.inputOffset + p)
    <3>1. op.start \in Int
      BY StackList
    <3> QED BY <1>6, <2>1, <3>1, SkippedTwice
  <2>3. input[Offset(it')] = tok'
    BY <1>5, <1>6
  <2> QED BY <1>2, <1>4, <1>5, <1>7, <2>1, <2>2, <2>3 DEF Looked, Skipped
<1>9. LookAhead' /\ LastRead'
  <2>1. ~(In("firstLoad"))' /\ Looking' = Looking
    BY <1>2 DEF In, Top, Looking, Idle, TokenFrames
  <2> QED BY <1>2, <1>8, <2>1 DEF LookInv, LookAhead, LastRead
<1>10. PeekDone' /\ CaptureDone'
  <2>1. Top.at \in Loading
    BY <1>2 DEF Loading
  <2>2. Looking' = Looking
    BY <1>2 DEF Looking, Idle, Top
  <2> QED BY <1>2, <2>1, <2>2, LookLabels DEF LookInv, PeekDone, CaptureDone, PeekFrame
<1>11. CaptureBegins'
  <2>1. Origin(it') = Origin(it) /\ it'.capturing = it.capturing
    BY <1>4 DEF Steady, Origin
  <2> QED BY <1>2, <2>1 DEF LookInv, CaptureBegins, Skipped
<1> QED BY <1>9, <1>10, <1>11 DEF LookInv

LEMMA LookByte == ASSUME Inv, Inv', LookInv, ReadByte PROVE LookInv'
<1>1. /\ stk # <<>> /\ Top.at \in ByteFrames /\ it' = SetHead(it, it.head + 1)
      /\ UNCHANGED <<stk, input, op>>
  BY DEF ReadByte, Rest
<1>2. Top.at \in Inner /\ ~Looking'
  BY <1>1, InnerList DEF ByteFrames, Looking, Top, Lookers
<1>3. LastRead'
  BY <1>1 DEF LookInv, LastRead
<1> QED BY <1>1, <1>2, <1>3, Steadies, LookHandler

LEMMA LookLoading ==
  ASSUME Inv, LookInv, Load
  PROVE  /\ LastRead' /\ PeekDone' /\ CaptureDone' /\ ~(In("firstLoad"))'
         /\ tok = None /\ stk # <<>> /\ UNCHANGED input /\ op'.err = op.err /\ op'.start = op.start
         /\ Looking' => Looking /\ (\/ stk' = stk /\ Top.at \in TokenFrames /\ ~HasToken(it)
                                    \/ In("firstLoad") /\ LoadMore)
<1>1. /\ stk # <<>> /\ tok = None /\ Blocked /\ input' = input /\ Top.at \in Loading
  BY DEF Load, LoadSlice, LoadMore, LoadFails, Blocked, Loading
<1>2. /\ op'.err = op.err /\ op'.start = op.start /\ op'.name = op.name /\ op'.bytes = op.bytes
      /\ op.dry # "nil" => op'.dry # "nil"
  <2>1. CASE op' = op
    BY <2>1
  <2>2. ASSUME NEW e \in ReadErrors, op' = [op EXCEPT !.dry = IF @ = "ioerr" THEN @ ELSE e]
        PROVE  /\ op'.err = op.err /\ op'.start = op.start /\ op'.name = op.name /\ op'.bytes = op.bytes
               /\ op.dry # "nil" => op'.dry # "nil"
    <3>1. op \in OperationType /\ e # "nil"
      BY ReadErrorsAssumption, StackList
    <3> QED BY <2>2, <3>1 DEF OperationType
  <2> QED BY <2>1, <2>2 DEF Load, LoadSlice, LoadMore, LoadFails
<1>3. (stk' = Loaded /\ LoadMore) \/ stk' = LoadFailed
  BY DEF Load, LoadSlice, LoadMore, LoadFails
<1>4. /\ op.name \in {"More", "WhatIsNext"} => Looking /\ Top.at \in TokenFrames
      /\ ~(op.name \in {"SkipAndReturnBytes", "Decode"} /\ op.bytes # <<>>)
  BY <1>1, LookLabels
<1>5. CaptureDone'
  BY <1>2, <1>4 DEF CaptureDone
<1>6. CASE Top.at \notin {"numberLoad", "firstLoad"}
  <2>1. stk' = stk
    BY <1>3, <1>6 DEF Loaded, LoadFailed
  <2>2. LastRead' /\ ~(In("firstLoad"))' /\ Looking' = Looking
    BY <1>2, <1>6, <2>1 DEF LookInv, LastRead, In, Top, Looking, Idle
  <2>3. PeekDone'
    BY <1>2, <1>4, <2>1, <2>2 DEF LookInv, PeekDone, PeekFrame
  <2>4. Looking => Top.at \in TokenFrames /\ ~HasToken(it)
    BY <1>1, <1>6 DEF Looking, Lookers, TokenFrames, ByteFrames, Blocked
  <2> QED BY <1>1, <1>2, <1>5, <2>1, <2>2, <2>3, <2>4
<1>7. CASE Top.at \in {"numberLoad", "firstLoad"}
  <2>1. PeekDone'
    BY <1>2, <1>4, <1>7 DEF PeekDone, TokenFrames
  <2>2. CASE stk' = <<Frame("noMore")>>
    <3>1. Len(stk') = 1 /\ stk'[1].at = "noMore" /\ Head(stk').at = "noMore"
      BY <2>2 DEF Frame
    <3>2. LastRead' /\ ~(In("firstLoad"))' /\ ~Looking'
      BY <3>1 DEF LastRead, In, Looking, Top, Lookers
    <3> QED BY <1>1, <1>2, <1>5, <2>1, <3>2
  <2>3. CASE In("firstLoad") /\ LoadMore /\ stk' = <<Frame("readNil")>> \o Tail(stk)
    <3> DEFINE f == Frame("readNil")
               t == Tail(stk)
    <3>1. f \in FrameType /\ f.at = "readNil"
      BY FrameTyped, LabelsList
    <3>2. t \in Seq(FrameType) /\ \A k \in 1..Len(t) : t[k].at = "trailing" => op.name = "Unmarshal"
      BY <1>1, TailRead
    <3> HIDE DEF f
    <3>3. stk' = <<f>> \o t
      BY <2>3 DEF f
    <3> HIDE DEF t
    <3>4. Len(stk') = Len(t) + 1 /\ stk'[1] = f /\ Head(stk') = f /\ Len(t) \in Nat
          /\ \A k \in 2..(Len(t) + 1) : stk'[k] = t[k - 1]
      <4>1. Len(t) \in Nat
        BY <3>2
      <4> QED BY <3>1, <3>2, <3>3, <4>1, ConsProperties
    <3>5. LastRead'
      <4>1. ASSUME NEW k \in 1..Len(stk'), stk'[k].at = "trailing" PROVE op'.name = "Unmarshal"
        <5>1. k # 1
          BY <3>1, <3>4, <4>1
        <5>2. k \in 2..(Len(t) + 1) /\ k - 1 \in 1..Len(t)
          BY <3>4, <5>1
        <5> QED BY <1>2, <3>2, <3>4, <4>1, <5>2
      <4> QED BY <4>1 DEF LastRead
    <3>6. ~(In("firstLoad"))' /\ Looking
      BY <1>1, <2>3, <3>1, <3>4 DEF In, Looking, Top, Lookers, Idle
    <3> QED BY <1>1, <1>2, <1>5, <2>1, <2>3, <3>5, <3>6
  <2>4. CASE \E f : f.at = "number" /\ stk' = <<f>> \o Tail(stk)
    <3>1. PICK f : f.at = "number" /\ stk' = <<f>> \o Tail(stk)
      BY <2>4
    <3>2. LastRead' /\ ~Looking'
      <4>1. f.at \notin Lookers \cup {"trailing"}
        BY <3>1, UnlookedList
      <4> QED BY <1>1, <1>2, <3>1, <4>1, TailRead, LookPush
    <3>3. ~(In("firstLoad"))'
      BY <3>2 DEF In, Looking, Lookers, Idle
    <3> QED BY <1>1, <1>2, <1>5, <2>1, <3>2, <3>3
  <2>5. /\ [Top EXCEPT !.at = "number"].at = "number"
        /\ [Top EXCEPT !.at = "number", !.esc = TRUE].at = "number"
    BY <1>1, TopProperties DEF FrameType
  <2> QED BY <1>1, <1>3, <1>7, <2>2, <2>3, <2>4, <2>5 DEF Loaded, LoadFailed, In
<1> QED BY <1>6, <1>7

\* a refill keeps the place in the input where the capture begins
LEMMA OriginKept ==
  ASSUME Inv, NEW n, it' = Refill(it, delivered, n)
  PROVE  /\ it'.capturing = it.capturing /\ it'.err = it.err /\ it'.head = 0
         /\ it'.inputOffset = it.inputOffset + it.tail
         /\ it.capturing => Origin(it') = Origin(it)
<1> DEFINE t == SaveCapture(it)
           L == Len(it.captured)
           cs == it.captureStartedAt
           saved == it.captured \o Bytes(it, cs, it.tail)
<1>1. /\ it \in IteratorType /\ InRange(it, source) /\ L \in Nat /\ it.tail \in Nat
      /\ it.inputOffset \in Nat
  BY Ends DEF InRange
<1>2. /\ DOMAIN t = DOMAIN it /\ t.capturing = it.capturing /\ t.err = it.err
      /\ t.inputOffset = it.inputOffset /\ t.tail = it.tail
  BY <1>1 DEF SaveCapture, IteratorType
<1>3. it' = [t EXCEPT !.buf = [i \in 1..BufSize |-> IF i <= n THEN input[delivered + i] ELSE it.buf[i]],
                      !.inputOffset = @ + it.tail, !.head = 0, !.tail = n]
  BY DEF Refill
<1>4. DOMAIN it = {"buf", "head", "tail", "depth", "capturing", "captured", "captureStartedAt",
                   "inputOffset", "err"}
  BY <1>1 DEF IteratorType
<1> HIDE DEF t
<1>5. /\ it'.capturing = it.capturing /\ it'.err = it.err /\ it'.head = 0
      /\ it'.inputOffset = it.inputOffset + it.tail
      /\ it'.captured = t.captured /\ it'.captureStartedAt = t.captureStartedAt
  BY <1>2, <1>3, <1>4
<1>6. ASSUME it.capturing PROVE Origin(it') = Origin(it)
  <2>1. cs \in Nat
    BY <1>1, <1>6 DEF InRange, IteratorType
  <2>2. Len(saved) = L + (it.tail - cs)
    BY <1>1, <1>6, Saved
  <2> HIDE DEF saved
  <2>3. t.captured = saved /\ t.captureStartedAt = 0
    BY <1>4, <1>6 DEF SaveCapture, saved, t
  <2>4. Origin(it') = it.inputOffset + it.tail + 0 - Len(saved)
    BY <1>5, <2>3 DEF Origin
  <2>5. Origin(it) = it.inputOffset + cs - L
    BY DEF Origin
  <2> HIDE DEF cs, L
  <2> QED BY <1>1, <2>1, <2>2, <2>4, <2>5
<1> QED BY <1>5, <1>6

LEMMA LookLoad == ASSUME Inv, LookInv, Load PROVE LookInv'
<1>1. /\ LastRead' /\ PeekDone' /\ CaptureDone' /\ ~(In("firstLoad"))'
      /\ tok = None /\ stk # <<>> /\ UNCHANGED input /\ op'.err = op.err /\ op'.start = op.start
      /\ Looking' => Looking /\ (\/ stk' = stk /\ Top.at \in TokenFrames /\ ~HasToken(it)
                                 \/ In("firstLoad") /\ LoadMore)
  BY LookLoading
<1>2. /\ it \in IteratorType /\ it.inputOffset \in Nat /\ it.head \in Nat /\ it.tail \in Nat
      /\ op.start \in Int /\ Offset(it) = it.inputOffset + it.head
  BY StackList, Ends DEF InRange, Offset
<1>3. SUFFICES (Looking' /\ op'.err = "nil" => Looked') /\ CaptureBegins'
  BY <1>1 DEF LookInv, LookAhead
<1>4. ASSUME Looking', op'.err = "nil"
      PROVE  it.err = "nil" /\ Skipped(op.start, Offset(it)) /\ Skipped(op.start, it.inputOffset + it.tail)
  <2>1. it.err = "nil" /\ Skipped(op.start, Offset(it))
    BY <1>1, <1>4 DEF LookInv, LookAhead, Looked
  <2>2. CASE ~HasToken(it)
    <3>1. Skipped(Offset(it), it.inputOffset + it.tail)
      BY <2>2, NoTokenAhead
    <3> QED BY <1>2, <2>1, <3>1, SkippedTwice
  <2>3. CASE In("firstLoad")
    <3>1. it.head = it.tail
      BY <2>3 DEF LookInv, LookAhead
    <3> QED BY <1>2, <2>1, <3>1
  <2> QED BY <1>1, <1>4, <2>1, <2>2, <2>3
<1>5. CASE LoadSlice
  <2>1. it' = IF it.err = "nil" THEN SetError(SetHead(it, it.tail), "EOF") ELSE it
    BY <1>5 DEF LoadSlice
  <2>2. op' = op /\ tok' = FailedToken /\ ~LoadMore
    BY <1>5 DEF LoadSlice, LoadMore
  <2>3. Steady(it')
    <3>1. Steady(SetError(SetHead(it, it.tail), "EOF")) /\ Steady(it)
      BY Steadies
    <3> QED BY <2>1, <3>1
  <2>4. ASSUME Looking', op'.err = "nil" PROVE Looked'
    <3>1. it'.err = "EOF" /\ it'.head = it.tail /\ it'.inputOffset = it.inputOffset
      BY <1>2, <1>4, <2>1, <2>4 DEF SetError, SetHead, IteratorType
    <3>2. tok' = NUL /\ tok' # None
      BY <1>1, <2>2, <2>4 DEF FailedToken, NUL, None
    <3>3. Offset(it') = it.inputOffset + it.tail
      BY <3>1 DEF Offset
    <3> QED BY <1>1, <1>4, <2>4, <3>1, <3>2, <3>3 DEF Looked, Skipped
  <2>5. CaptureBegins'
    <3>1. Origin(it') = Origin(it) /\ it'.capturing = it.capturing
      BY <2>3 DEF Steady, Origin
    <3> QED BY <1>1, <2>2, <3>1 DEF LookInv, CaptureBegins, Skipped
  <2> QED BY <2>4, <2>5
<1>6. CASE LoadFails
  <2>1. PICK e \in ReadErrors :
          /\ it' = IF it.err = "nil" THEN SetError(SaveCapture(it), e) ELSE SaveCapture(it)
          /\ op' = [op EXCEPT !.dry = IF @ = "ioerr" THEN @ ELSE e]
    BY <1>6 DEF LoadFails
  <2>2. e # "nil" /\ op \in OperationType
    BY ReadErrorsAssumption, StackList
  <2>3. op'.dry # "nil"
    BY <2>1, <2>2 DEF OperationType
  <2>4. tok' = FailedToken /\ ~LoadMore
    <3>1. delivered' = delivered /\ tok' = FailedToken
      BY <1>6 DEF LoadFails
    <3>2. ~LoadMore
      BY <3>1, Ends, BufSizeAssumption DEF LoadMore
    <3> QED BY <3>1, <3>2
  <2>5. ASSUME Looking', op'.err = "nil" PROVE Looked'
    <3>1. /\ DOMAIN SaveCapture(it) = DOMAIN it /\ SaveCapture(it).head = it.head
          /\ SaveCapture(it).inputOffset = it.inputOffset
      BY <1>2 DEF SaveCapture, IteratorType
    <3>2. DOMAIN it = {"buf", "head", "tail", "depth", "capturing", "captured", "captureStartedAt",
                       "inputOffset", "err"}
      BY <1>2 DEF IteratorType
    <3>3. it' = [SaveCapture(it) EXCEPT !.err = e]
      BY <1>4, <2>1, <2>5 DEF SetError
    <3>4. it'.err = e /\ it'.head = it.head /\ it'.inputOffset = it.inputOffset
      BY <3>1, <3>2, <3>3
    <3>5. tok' = NUL /\ tok' # None
      BY <1>1, <2>4, <2>5 DEF FailedToken, NUL, None
    <3>6. Offset(it') = Offset(it)
      BY <3>4 DEF Offset
    <3> QED BY <1>1, <1>4, <2>2, <2>5, <3>4, <3>5, <3>6 DEF Looked, Skipped
  <2> QED BY <2>3, <2>5 DEF CaptureBegins
<1>7. CASE LoadMore
  <2>1. PICK n : it' = Refill(it, delivered, n)
    BY <1>7 DEF LoadMore
  <2>2. /\ it'.capturing = it.capturing /\ it'.err = it.err /\ it'.head = 0
        /\ it'.inputOffset = it.inputOffset + it.tail
        /\ it.capturing => Origin(it') = Origin(it)
    BY <2>1, OriginKept
  <2>3. op' = op /\ tok' = tok
    BY <1>7 DEF LoadMore
  <2>4. Offset(it') = it.inputOffset + it.tail
    BY <1>2, <2>2 DEF Offset
  <2>5. ASSUME Looking', op'.err = "nil" PROVE Looked'
    BY <1>1, <1>4, <2>2, <2>3, <2>4, <2>5 DEF Looked, Skipped
  <2>6. CaptureBegins'
    BY <1>1, <2>2, <2>3 DEF LookInv, CaptureBegins, Skipped
  <2> QED BY <2>5, <2>6
<1> QED BY <1>5, <1>6, <1>7 DEF Load
----------------------------------------------------------------------------
(* The clients' last steps.                                                *)

\* a frame of the client's that returns to the one below
LEMMA LookDone ==
  ASSUME Inv, Inv', LookInv, stk # <<>>, NEW s, Return(s), Steady(s), UNCHANGED input, SameClient
  PROVE  /\ LastRead' /\ ~Looking'
         /\ \A A : (\A k \in 1..Len(stk) : stk[k].at \in A) => \A k \in 1..Len(stk') : stk'[k].at \in A
         /\ PeekDone' /\ CaptureDone' => LookInv'
<1>1. stk' = Tail(stk) /\ it' = s
  BY DEF Return
<1>2. LastRead' /\ ~Looking'
  BY <1>1, LookReturn DEF SameClient
<1>3. /\ Len(Tail(stk)) = Len(stk) - 1 /\ Len(stk) \in Nat
      /\ \A i \in 1..Len(Tail(stk)) : Tail(stk)[i] = stk[i + 1]
  BY StackList, HeadTailProperties
<1>4. \A i \in 1..Len(stk') : i + 1 \in 1..Len(stk) /\ stk'[i] = stk[i + 1]
  BY <1>1, <1>3
<1>5. PeekDone' /\ CaptureDone' => LookInv'
  BY <1>1, <1>2, LookStep
<1> QED BY <1>2, <1>4, <1>5

LEMMA LookNil == ASSUME Inv, Inv', LookInv, ReadNil PROVE LookInv'
<1>1. /\ stk # <<>> /\ Top.at = "readNil" /\ Top.at \in Inner /\ tok # None /\ UNCHANGED <<input, op>>
  BY InnerList DEF ReadNil, Got, In, Rest
<1>2. CASE Become(it, Literal(<<"u", "l", "l">>))
  <2>1. Steady(it)
    BY Steadies
  <2> QED BY <1>1, <1>2, <2>1, LookEnds
<1>3. CASE Call(StartCapture(Unread(it)), Frame("skip"), Frame("stopCapture"))
  <2> DEFINE f == Frame("skip")
             g == Frame("stopCapture")
             t == Tail(stk)
             u == Unread(it)
             s == StartCapture(u)
  <2>1. f \in FrameType /\ g \in FrameType /\ f.at = "skip" /\ g.at = "stopCapture"
    BY FrameTyped, LabelsList
  <2>2. it' = s /\ stk' = <<f, g>> \o t
    BY <1>3 DEF Call
  <2> HIDE DEF f, g
  <2>3. t \in Seq(FrameType) /\ \A k \in 1..Len(t) : t[k].at = "trailing" => op.name = "Unmarshal"
    BY <1>1, TailRead
  <2>4. it \in IteratorType /\ op.start \in Int
    BY Ends, StackList DEF InRange
  <2>5. /\ s.captured = <<>> /\ s.captureStartedAt = u.head /\ s.inputOffset = u.inputOffset
        /\ Steady(u) /\ u.inputOffset \in Nat /\ u.head \in Int /\ u.head \in Nat
    <3>1. Steady(u)
      BY Steadies
    <3>2. DOMAIN u = {"buf", "head", "tail", "depth", "capturing", "captured", "captureStartedAt",
                       "inputOffset", "err"}
      BY <2>4, <3>1 DEF Steady, IteratorType
    <3>3. u.inputOffset \in Nat
      BY <3>1, Ends DEF Steady
    <3>4. u.head \in Nat
      <4>1. Same(u)
        BY <1>1, Unreads
      <4> QED BY <4>1 DEF Same, OK, Good, InRange, IteratorType
    <3> HIDE DEF u
    <3>5. s.captured = <<>> /\ s.captureStartedAt = u.head /\ s.inputOffset = u.inputOffset
      BY <3>2 DEF StartCapture
    <3> QED BY <3>1, <3>3, <3>4, <3>5
  <2>6. Origin(s) = Offset(u)
    <3> HIDE DEF s, u
    <3>1. Len(s.captured) = 0
      BY <2>5
    <3> QED BY <2>5, <3>1 DEF Origin, Offset
  <2>7. op.err = "nil" => Skipped(op.start, Offset(u))
    <3>1. ASSUME op.err = "nil" PROVE Skipped(op.start, Offset(u))
      <4>1. Looking
        BY <1>1 DEF Looking, Lookers, Idle
      <4>2. Looked
        BY <3>1, <4>1 DEF LookInv, LookAhead
      <4>3. CASE it.err # "nil"
        BY <1>1, <4>2, <4>3 DEF Looked, Unread
      <4>4. CASE it.err = "nil"
        <5>1. Skipped(op.start, Offset(it) - 1)
          BY <1>1, <4>2, <4>4 DEF Looked
        <5>2. u.head = it.head - 1 /\ u.inputOffset = it.inputOffset
          BY <2>4, <4>4 DEF Unread, SetHead, IteratorType
        <5>3. Offset(u) = Offset(it) - 1
          BY <5>2, Ends DEF Offset
        <5> QED BY <5>1, <5>3
      <4> QED BY <4>3, <4>4
    <3> QED BY <3>1
  <2> HIDE DEF s, u
  <2>8. CaptureBegins'
    BY <1>1, <2>2, <2>6, <2>7 DEF CaptureBegins, Skipped
  <2>9. LookInv'
    <3>1. LastRead' /\ ~Looking'
      <4> HIDE DEF t
      <4> DEFINE v == <<g>> \o t
      <4>1. stk' = <<f>> \o v
        BY <2>2, <2>3, ConsTwo
      <4>2. /\ v \in Seq(FrameType) /\ Len(v) = Len(t) + 1 /\ v[1] = g /\ Len(t) \in Nat
            /\ \A k \in 2..(Len(t) + 1) : v[k] = t[k - 1]
        <5>1. Len(t) \in Nat
          BY <2>3
        <5> QED BY <2>1, <2>3, <5>1, ConsProperties
      <4> HIDE DEF v
      <4>3. ASSUME NEW k \in 1..Len(v), v[k].at = "trailing" PROVE op.name = "Unmarshal"
        <5>1. k # 1
          BY <2>1, <4>2, <4>3
        <5>2. k \in 2..(Len(t) + 1) /\ k - 1 \in 1..Len(t)
          BY <4>2, <5>1
        <5> QED BY <2>3, <4>2, <4>3, <5>2
      <4>4. f.at \notin Lookers \cup {"trailing"} /\ op'.name = op.name
        BY <1>1, <2>1, UnlookedList
      <4> QED BY <4>1, <4>2, <4>3, <4>4, LookPush
    <3>2. Top = stk[1] /\ 1 \in 1..Len(stk)
      BY <1>1, StackList
    <3>3. PeekDone' /\ CaptureDone'
      <4>1. op.name \notin {"More", "WhatIsNext"}
        BY <1>1, <3>2 DEF LookInv, PeekDone, PeekFrame
      <4>2. ~(op.name \in {"SkipAndReturnBytes", "Decode"} /\ op.bytes # <<>>)
        BY <1>1, <3>2 DEF LookInv, CaptureDone
      <4> QED BY <1>1, <4>1, <4>2 DEF PeekDone, CaptureDone
    <3>4. LookAhead'
      <4>1. ~(In("firstLoad"))'
        BY <3>1 DEF Looking, Lookers, In, Idle
      <4> QED BY <3>1, <4>1 DEF LookAhead
    <3> QED BY <2>8, <3>1, <3>3, <3>4 DEF LookInv
  <2> QED BY <2>9
<1> QED BY <1>2, <1>3 DEF ReadNil

\* the bytes captured are those of the input from the origin to head
LEMMA CapturedIs ==
  ASSUME Inv, it.capturing, op.dry = "nil"
  PROVE  /\ Captured(it) = SubSeq(input, Origin(it) + 1, Offset(it))
         /\ Origin(it) \in Nat /\ Offset(it) \in Nat /\ Origin(it) <= Offset(it)
<1> DEFINE cs == it.captureStartedAt
           c == it.captured
           L == Len(c)
           o == Origin(it)
           m == it.inputOffset + cs
           n == Offset(it)
           b == Bytes(it, cs, it.head)
           e == SubSeq(input, o + 1, m)
<1>1. /\ it.head \in Nat /\ it.tail \in Nat /\ it.head <= it.tail /\ it.inputOffset \in Nat
      /\ c \in Seq(Byte) /\ L \in Nat /\ cs \in Nat /\ cs <= it.head
      /\ input \in Seq(Byte) /\ Len(input) \in Nat
  <2>1. it.captured \in Seq(Byte) /\ cs \in 0..it.head
    BY Ends DEF InRange
  <2> QED BY <2>1, Ends
<1>2. L <= m /\ \A k \in 1..L : c[k] = input[m - L + k]
  <2>1. Stretch(it, input)
    BY DEF Inv, Good
  <2> QED BY <1>1, <2>1 DEF Stretch
<1>3. b = SubSeq(input, it.inputOffset + cs + 1, it.inputOffset + it.head)
      /\ it.inputOffset + it.head <= Len(input)
  BY <1>1, WindowBytes
<1>4. n = it.inputOffset + it.head /\ o = m - L /\ m = it.inputOffset + cs
  BY <1>1 DEF Offset, Origin
<1>5. Captured(it) = c \o b
  BY DEF Captured
<1> HIDE DEF o, n, b, cs, L, m, e
<1>6. o \in Nat /\ m \in Nat /\ n \in Nat /\ o <= m /\ m <= n /\ n <= Len(input) /\ m - (o + 1) + 1 = L
  <2>1. m \in Nat /\ n \in Nat /\ m <= n /\ n <= Len(input)
    <3>1. it.inputOffset + it.head <= Len(input)
      BY <1>3
    <3>2. m = it.inputOffset + cs /\ n = it.inputOffset + it.head
      BY <1>4
    <3>3. it.inputOffset \in Nat /\ cs \in Nat /\ it.head \in Nat /\ cs <= it.head
      BY <1>1
    <3> QED BY <3>1, <3>2, <3>3
  <2>2. L \in Nat /\ L <= m
    BY <1>1, <1>2
  <2>3. o = m - L
    BY <1>4
  <2>4. o \in Nat /\ o <= m /\ m - (o + 1) + 1 = L
    BY <2>1, <2>2, <2>3
  <2> QED BY <2>1, <2>4
<1>7. b = SubSeq(input, m + 1, n)
  BY <1>3, <1>4
<1>8. c = e
  <2>1. \A i \in (o + 1)..m : input[i] \in Byte
    BY <1>1, <1>6, ElementOfSeq
  <2>2. o + 1 \in Int /\ m \in Int
    BY <1>6
  <2>3. /\ e \in Seq(Byte) /\ Len(e) = (IF o + 1 <= m THEN m - (o + 1) + 1 ELSE 0)
        /\ \A i \in 1..(m - (o + 1) + 1) : e[i] = input[(o + 1) + i - 1]
    BY <2>1, <2>2, SubSeqProperties DEF e
  <2>4. Len(e) = L /\ Len(c) = L
    BY <1>1, <1>6, <2>3 DEF L
  <2>5. ASSUME NEW k \in 1..L PROVE c[k] = e[k]
    <3>1. k \in 1..(m - (o + 1) + 1)
      BY <1>6, <2>5
    <3>2. m - L = o
      BY <1>4
    <3>3. m - L + k = (o + 1) + k - 1
      BY <1>6, <2>5, <3>2
    <3> QED BY <1>2, <2>3, <2>5, <3>1, <3>3
  <2> HIDE DEF c
  <2> QED BY <1>1, <2>3, <2>4, <2>5, SeqEqual
<1>9. o + 1 \in 1..(Len(input) + 1) /\ m \in (o + 1 - 1)..Len(input) /\ n \in m..Len(input)
  BY <1>1, <1>6, SMTT(30)
<1>10. e \o b = SubSeq(input, o + 1, n)
  <2>1. input \in Seq(Byte)
    BY <1>1
  <2>2. SubSeq(input, o + 1, m) \o SubSeq(input, m + 1, n) = SubSeq(input, o + 1, n)
    BY <1>6, <1>9, <2>1, ConcatAdjacentSubSeq
  <2> QED BY <1>7, <2>2 DEF e
<1>11. Captured(it) = SubSeq(input, o + 1, n)
  BY <1>5, <1>8, <1>10
<1>12. o <= n
  BY <1>6
<1> QED BY <1>6, <1>11, <1>12 DEF o, n

LEMMA LookCaptured == ASSUME Inv, Inv', LookInv, ReturnCaptured PROVE LookInv'
<1>1. /\ stk # <<>> /\ Top.at = "stopCapture" /\ op' = [op EXCEPT !.bytes = Captured(it)]
      /\ it' = StopCapture(it) /\ stk' = Tail(stk) /\ UNCHANGED input
  BY DEF ReturnCaptured, In, Return
<1>2. /\ op \in OperationType /\ op.start \in Nat /\ it \in IteratorType /\ Top = stk[1]
      /\ 1 \in 1..Len(stk)
  BY <1>1, StackList, Ends DEF InRange
<1>3. /\ op'.name = op.name /\ op'.start = op.start /\ op'.err = op.err /\ op'.dry = op.dry
      /\ op'.bytes = Captured(it)
  BY <1>1, <1>2 DEF OperationType
<1>4. it'.capturing = FALSE /\ it'.head = it.head /\ it'.inputOffset = it.inputOffset
  BY <1>1, <1>2 DEF StopCapture, IteratorType
<1>5. LastRead' /\ ~Looking'
  BY <1>1, <1>3, LookReturn
<1>6. it.capturing
  <2>1. HasStop(stk)
    BY <1>1, <1>2 DEF HasStop
  <2> QED BY <2>1 DEF Inv
<1>7. LookAhead' /\ CaptureBegins'
  <2>1. ~(In("firstLoad"))'
    BY <1>5 DEF Looking, Lookers, In, Idle
  <2> QED BY <1>4, <1>5, <2>1 DEF LookAhead, CaptureBegins
<1>8. PeekDone'
  <2>1. op.name \notin {"More", "WhatIsNext"}
    BY <1>1, <1>2 DEF LookInv, PeekDone, PeekFrame
  <2> QED BY <1>3, <2>1 DEF PeekDone
<1>9. ASSUME op.name \in {"SkipAndReturnBytes", "Decode"}, NEW k \in 1..Len(stk')
      PROVE  stk'[k].at \in {"decoded", "end"}
  <2>1. /\ Len(Tail(stk)) = Len(stk) - 1 /\ Len(stk) \in Nat
        /\ \A i \in 1..Len(Tail(stk)) : Tail(stk)[i] = stk[i + 1]
    BY <1>1, StackList, HeadTailProperties
  <2>2. k + 1 \in (1 + 1)..Len(stk) /\ k + 1 \in 1..Len(stk) /\ stk'[k] = stk[k + 1]
    BY <1>1, <1>9, <2>1
  <2>3. stk[k + 1].at \in Outer
    BY <1>1, <1>2, <2>2 DEF Inv, StackOK, Outermost
  <2>4. stk[k + 1].at # "trailing"
    BY <1>9, <2>2 DEF LookInv, LastRead
  <2> QED BY <2>2, <2>3, <2>4 DEF Outer
<1>10. ASSUME op.dry = "nil", op.err = "nil" PROVE (Returned(Offset(it)))'
  <2>1. /\ Captured(it) = SubSeq(input, Origin(it) + 1, Offset(it))
        /\ Origin(it) \in Nat /\ Offset(it) \in Nat /\ Origin(it) <= Offset(it)
    BY <1>6, <1>10, CapturedIs
  <2>2. Skipped(op.start, Origin(it))
    BY <1>6, <1>10 DEF LookInv, CaptureBegins
  <2>3. Origin(it) \in op.start..Offset(it)
    BY <1>2, <2>1, <2>2 DEF Skipped
  <2>4. Offset(it') = Offset(it)
    BY <1>4 DEF Offset
  <2> QED BY <1>1, <1>3, <2>1, <2>2, <2>3, <2>4 DEF Returned, Skipped
<1>11. CaptureDone'
  BY <1>3, <1>9, <1>10 DEF CaptureDone
<1> QED BY <1>5, <1>7, <1>8, <1>11 DEF LookInv

LEMMA LookOuter == ASSUME Inv, Inv', LookInv, Decoded \/ Trailing PROVE LookInv'
<1>1. /\ stk # <<>> /\ Top.at \in {"decoded", "trailing"} /\ UNCHANGED <<input, op>> /\ SameClient
  BY DEF Decoded, Trailing, Got, In, Rest, SameClient
<1>2. PICK s \in {it, Report(it)} : Return(s)
  BY DEF Decoded, Trailing
<1>3. Steady(s)
  BY Steadies
<1>4. it' = s /\ Offset(it') = Offset(it)
  <2>1. it' = s
    BY <1>2 DEF Return
  <2>2. Report(it).head = it.head /\ Report(it).inputOffset = it.inputOffset
    BY Ends DEF Report, SetError, InRange, IteratorType
  <2> QED BY <2>1, <2>2 DEF Offset
<1>5. Top = stk[1] /\ 1 \in 1..Len(stk)
  BY <1>1, StackList
<1>6. PeekDone'
  <2>1. op.name \notin {"More", "WhatIsNext"}
    BY <1>1, <1>5 DEF LookInv, PeekDone, PeekFrame
  <2> QED BY <1>1, <2>1 DEF PeekDone
<1>7. CaptureDone'
  <2>1. ASSUME op.name \in {"SkipAndReturnBytes", "Decode"}, op.bytes # <<>>
        PROVE  /\ \A k \in 1..Len(stk') : stk'[k].at \in {"decoded", "end"}
               /\ op.dry = "nil" /\ op.err = "nil" => Returned(Offset(it))
    <3>1. \A k \in 1..Len(stk) : stk[k].at \in {"decoded", "end"}
      BY <2>1 DEF LookInv, CaptureDone
    <3> QED BY <1>1, <1>2, <1>3, <2>1, <3>1, LookDone DEF LookInv, CaptureDone
  <2> QED BY <1>1, <1>4, <2>1 DEF CaptureDone, Returned, Skipped
<1> QED BY <1>1, <1>2, <1>3, <1>6, <1>7, LookDone

LEMMA LookPeek == ASSUME Inv, Inv', LookInv, Peek PROVE LookInv'
<1>1. /\ stk # <<>> /\ Top.at \in {"more", "whatIsNext"} /\ tok # None /\ UNCHANGED input
      /\ op' = [op EXCEPT !.more = tok \notin {NUL, "]", "}"}]
  BY DEF Peek, Got, In
<1>2. op \in OperationType /\ op.start \in Nat /\ Top = stk[1] /\ 1 \in 1..Len(stk)
  BY <1>1, StackList
<1>3. SameClient /\ op'.bytes = op.bytes
  BY <1>1, <1>2 DEF SameClient, OperationType
<1>4. PICK s : s = (IF Top.at = "more" /\ tok = NUL THEN it ELSE Unread(it)) /\ Return(s)
  BY DEF Peek
<1>5. Steady(s)
  BY <1>4, Steadies
<1>6. it' = s
  BY <1>4 DEF Return
<1>7. ASSUME op.name \in {"More", "WhatIsNext"}, op.err = "nil" PROVE Peeked(Offset(s))
  <2>1. Looked
    BY <1>1, <1>7 DEF LookInv, LookAhead, Looking, Lookers, Idle
  <2>2. Top.at = PeekFrame
    BY <1>1, <1>2, <1>7 DEF LookInv, PeekDone
  <2>3. CASE it.err # "nil"
    <3>1. s = it /\ Skipped(op.start, Offset(it))
      BY <1>1, <1>4, <2>1, <2>3 DEF Looked, Unread
    <3> QED BY <3>1 DEF Peeked
  <2>4. CASE it.err = "nil" /\ Top.at = "more" /\ tok = NUL
    <3>1. s = it /\ input[Offset(it)] = NUL /\ Skipped(op.start, Offset(it) - 1)
      BY <1>1, <1>4, <2>1, <2>4 DEF Looked
    <3>2. op.name = "More"
      BY <1>7, <2>2, <2>4 DEF PeekFrame
    <3> QED BY <3>1, <3>2 DEF Peeked
  <2>5. CASE it.err = "nil" /\ ~(Top.at = "more" /\ tok = NUL)
    <3>1. s = SetHead(it, it.head - 1) /\ Skipped(op.start, Offset(it) - 1)
      BY <1>1, <1>4, <2>1, <2>5 DEF Looked, Unread
    <3>2. it \in IteratorType /\ it.head \in Nat /\ it.inputOffset \in Nat
      BY Ends DEF InRange
    <3>3. s.head = it.head - 1 /\ s.inputOffset = it.inputOffset
      BY <3>1, <3>2 DEF SetHead, IteratorType
    <3>4. Offset(s) = Offset(it) - 1
      BY <3>2, <3>3 DEF Offset
    <3> QED BY <3>1, <3>4 DEF Peeked
  <2> QED BY <2>3, <2>4, <2>5
<1>8. PeekDone'
  <2>1. ASSUME op.name \in {"More", "WhatIsNext"}
        PROVE  \A k \in 1..Len(stk') : stk'[k].at \in {PeekFrame, "end"}
    <3>1. \A k \in 1..Len(stk) : stk[k].at \in {PeekFrame, "end"}
      BY <2>1 DEF LookInv, PeekDone
    <3> QED BY <1>1, <1>3, <1>4, <1>5, <3>1, LookDone
  <2> QED BY <1>1, <1>3, <1>6, <1>7, <2>1 DEF PeekDone, SameClient, PeekFrame, Peeked, Skipped
<1>9. CaptureDone'
  <2>1. ~(op.name \in {"SkipAndReturnBytes", "Decode"} /\ op.bytes # <<>>)
    <3>1. ASSUME op.name \in {"SkipAndReturnBytes", "Decode"} /\ op.bytes # <<>> PROVE FALSE
      <4>1. Top.at \in {"decoded", "end"}
        BY <1>2, <3>1 DEF LookInv, CaptureDone
      <4> QED BY <1>1, <4>1
    <3> QED BY <3>1
  <2> QED BY <1>3, <2>1 DEF CaptureDone, SameClient
<1> QED BY <1>1, <1>3, <1>4, <1>5, <1>8, <1>9, LookDone

LEMMA LookFinish == ASSUME Inv, Inv', LookInv, Finish PROVE LookInv'
<1>1. stk # <<>> /\ Top.at \in {"end", "noMore"} /\ UNCHANGED input /\ Return(it)
  BY DEF Finish, In
<1>2. op \in OperationType /\ Top = stk[1] /\ 1 \in 1..Len(stk)
  BY <1>1, StackList
<1>3. SameClient /\ op'.bytes = op.bytes
  BY <1>2 DEF Finish, SameClient, OperationType
<1>4. Steady(it) /\ it' = it
  BY <1>1, Steadies DEF Return
<1>5. ~Looking
  BY <1>1 DEF Looking, Lookers
<1>6. PeekDone'
  <2>1. ASSUME op.name \in {"More", "WhatIsNext"}
        PROVE  \A k \in 1..Len(stk') : stk'[k].at \in {PeekFrame, "end"}
    <3>1. \A k \in 1..Len(stk) : stk[k].at \in {PeekFrame, "end"}
      BY <2>1 DEF LookInv, PeekDone
    <3> QED BY <1>1, <1>3, <1>4, <3>1, LookDone
  <2>2. ASSUME op.name \in {"More", "WhatIsNext"}, op.err = "nil" PROVE Peeked(Offset(it))
    BY <1>5, <2>2 DEF LookInv, PeekDone
  <2> QED BY <1>1, <1>3, <1>4, <2>1, <2>2 DEF PeekDone, SameClient, PeekFrame, Peeked, Skipped
<1>7. CaptureDone'
  <2>1. ASSUME op.name \in {"SkipAndReturnBytes", "Decode"}, op.bytes # <<>>
        PROVE  /\ \A k \in 1..Len(stk') : stk'[k].at \in {"decoded", "end"}
               /\ op.dry = "nil" /\ op.err = "nil" => Returned(Offset(it))
    <3>1. \A k \in 1..Len(stk) : stk[k].at \in {"decoded", "end"}
      BY <2>1 DEF LookInv, CaptureDone
    <3> QED BY <1>1, <1>3, <1>4, <2>1, <3>1, LookDone DEF LookInv, CaptureDone
  <2> QED BY <1>1, <1>3, <1>4, <2>1 DEF CaptureDone, SameClient, Returned, Skipped
<1> QED BY <1>1, <1>3, <1>4, <1>6, <1>7, LookDone

----------------------------------------------------------------------------
(* The clients' first steps.                                               *)

\* the calls of an operation that begins with iterator s
Begun(name, s, frames) ==
  /\ \A k \in 1..Len(frames) : frames[k].at = "trailing" => name = "Unmarshal"
  /\ Head(frames).at = "firstLoad" => s.head = s.tail
  /\ name \in {"More", "WhatIsNext"} =>
       /\ \A k \in 1..Len(frames) :
            frames[k].at \in {IF name = "More" THEN "more" ELSE "whatIsNext", "end"}
       /\ it.err = "nil" => Head(frames).at \in Lookers

LEMMA LookStart ==
  ASSUME Inv, NEW name, NEW s, NEW frames, Start(name, s, frames), frames # <<>>, Begun(name, s, frames),
         s.err = it.err, Offset(s) = Offset(it), s.capturing => Origin(s) = Offset(it)
  PROVE  LookInv'
<1>1. Idle /\ it' = s /\ stk' = frames /\ op' = Operation(name) /\ tok' = tok /\ input' = input
  BY DEF Start
<1>2. /\ op'.name = name /\ op'.start = Offset(it) /\ op'.err = it.err /\ op'.bytes = <<>>
  BY <1>1 DEF Operation
<1>3. tok' = None
  BY <1>1 DEF Inv
<1>4. Offset(it) \in Nat /\ Skipped(Offset(it), Offset(it))
  BY Ends DEF Offset, Skipped
<1>5. (Skipped(op.start, Offset(it)))'
  BY <1>1, <1>2, <1>4 DEF Skipped
<1>6. LastRead'
  BY <1>1, <1>2 DEF LastRead, Begun
<1>7. LookAhead'
  <2>1. (In("firstLoad"))' => s.head = s.tail
    BY <1>1 DEF In, Top, Begun
  <2> QED BY <1>1, <1>2, <1>3, <1>5, <2>1 DEF LookAhead, Looked
<1>8. PeekDone'
  <2>1. ASSUME name \in {"More", "WhatIsNext"}, it.err = "nil" PROVE Looking'
    BY <1>1, <2>1 DEF Begun, Looking, Idle, Top
  <2> QED BY <1>1, <1>2, <2>1 DEF PeekDone, PeekFrame, Begun
<1>9. CaptureBegins'
  BY <1>1, <1>2, <1>4 DEF CaptureBegins, Skipped
<1>10. CaptureDone'
  BY <1>2 DEF CaptureDone
<1> QED BY <1>6, <1>7, <1>8, <1>9, <1>10 DEF LookInv

LEMMA LookStarts ==
  ASSUME Inv, StartSkip \/ StartSkipAndReturnBytes \/ StartWhatIsNext \/ StartDecode
                \/ StartMore \/ StartUnmarshal \/ StartValid
  PROVE  LookInv'
<1>0. Idle
  BY DEF StartSkip, StartSkipAndReturnBytes, StartWhatIsNext, StartDecode, StartMore, StartUnmarshal,
     StartValid, Start
<1>1. it.capturing = FALSE /\ it \in IteratorType
  BY <1>0, IdleGood, Ends DEF InRange
<1>2. ASSUME NEW name, NEW l \in {"skip", "whatIsNext", "more"}, Start(name, it, <<Frame(l), Frame("end")>>),
             name \in {"Skip", "Valid"} \/ (name = "WhatIsNext" /\ l = "whatIsNext")
               \/ (name = "More" /\ l = "more")
      PROVE  LookInv'
  <2> DEFINE f == Frame(l)
             g == Frame("end")
             frames == <<f, g>>
  <2>1. f.at = l /\ g.at = "end"
    BY ClientFrame
  <2> HIDE DEF f, g
  <2>2. Begun(name, it, frames) /\ frames # <<>>
    BY <1>2, <2>1 DEF Begun, Lookers
  <2>3. Start(name, it, frames)
    BY <1>2 DEF f, g
  <2> HIDE DEF frames
  <2> QED BY <1>1, <2>2, <2>3, LookStart
<1>3. ASSUME Start("More", it, <<Frame("end")>>), it.err # "nil" PROVE LookInv'
  <2> DEFINE f == Frame("end")
             frames == <<f>>
  <2>1. f.at = "end"
    BY ClientFrame
  <2> HIDE DEF f
  <2>2. Begun("More", it, frames) /\ frames # <<>>
    BY <1>3, <2>1 DEF Begun
  <2>3. Start("More", it, frames)
    BY <1>3 DEF f
  <2> HIDE DEF frames
  <2> QED BY <1>1, <2>2, <2>3, LookStart
<1>4. ASSUME NEW name \in {"SkipAndReturnBytes", "Decode"}, NEW s, s.err = it.err, Offset(s) = Offset(it),
             s.capturing => Origin(s) = Offset(it),
             NEW l \in {"skip", "firstLoad", "readNil"}, l = "firstLoad" => s.head = s.tail,
             NEW m \in {"stopCapture", "decoded"}, Start(name, s, <<Frame(l), Frame(m), Frame("end")>>)
      PROVE  LookInv'
  <2> DEFINE f == Frame(l)
             g == Frame(m)
             h == Frame("end")
             frames == <<f, g, h>>
  <2>1. f.at = l /\ g.at = m /\ h.at = "end"
    BY ClientFrame
  <2> HIDE DEF f, g, h
  <2>2. Begun(name, s, frames) /\ frames # <<>>
    BY <1>4, <2>1 DEF Begun
  <2>3. Start(name, s, frames)
    BY <1>4 DEF f, g, h
  <2> HIDE DEF frames
  <2> QED BY <1>4, <2>2, <2>3, LookStart
<1>5. CASE StartSkipAndReturnBytes
  <2> DEFINE s == StartCapture(it)
  <2>1. /\ s.err = it.err /\ s.head = it.head /\ s.inputOffset = it.inputOffset
        /\ s.captured = <<>> /\ s.captureStartedAt = it.head
    BY <1>1 DEF StartCapture, IteratorType
  <2>2. Start("SkipAndReturnBytes", s, <<Frame("skip"), Frame("stopCapture"), Frame("end")>>)
    BY <1>5 DEF StartSkipAndReturnBytes
  <2> HIDE DEF s
  <2>3. Offset(s) = Offset(it)
    BY <2>1 DEF Offset
  <2>4. Origin(s) = Offset(it)
    <3>1. Len(s.captured) = 0
      BY <2>1
    <3>2. it.head \in Nat /\ it.inputOffset \in Nat
      BY Ends
    <3> QED BY <2>1, <3>1, <3>2 DEF Origin, Offset
  <2> QED BY <1>4, <2>1, <2>2, <2>3, <2>4
<1>6. CASE StartDecode
  BY <1>1, <1>4, <1>6 DEF StartDecode
<1>7. CASE StartMore
  BY <1>2, <1>3, <1>7 DEF StartMore
<1>8. CASE StartSkip \/ StartWhatIsNext \/ StartValid
  BY <1>2, <1>8 DEF StartSkip, StartWhatIsNext, StartValid
<1>9. CASE StartUnmarshal
  <2> DEFINE f == Frame("readNil")
             g == Frame("decoded")
             h == Frame("trailing")
             e == Frame("end")
             frames == <<f, g, h, e>>
  <2>1. f.at = "readNil" /\ g.at = "decoded" /\ h.at = "trailing" /\ e.at = "end"
    BY ClientFrame
  <2> HIDE DEF f, g, h, e
  <2>2. Begun("Unmarshal", it, frames) /\ frames # <<>>
    BY <2>1 DEF Begun
  <2>3. Start("Unmarshal", it, frames)
    BY <1>9 DEF StartUnmarshal, f, g, h, e
  <2> HIDE DEF frames
  <2> QED BY <1>1, <2>2, <2>3, LookStart
<1> QED BY <1>5, <1>6, <1>7, <1>8, <1>9

\* no operation, or another input: nothing has been looked at or returned
LEMMA LookNothing ==
  /\ stk = <<>> /\ it.capturing = FALSE /\ op.name \in {"none", "Reset"} => LookInv
  /\ (stk = <<>> /\ it.capturing = FALSE /\ op.name \in {"none", "Reset"} => LookInv)'
<1>1. \A k \in 1..Len(<<>>) : FALSE
  OBVIOUS
<1>2. ASSUME stk = <<>>, it.capturing = FALSE, op.name \in {"none", "Reset"} PROVE LookInv
  BY <1>1, <1>2 DEF LookInv, LastRead, LookAhead, PeekDone, CaptureBegins, CaptureDone, Looking, Idle, In
<1>3. ASSUME stk' = <<>>, it'.capturing = FALSE, op'.name \in {"none", "Reset"} PROVE LookInv'
  BY <1>1, <1>3 DEF LookInv, LastRead, LookAhead, PeekDone, CaptureBegins, CaptureDone, Looking, Idle, In
<1> QED BY <1>2, <1>3

LEMMA LookInit == ASSUME Init PROVE LookInv
<1>1. stk = <<>> /\ op.name = "none" /\ it.capturing = FALSE
  BY DEF Init, NoOperation, Fresh
<1> QED BY <1>1, LookNothing

LEMMA LookReset == ASSUME Inv, Reset PROVE LookInv'
<1>1. Idle /\ stk' = stk /\ op' = [NoOperation EXCEPT !.name = "Reset"]
  BY DEF Reset
<1>2. it.capturing = FALSE /\ it \in IteratorType
  BY <1>1, IdleGood, Ends DEF InRange
<1>3. it'.capturing = FALSE
  BY <1>2 DEF Reset, IteratorType
<1>4. stk' = <<>> /\ op'.name = "Reset"
  BY <1>1 DEF Idle, NoOperation
<1> QED BY <1>3, <1>4, LookNothing

LEMMA LookNext == ASSUME Inv, LookInv, [Next]_vars PROVE LookInv'
<1>0. Inv'
  BY NextInv
<1>1. CASE Load \/ NextToken \/ ReadByte
  BY <1>0, <1>1, LookLoad, LookToken, LookByte
<1>2. CASE SkipLiteral \/ Skip \/ ReadNumbers \/ ReadStrings
  BY <1>0, <1>2, LookSkip, LookNumbers, LookStrings
<1>3. CASE ReadArray \/ ReadObject
  BY <1>0, <1>3, LookArray, LookObject
<1>4. CASE Complete
  BY <1>0, <1>4, LookNil, LookCaptured, LookOuter, LookPeek, LookFinish DEF Complete
<1>5. CASE Begin
  BY <1>5, LookStarts, LookReset DEF Begin
<1>6. CASE UNCHANGED vars
  BY <1>6 DEF vars, LookInv, LastRead, LookAhead, PeekDone, CaptureBegins, CaptureDone, Looking, Looked,
     Peeked, Returned, Skipped, Idle, In, Top, PeekFrame
<1> QED BY <1>1, <1>2, <1>3, <1>4, <1>5, <1>6 DEF Next, Run, Pause

LEMMA LookInvariance == Spec => [](Inv /\ LookInv)
<1>1. Init => Inv /\ LookInv
  BY InitInv, LookInit
<1>2. Inv /\ LookInv /\ [Next]_vars => (Inv /\ LookInv)'
  BY NextInv, LookNext
<1> QED BY <1>1, <1>2, PTL DEF Spec

\* The bytes SkipAndReturnBytes and the decoding of a RawMessage give back are

\* those of the input from the value the client stood before to where it stands
\* now, for every input, buffer size and way the reader cuts the input into reads.
THEOREM CaptureReturned == Spec => []CaptureReturnsValue
<1>1. Inv /\ LookInv => CaptureReturnsValue
  BY LookInvImplies
<1> QED BY <1>1, LookInvariance, PTL

\* More and WhatIsNext consume nothing but space, across any number of refills:

\* the value the client asked about is the next one it reads.
THEOREM PeekKept == Spec => []PeekKeepsValue
<1>1. Inv /\ LookInv => PeekKeepsValue
  BY LookInvImplies
<1> QED BY <1>1, LookInvariance, PTL
=============================================================================
