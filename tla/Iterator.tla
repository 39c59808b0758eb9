------------------------------ MODULE Iterator ------------------------------
(***************************************************************************)
(* The pull parser of iter.go, iter_skip.go, iter_skip_strict.go,          *)
(* iter_array.go, iter_object.go, iter_str.go and iter_float.go, over one  *)
(* buffer refilled by an io.Reader that returns any positive number of     *)
(* bytes per call, and the clients that call it (Skip, SkipAndReturnBytes, *)
(* WhatIsNext, Decoder.Decode and Decoder.More on a stream, Unmarshal and  *)
(* Valid on a byte slice, Reset).                                          *)
(*                                                                         *)
(* The Go call stack is the variable stk: one frame per call in progress,  *)
(* the innermost first.  A frame that needs a byte the buffer does not     *)
(* hold is Blocked until loadMore (LoadSlice, LoadMore, LoadFails) lets it *)
(* go on.  nextToken and readByte leave their result in the register tok.  *)
(* Positions are those of the code: buf[i] is it.buf[i + 1].               *)
(***************************************************************************)
EXTENDS Integers, Sequences, FiniteSets

CONSTANTS
  Inputs,      \* byte sequences a source may hold
  Sources,     \* subset of {"reader", "bytes"}: Parse or ParseBytes
  BufSize,     \* size of the buffer given to Parse
  MaxDepth,    \* maxDepth of iter.go (10000 there)
  ReadErrors,  \* errors the reader may return: "EOF", "ioerr"
  Clients,     \* the client operations the run exercises
  MaxOps       \* bound: client operations per behaviour

Space == " "
NUL == "0x00"     \* the byte 0: what nextToken and readByte return on failure
None == "none"    \* no byte returned yet
Quote == "\""
Backslash == "\\"
Digits == {"0", "1"}
Hex == Digits \cup {"a", "e", "f"}
NumberChars == Digits \cup {"+", "-", ".", "e"}
NumberEnd == {",", "]", "}", Space}
EscapeChars == {"f", "n", "r", "t"}
Byte == NumberChars \cup Hex \cup EscapeChars \cup NumberEnd
          \cup {NUL, Quote, Backslash, "[", "{", ":", "u", "l", "s", "x"}

Errors == {"nil", "EOF", "ioerr", "bad"}

ASSUME InputsAssumption == Inputs \subseteq Seq(Byte)
ASSUME SourcesAssumption == Sources \subseteq {"reader", "bytes"}
ASSUME BufSizeAssumption == BufSize \in Nat \ {0}
ASSUME MaxDepthAssumption == MaxDepth \in Nat
ASSUME ReadErrorsAssumption == ReadErrors \subseteq {"EOF", "ioerr"}
ASSUME MaxOpsAssumption == MaxOps \in Nat

VARIABLES
  input,      \* what the source holds
  source,     \* "reader", or "bytes" when iter.reader is nil
  delivered,  \* how many bytes of input the source has handed over
  it,         \* the Iterator struct
  stk,        \* calls in progress, innermost first; empty when the client runs
  tok,        \* the byte nextToken or readByte returned, or None
  rs,         \* the RawString last returned by readRawStringInner
  num,        \* the bytes last returned by readNumberAsBytes
  op,         \* the client operation in progress, or the last one
  nops        \* client operations started

vars == <<input, source, delivered, it, stk, tok, rs, num, op, nops>>

----------------------------------------------------------------------------
(* The Iterator struct and the helpers that change it.                     *)

\* captured is a sequence and capturing says whether the slice is non-nil
Fresh(b, t) ==
  [buf |-> b, head |-> 0, tail |-> t, depth |-> 0, capturing |-> FALSE,
   captured |-> <<>>, captureStartedAt |-> 0, inputOffset |-> 0, err |-> "nil"]

Offset(s) == s.inputOffset + s.head              \* InputOffset()
Bytes(s, lo, hi) == SubSeq(s.buf, lo + 1, hi)     \* iter.buf[lo:hi]
At(s, i) == s.buf[i + 1]                         \* iter.buf[i]

SetHead(s, h) == [s EXCEPT !.head = h]
SetError(s, e) == [s EXCEPT !.err = e]
Failing(s) == s.err \notin {"nil", "EOF"}
\* mutant: a later error replaces the first
ReportAlways(s) == SetError(s, "bad")
Report(s) == IF Failing(s) THEN s ELSE SetError(s, "bad")
\* mutant: the byte is unread although none was read
UnreadAlways(s) == SetHead(s, s.head - 1)
\* mutant: the byte is never unread
UnreadNothing(s) == s
Unread(s) == IF s.err # "nil" THEN s ELSE SetHead(s, s.head - 1)

Deeper(s) == [s EXCEPT !.depth = @ + 1]
Shallower(s) == [s EXCEPT !.depth = @ - 1]
IncrementDepth(s) == IF s.depth + 1 <= MaxDepth THEN Deeper(s) ELSE Report(Deeper(s))
\* mutant: a closing bracket gives no level back
KeepDepth(s) == s
DecrementDepth(s) == IF s.depth - 1 >= 0 THEN Shallower(s) ELSE Report(Shallower(s))

\* mutant: the buffer is refilled without saving the capture
SaveNothing(s) == s
\* mutant: what nextToken has looked at, but not moved over, is not saved
SaveToHead(s) ==
  IF s.capturing
    THEN [s EXCEPT !.captured = @ \o Bytes(s, s.captureStartedAt, s.head),
                   !.captureStartedAt = 0]
    ELSE s

\* the first thing loadMore does with a reader: save what is being captured
SaveCapture(s) ==
  IF s.capturing
    THEN [s EXCEPT !.captured = @ \o Bytes(s, s.captureStartedAt, s.tail),
                   !.captureStartedAt = 0]
    ELSE s

\* mutant: inputOffset is not moved past the old buffer
RefillKeepsOffset(s, d, n) ==
  [SaveCapture(s) EXCEPT
     !.buf = [i \in 1..BufSize |-> IF i <= n THEN input[d + i] ELSE s.buf[i]],
     !.head = 0,
     !.tail = n]

\* reader.Read(iter.buf) returned n bytes of input after the first d
Refill(s, d, n) ==
  [SaveCapture(s) EXCEPT
     !.buf = [i \in 1..BufSize |-> IF i <= n THEN input[d + i] ELSE s.buf[i]],
     !.inputOffset = @ + s.tail,
     !.head = 0,
     !.tail = n]

StartCapture(s) ==
  [s EXCEPT !.capturing = TRUE, !.captured = <<>>, !.captureStartedAt = s.head]
StopCapture(s) ==
  [s EXCEPT !.capturing = FALSE, !.captured = <<>>, !.captureStartedAt = -1]
Captured(s) == s.captured \o Bytes(s, s.captureStartedAt, s.head)

\* p is the first position from `from' on whose byte is not in S, or tail
IsFirstOutside(s, from, S, p) ==
  /\ p \in from..s.tail
  /\ \A q \in from..(p - 1) : At(s, q) \in S
  /\ p < s.tail => At(s, p) \notin S

\* p holds the next non-space byte of the buffer
IsToken(s, p) == p < s.tail /\ IsFirstOutside(s, s.head, {Space}, p)
HasToken(s) == \E p \in s.head..s.tail : IsToken(s, p)

----------------------------------------------------------------------------
(* Frames.                                                                 *)

TokenFrames ==   \* wait for nextToken
  {"skip", "arr", "arrFirst", "arrNext", "obj", "objFirst", "objColon",
   "objKey", "objNext", "float32", "float64", "readNil", "more", "whatIsNext",
   "trailing"}
ByteFrames == {"literal", "rawLoad", "u4"}   \* wait for readByte
OtherFrames ==
  {"raw", "rawWait", "objName", "number", "numberLoad", "positiveFloat32",
   "positiveFloat64", "slowFloat32", "slowFloat64", "skipNumber", "bigFloat", "firstLoad", "noMore", "stopCapture", "decoded",
   "end"}
Labels == TokenFrames \cup ByteFrames \cup OtherFrames

\* i and esc are locals of readRawStringInner, acc the bytes a call still
\* expects (literal) or has collected; from (a history variable) is the
\* offset in the input where the string being read starts
Frame(l) == [at |-> l, i |-> 0, esc |-> FALSE, acc |-> <<>>, from |-> 0]
Literal(bytes) == [Frame("literal") EXCEPT !.acc = bytes]
RawFrame(s) == [Frame("raw") EXCEPT !.i = s.head, !.from = Offset(s)]

NilString == [isNil |-> TRUE, isRaw |-> FALSE, lo |-> 0, hi |-> 0,
              bytes |-> <<>>, from |-> 0, to |-> 0]
\* the bytes a RawString gives its reader: a view of buf, or its own copy
Text(r) == IF r.isRaw THEN Bytes(it, r.lo, r.hi) ELSE r.bytes

Idle == stk = <<>>
Top == Head(stk)
In(l) == stk # <<>> /\ Top.at = l
Got(l) == In(l) /\ tok # None

Blocked ==
  /\ stk # <<>>
  /\ tok = None
  /\ \/ Top.at \in TokenFrames /\ ~HasToken(it)
     \/ Top.at \in ByteFrames /\ it.head = it.tail
     \/ Top.at \in {"numberLoad", "firstLoad"}

\* what a handler leaves alone
Rest == UNCHANGED <<input, source, delivered, op, nops>>
Registers == UNCHANGED <<rs, num>>

Become(s, f) == it' = s /\ stk' = <<f>> \o Tail(stk) /\ tok' = None
Call(s, f, g) == it' = s /\ stk' = <<f, g>> \o Tail(stk) /\ tok' = None
Return(s) == it' = s /\ stk' = Tail(stk) /\ tok' = None

----------------------------------------------------------------------------
(* loadMore, nextToken, readByte.                                          *)

\* the frame that goes on once a load has answered
Loaded ==
  CASE Top.at = "numberLoad" -> <<[Top EXCEPT !.at = "number"]>> \o Tail(stk)
    [] Top.at = "firstLoad" -> <<Frame("readNil")>> \o Tail(stk)
    [] OTHER -> stk

\* ... and once it has failed: nextToken and readByte return 0,
\* readNumberAsBytes leaves its loop, Decode returns io.EOF
LoadFailed ==
  CASE Top.at = "numberLoad" -> <<[Top EXCEPT !.at = "number", !.esc = TRUE]>> \o Tail(stk)
    [] Top.at = "firstLoad" -> <<Frame("noMore")>>
    [] OTHER -> stk

\* mutant: the result of loadMore is ignored
NoFailedToken == None
FailedToken == IF Top.at \in TokenFrames \cup ByteFrames THEN NUL ELSE None

LoadSlice ==    \* iter.reader == nil
  /\ Blocked
  /\ source = "bytes"
  /\ it' = IF it.err = "nil" THEN SetError(SetHead(it, it.tail), "EOF") ELSE it
  /\ stk' = LoadFailed
  /\ tok' = FailedToken
  /\ UNCHANGED <<input, source, delivered, rs, num, op, nops>>

LoadMore ==     \* Read returned n > 0 bytes; an error it also returned is dropped
  /\ Blocked
  /\ source = "reader"
  /\ \E n \in 1..BufSize :
       /\ delivered + n <= Len(input)
       /\ it' = Refill(it, delivered, n)
       /\ delivered' = delivered + n
  /\ stk' = Loaded
  /\ UNCHANGED <<input, source, tok, rs, num, op, nops>>

LoadFails ==    \* Read returned no byte and an error
  /\ Blocked
  /\ source = "reader"
  /\ \E e \in ReadErrors :
       /\ e = "EOF" => delivered = Len(input)
       /\ it' = IF it.err = "nil" THEN SetError(SaveCapture(it), e) ELSE SaveCapture(it)
       /\ op' = [op EXCEPT !.dry = IF @ = "ioerr" THEN @ ELSE e]
  /\ stk' = LoadFailed
  /\ tok' = FailedToken
  /\ UNCHANGED <<input, source, delivered, rs, num, nops>>

NextToken ==
  /\ stk # <<>> /\ Top.at \in TokenFrames /\ tok = None
  /\ \E p \in it.head..it.tail :
       /\ IsToken(it, p)
       /\ it' = SetHead(it, p + 1)
       /\ tok' = At(it, p)
  /\ UNCHANGED stk /\ Registers /\ Rest

ReadByte ==
  /\ stk # <<>> /\ Top.at \in ByteFrames /\ tok = None
  /\ it.head < it.tail
  /\ it' = SetHead(it, it.head + 1)
  /\ tok' = At(it, it.head)
  /\ UNCHANGED stk /\ Registers /\ Rest

----------------------------------------------------------------------------
(* Literals and numbers.                                                   *)

\* skipThreeBytes, skipFourBytes: b1..b4 one readByte at a time
SkipLiteral ==
  /\ Got("literal")
  /\ \/ tok # Head(Top.acc) /\ Return(Report(it))
     \/ tok = Head(Top.acc) /\ Len(Top.acc) = 1 /\ Return(it)
     \/ /\ tok = Head(Top.acc) /\ Len(Top.acc) > 1
        /\ Become(it, Literal(Tail(Top.acc)))
  /\ Registers /\ Rest

\* trySkipNumber: the buffered digits with at most one dot, up to p.  The
\* outcomes are "skipped" (head moves to p), "failed" (an error is reported)
\* and "unsure" (the caller must parse the number).
TrySkip(s, outcome, p) ==
  \E d \in s.head..s.tail :
    /\ IsFirstOutside(s, s.head, Digits, d)
    /\ \/ /\ d = s.tail
          /\ outcome = "unsure" /\ p = d
       \/ /\ d < s.tail /\ At(s, d) # "."
          /\ p = d
          /\ outcome = IF At(s, d) \in NumberEnd /\ d # s.head THEN "skipped" ELSE "unsure"
       \/ /\ d < s.tail /\ At(s, d) = "."
          /\ \/ d + 1 = s.tail /\ outcome = "unsure" /\ p = d
             \/ d + 1 < s.tail /\ At(s, d + 1) \notin Digits /\ outcome = "failed" /\ p = d
             \/ /\ d + 1 < s.tail /\ At(s, d + 1) \in Digits
                /\ p \in s.head..s.tail
                /\ IsFirstOutside(s, d + 1, Digits, p)
                /\ outcome = IF p = s.tail THEN "unsure"
                             ELSE IF At(s, p) = "." THEN "failed"
                             ELSE IF At(s, p) \in NumberEnd THEN "skipped" ELSE "unsure"

\* skipNumber up to the call of ReadFloat64, after which the frame
\* "skipNumber" goes on
SkipNumber(s) ==
  \E p \in s.head..s.tail :
    \/ TrySkip(s, "skipped", p) /\ Return(SetHead(s, p))
    \/ TrySkip(s, "failed", p) /\ Return(Report(s))
    \/ TrySkip(s, "unsure", p) /\ Failing(s) /\ Return(Unread(s))
    \/ /\ TrySkip(s, "unsure", p) /\ ~Failing(s)
       /\ Call(Unread(s), Frame("float64"), Frame("skipNumber"))

\* skipNumber after ReadFloat64: a number that failed is tried again from where
\* head stands now, which is after it unless the stream ended with it
SkipNumberAgain ==
  /\ In("skipNumber")
  /\ \/ ~Failing(it) /\ Return(it)
     \/ Failing(it) /\ Call(SetError(it, "nil"), Frame("number"), Frame("bigFloat"))
  /\ Registers /\ Rest

\* ReadFloat32, ReadFloat64: the sign
ReadFloat ==
  /\ LET s == IF tok = "-" THEN it ELSE Unread(it) IN
     \/ Got("float32") /\ Become(s, Frame("positiveFloat32"))
     \/ Got("float64") /\ Become(s, Frame("positiveFloat64"))
  /\ Registers /\ Rest

\* readPositiveFloat32, readPositiveFloat64 on the buffered bytes.  The value
\* is not computed: the numbers of the inputs are short enough for the fast path.
FastFloat(s, outcome, p) ==
  \/ /\ s.head < s.tail
     /\ \/ At(s, s.head) \in NumberEnd \cup {"."}     \* empty number, leading dot
        \/ /\ At(s, s.head) = "0" /\ s.head + 1 < s.tail
           /\ At(s, s.head + 1) \in Digits            \* leading zero
     /\ outcome = "failed" /\ p = s.head
  \/ /\ s.head < s.tail /\ At(s, s.head) \in Digits
     /\ At(s, s.head) = "0" /\ s.head + 1 < s.tail => At(s, s.head + 1) \notin Digits
     /\ \E d \in s.head..s.tail :
          /\ IsFirstOutside(s, s.head, Digits, d)
          /\ \/ /\ d < s.tail /\ At(s, d) \in NumberEnd
                /\ outcome = "read" /\ p = d
             \/ /\ d + 1 < s.tail /\ At(s, d) = "."
                /\ p \in (d + 2)..(s.tail - 1)
                /\ IsFirstOutside(s, d + 1, Digits, p)
                /\ At(s, p) \in NumberEnd
                /\ outcome = "read"

ReadPositiveFloat ==
  /\ (In("positiveFloat32") \/ In("positiveFloat64"))
  /\ \/ \E p \in it.head..it.tail :
          \/ FastFloat(it, "read", p) /\ Return(SetHead(it, p))
          \/ FastFloat(it, "failed", p) /\ Return(Report(it))
     \/ /\ \A p \in it.head..it.tail :
             ~FastFloat(it, "read", p) /\ ~FastFloat(it, "failed", p)
        /\ \/ In("positiveFloat32") /\ Call(it, Frame("number"), Frame("slowFloat32"))
           \/ In("positiveFloat64") /\ Call(it, Frame("number"), Frame("slowFloat64"))
  /\ Registers /\ Rest

\* readNumberAsBytes: one pass over the buffer (esc: loadMore has failed).
\* head moves over the bytes read only when a byte that ends the number, or
\* a new buffer, follows them.
ReadNumberDone(bytes, s) ==
  /\ num' = IF Failing(s) THEN <<>> ELSE bytes
  /\ Return(IF bytes = <<>> THEN Report(s) ELSE s)

ReadNumberAsBytes ==
  /\ In("number")
  /\ \/ Top.esc /\ ReadNumberDone(Top.acc, it)
     \/ /\ ~Top.esc
        /\ \E p \in it.head..it.tail :
             /\ IsFirstOutside(it, it.head, NumberChars, p)
             /\ \/ /\ p < it.tail
                   /\ ReadNumberDone(Top.acc \o Bytes(it, it.head, p), SetHead(it, p))
                \/ /\ p = it.tail
                   /\ Become(it, [Frame("numberLoad") EXCEPT
                                    !.acc = Top.acc \o Bytes(it, it.head, p)])
                   /\ UNCHANGED num
  /\ UNCHANGED rs /\ Rest

\* what strconv.ParseFloat and big.ParseFloat accept: [sign] mantissa [exponent]
AllDigits(s) == \A i \in 1..Len(s) : s[i] \in Digits
IsMantissa(s) ==
  /\ \E i \in 1..Len(s) : s[i] \in Digits
  /\ \A i \in 1..Len(s) : s[i] \in Digits \cup {"."}
  /\ \A i, j \in 1..Len(s) : s[i] = "." /\ s[j] = "." => i = j
Unsigned(s) == IF s # <<>> /\ Head(s) \in {"+", "-"} THEN Tail(s) ELSE s
IsFloat(s) ==
  LET u == Unsigned(s) IN
  \/ IsMantissa(u)
  \/ \E i \in 1..Len(u) :
       /\ u[i] = "e"
       /\ IsMantissa(SubSeq(u, 1, i - 1))
       /\ Unsigned(SubSeq(u, i + 1, Len(u))) # <<>>
       /\ AllDigits(Unsigned(SubSeq(u, i + 1, Len(u))))

\* ParseFloat also refuses a number too large for the float.  A number of the
\* digits 0 and 1 lies between 10^x and 1.2 * 10^x, where x is the power of
\* ten of its first 1: it is too large exactly when x is above the exponent of
\* the largest float (3.4e38, 1.8e308).  Numbers too small become 0.
MaxExponent32 == 38
MaxExponent64 == 308
IsFirst(s, S, p) ==
  /\ p \in 1..(Len(s) + 1)
  /\ p <= Len(s) => s[p] \in S
  /\ \A q \in 1..(p - 1) : s[q] \notin S
IntegerOf(s) ==      \* of digits after a sign
  LET value[i \in 0..Len(s)] ==
        IF i = 0 THEN 0 ELSE 10 * value[i - 1] + (IF s[i] = "1" THEN 1 ELSE 0)
  IN IF s # <<>> /\ Head(s) = "-" THEN -value[Len(s)] ELSE value[Len(s)]
Exceeds(s, max) ==
  \E one, dot, e \in 1..(Len(s) + 1) :
    /\ IsFirst(s, {"1"}, one) /\ IsFirst(s, {".", "e"}, dot) /\ IsFirst(s, {"e"}, e)
    /\ one < e
    /\ (IF one < dot THEN dot - one - 1 ELSE dot - one)
         + IntegerOf(SubSeq(s, e + 1, Len(s))) > max

\* mutant: strconv.ParseFloat alone decides
ValidAnything(s) == TRUE

\* validatePositiveFloat, on the first dot of the bytes
ValidPositiveFloat(s) ==
  /\ s # <<>>
  /\ Head(s) # "-"
  /\ \A i \in 1..Len(s) :
       s[i] = "." /\ (\A j \in 1..(i - 1) : s[j] # ".")
         => i < Len(s) /\ s[i + 1] \in Digits

\* readFloat32SlowPath, readFloat64SlowPath
SlowFloat ==
  /\ (In("slowFloat32") \/ In("slowFloat64"))
  /\ LET max == IF In("slowFloat32") THEN MaxExponent32 ELSE MaxExponent64
     IN Return(IF Failing(it) THEN it
               ELSE IF ~ValidPositiveFloat(num) THEN Report(it)
               ELSE IF ~IsFloat(num) \/ Exceeds(num, max) THEN SetError(it, "bad")
               ELSE it)
  /\ Registers /\ Rest

\* a big.Float holds the numbers of any exponent the inputs have
ReadBigFloat ==
  /\ In("bigFloat")
  /\ Return(IF Failing(it) \/ IsFloat(num) THEN it ELSE SetError(it, "bad"))
  /\ Registers /\ Rest

----------------------------------------------------------------------------
(* Strings.                                                                *)

\* skipString: to the closing quote when the buffer holds it before any
\* backslash or control byte, otherwise on to readRawStringInner
SkipString(s) ==
  \E p \in s.head..s.tail :
    /\ IsFirstOutside(s, s.head, Byte \ {Quote, Backslash, NUL}, p)
    /\ \/ p < s.tail /\ At(s, p) = Quote /\ Return(SetHead(s, p + 1))
       \/ p < s.tail /\ At(s, p) # Quote /\ Become(SetHead(s, p), RawFrame(SetHead(s, p)))
       \/ p = s.tail /\ Become(s, RawFrame(s))

\* readRawStringInner, the byte at Top.i
RawStringEnds ==
  /\ rs' = IF Top.acc = <<>>
             THEN [NilString EXCEPT !.isNil = FALSE, !.isRaw = TRUE,
                     !.lo = it.head, !.hi = Top.i + 1,
                     !.from = Top.from, !.to = it.inputOffset + Top.i + 1]
             ELSE [NilString EXCEPT !.isNil = FALSE,
                     !.bytes = Top.acc \o Bytes(it, it.head, Top.i + 1),
                     !.from = Top.from, !.to = it.inputOffset + Top.i + 1]
  /\ Return(SetHead(it, Top.i + 1))

RawStringFails(s) == rs' = NilString /\ Return(Report(s))

RawStringUnicode ==
  LET s == SetHead(it, Top.i + 1)
      escaped == (Top.i + 1)..(Top.i + 4)
  IN
  \/ /\ Top.i + 4 >= it.tail      \* about to change buf
     /\ Call(s, Frame("u4"),
             [Top EXCEPT !.at = "rawWait", !.esc = FALSE,
                         !.acc = @ \o Bytes(it, it.head, Top.i + 1)])
     /\ UNCHANGED rs
  \/ /\ Top.i + 4 < it.tail
     /\ \A q \in escaped : At(it, q) \in Hex
     /\ Become(SetHead(it, Top.i + 5),
               [Top EXCEPT !.esc = FALSE, !.i = Top.i + 5,
                           !.acc = @ \o Bytes(it, it.head, Top.i + 5)])
     /\ UNCHANGED rs
  \/ /\ Top.i + 4 < it.tail
     /\ \E q \in escaped : At(it, q) \notin Hex
     /\ RawStringFails(s)

RawStringByte(c) ==
  \/ c = Quote /\ ~Top.esc /\ RawStringEnds
  \/ /\ \/ c = Quote /\ Top.esc
        \/ c \in EscapeChars /\ Top.esc
        \/ c \notin {Quote, Backslash, NUL} /\ ~Top.esc
     /\ Become(it, [Top EXCEPT !.esc = FALSE, !.i = @ + 1])
     /\ UNCHANGED rs
  \/ c = Backslash /\ Become(it, [Top EXCEPT !.esc = ~@, !.i = @ + 1]) /\ UNCHANGED rs
  \/ c = "u" /\ Top.esc /\ RawStringUnicode
  \/ c = NUL /\ RawStringFails(it)
  \/ c \notin EscapeChars \cup {Quote, Backslash, NUL, "u"} /\ Top.esc /\ RawStringFails(it)

ReadRawStringInner ==
  /\ In("raw")
  /\ \/ it.err # "nil" /\ RawStringFails(it)
     \/ it.err = "nil" /\ Top.i < it.tail /\ RawStringByte(At(it, Top.i))
     \/ /\ it.err = "nil" /\ Top.i = it.tail     \* copy buffer and load more
        /\ Become(SetHead(it, it.tail),
                  [Top EXCEPT !.at = "rawLoad", !.acc = @ \o Bytes(it, it.head, it.tail)])
        /\ UNCHANGED rs
  /\ UNCHANGED num /\ Rest

\* ... the next chunk is loaded by reading a byte and unreading it
ReadRawStringMore ==
  /\ Got("rawLoad")
  /\ \/ tok = NUL /\ RawStringFails(it)
     \/ /\ tok # NUL
        /\ Become(Unread(it), [Top EXCEPT !.at = "raw", !.i = Unread(it).head])
        /\ UNCHANGED rs
  /\ UNCHANGED num /\ Rest

\* readAndFillU4: four bytes, one readByte each; the raw frame below resumes
\* at the new head
ReadAndFillU4 ==
  LET caller == stk[2]
      resume(bytes) == <<[caller EXCEPT !.at = "raw", !.acc = @ \o bytes, !.i = it.head]>>
                         \o Tail(Tail(stk))
  IN
  /\ Got("u4")
  /\ tok' = None
  /\ \/ it.err # "nil" /\ it' = it /\ stk' = resume(Top.acc)
     \/ it.err = "nil" /\ tok \notin Hex /\ it' = Report(it) /\ stk' = resume(Top.acc)
     \/ /\ it.err = "nil" /\ tok \in Hex
        /\ it' = it
        /\ stk' = IF Len(Top.acc) < 3
                    THEN <<[Top EXCEPT !.acc = Append(@, tok)]>> \o Tail(stk)
                    ELSE resume(Append(Top.acc, tok))
  /\ Registers /\ Rest

----------------------------------------------------------------------------
(* Skip, arrays and objects.                                               *)

Skip ==
  /\ Got("skip")
  /\ \/ tok = Quote /\ SkipString(it)
     \/ tok = "n" /\ Become(it, Literal(<<"u", "l", "l">>))
     \/ tok = "t" /\ Become(it, Literal(<<"r", "u", "e">>))
     \/ tok = "f" /\ Become(it, Literal(<<"a", "l", "s", "e">>))
     \/ tok = "0" /\ Become(Unread(it), Frame("float32"))
     \/ tok \in {"-"} \cup (Digits \ {"0"}) /\ SkipNumber(it)
     \/ tok = "[" /\ Become(Unread(it), Frame("arr"))
     \/ tok = "{" /\ Become(Unread(it), Frame("obj"))
     \/ /\ tok \notin Digits \cup {Quote, "n", "t", "f", "-", "[", "{"}
        /\ Return(Report(Unread(it)))
  /\ Registers /\ Rest

\* ReadArrayCB, the callback being Skip: the opening byte,
ReadArrayStart ==
  /\ Got("arr")
  /\ \/ /\ tok = "["
        /\ IF it.depth + 1 <= MaxDepth
             THEN Become(IncrementDepth(it), Frame("arrFirst"))
             ELSE Return(IncrementDepth(it))
     \/ tok = "n" /\ Become(it, Literal(<<"u", "l", "l">>))
     \/ tok \notin {"[", "n"} /\ Return(Report(Unread(it)))
  /\ Registers /\ Rest

\* the byte after it,
ReadArrayFirst ==
  /\ Got("arrFirst")
  /\ \/ tok = "]" /\ Return(DecrementDepth(it))
     \/ tok # "]" /\ Call(Unread(it), Frame("skip"), Frame("arrNext"))
  /\ Registers /\ Rest

\* and the byte after an element
ReadArrayNext ==
  /\ Got("arrNext")
  /\ \/ tok = "," /\ Call(it, Frame("skip"), Frame("arrNext"))
     \/ tok = "]" /\ Return(DecrementDepth(it))
     \/ tok \notin {",", "]"} /\ Return(DecrementDepth(Report(Unread(it))))
  /\ Registers /\ Rest

\* ReadObjectRawCB, the callback being Skip
ReadObjectStart ==
  /\ Got("obj")
  /\ \/ /\ tok = "{"
        /\ IF it.depth + 1 <= MaxDepth
             THEN Become(IncrementDepth(it), Frame("objFirst"))
             ELSE Return(IncrementDepth(it))
     \/ tok = "n" /\ Become(it, Literal(<<"u", "l", "l">>))
     \/ tok \notin {"{", "n"} /\ Return(Report(Unread(it)))
  /\ Registers /\ Rest

ReadObjectFirst ==
  /\ Got("objFirst")
  /\ \/ tok = Quote /\ Call(it, RawFrame(it), Frame("objName"))
     \/ tok = "}" /\ Return(DecrementDepth(it))
     \/ tok \notin {Quote, "}"} /\ Return(DecrementDepth(Report(Unread(it))))
  /\ Registers /\ Rest

\* mutant: the view is never realized
ObjectNameUnrealized ==
  /\ In("objName")
  /\ \E p \in it.head..it.tail :
       /\ IsFirstOutside(it, it.head, {Space}, p)
       /\ Become(IF p < it.tail THEN SetHead(it, p) ELSE it, Frame("objColon"))
  /\ Registers /\ Rest

\* isNextTokenBuffered, and Realize when it is not: the view is copied
\* before nextToken may overwrite the buffer under it
ReadObjectName ==
  /\ In("objName")
  /\ \/ \E p \in it.head..it.tail :
          /\ IsToken(it, p)
          /\ Become(SetHead(it, p), Frame("objColon"))
          /\ UNCHANGED rs
     \/ /\ ~HasToken(it)
        /\ Become(it, Frame("objColon"))
        /\ rs' = IF rs.isRaw THEN [rs EXCEPT !.isRaw = FALSE, !.bytes = Text(rs)] ELSE rs
  /\ UNCHANGED num /\ Rest

\* the colon, then the callback with rs; an error here leaves depth as it is
ReadObjectColon ==
  /\ Got("objColon")
  /\ \/ tok = ":" /\ Call(it, Frame("skip"), Frame("objNext"))
     \/ tok # ":" /\ Return(Report(Unread(it)))
  /\ Registers /\ Rest

ReadObjectNext ==
  /\ Got("objNext")
  /\ \/ tok = "," /\ Become(it, Frame("objKey"))
     \/ tok = "}" /\ Return(DecrementDepth(it))
     \/ tok \notin {",", "}"} /\ Return(Report(Unread(it)))
  /\ Registers /\ Rest

\* ReadRawString: the name after a comma, which null may stand for
ReadObjectKey ==
  /\ Got("objKey")
  /\ \/ tok = Quote /\ Call(it, RawFrame(it), Frame("objName")) /\ UNCHANGED rs
     \/ /\ tok = "n" /\ rs' = NilString
        /\ Call(it, Literal(<<"u", "l", "l">>), Frame("objName"))
     \/ /\ tok \notin {Quote, "n"} /\ rs' = NilString
        /\ Become(Report(Unread(it)), Frame("objName"))
  /\ UNCHANGED num /\ Rest

----------------------------------------------------------------------------
(* The clients: an operation starts when no call is in progress.           *)

\* start, depth, err: what the iterator was when it began; dry (a history
\* variable): the error the reader has answered with since
Operation(name) ==
  [name |-> name, start |-> Offset(it), depth |-> it.depth, err |-> it.err,
   bytes |-> <<>>, more |-> FALSE, dry |-> "nil", ok |-> FALSE]

Start(name, s, frames) ==
  /\ Idle
  /\ name \in Clients
  /\ nops < MaxOps
  /\ nops' = nops + 1
  /\ op' = Operation(name)
  /\ it' = s
  /\ stk' = frames
  /\ UNCHANGED <<input, source, delivered, tok, rs, num>>

StartSkip == Start("Skip", it, <<Frame("skip"), Frame("end")>>)

StartSkipAndReturnBytes ==
  /\ ~it.capturing      \* else startCapture panics
  /\ Start("SkipAndReturnBytes", StartCapture(it),
           <<Frame("skip"), Frame("stopCapture"), Frame("end")>>)

StartWhatIsNext == Start("WhatIsNext", it, <<Frame("whatIsNext"), Frame("end")>>)

\* Decoder.Decode into a RawMessage (its decoder tries ReadNil first)
StartDecode ==
  /\ source = "reader"
  /\ Start("Decode", it,
           <<Frame(IF it.head = it.tail THEN "firstLoad" ELSE "readNil"),
             Frame("decoded"), Frame("end")>>)

StartMore ==
  /\ source = "reader"
  /\ Start("More", it, IF it.err # "nil" THEN <<Frame("end")>>
                       ELSE <<Frame("more"), Frame("end")>>)

\* frozenConfig.Unmarshal into a RawMessage and frozenConfig.Valid, on an
\* iterator borrowed for one byte slice
StartUnmarshal ==
  /\ source = "bytes" /\ nops = 0
  /\ Start("Unmarshal", it,
           <<Frame("readNil"), Frame("decoded"), Frame("trailing"), Frame("end")>>)

StartValid ==
  /\ source = "bytes" /\ nops = 0
  /\ Start("Valid", it, <<Frame("skip"), Frame("end")>>)

NoOperation ==
  [name |-> "none", start |-> 0, depth |-> 0, err |-> "nil", bytes |-> <<>>, more |-> FALSE,
   dry |-> "nil", ok |-> FALSE]

\* Reset and ResetBytes: another input; Error stays as it is
Reset ==
  /\ Idle /\ "Reset" \in Clients /\ nops < MaxOps
  /\ nops' = nops + 1
  /\ input' \in Inputs
  /\ it' = [it EXCEPT !.buf = IF source = "bytes" THEN input' ELSE @, !.head = 0,
                      !.tail = IF source = "bytes" THEN Len(input') ELSE 0,
                      !.depth = 0, !.inputOffset = 0]
  /\ delivered' = it'.tail
  /\ op' = [NoOperation EXCEPT !.name = "Reset"]
  /\ UNCHANGED <<source, stk, tok, rs, num>>

\* ReadNil, then SkipAndReturnBytes from the byte it unread
ReadNil ==
  /\ Got("readNil")
  /\ \/ tok = "n" /\ Become(it, Literal(<<"u", "l", "l">>))
     \/ tok # "n" /\ Call(StartCapture(Unread(it)), Frame("skip"), Frame("stopCapture"))
  /\ Registers /\ Rest

ReturnCaptured ==
  /\ In("stopCapture")
  /\ op' = [op EXCEPT !.bytes = Captured(it)]
  /\ Return(StopCapture(it))
  /\ Registers /\ UNCHANGED <<input, source, delivered, nops>>

\* ReadVal: the decoder must leave the depth as it found it
Decoded ==
  /\ In("decoded")
  /\ Return(IF it.depth # op.depth THEN Report(it) ELSE it)
  /\ Registers /\ Rest

\* mutant: what follows the value is ignored
TrailingIgnored == Got("trailing") /\ Return(it) /\ Registers /\ Rest

\* Unmarshal: nothing but space may follow (nextToken returns 0)
Trailing ==
  /\ Got("trailing")
  /\ Return(IF tok = NUL THEN it ELSE Report(it))
  /\ Registers /\ Rest

\* mutant: More does not unread the byte it looked at
PeekConsumes ==
  /\ (Got("more") \/ Got("whatIsNext"))
  /\ op' = [op EXCEPT !.more = tok \notin {NUL, "]", "}"}]
  /\ Return(it)
  /\ Registers /\ UNCHANGED <<input, source, delivered, nops>>

Peek ==
  /\ (Got("more") \/ Got("whatIsNext"))
  /\ op' = [op EXCEPT !.more = tok \notin {NUL, "]", "}"}]
  /\ Return(IF Top.at = "more" /\ tok = NUL THEN it ELSE Unread(it))
  /\ Registers /\ UNCHANGED <<input, source, delivered, nops>>

\* the client gets its answer; Decode and Unmarshal take EOF for success
Finish ==
  /\ (In("end") \/ In("noMore"))
  /\ op' = [op EXCEPT !.ok = IF op.name = "Valid" THEN it.err = "nil"
                             ELSE IF op.name = "More" THEN op.more
                             ELSE ~Failing(it) /\ In("end")]
  /\ Return(it)
  /\ Registers /\ UNCHANGED <<input, source, delivered, nops>>

----------------------------------------------------------------------------
Init ==
  /\ input \in Inputs
  /\ source \in Sources
  /\ it = IF source = "bytes" THEN Fresh(input, Len(input))
          ELSE Fresh([i \in 1..BufSize |-> NUL], 0)
  /\ delivered = it.tail
  /\ stk = <<>> /\ tok = None /\ rs = NilString /\ num = <<>>
  /\ op = NoOperation
  /\ nops = 0

Load == LoadSlice \/ LoadMore \/ LoadFails
ReadNumbers ==
  \/ SkipNumberAgain \/ ReadFloat \/ ReadPositiveFloat \/ ReadNumberAsBytes
  \/ SlowFloat \/ ReadBigFloat
ReadStrings == ReadRawStringInner \/ ReadRawStringMore \/ ReadAndFillU4
ReadArray == ReadArrayStart \/ ReadArrayFirst \/ ReadArrayNext
ReadObject ==
  \/ ReadObjectStart \/ ReadObjectFirst \/ ReadObjectName \/ ReadObjectColon
  \/ ReadObjectNext \/ ReadObjectKey
Complete == ReadNil \/ ReturnCaptured \/ Decoded \/ Trailing \/ Peek \/ Finish

\* the goroutine inside the iterator
Run ==
  \/ Load \/ NextToken \/ ReadByte \/ SkipLiteral \/ Skip
  \/ ReadNumbers \/ ReadStrings \/ ReadArray \/ ReadObject \/ Complete

\* the client decides to call it
Begin ==
  \/ StartSkip \/ StartSkipAndReturnBytes \/ StartWhatIsNext \/ StartDecode
  \/ StartMore \/ StartUnmarshal \/ StartValid \/ Reset

\* ... or does not
Pause == Idle /\ UNCHANGED vars

Next == Run \/ Begin \/ Pause

Spec == Init /\ [][Next]_vars

\* a call that began goes on: Go runs the goroutine, and the reader returns
\* a byte or an error
FairSpec == Spec /\ WF_vars(Run)

----------------------------------------------------------------------------
(* Properties.                                                             *)

IteratorType ==
  [buf : Seq(Byte), head : Nat, tail : Nat, depth : Int, capturing : BOOLEAN,
   captured : Seq(Byte), captureStartedAt : Int, inputOffset : Nat, err : Errors]
OperationType ==
  [name : Clients \cup {"none", "Reset"}, start : Nat, depth : Int, err : Errors,
   bytes : Seq(Byte), more : BOOLEAN, dry : Errors, ok : BOOLEAN]
FrameType == [at : Labels, i : Nat, esc : BOOLEAN, acc : Seq(Byte), from : Nat]

\* Type invariant: head stays inside the buffered bytes, a capture starts at or
\* before it, and everything else is in the range of its Go type.
TypeOK ==
  /\ input \in Inputs /\ source \in Sources
  /\ delivered \in 0..Len(input)
  /\ it \in IteratorType
  /\ it.head <= it.tail /\ it.tail <= Len(it.buf)
  /\ it.capturing => it.captureStartedAt \in 0..it.head
  /\ op \in OperationType
  /\ stk \in Seq(FrameType)
  /\ tok \in Byte \cup {None}
  /\ num \in Seq(Byte)
  /\ nops \in 0..MaxOps

\* loadMore neither loses nor repeats a byte: the buffer is a window of the
\* input at inputOffset that ends where the reader stands, so InputOffset()
\* is a position in the input and Buffered() is what follows it.
WindowIsInput ==
  /\ delivered = it.inputOffset + it.tail
  /\ \A i \in 1..it.tail : it.buf[i] = input[it.inputOffset + i]

\* While a capture is on and the reader has not run dry, the bytes saved by
\* loadMore and those from captureStartedAt on are one stretch of the input
\* (SkipAndReturnBytes across any number of refills).
CaptureIsInput ==
  it.capturing /\ op.dry = "nil" =>
    /\ Len(it.captured) <= it.inputOffset + it.captureStartedAt
    /\ LET origin == it.inputOffset + it.captureStartedAt - Len(it.captured)
       IN \A k \in 1..Len(it.captured) : it.captured[k] = input[origin + k]

\* The name ReadObjectRawCB hands to its callback is the text between the
\* quotes of the input, even when the colon after it was in another chunk: a
\* RawString that is a view of the buffer is realized before a refill.
NameIsInput ==
  Got("objColon") /\ tok = ":" /\ ~rs.isNil =>
    Text(rs) = SubSeq(input, rs.from + 1, rs.to)

\* The nesting check of ReadVal never fails a decoder that reported no error:
\* arrays and objects give back every level they take.
DepthRestored ==
  (In("decoded") \/ In("end")) /\ ~Failing(it) => it.depth = op.depth

\* An error the iterator holds is never forgotten or replaced by an operation:
\* the retry with ReadBigFloat clears Error, but only the error of its own
\* ReadFloat64.
ErrorIsSticky == In("end") /\ Failing(op) => it.err = op.err

\* nothing but space stands in the input from offset i to j
Skipped(i, j) == i <= j /\ \A k \in (i + 1)..j : input[k] = Space
Completed(names) == Idle /\ op.name \in names

\* The bytes SkipAndReturnBytes and a RawMessage return are those of the input
\* from where the client stood, or the value after the space there, to where
\* it stands now, through any number of refills.
CaptureReturnsValue ==
  Completed({"SkipAndReturnBytes", "Decode"}) /\ op.err = "nil" /\ op.dry = "nil" /\ op.bytes # <<>> =>
    \E from \in op.start..Offset(it) :
      Skipped(op.start, from) /\ op.bytes = SubSeq(input, from + 1, Offset(it))

\* More and WhatIsNext look ahead, over space only: the value that follows is
\* still there.  More takes a byte 0 for the end of the input and goes past it.
PeekKeepsValue ==
  Completed({"More", "WhatIsNext"}) /\ op.err = "nil" =>
    LET n == Offset(it) IN
    \/ Skipped(op.start, n)
    \/ op.name = "More" /\ Skipped(op.start, n - 1) /\ input[n] = NUL

\* Every call returns: the skip of finite input, valid or not, terminates for
\* every way the reader splits it.
CallsReturn == ~Idle ~> Idle
=============================================================================
