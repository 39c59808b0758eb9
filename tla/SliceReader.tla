---------------------------- MODULE SliceReader ----------------------------
(* An Iterator that was given its whole input as a byte slice (ParseBytes, *)
(* Unmarshal): there is nothing to refill, and an operation of it is one   *)
(* operator, from a record to a record.  What happens between two refills  *)
(* is the subject of module Iterator.                                      *)
(*                                                                         *)
(* The record has the fields of the Go struct that remain,                 *)
(*   doc    the bytes (buf[:tail]), one-character strings                  *)
(*   pos    bytes consumed (head)                                          *)
(*   depth  open arrays and objects                                        *)
(*   err    Error: "nil", "EOF" or "bad"                                   *)
(*   ret    what the last operation returned                               *)
(* and whatever the module that uses it adds.  The strings here have no    *)
(* escapes (module StringCodec has), the numbers fit their types.           *)
EXTENDS Integers, Sequences

CONSTANT MaxDepth      \* maxDepth

NUL == "0x00"
Digits == {"0", "1"}
Delimiters == {",", "]", "}", " "}

Returns(r, v) == [r EXCEPT !.ret = v]
Failed(r) == r.err = "bad"

\* the end of the bytes in S that start at p
RECURSIVE RunOf(_, _, _)
RunOf(doc, p, S) == IF p < Len(doc) /\ doc[p + 1] \in S THEN RunOf(doc, p + 1, S) ELSE p

----------------------------------------------------------------------------
(* Bytes.                                                                  *)
ReportError(r) == [r EXCEPT !.err = "bad"]

\* loadMore without a reader, which fails; readByte and nextToken return 0
LoadMore(r) ==
  [r EXCEPT !.ret = NUL,
            !.pos = IF r.err = "nil" THEN Len(r.doc) ELSE @,
            !.err = IF @ = "nil" THEN "EOF" ELSE @]

ByteAt(r, p) == IF p = Len(r.doc) THEN LoadMore(r)
                ELSE [r EXCEPT !.pos = p + 1, !.ret = r.doc[p + 1]]
NextToken(r) == ByteAt(r, RunOf(r.doc, r.pos, {" "}))
ReadByte(r) == ByteAt(r, r.pos)
UnreadByte(r) == IF r.err = "nil" THEN [r EXCEPT !.pos = @ - 1] ELSE r

\* skipThreeBytes, skipFourBytes
RECURSIVE SkipBytes(_, _)
SkipBytes(r, word) ==
  LET b == ReadByte(r) IN
  IF word = <<>> THEN r
  ELSE IF b.ret # Head(word) THEN ReportError(b) ELSE SkipBytes(b, Tail(word))
Ull == <<"u", "l", "l">>

ValueTypeOf(c) ==
  CASE c = "\"" -> "string" [] c \in Digits \cup {"-"} -> "number" [] c \in {"t", "f"} -> "bool"
    [] c = "n" -> "nil" [] c = "[" -> "array" [] c = "{" -> "object" [] OTHER -> "invalid"
WhatIsNext(r) == LET s == NextToken(r) IN Returns(UnreadByte(s), ValueTypeOf(s.ret))

IncrementDepth(r) ==
  IF r.depth < MaxDepth THEN [r EXCEPT !.depth = @ + 1, !.ret = TRUE]
  ELSE [ReportError(r) EXCEPT !.depth = @ + 1, !.ret = FALSE]
DecrementDepth(r) ==
  IF r.depth > 0 THEN [r EXCEPT !.depth = @ - 1, !.ret = TRUE]
  ELSE [ReportError(r) EXCEPT !.depth = @ - 1, !.ret = FALSE]

----------------------------------------------------------------------------
(* Scalars.                                                                *)
ReadNil(r) ==
  LET s == NextToken(r) IN
  IF s.ret = "n" THEN Returns(SkipBytes(s, Ull), TRUE) ELSE Returns(UnreadByte(s), FALSE)

ReadBool(r) ==
  LET s == NextToken(r) IN
  CASE s.ret = "t" -> Returns(SkipBytes(s, <<"r", "u", "e">>), TRUE)
    [] s.ret = "f" -> Returns(SkipBytes(s, <<"a", "l", "s", "e">>), FALSE)
    [] OTHER -> Returns(ReportError(s), FALSE)

\* readStringInner, readRawStringInner: after the opening quote
ReadStringInner(r) ==
  LET stop == CHOOSE p \in r.pos..Len(r.doc) :
                /\ \A q \in r.pos..(p - 1) : r.doc[q + 1] \notin {"\"", NUL}
                /\ p = Len(r.doc) \/ r.doc[p + 1] \in {"\"", NUL}
  IN IF r.err # "nil" THEN Returns(ReportError(r), <<>>)
     ELSE IF stop = Len(r.doc) THEN Returns(ReportError(LoadMore(r)), <<>>)
     ELSE IF r.doc[stop + 1] = NUL THEN Returns(ReportError(r), <<>>)
     ELSE [r EXCEPT !.pos = stop + 1, !.ret = SubSeq(r.doc, r.pos + 1, stop)]

\* ReadString, ReadRawString: null is an empty string
ReadString(r) ==
  LET s == NextToken(r) IN
  CASE s.ret = "\"" -> ReadStringInner(s)
    [] s.ret = "n" -> Returns(SkipBytes(s, Ull), <<>>)
    [] OTHER -> Returns(ReportError(UnreadByte(s)), <<>>)

\* ReadInt64 and the other readers of integers, for numbers that fit: the
\* digits, which module IntCodec turns into a value
AssertInteger(r) ==
  IF r.pos < Len(r.doc) /\ r.doc[r.pos + 1] = "." THEN ReportError(r) ELSE r
ReadInt(r) ==
  LET s == NextToken(r)
      d == IF s.ret = "-" THEN ReadByte(s) ELSE s
      end == IF d.ret = "0" THEN d.pos ELSE RunOf(r.doc, d.pos, Digits)
      int == IF end = Len(r.doc) /\ d.ret # "0" THEN LoadMore(d) ELSE [d EXCEPT !.pos = end]
  IN IF d.ret \notin Digits THEN Returns(ReportError(d), <<"0">>)
     ELSE Returns(AssertInteger(int), SubSeq(r.doc, s.pos, end))

\* readNumberAsBytes
NumberBytes == Digits \cup {"+", "-", ".", "e", "E"}
ReadNumberAsBytes(r) ==
  LET end == RunOf(r.doc, r.pos, NumberBytes)
      s == IF end = Len(r.doc) THEN LoadMore(r) ELSE [r EXCEPT !.pos = end]
  IN IF Failed(s) THEN Returns(s, <<>>)
     ELSE IF end = r.pos THEN Returns(ReportError(s), <<>>)
     ELSE Returns(s, SubSeq(r.doc, r.pos + 1, end))

\* strconv.ParseFloat takes a text whose number is in range: a digit before any
\* exponent, one dot at most and not in the exponent, signs at the beginnings
Signs == {"+", "-"}
Exponents == {"e", "E"}
ParsesAsFloat(text) ==
  /\ \E i \in DOMAIN text : text[i] \in Digits /\ \A k \in 1..(i - 1) : text[k] \notin Exponents
  /\ \A i \in DOMAIN text :
       \/ text[i] \in Digits
       \/ text[i] \in Signs /\ (i = 1 \/ text[i - 1] \in Exponents)
       \/ /\ text[i] \in {"."} \cup Exponents
          /\ \A k \in 1..(i - 1) : text[k] \notin Exponents \cup {text[i]}
  /\ text[Len(text)] \notin Signs \cup Exponents

\* validatePositiveFloat and strconv.ParseFloat
ValidFloat(text) ==
  /\ ParsesAsFloat(text) /\ text[1] # "-"
  /\ \A i \in DOMAIN text : text[i] = "." => i < Len(text) /\ text[i + 1] \in Digits

\* ReadFloat64, ReadFloat32: fast path and slow path stop at the same byte
Float(sign, b) ==
  IF Failed(b) \/ ~ValidFloat(b.ret) THEN Returns(ReportError(b), <<"0">>) ELSE Returns(b, sign \o b.ret)
PositiveFloat(sign, f) ==
  LET first == IF f.pos < Len(f.doc) THEN f.doc[f.pos + 1] ELSE NUL
      zeros == first = "0" /\ f.pos + 1 < Len(f.doc) /\ f.doc[f.pos + 2] \in Digits
  IN IF first \in Delimiters \cup {"."} \/ zeros THEN Returns(ReportError(f), <<"0">>)
     ELSE Float(sign, ReadNumberAsBytes(f))
AfterSign(s) == IF s.ret = "-" THEN PositiveFloat(<<"-">>, s) ELSE PositiveFloat(<<>>, UnreadByte(s))
ReadFloat(r) == AfterSign(NextToken(r))

----------------------------------------------------------------------------
(* Arrays and objects.  A callback is an operator from the record to the   *)
(* record it leaves; those modelled return true.                           *)
ReadArrayCB(r, Callback(_)) ==
  LET RECURSIVE Elements(_)
      Elements(s) ==           \* the callback has returned
        LET c == NextToken(s) IN
        CASE c.ret = "," -> Elements(Callback(c))
          [] c.ret = "]" -> DecrementDepth(c)
          [] OTHER -> Returns(DecrementDepth(ReportError(UnreadByte(c))), FALSE)
      s == NextToken(r)
      open == IncrementDepth(s)
      first == NextToken(open)
  IN CASE s.ret = "[" -> IF ~open.ret THEN open
                         ELSE IF first.ret = "]" THEN DecrementDepth(first)
                         ELSE Elements(Callback(UnreadByte(first)))
       [] s.ret = "n" -> Returns(SkipBytes(s, Ull), TRUE)
       [] OTHER -> Returns(ReportError(UnreadByte(s)), FALSE)

\* ReadObjectCB, ReadObjectRawCB: the callback is given the name in ret
ReadObjectCB(r, Callback(_)) ==
  LET RECURSIVE Members(_)
      Members(s) ==            \* a name has been read
        LET colon == NextToken(s)
            c == NextToken(Callback(Returns(colon, s.ret)))
        IN IF colon.ret # ":" THEN Returns(ReportError(UnreadByte(colon)), FALSE)
           ELSE CASE c.ret = "," -> Members(ReadString(c))
                  [] c.ret = "}" -> DecrementDepth(c)
                  [] OTHER -> Returns(ReportError(UnreadByte(c)), FALSE)
      s == NextToken(r)
      open == IncrementDepth(s)
      first == NextToken(open)
  IN CASE s.ret = "{" -> IF ~open.ret THEN open
                         ELSE IF first.ret = "\"" THEN Members(ReadStringInner(first))
                         ELSE IF first.ret = "}" THEN DecrementDepth(first)
                         ELSE Returns(DecrementDepth(ReportError(UnreadByte(first))), FALSE)
       [] s.ret = "n" -> Returns(SkipBytes(s, Ull), TRUE)
       [] OTHER -> Returns(ReportError(UnreadByte(s)), FALSE)

----------------------------------------------------------------------------
(* Skip.                                                                   *)
SkipString(r) ==
  LET stop == CHOOSE p \in r.pos..Len(r.doc) :
                /\ \A q \in r.pos..(p - 1) : r.doc[q + 1] \notin {"\"", NUL}
                /\ p = Len(r.doc) \/ r.doc[p + 1] \in {"\"", NUL}
  IN IF stop < Len(r.doc) /\ r.doc[stop + 1] = "\"" THEN [r EXCEPT !.pos = stop + 1]
     ELSE ReadStringInner(IF stop < Len(r.doc) THEN [r EXCEPT !.pos = stop] ELSE r)

\* after the first byte: trySkipNumber, or else ReadFloat64, or else ReadBigFloat
SkipNumber(r) ==
  LET int == RunOf(r.doc, r.pos, Digits)
      dot == int < Len(r.doc) /\ r.doc[int + 1] = "."
      end == IF dot THEN RunOf(r.doc, int + 1, Digits) ELSE int
      next == IF end < Len(r.doc) THEN r.doc[end + 1] ELSE NUL
      Big(b) == IF Failed(b) \/ ~ValidFloat(b.ret) THEN ReportError(b) ELSE b
      Slow(f) == IF Failed(f) THEN Big(ReadNumberAsBytes([f EXCEPT !.err = "nil"])) ELSE f
  IN CASE dot /\ end = int + 1 /\ end < Len(r.doc) -> ReportError(r)
       [] dot /\ next = "." -> ReportError(r)
       [] next \in Delimiters /\ end > r.pos -> [r EXCEPT !.pos = end]
       [] OTHER -> IF Failed(r) THEN UnreadByte(r) ELSE Slow(ReadFloat(UnreadByte(r)))

RECURSIVE Skip(_)
Skip(r) ==
  LET s == NextToken(r)
      Value(e) == Skip(e)
  IN
  CASE s.ret = "\"" -> SkipString(s)
    [] s.ret = "n" -> SkipBytes(s, Ull)
    [] s.ret = "t" -> SkipBytes(s, <<"r", "u", "e">>)
    [] s.ret = "f" -> SkipBytes(s, <<"a", "l", "s", "e">>)
    [] s.ret = "0" -> ReadFloat(UnreadByte(s))
    [] s.ret \in (Digits \ {"0"}) \cup {"-"} -> SkipNumber(s)
    [] s.ret = "[" -> ReadArrayCB(UnreadByte(s), Value)
    [] s.ret = "{" -> ReadObjectCB(UnreadByte(s), Value)
    [] OTHER -> ReportError(UnreadByte(s))

Captured(r, s) == Returns(s, SubSeq(r.doc, r.pos + 1, s.pos))
SkipAndReturnBytes(r) == Captured(r, Skip(r))
=============================================================================
