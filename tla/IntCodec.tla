------------------------------ MODULE IntCodec ------------------------------
(* Integers written by a Stream and read by an Iterator (stream_int.go,    *)
(* iter_int.go, and the codecs of reflect_native.go that call them).       *)
(*                                                                         *)
(* The Iterator reads from an io.Reader that hands over the text in pieces *)
(* of any size, or has the whole text and no reader.  Words are narrower   *)
(* than in the code, where readUint32 has WordBits = 32, FastDigits = 8,   *)
(* Window = 10 and GroupDigits = 3, and readUint64 has WordBits = 64; the  *)
(* base is 10.                                                             *)
EXTENDS Integers, Sequences, FiniteSets

CONSTANTS
  WordBits,      \* bound: bits of the word the digits are collected in
  NarrowBits,    \* bound: bits of the narrower types read through that word
  FastDigits,    \* digits collected without looking at the window again
  Window,        \* bytes that must be buffered for that
  GroupDigits,   \* digits the writer looks up at once
  Values,        \* bound: the values written
  Texts,         \* bound: other texts to read
  Suffixes       \* what follows a number that was written

\* Characters are bytes.
Minus == 45
Dot == 46
Comma == 44
Chars == 0..255
Zero == 48
DigitOf(c) == c - Zero
IsDigit(c) == DigitOf(c) \in 0..9

Power(b, n) == LET p[k \in Nat] == IF k = 0 THEN 1 ELSE b * p[k - 1] IN p[n]
Word == Power(2, WordBits)

\* int8, int16, int32 and the unsigned ones: how many bits, and whether signed
Types == [bits : {NarrowBits, WordBits}, signed : BOOLEAN]
MaxOf(t) == IF t.signed THEN Power(2, t.bits - 1) - 1 ELSE Power(2, t.bits) - 1
MinOf(t) == IF t.signed THEN -Power(2, t.bits - 1) ELSE 0
Fits(n, t) == MinOf(t) <= n /\ n <= MaxOf(t)

ASSUME IntCodecAssumption ==
  /\ WordBits \in Nat /\ NarrowBits \in 1..WordBits
  /\ FastDigits \in Nat \ {0} /\ Power(10, FastDigits) <= Word
  /\ Window \in Nat /\ FastDigits <= Window
  /\ GroupDigits \in Nat \ {0}
  /\ Values \subseteq Int /\ Texts \subseteq Seq(Chars) /\ Suffixes \subseteq Seq({Comma})

VARIABLES
  type,      \* the type of the variable that is written or read
  written,   \* whether text was written here
  val,       \* the value written
  text,      \* the text to read
  reader,    \* whether the Iterator has a reader
  head,      \* characters consumed: inputOffset + head
  tail,      \* characters handed over: inputOffset + tail
  pc,        \* where the reader is
  negative,  \* whether a minus was read
  value,     \* the digits collected
  ret,       \* what the Read function returned
  error      \* iter.Error

vars == <<type, written, val, text, reader, head, tail, pc, negative, value, ret, error>>
input == <<type, written, val, text, reader>>

----------------------------------------------------------------------------
(* Stream.WriteInt8 .. WriteUint64: groups of digits, the first without    *)
(* zeros in front (digits, writeFirstBuf, writeBuf), the others full.      *)
Group == Power(10, GroupDigits)
FullDigits(v) == [k \in 1..GroupDigits |-> Zero + ((v \div Power(10, GroupDigits - k)) % 10)]
ShortDigits(v) ==
  LET zeros == Cardinality({k \in 1..(GroupDigits - 1) : v < Power(10, GroupDigits - k)})
  IN SubSeq(FullDigits(v), zeros + 1, GroupDigits)
WriteUint(v) ==
  LET w[n \in Nat] == IF n < Group THEN ShortDigits(n) ELSE w[n \div Group] \o FullDigits(n % Group) IN w[v]

\* the absolute value as an unsigned number of the same width
Magnitude(n, t) == (IF n < 0 THEN -n ELSE n) % Power(2, t.bits)
WriteInt(n, t) == (IF n < 0 THEN <<Minus>> ELSE <<>>) \o WriteUint(Magnitude(n, t))

----------------------------------------------------------------------------
Buffered == tail - head
At(i) == text[i + 1]

(* loadMore: head and tail are absolute here, so a refill moves head to    *)
(* the old tail.                                                           *)
Ended == ~reader \/ tail = Len(text)
Refill == head' = tail /\ tail' \in (tail + 1)..Len(text)
\* at the end of the text: io.EOF, and without a reader head moves to tail
EOF(e) == IF e = "nil" THEN "EOF" ELSE e
HeadAtEnd == IF ~reader /\ error = "nil" THEN tail ELSE head

\* assertInteger, with head and tail as given
AssertedNothing(h, e) == e
AssertedInteger(h, e) == IF h < tail /\ At(h) = Dot /\ e \in {"nil", "EOF"} THEN "bad" ELSE e

(* The end of ReadIntN and ReadUintN: val is compared with the limits of   *)
(* the type, and converted.                                                *)
LimitSymmetric(t, neg) == MaxOf(t)
Limit(t, neg) == IF neg THEN MaxOf(t) + 1 ELSE MaxOf(t)
Signed(n, t) == IF t.signed /\ n > MaxOf(t) THEN n - Power(2, t.bits) ELSE n
Return(v, h, e) ==
  /\ pc' = "done"
  /\ head' = h
  /\ IF v > Limit(type, negative)
     THEN ret' = 0 /\ error' = IF e \in {"nil", "EOF"} THEN "bad" ELSE e
     ELSE /\ ret' = Signed((IF negative THEN -v ELSE v) % Power(2, type.bits), type)
          /\ error' = e
  /\ UNCHANGED <<tail, negative, value>>

----------------------------------------------------------------------------
(* nextToken, and after a minus readByte: the first character.             *)
Begin(e, c, h) ==
  IF c = Zero THEN Return(0, h, AssertedInteger(h, e))
  ELSE IF ~IsDigit(c) THEN Return(0, h, IF e \in {"nil", "EOF"} THEN "bad" ELSE e)
  ELSE /\ value' = DigitOf(c) /\ head' = h
       /\ pc' = IF tail - h > Window THEN "fast" ELSE "loop"
       /\ UNCHANGED <<tail, negative, ret, error>>

First ==
  /\ pc = "first"
  /\ IF Buffered > 0
     THEN IF type.signed /\ ~negative /\ At(head) = Minus
          THEN /\ negative' = TRUE /\ head' = head + 1
               /\ UNCHANGED <<tail, pc, value, ret, error>>
          ELSE Begin(error, At(head), head + 1)
     ELSE IF Ended
          \* the byte 0, which is no digit
          THEN Return(0, HeadAtEnd, "bad")
          ELSE Refill /\ UNCHANGED <<pc, negative, value, ret, error>>
  /\ UNCHANGED input

\* how many of the next m characters, all buffered, are digits before another
DigitRuns(m) == {k \in 0..m : \A j \in 1..k : IsDigit(At(head + j - 1))}
RunLength(m) == CHOOSE k \in DigitRuns(m) : \A j \in DigitRuns(m) : j <= k

(* The next FastDigits characters, all buffered.                           *)
Collected(v, n) ==
  LET c[k \in 0..n] == IF k = 0 THEN v ELSE c[k - 1] * 10 + DigitOf(At(head + k - 1)) IN c[n]
Fast ==
  /\ pc = "fast"
  /\ LET n == RunLength(FastDigits) IN
     IF n < FastDigits
     THEN Return(Collected(value, n), head + n, AssertedInteger(head + n, error))
     ELSE /\ value' = Collected(value, FastDigits - 1)
          /\ head' = head + FastDigits - 1
          /\ pc' = "loop"
          /\ UNCHANGED <<tail, negative, ret, error>>
  /\ UNCHANGED input

(* The loop over the rest, up to the end of what is buffered: it moves i   *)
(* and leaves head, a refill makes it start from the new head.             *)
SafeToMultiply10 == (Word - 1) \div 10 - 1
Next10Unbounded(v, d) == v * 10 + d
Next10(v, d) == (v * 10 + d) % Word
Overflows(v, d) == v > SafeToMultiply10 /\ Next10(v, d) < v
\* the word before each of the next n characters, and after them
Words(n) == LET v[k \in 0..n] == IF k = 0 THEN value ELSE Next10(v[k - 1], DigitOf(At(head + k - 1))) IN v
Loop ==
  /\ pc = "loop"
  /\ LET n == RunLength(Buffered)
         v == Words(n)
         over == {k \in 1..n : Overflows(v[k - 1], DigitOf(At(head + k - 1)))}
     IN
     IF over # {} THEN Return(0, head, IF error \in {"nil", "EOF"} THEN "bad" ELSE error)
     ELSE IF n < Buffered THEN Return(v[n], head + n, AssertedInteger(head + n, error))
     ELSE IF Ended
          THEN Return(v[n], HeadAtEnd, AssertedInteger(HeadAtEnd, EOF(error)))
          ELSE /\ value' = v[n]
               /\ Refill
               /\ UNCHANGED <<pc, negative, ret, error>>
  /\ UNCHANGED input

----------------------------------------------------------------------------
Init ==
  /\ type \in Types /\ reader \in BOOLEAN
  /\ \/ written = TRUE /\ val \in {v \in Values : Fits(v, type)}
        /\ \E s \in Suffixes : text = WriteInt(val, type) \o s
     \/ written = FALSE /\ val = 0 /\ text \in Texts
  /\ head = 0 /\ tail \in IF reader THEN {0} ELSE {Len(text)}
  /\ pc = "first" /\ negative = FALSE /\ value = 0 /\ ret = 0 /\ error = "nil"

Next == First \/ Fast \/ Loop
Spec == Init /\ [][Next]_vars

----------------------------------------------------------------------------
Done == pc = "done"
Accepted == Done /\ error \in {"nil", "EOF"}

\* The Iterator never looks behind what the reader handed over, and the word
\* never holds more than its bits.
TypeOK ==
  /\ type \in Types
  /\ 0 <= head /\ head <= tail /\ tail <= Len(text)
  /\ value \in 0..(Word - 1)
  /\ error \in {"nil", "EOF", "bad"}
  /\ Done => Fits(ret, type)

\* A value that was written is read back, however the text is cut into pieces,
\* the smallest value of a signed type included, whose magnitude is one more
\* than the largest; what follows it is left for the next read.
WrittenIsRead ==
  Done /\ written =>
    /\ error \in {"nil", "EOF"}
    /\ ret = val
    /\ (text[Len(text)] = Comma => text[head + 1] = Comma /\ IsDigit(text[head]) /\ error = "nil")

\* The number a text begins with: its sign, and its digits, of which a zero in
\* front is the only one.
SignLength == IF type.signed /\ text # <<>> /\ text[1] = Minus THEN 1 ELSE 0
NumberEnds ==
  LET ends == {k \in SignLength..Len(text) : \A j \in (SignLength + 1)..k : IsDigit(text[j])}
      longest == CHOOSE k \in ends : \A j \in ends : j <= k
  IN IF longest > SignLength /\ text[SignLength + 1] = Zero THEN SignLength + 1 ELSE longest
HasNumber == NumberEnds > SignLength
Absolute ==
  LET n[k \in 0..NumberEnds] == IF k <= SignLength THEN 0 ELSE n[k - 1] * 10 + DigitOf(text[k]) IN n[NumberEnds]
Number == IF SignLength = 1 THEN -Absolute ELSE Absolute
IsFloat == NumberEnds < Len(text) /\ text[NumberEnds + 1] = Dot

\* As long as the digits fit in the word, a text is accepted exactly when it
\* begins with an integer of the type, and then that integer is returned and
\* just its characters are consumed; only after a single zero it depends on the
\* piece whether a fraction is noticed (iter_int.go:343 looks at what is
\* buffered).
ReadIsNumber ==
  Done /\ (HasNumber => Absolute < Word) =>
    /\ Accepted => HasNumber
    /\ Accepted => ret = Number /\ Fits(Number, type)
    /\ Accepted /\ NumberEnds < Len(text) => head = NumberEnds
    /\ HasNumber /\ Fits(Number, type) /\ ~IsFloat => Accepted
    /\ IsFloat /\ Accepted => Absolute = 0

\* A text that does not fit is reported as an overflow (iter_int.go:205
\* ReportError("readUint32", "overflow"); value_tests/int_test.go:93
\* Test_read_int_overflow).
OverflowReported == Done /\ HasNumber /\ ~Fits(Number, type) => error = "bad"
=============================================================================
