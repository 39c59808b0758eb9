----------------------------- MODULE FloatCodec -----------------------------
(* Floats written by a Stream and read by an Iterator (stream_float.go,    *)
(* iter_float.go), from the same reader as the integers and the strings.   *)
(* A float is narrower than in the code, where Precision = 53,             *)
(* NarrowPrecision = 24, MaxExponent = 1024, NarrowMaxExponent = 128,      *)
(* FloatWordBits = 64, Decimals = 6 and the lossy writer gives up above    *)
(* 0x4ffffff; no number is too small for it.                               *)
EXTENDS StringCodec

CONSTANTS
  Precision,        \* bound: bits of the mantissa of a float64
  NarrowPrecision,  \* bound: bits of the mantissa of a float32
  MaxExponent,      \* bound: the float64 are below 2^MaxExponent
  NarrowMaxExponent,  \* bound: the float32 are below 2^NarrowMaxExponent
  FloatWordBits,    \* bound: bits of the word the digits are collected in
  Decimals,         \* the decimal places the fast path and WriteFloatLossy know
  LossyLimit,       \* larger values are not written by WriteFloatLossy
  SmallExponent, LargeExponent,  \* below and from where WriteFloat writes an exponent
  LossyValues,      \* bound: the values written by WriteFloatLossy, <<n, d>>
  ShortValues,      \* bound: the values written by WriteFloat, <<n, x>> for n * 10^x
  FloatTexts        \* bound: other texts to read

VARIABLES float     \* what ReadFloat returned, without its sign

floatVars == <<pc, head, tail, error, negative, sb, float>>
otherVars == <<type, written, val, text, reader, value, ret, reads, expected, rune, digits, high, escape, rest>>

ASSUME FloatCodecAssumption ==
  /\ NarrowPrecision \in 1..Precision /\ Precision \in 1..FloatWordBits
  /\ NarrowMaxExponent \in FloatWordBits..MaxExponent /\ MaxExponent \in Nat
  /\ Decimals \in Nat /\ Power(10, Decimals) < Power(2, Precision)

----------------------------------------------------------------------------
(* A float of p bits is <<m, e>>, m * 2^e, with p bits in m, or zero.      *)
Shift(e) == IF e > 0 THEN Power(2, e) ELSE 1
BitsOf(n) == CHOOSE k \in 0..30 : n < Power(2, k) /\ (k = 0 \/ Power(2, k - 1) <= n)

\* the float below n/d, and how n/d lies to it: less than, equal to or more than half
Below(n, d, p) ==
  LET guess == BitsOf(n) - BitsOf(d) - p
      e == IF n * Shift(-guess) >= Power(2, p) * d * Shift(guess) THEN guess + 1 ELSE guess
      a == n * Shift(-e)
      b == d * Shift(e)
  IN [m |-> a \div b, e |-> e, half |-> 2 * (a % b) - b, exact |-> a % b = 0]
Float(m, e, p) == IF m = Power(2, p) THEN <<m \div 2, e + 1>> ELSE <<m, e>>

\* the float next to n/d, ties to even: a conversion or a division
Rounded(n, d, p) ==
  IF n = 0 THEN <<0, 0>>
  ELSE LET f == Below(n, d, p)
       IN Float(IF f.half > 0 \/ (f.half = 0 /\ f.m % 2 = 1) THEN f.m + 1 ELSE f.m, f.e, p)
\* the floats on both sides of n/d
Neighbours(n, d, p) ==
  IF n = 0 THEN {<<0, 0>>}
  ELSE LET f == Below(n, d, p)
       IN {Float(f.m, f.e, p)} \cup IF f.exact THEN {} ELSE {Float(f.m + 1, f.e, p)}
\* a float as a fraction in lowest terms
Twos(m) == CHOOSE k \in 0..30 : m % Power(2, k) = 0 /\ (m \div Power(2, k)) % 2 = 1
Num(f) == IF f[1] = 0 THEN 0 ELSE (f[1] \div Power(2, Twos(f[1]))) * Shift(f[2] + Twos(f[1]))
Den(f) == IF f[1] = 0 THEN 1 ELSE Shift(-f[2] - Twos(f[1]))

----------------------------------------------------------------------------
(* WriteFloat32Lossy, WriteFloat64Lossy of n/d: Decimals places, rounded.  *)
Exp == Power(10, Decimals)
Trimmed(s) == SubSeq(s, 1, CHOOSE k \in 1..Len(s) : s[k] # Zero /\ \A j \in (k + 1)..Len(s) : s[j] = Zero)
Padded(n) == [k \in 1..Decimals |-> Zero + ((n \div Power(10, Decimals - k)) % 10)]
WriteFloatLossy(n, d) ==
  LET product == Rounded(n * Exp, d, Precision)
      sum == Rounded(2 * Num(product) + Den(product), 2 * Den(product), Precision)
      lval == Num(sum) \div Den(sum)
  IN WriteUint(lval \div Exp) \o IF lval % Exp = 0 THEN <<>> ELSE <<Dot>> \o Trimmed(Padded(lval % Exp))

(* strconv.AppendFloat with the fewest digits, here n of n * 10^x.         *)
E == 101
Plus == 43
Plain(n, x) ==
  IF x >= 0 THEN WriteUint(n * Power(10, x))
  ELSE WriteUint(n \div Power(10, -x)) \o <<Dot>> \o [k \in 1..(-x) |-> Zero + ((n \div Power(10, -x - k)) % 10)]
Scientific(n, x) ==
  LET m == WriteUint(n)
      e == x + Len(m) - 1
      a == IF e < 0 THEN -e ELSE e
  IN <<m[1]>> \o (IF Len(m) = 1 THEN <<>> ELSE <<Dot>> \o Tail(m)) \o
     <<E, IF e < 0 THEN Minus ELSE Plus, Zero + a \div 10, Zero + (a % 10)>>

\* WriteFloat32, WriteFloat64: e-09 becomes e-9
CleanedUp(s) ==
  LET n == Len(s) IN
  IF n >= 4 /\ s[n - 3] = E /\ s[n - 2] = Minus /\ s[n - 1] = Zero THEN SubSeq(s, 1, n - 2) \o <<s[n]>> ELSE s
WriteFloat(n, x) ==
  LET e == x + Len(WriteUint(n)) - 1      \* the exponent of its first digit
  IN IF n # 0 /\ (e < SmallExponent \/ e >= LargeExponent) THEN CleanedUp(Scientific(n, x)) ELSE Plain(n, x)

----------------------------------------------------------------------------
(* ReadFloat32 and ReadFloat64 are the same code but for two lines.        *)
Narrow == type.bits = NarrowBits
Bits == IF Narrow THEN NarrowPrecision ELSE Precision
\* the float next to n/d is infinite: strconv.ParseFloat reports a range error
TooLarge(n, d) ==
  n # 0 /\ Rounded(n, d, Bits)[2] + Bits > (IF Narrow THEN NarrowMaxExponent ELSE MaxExponent)

ReturnFloat(f, h) == pc' = "floatRead" /\ float' = f /\ head' = h /\ UNCHANGED <<tail, negative, sb, error>>
FailFloat == pc' = "floatRead" /\ error' = "bad" /\ UNCHANGED <<head, tail, negative, sb, float>>

\* the sign; at the end of the input nextToken finds nothing
ReadFloat ==
  /\ pc = "float" /\ UNCHANGED <<sb, float>>
  /\ \/ /\ Buffered > 0 /\ pc' = "positive" /\ negative' = (At(head) = Minus)
        /\ head' = IF At(head) = Minus THEN head + 1 ELSE head
        /\ UNCHANGED <<tail, error>>
     \/ /\ Buffered = 0 /\ ~Ended /\ Refill /\ UNCHANGED <<pc, negative, error>>
     \/ /\ Buffered = 0 /\ Ended /\ pc' = "positive" /\ error' = EOF(error) /\ head' = HeadAtEnd
        /\ UNCHANGED <<tail, negative>>

EndOfNumber == {Comma, 93, 125, 32, 9, 10}
ValueOf(s) == LET v[k \in 0..Len(s)] == IF k = 0 THEN 0 ELSE 10 * v[k - 1] + DigitOf(s[k]) IN v[Len(s)]
AllDigits(s) == \A k \in 1..Len(s) : IsDigit(s[k])
\* no digit is added to more than uint64SafeToMultiple10
FloatWord == Power(2, FloatWordBits)
Collectable(s) == Len(s) < 8 /\ (Len(s) <= 1 \/ ValueOf(SubSeq(s, 1, Len(s) - 1)) <= (FloatWord - 1) \div 10 - 1)

\* mutant: a float64 that does not hold the digits is divided all the same
AnyMantissa(v) == TRUE
ExactMantissa(v) == Narrow \/ v <= Power(2, Precision) - 1

\* value / pow10[decimalPlaces]
Quotient(v, places) ==
  LET f == Rounded(v, 1, Precision)
      q == Rounded(Num(f), Den(f) * Power(10, places), Precision)
  IN IF Narrow THEN Rounded(Num(q), Den(q), NarrowPrecision) ELSE q

\* readPositiveFloat: the buffered number up to the character that ends it
ReadPositiveFloat ==
  /\ pc = "positive"
  /\ LET s == Window8(Buffered)
         digit == Buffered > 0 /\ IsDigit(s[1])
         Ends(k) == s[k] \in EndOfNumber
         integers == {k \in 2..Buffered : Ends(k) /\ AllDigits(SubSeq(s, 1, k - 1)) /\ Collectable(SubSeq(s, 1, k - 1))}
         decimals == {jk \in (2..Buffered) \X (4..Buffered) :
                        LET j == jk[1]  k == jk[2] IN
                        /\ j + 1 < k /\ k <= j + 1 + Decimals
                        /\ s[j] = Dot /\ Ends(k)
                        /\ LET all == SubSeq(s, 1, j - 1) \o SubSeq(s, j + 1, k - 1)
                           IN AllDigits(all) /\ Collectable(all) /\ ExactMantissa(ValueOf(all))}
         refused == \/ Buffered > 0 /\ (Ends(1) \/ s[1] = Dot)
                    \/ Buffered > 1 /\ s[1] = Zero /\ IsDigit(s[2])
     IN \/ refused /\ FailFloat
        \/ /\ ~refused /\ digit
           /\ \E k \in integers : ReturnFloat(Rounded(ValueOf(SubSeq(s, 1, k - 1)), 1, Bits), head + k - 1)
        \/ /\ ~refused /\ digit
           /\ \E jk \in decimals :
                ReturnFloat(Quotient(ValueOf(SubSeq(s, 1, jk[1] - 1) \o SubSeq(s, jk[1] + 1, jk[2] - 1)), jk[2] - jk[1] - 1), head + jk[2] - 1)
        \/ /\ ~refused /\ (~digit \/ integers \cup decimals = {})
           /\ pc' = "slow" /\ UNCHANGED <<head, tail, negative, sb, error, float>>

\* strconv.ParseFloat: [sign] digits, a dot among them, [e [sign] digits]
NumberChars == {Plus, Minus, Dot, E, 69} \cup 48..57
Unsigned(s) == IF s # <<>> /\ s[1] \in {Plus, Minus} THEN Tail(s) ELSE s
Positions(s, set) == {k \in 1..Len(s) : s[k] \in set}
Mantissa(s) == IF Positions(s, {E, 69}) = {} THEN s ELSE SubSeq(s, 1, FirstOf(Positions(s, {E, 69})) - 1)
Exponent(s) == IF Mantissa(s) = s THEN <<Zero>> ELSE SubSeq(s, Len(Mantissa(s)) + 2, Len(s))
Fraction(s) ==
  LET m == Mantissa(s) IN IF Positions(m, {Dot}) = {} THEN <<>> ELSE SubSeq(m, FirstOf(Positions(m, {Dot})) + 1, Len(m))
Digits(s) == LET m == Mantissa(s) IN
  IF Positions(m, {Dot}) = {} THEN m ELSE SubSeq(m, 1, FirstOf(Positions(m, {Dot})) - 1) \o Fraction(s)
ParseFloatAccepts(t) ==
  LET s == Unsigned(t) IN
  /\ Digits(s) # <<>> /\ AllDigits(Digits(s))
  /\ Unsigned(Exponent(s)) # <<>> /\ AllDigits(Unsigned(Exponent(s)))
\* what it is: <<n, d>>
Decimal(t) ==
  LET s == Unsigned(t)
      x == (IF Exponent(s)[1] = Minus THEN -1 ELSE 1) * ValueOf(Unsigned(Exponent(s))) - Len(Fraction(s))
  IN IF x >= 0 THEN <<ValueOf(Digits(s)) * Power(10, x), 1>> ELSE <<ValueOf(Digits(s)), Power(10, -x)>>

ValidPositiveFloat(s) ==
  /\ s # <<>> /\ s[1] # Minus
  /\ LET dots == Positions(s, {Dot}) IN dots # {} => FirstOf(dots) < Len(s) /\ IsDigit(s[FirstOf(dots) + 1])

\* readFloatSlowPath and readNumberAsBytes: a number that ends the input is
\* parsed with head before its last piece
ReadFloatSlowPath ==
  /\ pc = "slow"
  /\ LET stops == {k \in 1..Buffered : At(head + k - 1) \notin NumberChars}
         n == IF stops = {} THEN Buffered ELSE FirstOf(stops) - 1
         num == sb \o Window8(n)
         Parse(h, e) ==
           /\ pc' = "floatRead" /\ head' = h /\ sb' = num /\ UNCHANGED <<tail, negative>>
           /\ IF ValidPositiveFloat(num) /\ ParseFloatAccepts(num) /\ ~TooLarge(Decimal(num)[1], Decimal(num)[2])
              THEN error' = e /\ float' = Rounded(Decimal(num)[1], Decimal(num)[2], Bits)
              ELSE error' = "bad" /\ UNCHANGED float
     IN \/ stops # {} /\ Parse(head + n, error)
        \/ stops = {} /\ Ended /\ Parse(HeadAtEnd, EOF(error))
        \/ stops = {} /\ ~Ended /\ Refill /\ sb' = num /\ UNCHANGED <<pc, negative, error, float>>

----------------------------------------------------------------------------
NoFloat == float = <<0, 0>>
FloatInit ==
  /\ NoString /\ NoFloat /\ reads = "float" /\ type \in {t \in Types : t.signed}
  /\ \/ /\ written = TRUE
        /\ \E v \in LossyValues, suffix \in Suffixes :
           \E sign \in {<<>>} \cup (IF v[1] > 0 THEN {<<Minus>>} ELSE {}) :
             /\ v[1] <= LossyLimit * v[2] /\ <<Num(Rounded(v[1], v[2], Bits)), Den(Rounded(v[1], v[2], Bits))>> = v
             /\ text = sign \o WriteFloatLossy(v[1], v[2]) \o suffix
             /\ expected = [n |-> v[1], d |-> v[2], off |-> 9]
     \/ /\ written = TRUE
        /\ \E v \in ShortValues, sign \in {<<>>, <<Minus>>}, suffix \in Suffixes :
             /\ text = sign \o WriteFloat(v[1], v[2]) \o suffix
             /\ expected = [n |-> v[1] * Power(10, IF v[2] > 0 THEN v[2] ELSE 0), d |-> Power(10, IF v[2] < 0 THEN -v[2] ELSE 0),
                            off |-> 0]
     \/ written = FALSE /\ text \in FloatTexts /\ expected = [n |-> 0, d |-> 1, off |-> 0]
  /\ reader \in BOOLEAN /\ head = 0 /\ tail = IF reader THEN 0 ELSE Len(text)
  /\ pc = "float" /\ val = 0 /\ negative = FALSE /\ value = 0 /\ ret = 0 /\ error = "nil"

FloatNext ==
  /\ UNCHANGED otherVars
  /\ ReadFloat \/ ReadPositiveFloat \/ ReadFloatSlowPath

----------------------------------------------------------------------------
\* the characters of the number, without its minus
NumberText ==
  LET first == IF text # <<>> /\ text[1] = Minus THEN 2 ELSE 1
      stops == {k \in first..Len(text) : text[k] \notin NumberChars}
  IN SubSeq(text, first, IF stops = {} THEN Len(text) ELSE FirstOf(stops) - 1)
\* a number as JSON defines it
IsJSONNumber(s) ==
  /\ ParseFloatAccepts(s) /\ ValidPositiveFloat(s) /\ s[1] # Plus
  /\ IsDigit(s[1]) /\ (s[1] = Zero => Len(s) = 1 \/ ~IsDigit(s[2]))

\* However the text is cut into pieces, and whichever of the two paths reads it,
\* a number of JSON is accepted unless it is too large for the float, and then
\* read as the float64 next to it, or as one of the two float32 on both sides of
\* it (iter_float.go:141 rounds twice), and what follows it is left for the next
\* read; nothing is read as another number than it says.  What WriteFloat writes
\* is the value, without any difference; what WriteFloatLossy writes is within
\* half of the last of its decimal places, and a sixteenth for its own rounding.
FloatIsRead ==
  pc = "floatRead" =>
    LET s == NumberText
        first == Len(text) - (IF negative THEN Len(s) + 1 ELSE Len(s))
        accepted == error \in {"nil", "EOF"}
        n == Decimal(s)[1]
        d == Decimal(s)[2]
        distance == n * expected.d - expected.n * d
    IN /\ IsJSONNumber(s) => (accepted <=> ~TooLarge(n, d))
       /\ IsJSONNumber(s) /\ accepted /\ first > 0 => error = "nil" /\ head = Len(text) - first
       /\ accepted => /\ ParseFloatAccepts(s) /\ negative = (text[1] = Minus)
                      /\ IF Narrow THEN float \in Neighbours(n, d, Bits) ELSE float = Rounded(n, d, Bits)
       /\ written => accepted /\ 16 * (IF distance < 0 THEN -distance ELSE distance) * Exp <= expected.off * d * expected.d
=============================================================================
