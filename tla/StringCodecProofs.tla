-------------------------- MODULE StringCodecProofs --------------------------
(* An integer is read back as it was written, and a text is accepted       *)
(* exactly when it begins with an integer of the type: for every width of  *)
(* the words, size of the window and of the groups of digits, every text,  *)
(* and however the reader cuts it into pieces.                             *)
(*                                                                         *)
(* A string is read back as it was written: whatever its bytes, with       *)
(* escaped HTML or without, by ReadString, by ReadRawString and String,    *)
(* and by skipString, and however the reader cuts its text into pieces.    *)
EXTENDS StringCodec, DataLemmas


----------------------------------------------------------------------------
(* Numbers.                                                                *)

LEMMA Remainders ==
  ASSUME NEW m \in Nat \ {0}
  PROVE  /\ \A a \in Int : a % m \in 0..(m - 1)
         /\ \A a \in 0..(m - 1) : a % m = a
         /\ \A a \in 1..m : (-a) % m = m - a
  OBVIOUS

LEMMA Quotients ==
  ASSUME NEW m \in Nat \ {0}, NEW a \in Nat
  PROVE  /\ a \div m \in Nat /\ a = m * (a \div m) + (a % m) /\ a % m \in 0..(m - 1)
         /\ a < m => a \div m = 0
         /\ a >= m => a \div m >= 1
         /\ a < 10 * m => a \div m <= 9
  OBVIOUS

LEMMA QuotientOfQuotient ==
  ASSUME NEW m \in Nat \ {0}, NEW a \in Nat
  PROVE  a \div m = 10 * (a \div (10 * m)) + ((a \div m) % 10)
<1>1. (a \div m) \div 10 = a \div (10 * m)
  OBVIOUS
<1>2. a \div m \in Nat
  OBVIOUS
<1>3. a \div m = 10 * ((a \div m) \div 10) + ((a \div m) % 10)
  BY <1>2
<1> QED BY <1>1, <1>3

LEMMA QuotientIsLess ==
  ASSUME NEW m \in Nat, m > 1, NEW a \in Nat \ {0}
  PROVE  a \div m \in Nat /\ a \div m < a
  OBVIOUS

LEMMA PowerProperties ==
  ASSUME NEW b \in Nat \ {0}
  PROVE  /\ Power(b, 0) = 1
         /\ \A n \in Nat : Power(b, n) \in Nat \ {0} /\ Power(b, n + 1) = b * Power(b, n)
<1> DEFINE IsPower(f) == f = [k \in Nat |-> IF k = 0 THEN 1 ELSE b * f[k - 1]]
           h == [x \in Nat \X Nat |-> b * x[1]]
           p == CHOOSE f : IsPower(f)
<1>1. \E f : IsPower(f)
  <2>1. h \in [Nat \X Nat -> Nat]
    OBVIOUS
  <2>2. PICK f \in [Nat -> Nat] : Iterates(f, Nat, 1, h)
    <3>1. 1 \in Nat
      OBVIOUS
    <3> HIDE DEF h
    <3> QED BY <2>1, <3>1, NatIteration
  <2>3. \A k \in Nat \ {0} : h[<<f[k - 1], k>>] = b * f[k - 1]
    <3>1. \A k \in Nat \ {0} : k - 1 \in Nat /\ f[k - 1] \in Nat
      BY <2>2
    <3> QED BY <3>1
  <2> HIDE DEF h
  <2>5. f = [k \in Nat |-> IF k = 0 THEN 1 ELSE b * f[k - 1]]
    BY <2>2, <2>3 DEF Iterates
  <2> QED BY <2>5
<1>2. \A n \in Nat : Power(b, n) = p[n]
  BY DEF Power
<1>3. IsPower(p)
  <2> HIDE DEF IsPower
  <2> QED BY <1>1
<1> HIDE DEF p
<1>4. \A k \in Nat : p[k] = IF k = 0 THEN 1 ELSE b * p[k - 1]
  BY <1>3
<1>5. p[0] = 1 /\ \A n \in Nat : p[n + 1] = b * p[n]
  <2>1. \A n \in Nat : n + 1 \in Nat /\ n + 1 # 0 /\ (n + 1) - 1 = n
    OBVIOUS
  <2> QED BY <1>4, <2>1
<1>6. Nat \subseteq {n \in Nat : p[n] \in Nat \ {0}}
  <2> DEFINE T == {n \in Nat : p[n] \in Nat \ {0}}
  <2>1. ASSUME NEW x \in Nat \ {0} PROVE b * x \in Nat \ {0}
    OBVIOUS
  <2>2. 0 \in T /\ \A n \in Nat : n \in T => n + 1 \in T
    BY <1>5, <2>1
  <2> HIDE DEF T
  <2>3. Nat \subseteq T
    BY <2>2, Induction
  <2> QED BY <2>3 DEF T
<1> QED BY <1>2, <1>5, <1>6

LEMMA PowerMonotone ==
  ASSUME NEW b \in Nat \ {0}, NEW m \in Nat, NEW n \in Nat, m <= n
  PROVE  Power(b, m) <= Power(b, n)
<1> DEFINE T == {k \in Nat : Power(b, m) <= Power(b, m + k)}
<1>1. ASSUME NEW x \in Nat PROVE x <= b * x
  OBVIOUS
<1>2. 0 \in T /\ \A k \in Nat : k \in T => k + 1 \in T
  <2>1. m + 0 = m /\ \A k \in Nat : m + k \in Nat /\ (m + (k + 1)) = (m + k) + 1
    OBVIOUS
  <2>2. Power(b, m) \in Nat /\ \A k \in Nat : Power(b, m + k) \in Nat /\ Power(b, m + (k + 1)) = b * Power(b, m + k)
    BY <2>1, PowerProperties
  <2>3. 0 \in T
    BY <2>1, <2>2
  <2>4. ASSUME NEW k \in Nat, k \in T PROVE k + 1 \in T
    <3>1. Power(b, m + k) <= Power(b, m + (k + 1))
      BY <2>2, <1>1
    <3> QED BY <2>2, <2>4, <3>1
  <2> QED BY <2>3, <2>4
<1>3. Nat \subseteq T
  <2> HIDE DEF T
  <2> QED BY <1>2, Induction
<1>4. n - m \in Nat /\ m + (n - m) = n
  OBVIOUS
<1> QED BY <1>3, <1>4

----------------------------------------------------------------------------
(* The types.                                                              *)

LEMMA WordIsPositive == Word \in Nat \ {0}
  BY IntCodecAssumption, PowerProperties DEF Word

LEMMA TypeLimits ==
  ASSUME NEW t \in Types
  PROVE  /\ MaxOf(t) \in Nat /\ MinOf(t) \in Int /\ MinOf(t) <= 0
         /\ Power(2, t.bits) \in Nat \ {0} /\ Power(2, t.bits) <= Word
         /\ t.signed => MinOf(t) = -(MaxOf(t) + 1) /\ Power(2, t.bits) = 2 * (MaxOf(t) + 1)
         /\ ~t.signed => MinOf(t) = 0 /\ Power(2, t.bits) = MaxOf(t) + 1
         /\ t.signed \in BOOLEAN
<1>1. t.bits \in 1..WordBits /\ t.signed \in BOOLEAN /\ WordBits \in Nat
  BY IntCodecAssumption DEF Types
<1>2. t.bits \in Nat /\ t.bits - 1 \in Nat /\ (t.bits - 1) + 1 = t.bits /\ t.bits <= WordBits
  BY <1>1
<1>3. Power(2, t.bits) <= Word
  BY <1>1, <1>2, PowerMonotone DEF Word
<1>4. /\ Power(2, t.bits) \in Nat \ {0} /\ Power(2, t.bits - 1) \in Nat \ {0}
      /\ Power(2, t.bits) = 2 * Power(2, t.bits - 1)
  <2>1. 2 \in Nat \ {0}
    OBVIOUS
  <2>2. \A n \in Nat : Power(2, n) \in Nat \ {0} /\ Power(2, n + 1) = 2 * Power(2, n)
    BY <2>1, PowerProperties
  <2>3. Power(2, (t.bits - 1) + 1) = 2 * Power(2, t.bits - 1)
    BY <1>2, <2>2
  <2> QED BY <1>2, <2>2, <2>3
<1> QED BY <1>1, <1>3, <1>4 DEF MaxOf, MinOf

\* What Return makes of the magnitude v: the number, when it is not above the
\* limit, and that is when the number fits in the type.
LEMMA Converted ==
  ASSUME NEW t \in Types, NEW neg \in BOOLEAN, neg => t.signed, NEW v \in Nat
  PROVE  LET x == IF neg THEN -v ELSE v
             r == Signed(x % Power(2, t.bits), t)
         IN /\ Limit(t, neg) \in Nat
            /\ Fits(x, t) <=> v <= Limit(t, neg)
            /\ v <= Limit(t, neg) => r = x
<1> DEFINE x == IF neg THEN -v ELSE v
           P == Power(2, t.bits)
           r == Signed(x % P, t)
<1>1. /\ MaxOf(t) \in Nat /\ P \in Nat \ {0}
      /\ t.signed => MinOf(t) = -(MaxOf(t) + 1) /\ P = 2 * (MaxOf(t) + 1)
      /\ ~t.signed => MinOf(t) = 0 /\ P = MaxOf(t) + 1
      /\ t.signed \in BOOLEAN
  BY TypeLimits
<1> HIDE DEF P
<1>2. Limit(t, neg) = (IF neg THEN MaxOf(t) + 1 ELSE MaxOf(t)) /\ Limit(t, neg) \in Nat
  BY <1>1 DEF Limit
<1>3. Fits(x, t) <=> v <= Limit(t, neg)
  BY <1>1, <1>2 DEF Fits
<1>4. ASSUME v <= Limit(t, neg) PROVE r = x
  <2>1. CASE ~neg
    <3>1. x = v /\ v \in 0..(P - 1) /\ v <= MaxOf(t)
      BY <1>1, <1>2, <1>4, <2>1
    <3>2. x % P = v
      BY <1>1, <3>1, Remainders
    <3> QED BY <1>1, <3>1, <3>2 DEF Signed
  <2>2. CASE neg /\ v >= 1
    <3>1. x = -v /\ v \in 1..P /\ v <= MaxOf(t) + 1 /\ t.signed /\ P = 2 * (MaxOf(t) + 1)
      BY <1>1, <1>2, <1>4, <2>2
    <3>2. x % P = P - v
      BY <1>1, <3>1, Remainders
    <3>3. P - v > MaxOf(t)
      BY <1>1, <3>1
    <3>4. r = (P - v) - P
      BY <3>1, <3>2, <3>3 DEF Signed, P
    <3> QED BY <1>1, <3>1, <3>4
  <2>3. CASE neg /\ v <= 0
    <3>1. x \in 0..(P - 1) /\ x <= MaxOf(t)
      BY <1>1, <2>3
    <3> HIDE DEF x
    <3>2. x % P = x
      BY <1>1, <3>1, Remainders
    <3> QED BY <1>1, <3>1, <3>2 DEF Signed
  <2> QED BY <2>1, <2>2, <2>3
<1> QED BY <1>2, <1>3, <1>4 DEF P

----------------------------------------------------------------------------
(* The digits that are written.                                            *)

\* f adds up the digits of s, beginning with v.
Adds(f, s, v) ==
  /\ f \in [0..Len(s) -> Nat] /\ f[0] = v
  /\ \A k \in 1..Len(s) : f[k] = f[k - 1] * 10 + DigitOf(s[k])

\* s is the number n, without zeros in front.
Numeral(s, n) ==
  /\ s \in Seq(Chars) /\ Len(s) >= 1
  /\ \A k \in 1..Len(s) : IsDigit(s[k])
  /\ s[1] = Zero => Len(s) = 1
  /\ \E f : Adds(f, s, 0) /\ f[Len(s)] = n

TenTo(n) == Power(10, n)

LEMMA TensProperties ==
  /\ TenTo(0) = 1
  /\ \A n \in Nat : TenTo(n) \in Nat \ {0} /\ TenTo(n + 1) = 10 * TenTo(n)
  /\ \A m \in Nat : \A n \in Nat : m <= n => TenTo(m) <= TenTo(n)
<1>1. 10 \in Nat \ {0}
  OBVIOUS
<1> QED BY <1>1, PowerProperties, PowerMonotone DEF TenTo

LEMMA GroupProperties ==
  GroupDigits \in Nat /\ GroupDigits >= 1 /\ Group = TenTo(GroupDigits) /\ Group \in Nat /\ Group >= 10
<1>1. GroupDigits \in Nat /\ GroupDigits >= 1 /\ GroupDigits - 1 \in Nat /\ (GroupDigits - 1) + 1 = GroupDigits
  BY IntCodecAssumption
<1>2. TenTo((GroupDigits - 1) + 1) = 10 * TenTo(GroupDigits - 1) /\ TenTo(GroupDigits - 1) \in Nat \ {0}
  BY <1>1, TensProperties
<1> QED BY <1>1, <1>2 DEF Group, TenTo

LEMMA FullDigitsProperties ==
  ASSUME NEW v \in Nat
  PROVE  /\ FullDigits(v) \in Seq(Chars) /\ Len(FullDigits(v)) = GroupDigits
         /\ \A k \in 1..GroupDigits :
              /\ IsDigit(FullDigits(v)[k])
              /\ v \div TenTo(GroupDigits - k) \in Nat
              /\ v \div TenTo(GroupDigits - k + 1) \in Nat
              /\ v \div TenTo(GroupDigits - k)
                   = 10 * (v \div TenTo(GroupDigits - k + 1)) + DigitOf(FullDigits(v)[k])
<1> DEFINE d == FullDigits(v)
<1>1. GroupDigits \in Nat
  BY GroupProperties
<1>2. d = [k \in 1..GroupDigits |-> Zero + ((v \div TenTo(GroupDigits - k)) % 10)]
  BY DEF FullDigits, TenTo
<1>3. ASSUME NEW k \in 1..GroupDigits
      PROVE  /\ GroupDigits - k \in Nat
             /\ TenTo(GroupDigits - k) \in Nat \ {0} /\ TenTo(GroupDigits - k + 1) = 10 * TenTo(GroupDigits - k)
             /\ v \div TenTo(GroupDigits - k) \in Nat /\ (v \div TenTo(GroupDigits - k)) % 10 \in 0..9
  <2>1. GroupDigits - k \in Nat
    BY <1>1
  <2>2. TenTo(GroupDigits - k) \in Nat \ {0} /\ TenTo(GroupDigits - k + 1) = 10 * TenTo(GroupDigits - k)
    BY <2>1, TensProperties
  <2>3. v \div TenTo(GroupDigits - k) \in Nat
    BY <2>2, Quotients
  <2>4. \A q \in Nat : q % 10 \in 0..9
    OBVIOUS
  <2> QED BY <2>1, <2>2, <2>3, <2>4
<1>4. \A k \in 1..GroupDigits : d[k] \in Chars /\ IsDigit(d[k]) /\ DigitOf(d[k]) = (v \div TenTo(GroupDigits - k)) % 10
  <2>1. \A x \in 0..9 : Zero + x \in Chars /\ (Zero + x) - Zero = x
    BY DEF Zero, Chars
  <2> QED BY <1>2, <1>3, <2>1, SMTT(30) DEF IsDigit, DigitOf
<1>5. d \in Seq(Chars) /\ Len(d) = GroupDigits
  <2>1. d \in [1..GroupDigits -> Chars]
    BY <1>2, <1>4
  <2> QED BY <1>1, <2>1
<1>6. ASSUME NEW k \in 1..GroupDigits
      PROVE  /\ v \div TenTo(GroupDigits - k + 1) \in Nat
             /\ v \div TenTo(GroupDigits - k)
                  = 10 * (v \div TenTo(GroupDigits - k + 1)) + ((v \div TenTo(GroupDigits - k)) % 10)
  <2> DEFINE m == TenTo(GroupDigits - k)
  <2>1. m \in Nat \ {0} /\ TenTo(GroupDigits - k + 1) = 10 * m
    BY <1>3
  <2> HIDE DEF m
  <2>2. 10 * m \in Nat \ {0}
    BY <2>1
  <2>3. v \div m = 10 * (v \div (10 * m)) + ((v \div m) % 10) /\ v \div (10 * m) \in Nat
    BY <2>1, <2>2, QuotientOfQuotient, Quotients
  <2> QED BY <2>1, <2>3 DEF m
<1> QED BY <1>3, <1>4, <1>5, <1>6

\* The first group, without zeros in front.
LEMMA ShortDigitsAreNumeral ==
  ASSUME NEW v \in Nat, v < Group
  PROVE  Numeral(ShortDigits(v), v)
<1> DEFINE G == GroupDigits
           d == FullDigits(v)
           Z == {k \in 1..(G - 1) : v < TenTo(G - k)}
<1>1. G \in Nat /\ G >= 1 /\ v < TenTo(G)
  BY GroupProperties
<1>2. /\ d \in Seq(Chars) /\ Len(d) = G
      /\ \A k \in 1..G : /\ IsDigit(d[k])
                         /\ v \div TenTo(G - k) \in Nat
                         /\ v \div TenTo(G - k + 1) \in Nat
                         /\ v \div TenTo(G - k) = 10 * (v \div TenTo(G - k + 1)) + DigitOf(d[k])
  BY FullDigitsProperties
<1> HIDE DEF G, d
<1>3. PICK z \in 0..(G - 1) : Z = 1..z
  <2>1. CASE Z = {}
    <3>1. 1..0 = {} /\ 0 \in 0..(G - 1)
      BY <1>1
    <3> QED BY <2>1, <3>1
  <2>2. CASE Z # {}
    <3>1. Z \in SUBSET (0..(G - 1)) /\ G - 1 \in Nat
      BY <1>1
    <3>2. PICK m \in Z : \A k \in Z : k <= m
      <4> HIDE DEF Z
      <4> QED BY <2>2, <3>1, GreatestNumber
    <3>3. ASSUME NEW k \in 1..m PROVE k \in Z
      <4>1. G - m \in Nat /\ G - k \in Nat /\ G - m <= G - k /\ k \in 1..(G - 1)
        BY <1>1, <3>2
      <4>2. TenTo(G - m) <= TenTo(G - k) /\ TenTo(G - m) \in Nat /\ TenTo(G - k) \in Nat
        BY <4>1, TensProperties
      <4> QED BY <3>2, <4>1, <4>2
    <3>4. Z = 1..m /\ m \in 0..(G - 1)
      <4>1. \A k \in Z : k \in 1..m
        BY <3>1, <3>2
      <4> HIDE DEF Z
      <4> QED BY <3>1, <3>2, <3>3, <4>1
    <3> QED BY <3>4
  <2> QED BY <2>1, <2>2
<1>4. Cardinality(Z) = z /\ z \in Nat
  <2>1. z \in Nat /\ Cardinality(1..z) = z
    BY <1>1, FS_Interval
  <2> QED BY <1>3, <2>1
<1> DEFINE s == SubSeq(d, z + 1, G)
           f == [k \in 0..(G - z) |-> v \div TenTo(G - z - k)]
<1>5. ShortDigits(v) = s
  <2>1. Cardinality({k \in 1..(GroupDigits - 1) : v < Power(10, GroupDigits - k)}) = z
    BY <1>4 DEF G, TenTo
  <2> QED BY <2>1 DEF ShortDigits, d, G
<1>6. /\ s \in Seq(Chars) /\ Len(s) = G - z /\ Len(s) >= 1
      /\ \A k \in 1..Len(s) : s[k] = d[z + k]
  <2>1. z + 1 \in 1..Len(d) /\ G \in 1..Len(d) /\ z + 1 <= G
    BY <1>1, <1>2
  <2>2. s \in Seq(Chars) /\ Len(s) = G - (z + 1) + 1 /\ \A k \in 1..(G - (z + 1) + 1) : s[k] = d[(z + 1) + k - 1]
    BY <1>2, <2>1, SubSeqProperties
  <2>3. G - (z + 1) + 1 = G - z /\ \A k \in 1..(G - z) : (z + 1) + k - 1 = z + k
    BY <1>1
  <2> HIDE DEF s
  <2>4. \A k \in 1..Len(s) : s[k] = d[z + k]
    BY <2>2, <2>3
  <2> QED BY <1>1, <2>2, <2>3, <2>4
<1> HIDE DEF s
<1>7. /\ f \in [0..Len(s) -> Nat]
      /\ \A k \in 1..Len(s) : /\ IsDigit(s[k])
                              /\ f[k] = f[k - 1] * 10 + DigitOf(s[k])
  <2>1. ASSUME NEW k \in 0..(G - z) PROVE v \div TenTo(G - z - k) \in Nat
    <3>1. G - z - k \in Nat
      BY <1>1
    <3>2. TenTo(G - z - k) \in Nat \ {0}
      BY <3>1, TensProperties
    <3> QED BY <3>2, Quotients
  <2>2. ASSUME NEW k \in 1..(G - z)
        PROVE  IsDigit(s[k]) /\ f[k] = f[k - 1] * 10 + DigitOf(s[k])
    <3>1. z + k \in 1..G /\ G - (z + k) = G - z - k /\ G - (z + k) + 1 = G - z - (k - 1)
          /\ k \in 0..(G - z) /\ k - 1 \in 0..(G - z)
      BY <1>1
    <3>a. s[k] = d[z + k]
      BY <1>6
    <3>2. IsDigit(d[z + k])
          /\ v \div TenTo(G - z - k) = 10 * (v \div TenTo(G - z - (k - 1))) + DigitOf(d[z + k])
      BY <1>2, <3>1
    <3>3. v \div TenTo(G - z - (k - 1)) \in Nat
      BY <2>1, <3>1
    <3>4. \A q \in Nat : 10 * q = q * 10
      OBVIOUS
    <3> QED BY <3>1, <3>a, <3>2, <3>3, <3>4
  <2>3. f \in [0..(G - z) -> Nat]
    BY <2>1
  <2> HIDE DEF f
  <2> QED BY <1>6, <2>2, <2>3
<1>8. f[0] = 0 /\ f[Len(s)] = v
  <2>1. v < TenTo(G - z)
    <3>1. CASE z = 0
      <4>1. G - z = G
        BY <1>1, <3>1
      <4> QED BY <1>1, <4>1
    <3>2. CASE z # 0
      <4>1. z \in Z
        BY <1>1, <1>3, <3>2
      <4> QED BY <4>1
    <3> QED BY <3>1, <3>2
  <2>2. G - z \in Nat /\ G - z - 0 = G - z /\ G - z - (G - z) = 0 /\ 0 \in 0..(G - z) /\ G - z \in 0..(G - z)
    BY <1>1
  <2>3. TenTo(G - z) \in Nat \ {0} /\ TenTo(0) = 1
    BY <2>2, TensProperties
  <2>4. v \div TenTo(G - z) = 0
    BY <2>1, <2>3, Quotients
  <2>5. v \div 1 = v
    OBVIOUS
  <2> QED BY <1>6, <2>2, <2>3, <2>4, <2>5
<1>9. s[1] = Zero => Len(s) = 1
  <2>1. SUFFICES ASSUME Len(s) # 1 PROVE s[1] # Zero
    OBVIOUS
  <2>2. z + 1 \in 1..(G - 1) /\ z + 1 \notin Z
    <3>1. z + 1 \in 1..(G - 1) /\ z + 1 \notin 1..z
      BY <1>1, <1>6, <2>1
    <3> HIDE DEF Z
    <3> QED BY <1>3, <3>1
  <2>3. ~(v < TenTo(G - (z + 1))) /\ G - (z + 1) = G - z - 1 /\ G - z - 1 \in Nat
    BY <1>1, <2>2
  <2>4. TenTo(G - z - 1) \in Nat \ {0} /\ v >= TenTo(G - z - 1)
    BY <2>3, TensProperties
  <2>5. v \div TenTo(G - z - 1) >= 1
    BY <2>4, Quotients
  <2>6. 1 \in 0..(G - z) /\ 1 \in 1..Len(s) /\ 1 - 1 = 0
    BY <1>1, <1>6
  <2>7. f[1] >= 1 /\ f[1] = f[0] * 10 + DigitOf(s[1])
    BY <1>7, <2>5, <2>6
  <2> HIDE DEF f
  <2>8. DigitOf(s[1]) >= 1
    BY <1>8, <2>7, <1>7, <2>6, SMTT(30) DEF IsDigit
  <2> QED BY <2>8 DEF DigitOf, Zero
<1>10. Adds(f, s, 0)
  <2> HIDE DEF f
  <2> QED BY <1>7, <1>8 DEF Adds
<1> HIDE DEF f
<1> QED BY <1>5, <1>6, <1>7, <1>8, <1>9, <1>10 DEF Numeral

\* A group behind a number.
LEMMA AppendGroup ==
  ASSUME NEW s, NEW q \in Nat \ {0}, Numeral(s, q), NEW r \in Nat, r < Group
  PROVE  Numeral(s \o FullDigits(r), Group * q + r)
<1> DEFINE G == GroupDigits
           d == FullDigits(r)
           n == Len(s)
           t == s \o d
<1>1. G \in Nat /\ G >= 1 /\ Group = TenTo(G) /\ Group \in Nat /\ Group >= 10
  BY GroupProperties
<1>2. /\ d \in Seq(Chars) /\ Len(d) = G
      /\ \A k \in 1..G : /\ IsDigit(d[k])
                         /\ r \div TenTo(G - k) \in Nat
                         /\ r \div TenTo(G - k + 1) \in Nat
                         /\ r \div TenTo(G - k) = 10 * (r \div TenTo(G - k + 1)) + DigitOf(d[k])
  BY FullDigitsProperties
<1>3. s \in Seq(Chars) /\ n >= 1 /\ n \in Nat /\ \A k \in 1..n : IsDigit(s[k])
  BY DEF Numeral
<1>4. PICK f : Adds(f, s, 0) /\ f[n] = q
  BY DEF Numeral
<1> HIDE DEF G, d, n
<1>5. /\ t \in Seq(Chars) /\ Len(t) = n + G
      /\ \A k \in 1..n : t[k] = s[k]
      /\ \A k \in 1..G : t[n + k] = d[k]
  <2>1. /\ t \in Seq(Chars) /\ Len(t) = Len(s) + Len(d)
        /\ \A i \in 1..(Len(s) + Len(d)) : t[i] = IF i <= Len(s) THEN s[i] ELSE d[i - Len(s)]
    BY <1>2, <1>3, ConcatProperties
  <2>2. Len(s) = n
    BY DEF n
  <2> HIDE DEF t
  <2>3. /\ \A k \in 1..n : k \in 1..(n + G) /\ k <= n
        /\ \A k \in 1..G : n + k \in 1..(n + G) /\ ~(n + k <= n) /\ (n + k) - n = k
    BY <1>1, <1>3
  <2>4. t \in Seq(Chars) /\ Len(t) = n + G
        /\ \A i \in 1..(n + G) : t[i] = IF i <= n THEN s[i] ELSE d[i - n]
    BY <1>2, <2>1, <2>2
  <2>5. \A k \in 1..n : t[k] = s[k]
    BY <2>3, <2>4
  <2>6. \A k \in 1..G : t[n + k] = d[k]
    BY <2>3, <2>4
  <2> QED BY <2>4, <2>5, <2>6
<1> HIDE DEF t
<1>6. f \in [0..n -> Nat] /\ f[0] = 0 /\ \A k \in 1..n : f[k] = f[k - 1] * 10 + DigitOf(s[k])
  BY <1>4 DEF Adds, n
\* the sum behind k digits of the group
<1> DEFINE sum(k) == q * TenTo(k) + (r \div TenTo(G - k))
           g == [k \in 0..(n + G) |-> IF k <= n THEN f[k] ELSE sum(k - n)]
<1>7. ASSUME NEW k \in 0..G PROVE sum(k) \in Nat
  <2>1. k \in Nat /\ G - k \in Nat
    BY <1>1
  <2>2. TenTo(k) \in Nat /\ TenTo(G - k) \in Nat \ {0}
    BY <2>1, TensProperties
  <2>3. r \div TenTo(G - k) \in Nat
    BY <2>2, Quotients
  <2> QED BY <2>2, <2>3
<1>8. ASSUME NEW k \in 1..G PROVE sum(k) = sum(k - 1) * 10 + DigitOf(d[k])
  <2>1. k - 1 \in Nat /\ (k - 1) + 1 = k /\ G - (k - 1) = G - k + 1
    BY <1>1
  <2>2. TenTo(k) = 10 * TenTo(k - 1) /\ TenTo(k - 1) \in Nat
    <3>1. TenTo((k - 1) + 1) = 10 * TenTo(k - 1) /\ TenTo(k - 1) \in Nat
      BY <2>1, TensProperties
    <3> QED BY <2>1, <3>1
  <2>3. /\ r \div TenTo(G - k) \in Nat /\ r \div TenTo(G - k + 1) \in Nat
        /\ r \div TenTo(G - k) = 10 * (r \div TenTo(G - k + 1)) + DigitOf(d[k]) /\ IsDigit(d[k])
    BY <1>2
  <2>4. sum(k - 1) = q * TenTo(k - 1) + (r \div TenTo(G - k + 1))
    BY <2>1
  <2> DEFINE x == TenTo(k - 1)
             y == r \div TenTo(G - k + 1)
             digit == DigitOf(d[k])
  <2>5. x \in Nat /\ y \in Nat /\ digit \in 0..9 /\ q \in Nat
        /\ sum(k - 1) = q * x + y /\ sum(k) = q * (10 * x) + (10 * y + digit)
    BY <2>2, <2>3, <2>4 DEF IsDigit
  <2>6. q * (10 * x) = (q * x) * 10 /\ q * x \in Nat
    <3> HIDE DEF x
    <3> QED BY <2>5
  <2> HIDE DEF x, y, digit, sum
  <2> QED BY <2>5, <2>6 DEF digit
<1>9. sum(0) = q /\ sum(G) = Group * q + r
  <2>1. TenTo(0) = 1 /\ r \div 1 = r /\ G - G = 0 /\ G - 0 = G /\ r \div Group = 0
    BY <1>1, TensProperties, Quotients
  <2>2. sum(0) = q * 1 + (r \div Group) /\ sum(G) = q * Group + (r \div 1)
    BY <1>1, <2>1
  <2>3. q * Group = Group * q
    BY <1>1
  <2> QED BY <1>1, <2>1, <2>2, <2>3
<1> HIDE DEF sum
<1>10. /\ \A k \in 0..n : g[k] = f[k]
       /\ \A k \in 0..G : g[n + k] = sum(k)
  <2>1. \A k \in 0..n : k \in 0..(n + G) /\ k <= n
    BY <1>1, <1>3
  <2>2. ASSUME NEW k \in 0..G PROVE g[n + k] = sum(k)
    <3>1. CASE k = 0
      <4>1. n + k = n /\ n \in 0..(n + G) /\ n <= n
        BY <1>1, <1>3, <3>1
      <4> QED BY <1>4, <1>9, <3>1, <4>1
    <3>2. CASE k # 0
      <4>1. n + k \in 0..(n + G) /\ ~(n + k <= n) /\ (n + k) - n = k
        BY <1>1, <1>3, <3>2
      <4> QED BY <4>1
    <3> QED BY <3>1, <3>2
  <2> QED BY <2>1, <2>2
<1>11. Adds(g, t, 0) /\ g[Len(t)] = Group * q + r
  <2>1. g \in [0..(n + G) -> Nat]
    <3>1. \A k \in 0..(n + G) : k <= n => k \in 0..n
      BY <1>1, <1>3
    <3>2. \A k \in 0..(n + G) : ~(k <= n) => k - n \in 0..G
      BY <1>1, <1>3
    <3> QED BY <1>6, <1>7, <3>1, <3>2
  <2> HIDE DEF g
  <2>2. g[0] = 0 /\ g[Len(t)] = Group * q + r
    <3>1. 0 \in 0..n /\ G \in 0..G
      BY <1>1, <1>3
    <3>2. g[0] = f[0] /\ g[n + G] = sum(G)
      BY <1>10, <3>1
    <3> QED BY <1>5, <1>6, <1>9, <3>2
  <2>3. ASSUME NEW k \in 1..(n + G) PROVE g[k] = g[k - 1] * 10 + DigitOf(t[k])
    <3>1. CASE k <= n
      <4>1. k \in 1..n /\ k \in 0..n /\ k - 1 \in 0..n
        BY <1>3, <3>1
      <4> QED BY <1>5, <1>6, <1>10, <4>1
    <3>2. CASE ~(k <= n)
      <4> DEFINE j == k - n
      <4>1. j \in 1..G /\ j \in 0..G /\ j - 1 \in 0..G /\ n + j = k /\ n + (j - 1) = k - 1
        BY <1>1, <1>3, <3>2
      <4> HIDE DEF j
      <4>2. g[n + j] = sum(j) /\ g[n + (j - 1)] = sum(j - 1) /\ t[n + j] = d[j] /\ sum(j) = sum(j - 1) * 10 + DigitOf(d[j])
        BY <1>5, <1>8, <1>10, <4>1
      <4> QED BY <4>1, <4>2
    <3> QED BY <3>1, <3>2
  <2> QED BY <1>5, <2>1, <2>2, <2>3 DEF Adds
<1>12. \A k \in 1..Len(t) : IsDigit(t[k])
  <2>1. ASSUME NEW k \in 1..(n + G) PROVE IsDigit(t[k])
    <3>1. CASE k <= n
      <4>1. k \in 1..n
        BY <1>3, <3>1
      <4> QED BY <1>3, <1>5, <4>1
    <3>2. CASE ~(k <= n)
      <4>1. k - n \in 1..G /\ n + (k - n) = k
        BY <1>1, <1>3, <3>2
      <4> QED BY <1>2, <1>5, <4>1
    <3> QED BY <3>1, <3>2
  <2> QED BY <1>5, <2>1
<1>13. t[1] # Zero
  <2>1. t[1] = s[1] /\ 1 \in 1..n
    BY <1>3, <1>5
  <2>2. SUFFICES ASSUME s[1] = Zero PROVE FALSE
    BY <2>1
  <2>3. n = 1
    BY <2>2 DEF Numeral, n
  <2>4. f[1] = f[0] * 10 + DigitOf(s[1]) /\ f[1] = q
    <3>1. 1 \in 1..n /\ 1 - 1 = 0
      BY <2>3
    <3> QED BY <1>4, <1>6, <2>3, <3>1
  <2> QED BY <1>6, <2>2, <2>4 DEF DigitOf, Zero
<1>14. Len(t) >= 1
  BY <1>1, <1>3, <1>5
<1> HIDE DEF g
<1> QED BY <1>5, <1>11, <1>12, <1>13, <1>14 DEF Numeral, t, d

\* Every number is written as itself.
LEMMA WriteUintIsNumeral ==
  ASSUME NEW v \in Nat
  PROVE  Numeral(WriteUint(v), v)
<1> DEFINE IsWriter(f) == f = [n \in Nat |-> IF n < Group THEN ShortDigits(n) ELSE f[n \div Group] \o FullDigits(n % Group)]
           w == CHOOSE f : IsWriter(f)
           first == {n \in Nat : n < Group}
           base == [n \in first |-> ShortDigits(n)]
           p == [n \in Nat |-> n \div Group]
           h == [x \in Seq(Chars) \X Nat |-> x[1] \o FullDigits(x[2] % Group)]
<1>1. Group \in Nat /\ Group >= 10
  BY GroupProperties
<1>2. ASSUME NEW n \in Nat, ~(n < Group)
      PROVE  /\ n \div Group \in Nat \ {0} /\ n \div Group < n
             /\ n % Group \in Nat /\ n % Group < Group /\ n = Group * (n \div Group) + (n % Group)
  <2>1. Group \in Nat \ {0} /\ Group > 1 /\ n \in Nat \ {0} /\ n >= Group
    BY <1>1, <1>2
  <2>2. /\ n \div Group \in Nat /\ n = Group * (n \div Group) + (n % Group) /\ n % Group \in 0..(Group - 1)
        /\ n \div Group >= 1
    BY <2>1, Quotients
  <2>3. n \div Group < n
    BY <2>1, QuotientIsLess
  <2> QED BY <1>1, <2>2, <2>3
<1>3. \E f : IsWriter(f)
  <2>1. h \in [Seq(Chars) \X Nat -> Seq(Chars)]
    <3>1. ASSUME NEW s \in Seq(Chars), NEW n \in Nat PROVE s \o FullDigits(n % Group) \in Seq(Chars)
      <4>1. n % Group \in Nat
        BY <1>1
      <4>2. FullDigits(n % Group) \in Seq(Chars)
        BY <4>1, FullDigitsProperties
      <4> QED BY <4>2
    <3> QED BY <3>1
  <2>2. \A n \in Nat \cap first : base[n] \in Seq(Chars)
    BY ShortDigitsAreNumeral DEF Numeral
  <2>3. \A n \in Nat \ first : p[n] \in Nat /\ p[n] < n
    BY <1>2
  <2>4. PICK f \in [Nat -> Seq(Chars)] : Recursive(f, Nat, first, base, p, h)
    <3>1. Nat \in SUBSET Nat
      OBVIOUS
    <3> HIDE DEF first, base, p, h
    <3> QED BY <2>1, <2>2, <2>3, <3>1, RecursionExists
  <2>5. ASSUME NEW n \in Nat
        PROVE  f[n] = IF n < Group THEN ShortDigits(n) ELSE f[n \div Group] \o FullDigits(n % Group)
    <3>1. f[n] = IF n \in first THEN base[n] ELSE h[<<f[p[n]], n>>]
      BY <2>4 DEF Recursive
    <3>2. CASE n < Group
      BY <3>1, <3>2
    <3>3. CASE ~(n < Group)
      <4>1. n \notin first /\ p[n] = n \div Group /\ f[n \div Group] \in Seq(Chars)
        BY <1>2, <2>4, <3>3
      <4>2. h[<<f[n \div Group], n>>] = f[n \div Group] \o FullDigits(n % Group)
        BY <4>1
      <4> HIDE DEF h, first, p
      <4> QED BY <3>1, <3>3, <4>1, <4>2
    <3> QED BY <3>2, <3>3
  <2>6. IsWriter(f)
    BY <2>4, <2>5
  <2> QED BY <2>6
<1>4. IsWriter(w)
  <2> HIDE DEF IsWriter
  <2> QED BY <1>3
<1>5. \A n \in Nat : WriteUint(n) = w[n]
  BY DEF WriteUint
<1> HIDE DEF w
<1>6. \A n \in Nat : w[n] = IF n < Group THEN ShortDigits(n) ELSE w[n \div Group] \o FullDigits(n % Group)
  BY <1>4
<1> DEFINE T == {n \in Nat : Numeral(w[n], n)}
<1>7. ASSUME NEW n \in Nat, \A k \in Nat : k < n => k \in T PROVE n \in T
  <2>1. CASE n < Group
    BY <1>6, <2>1, ShortDigitsAreNumeral
  <2>2. CASE ~(n < Group)
    <3>1. Numeral(w[n \div Group], n \div Group)
      BY <1>2, <1>7, <2>2
    <3>2. Numeral(w[n \div Group] \o FullDigits(n % Group), Group * (n \div Group) + (n % Group))
      BY <1>2, <2>2, <3>1, AppendGroup
    <3>3. n = Group * (n \div Group) + (n % Group)
      BY <1>2, <2>2
    <3> QED BY <1>6, <2>2, <3>2, <3>3
  <2> QED BY <2>1, <2>2
<1>8. Nat \subseteq T
  <2>1. Nat \in SUBSET Nat
    OBVIOUS
  <2> HIDE DEF T
  <2> QED BY <1>7, <2>1, StrongInduction
<1> QED BY <1>5, <1>8

----------------------------------------------------------------------------
(* The number a text begins with.                                          *)

AllDigits(i, j) == \A k \in (i + 1)..j : IsDigit(text[k])

LEMMA SignIs ==
  ASSUME text \in Seq(Chars)
  PROVE  /\ SignLength \in {0, 1} /\ SignLength <= Len(text) /\ Len(text) \in Nat
         /\ SignLength = 1 <=> type.signed /\ Len(text) >= 1 /\ text[1] = Minus
<1>1. Len(text) \in Nat /\ (text # <<>> <=> Len(text) >= 1)
  <2>1. Len(text) \in Nat
    OBVIOUS
  <2>2. text = <<>> <=> Len(text) = 0
    BY EmptySeq
  <2> QED BY <2>1, <2>2
<1> QED BY <1>1 DEF SignLength

LEMMA NumberEndsIs ==
  ASSUME text \in Seq(Chars)
  PROVE  /\ NumberEnds \in SignLength..Len(text) /\ NumberEnds \in Nat
         /\ AllDigits(SignLength, NumberEnds)
         /\ HasNumber /\ text[SignLength + 1] = Zero => NumberEnds = SignLength + 1
         /\ \A k \in SignLength..Len(text) :
              AllDigits(SignLength, k) /\ (k > SignLength => text[SignLength + 1] # Zero) => k <= NumberEnds
         /\ SignLength < Len(text) /\ IsDigit(text[SignLength + 1]) => HasNumber
<1> DEFINE ends == {k \in SignLength..Len(text) : \A j \in (SignLength + 1)..k : IsDigit(text[j])}
           longest == CHOOSE k \in ends : \A j \in ends : j <= k
<1>1. SignLength \in {0, 1} /\ SignLength <= Len(text) /\ Len(text) \in Nat
  BY SignIs
<1>2. SignLength \in ends /\ ends \in SUBSET (0..Len(text))
  BY <1>1
<1>3. \E k \in ends : \A j \in ends : j <= k
  <2>1. ends # {}
    BY <1>2
  <2> HIDE DEF ends
  <2> QED BY <1>1, <1>2, <2>1, GreatestNumber
<1>4. longest \in ends /\ \A j \in ends : j <= longest
  <2> HIDE DEF ends
  <2> QED BY <1>3
<1>5. NumberEnds = IF longest > SignLength /\ text[SignLength + 1] = Zero THEN SignLength + 1 ELSE longest
  BY DEF NumberEnds
<1> HIDE DEF longest
<1>6. longest \in SignLength..Len(text) /\ AllDigits(SignLength, longest)
  BY <1>4 DEF AllDigits
<1>7. \A k \in SignLength..Len(text) : AllDigits(SignLength, k) => k <= longest
  BY <1>4 DEF AllDigits
<1> HIDE DEF ends
<1>8. NumberEnds \in SignLength..Len(text) /\ NumberEnds <= longest
  BY <1>1, <1>5, <1>6
<1>9. AllDigits(SignLength, NumberEnds)
  BY <1>1, <1>6, <1>8 DEF AllDigits
<1>10. ASSUME SignLength < Len(text), IsDigit(text[SignLength + 1]) PROVE HasNumber
  <2>1. SignLength + 1 \in SignLength..Len(text) /\ AllDigits(SignLength, SignLength + 1)
    BY <1>1, <1>10 DEF AllDigits
  <2>2. longest >= SignLength + 1
    BY <1>1, <1>6, <1>7, <2>1
  <2> QED BY <1>1, <1>5, <1>6, <2>2 DEF HasNumber
<1>11. ASSUME NEW k \in SignLength..Len(text), AllDigits(SignLength, k), k > SignLength => text[SignLength + 1] # Zero
       PROVE  k <= NumberEnds
  BY <1>1, <1>5, <1>6, <1>7, <1>11
<1> QED BY <1>1, <1>5, <1>6, <1>8, <1>9, <1>10, <1>11 DEF HasNumber

\* The digits that have been read are those of the number, and all of them when
\* what follows is no digit.
LEMMA NumberIs ==
  ASSUME text \in Seq(Chars), NEW k \in (SignLength + 1)..Len(text), AllDigits(SignLength, k),
         text[SignLength + 1] # Zero
  PROVE  /\ HasNumber /\ k <= NumberEnds
         /\ k = Len(text) \/ ~IsDigit(text[k + 1]) => NumberEnds = k
<1>1. SignLength \in {0, 1} /\ Len(text) \in Nat
  BY SignIs
<1>2. k <= NumberEnds /\ NumberEnds \in SignLength..Len(text) /\ AllDigits(SignLength, NumberEnds)
  <2>1. k \in SignLength..Len(text)
    BY <1>1
  <2> QED BY <2>1, NumberEndsIs
<1>3. NumberEnds # k => k + 1 \in (SignLength + 1)..NumberEnds
  BY <1>1, <1>2
<1> QED BY <1>1, <1>2, <1>3 DEF HasNumber, AllDigits

\* The number up to a character.
Prefix ==
  CHOOSE f : f = [k \in 0..NumberEnds |->
                    IF k <= SignLength THEN 0 ELSE f[k - 1] * 10 + DigitOf(text[k])]

LEMMA PrefixIs ==
  ASSUME text \in Seq(Chars)
  PROVE  /\ Prefix \in [0..NumberEnds -> Nat]
         /\ Prefix[SignLength] = 0
         /\ \A k \in (SignLength + 1)..NumberEnds : Prefix[k] = Prefix[k - 1] * 10 + DigitOf(text[k])
         /\ Prefix[NumberEnds] = Absolute
<1> DEFINE IsPrefix(f) == f = [k \in 0..NumberEnds |-> IF k <= SignLength THEN 0 ELSE f[k - 1] * 10 + DigitOf(text[k])]
           h == [x \in Nat \X (0..NumberEnds) |-> IF x[2] <= SignLength THEN 0 ELSE x[1] * 10 + DigitOf(text[x[2]])]
<1>1. SignLength \in {0, 1} /\ NumberEnds \in Nat /\ SignLength <= NumberEnds /\ AllDigits(SignLength, NumberEnds)
  BY SignIs, NumberEndsIs
<1>2. \A k \in 0..NumberEnds : ~(k <= SignLength) => k \in (SignLength + 1)..NumberEnds /\ DigitOf(text[k]) \in Nat
  BY <1>1 DEF AllDigits, IsDigit
<1>3. \E f : IsPrefix(f)
  <2>1. h \in [Nat \X (0..NumberEnds) -> Nat]
    <3>1. \A a \in Nat : \A k \in 0..NumberEnds : ~(k <= SignLength) => a * 10 + DigitOf(text[k]) \in Nat
      BY <1>2
    <3> QED BY <3>1
  <2>2. PICK f \in [0..NumberEnds -> Nat] : Iterates(f, 0..NumberEnds, 0, h)
    <3>1. 0 \in Nat
      OBVIOUS
    <3> HIDE DEF h
    <3> QED BY <1>1, <2>1, <3>1, Iteration
  <2>3. ASSUME NEW k \in 0..NumberEnds
        PROVE  f[k] = IF k <= SignLength THEN 0 ELSE f[k - 1] * 10 + DigitOf(text[k])
    <3>1. CASE k = 0
      <4>1. f[0] = 0
        BY <2>2 DEF Iterates
      <4> QED BY <1>1, <3>1, <4>1
    <3>2. CASE k # 0
      <4>1. f[k] = h[<<f[k - 1], k>>]
        <5> HIDE DEF h
        <5> QED BY <2>2, <3>2 DEF Iterates
      <4>2. k - 1 \in 0..NumberEnds /\ f[k - 1] \in Nat
        BY <1>1, <2>2, <3>2
      <4> QED BY <4>1, <4>2
    <3> QED BY <3>1, <3>2
  <2>4. IsPrefix(f)
    <3> HIDE DEF h
    <3> QED BY <2>2, <2>3
  <2> QED BY <2>4
<1>4. IsPrefix(Prefix)
  <2>1. Prefix = CHOOSE f : IsPrefix(f)
    BY DEF Prefix
  <2> HIDE DEF IsPrefix
  <2> QED BY <1>3, <2>1
<1>5. Absolute = Prefix[NumberEnds]
  BY DEF Absolute, Prefix
<1>6. \A k \in 0..NumberEnds : Prefix[k] = IF k <= SignLength THEN 0 ELSE Prefix[k - 1] * 10 + DigitOf(text[k])
  <2> DEFINE p == Prefix
  <2>1. IsPrefix(p)
    BY <1>4
  <2> HIDE DEF p
  <2>2. \A k \in 0..NumberEnds : p[k] = IF k <= SignLength THEN 0 ELSE p[k - 1] * 10 + DigitOf(text[k])
    BY <2>1
  <2> QED BY <2>2 DEF p
<1>7. \A k \in 0..NumberEnds : Prefix[k] \in Nat
  <2> DEFINE T == {k \in 0..NumberEnds : Prefix[k] \in Nat}
  <2>1. 0 \in T
    BY <1>1, <1>6
  <2>2. ASSUME NEW k \in 0..(NumberEnds - 1), k \in T PROVE k + 1 \in T
    <3>1. k + 1 \in 0..NumberEnds /\ (k + 1) - 1 = k
      BY <1>1
    <3>2. CASE k + 1 <= SignLength
      BY <1>6, <3>1, <3>2
    <3>3. CASE ~(k + 1 <= SignLength)
      <4>1. Prefix[k + 1] = Prefix[k] * 10 + DigitOf(text[k + 1]) /\ DigitOf(text[k + 1]) \in Nat
        BY <1>2, <1>6, <3>1, <3>3
      <4> QED BY <2>2, <3>1, <4>1
    <3> QED BY <3>2, <3>3
  <2> HIDE DEF T
  <2>3. 0..NumberEnds \subseteq T
    BY <1>1, <2>1, <2>2, BoundedInduction
  <2> QED BY <2>3 DEF T
<1>8. Prefix \in [0..NumberEnds -> Nat]
  <2> DEFINE p == Prefix
  <2>1. p = [k \in 0..NumberEnds |-> IF k <= SignLength THEN 0 ELSE p[k - 1] * 10 + DigitOf(text[k])]
    BY <1>4
  <2>2. \A k \in 0..NumberEnds : p[k] \in Nat
    BY <1>7
  <2> HIDE DEF p
  <2>3. p \in [0..NumberEnds -> Nat]
    BY <2>1, <2>2
  <2> QED BY <2>3 DEF p
<1>9. Prefix[SignLength] = 0 /\ \A k \in (SignLength + 1)..NumberEnds : Prefix[k] = Prefix[k - 1] * 10 + DigitOf(text[k])
  <2>1. SignLength \in 0..NumberEnds /\ \A k \in (SignLength + 1)..NumberEnds : k \in 0..NumberEnds /\ ~(k <= SignLength)
    BY <1>1
  <2> QED BY <1>6, <2>1
<1> QED BY <1>5, <1>8, <1>9

\* No part of the number is larger than the number.
LEMMA PrefixIsLess ==
  ASSUME text \in Seq(Chars), NEW k \in SignLength..NumberEnds
  PROVE  Prefix[k] <= Absolute
<1> DEFINE T == {j \in 0..(NumberEnds - k) : Prefix[k] <= Prefix[k + j]}
<1>1. SignLength \in {0, 1} /\ NumberEnds \in Nat /\ AllDigits(SignLength, NumberEnds) /\ k \in Nat
      /\ NumberEnds - k \in Nat /\ k + (NumberEnds - k) = NumberEnds
  BY SignIs, NumberEndsIs
<1>2. /\ Prefix \in [0..NumberEnds -> Nat] /\ Prefix[NumberEnds] = Absolute
      /\ \A j \in (SignLength + 1)..NumberEnds : Prefix[j] = Prefix[j - 1] * 10 + DigitOf(text[j])
  BY PrefixIs
<1>3. 0 \in T
  <2>1. Prefix[k] \in Nat /\ k + 0 = k /\ 0 \in 0..(NumberEnds - k)
    BY <1>1, <1>2
  <2> QED BY <2>1
<1>4. ASSUME NEW j \in 0..(NumberEnds - k - 1), j \in T PROVE j + 1 \in T
  <2>1. k + (j + 1) \in (SignLength + 1)..NumberEnds /\ (k + (j + 1)) - 1 = k + j /\ j + 1 \in 0..(NumberEnds - k)
        /\ k + j \in 0..NumberEnds /\ k + (j + 1) \in 0..NumberEnds
    BY <1>1
  <2>2. Prefix[k + (j + 1)] = Prefix[k + j] * 10 + DigitOf(text[k + (j + 1)]) /\ DigitOf(text[k + (j + 1)]) \in Nat
    <3> DEFINE i == k + (j + 1)
    <3>1. i \in (SignLength + 1)..NumberEnds /\ i - 1 = k + j
      BY <2>1
    <3> HIDE DEF i
    <3>2. Prefix[i] = Prefix[i - 1] * 10 + DigitOf(text[i])
      BY <1>2, <3>1
    <3>3. DigitOf(text[i]) \in Nat
      BY <1>1, <3>1 DEF AllDigits, IsDigit
    <3> QED BY <3>1, <3>2, <3>3 DEF i
  <2>3. Prefix[k + j] \in Nat /\ Prefix[k] \in Nat /\ Prefix[k] <= Prefix[k + j]
    BY <1>1, <1>2, <1>4, <2>1
  <2>4. Prefix[k] <= Prefix[k + (j + 1)]
    BY <2>2, <2>3
  <2> QED BY <2>1, <2>4
<1>5. 0..(NumberEnds - k) \subseteq T
  <2> HIDE DEF T
  <2> QED BY <1>1, <1>3, <1>4, BoundedInduction
<1>6. NumberEnds - k \in T
  <2>1. NumberEnds - k \in 0..(NumberEnds - k)
    BY <1>1
  <2> HIDE DEF T
  <2> QED BY <1>5, <2>1
<1> QED BY <1>1, <1>2, <1>6

----------------------------------------------------------------------------
(* What the reader collects.                                               *)

LEMMA RunLengthIs ==
  ASSUME head \in Nat, NEW m \in Nat
  PROVE  /\ RunLength(m) \in 0..m
         /\ AllDigits(head, head + RunLength(m))
         /\ RunLength(m) < m => ~IsDigit(text[head + RunLength(m) + 1])
<1> DEFINE n == RunLength(m)
<1>1. ASSUME NEW k \in 0..m PROVE k \in DigitRuns(m) <=> AllDigits(head, head + k)
  <2>1. ASSUME NEW j \in 1..k PROVE At(head + j - 1) = text[head + j] /\ head + j \in (head + 1)..(head + k)
    <3>1. (head + j - 1) + 1 = head + j
      OBVIOUS
    <3> QED BY <3>1 DEF At
  <2>2. ASSUME NEW j \in (head + 1)..(head + k) PROVE j - head \in 1..k /\ head + (j - head) = j
    OBVIOUS
  <2>3. (\A j \in 1..k : IsDigit(At(head + j - 1))) <=> \A j \in 1..k : IsDigit(text[head + j])
    BY <2>1
  <2>4. (\A j \in 1..k : IsDigit(text[head + j])) <=> \A j \in (head + 1)..(head + k) : IsDigit(text[j])
    BY <2>1, <2>2
  <2> QED BY <2>3, <2>4 DEF DigitRuns, AllDigits
<1>2. DigitRuns(m) \in SUBSET (0..m) /\ DigitRuns(m) # {}
  <2>1. 0 \in DigitRuns(m)
    BY DEF DigitRuns
  <2> QED BY <2>1 DEF DigitRuns
<1>3. n \in DigitRuns(m) /\ \A j \in DigitRuns(m) : j <= n
  <2>1. \E k \in DigitRuns(m) : \A j \in DigitRuns(m) : j <= k
    BY <1>2, GreatestNumber
  <2> QED BY <2>1 DEF RunLength
<1> HIDE DEF n
<1>4. n \in 0..m /\ AllDigits(head, head + n)
  BY <1>1, <1>2, <1>3
<1>5. ASSUME n < m, IsDigit(text[head + n + 1]) PROVE FALSE
  <2>1. n + 1 \in 0..m /\ head + (n + 1) = head + n + 1
    BY <1>4, <1>5
  <2>2. AllDigits(head, head + (n + 1))
    <3>1. \A j \in (head + 1)..(head + n + 1) : j \in (head + 1)..(head + n) \/ j = head + n + 1
      BY <1>4
    <3> QED BY <1>4, <1>5, <2>1, <3>1 DEF AllDigits
  <2>3. n + 1 \in DigitRuns(m)
    BY <1>1, <2>1, <2>2
  <2> QED BY <1>3, <1>4, <2>3
<1> QED BY <1>4, <1>5 DEF n

\* c collects n digits behind the first h characters.
Collects(c, v, h, n) ==
  /\ c \in [0..n -> Nat] /\ c[0] = v
  /\ \A k \in 1..n : c[k] = c[k - 1] * 10 + DigitOf(text[h + k])

LEMMA CollectedIs ==
  ASSUME head \in Nat, NEW n \in Nat, NEW v \in Nat, AllDigits(head, head + n)
  PROVE  \E c : Collects(c, v, head, n) /\ Collected(v, n) = c[n]
<1> DEFINE IsSum(f) == f = [k \in 0..n |-> IF k = 0 THEN v ELSE f[k - 1] * 10 + DigitOf(At(head + k - 1))]
           c == CHOOSE f : IsSum(f)
           h == [x \in Nat \X (0..n) |-> IF x[2] = 0 THEN v ELSE x[1] * 10 + DigitOf(text[head + x[2]])]
<1>1. ASSUME NEW k \in 1..n PROVE At(head + k - 1) = text[head + k] /\ DigitOf(text[head + k]) \in Nat
  <2>1. (head + k - 1) + 1 = head + k /\ head + k \in (head + 1)..(head + n)
    OBVIOUS
  <2> QED BY <2>1 DEF At, AllDigits, IsDigit
<1>2. \A k \in 0..n : k # 0 => k \in 1..n /\ k - 1 \in 0..n
  OBVIOUS
<1>3. \E f : IsSum(f)
  <2>1. h \in [Nat \X (0..n) -> Nat]
    <3>1. \A a \in Nat : \A k \in 0..n : k # 0 => a * 10 + DigitOf(text[head + k]) \in Nat
      BY <1>1, <1>2
    <3> QED BY <3>1
  <2>2. PICK f \in [0..n -> Nat] : Iterates(f, 0..n, v, h)
    <3> HIDE DEF h
    <3> QED BY <2>1, Iteration
  <2>3. ASSUME NEW k \in 0..n
        PROVE  f[k] = IF k = 0 THEN v ELSE f[k - 1] * 10 + DigitOf(At(head + k - 1))
    <3>1. CASE k = 0
      BY <2>2, <3>1 DEF Iterates
    <3>2. CASE k # 0
      <4>1. f[k] = h[<<f[k - 1], k>>]
        <5> HIDE DEF h
        <5> QED BY <2>2, <3>2 DEF Iterates
      <4>2. k - 1 \in 0..n /\ f[k - 1] \in Nat /\ k \in 1..n
        BY <1>2, <2>2, <3>2
      <4>3. f[k] = f[k - 1] * 10 + DigitOf(text[head + k])
        BY <3>2, <4>1, <4>2
      <4> QED BY <1>1, <3>2, <4>2, <4>3
    <3> QED BY <3>1, <3>2
  <2>4. IsSum(f)
    <3> HIDE DEF h
    <3> QED BY <2>2, <2>3
  <2> QED BY <2>4
<1>4. IsSum(c)
  <2> HIDE DEF IsSum
  <2> QED BY <1>3
<1>5. Collected(v, n) = c[n]
  BY DEF Collected
<1> HIDE DEF c
<1>6. c[0] = v /\ \A k \in 1..n : c[k] = c[k - 1] * 10 + DigitOf(text[head + k])
  <2>1. \A k \in 0..n : c[k] = IF k = 0 THEN v ELSE c[k - 1] * 10 + DigitOf(At(head + k - 1))
    BY <1>4
  <2>2. \A k \in 1..n : k \in 0..n /\ k # 0
    OBVIOUS
  <2>3. \A k \in 1..n : c[k] = c[k - 1] * 10 + DigitOf(At(head + k - 1))
    BY <2>1, <2>2
  <2> QED BY <1>1, <2>1, <2>3, SMTT(30)
<1>7. c \in [0..n -> Nat]
  <2> DEFINE T == {k \in 0..n : c[k] \in Nat}
  <2>1. 0 \in T
    BY <1>6
  <2>2. ASSUME NEW k \in 0..(n - 1), k \in T PROVE k + 1 \in T
    <3>1. k + 1 \in 1..n /\ k + 1 \in 0..n /\ (k + 1) - 1 = k
      OBVIOUS
    <3>2. c[k + 1] = c[k] * 10 + DigitOf(text[head + (k + 1)]) /\ DigitOf(text[head + (k + 1)]) \in Nat
      BY <1>1, <1>6, <3>1
    <3> QED BY <2>2, <3>1, <3>2
  <2> HIDE DEF T
  <2>3. 0..n \subseteq T
    BY <2>1, <2>2, BoundedInduction
  <2>4. \A k \in 0..n : c[k] \in Nat
    BY <2>3 DEF T
  <2> QED BY <1>4, <2>4
<1>8. Collects(c, v, head, n)
  BY <1>6, <1>7 DEF Collects
<1> QED BY <1>5, <1>8

\* n digits behind a digit are less than a power of ten,
LEMMA CollectsIsLess ==
  ASSUME head \in Nat, NEW n \in Nat, NEW v \in 0..9, NEW c, Collects(c, v, head, n), AllDigits(head, head + n)
  PROVE  c[n] < Power(10, n + 1)
<1> DEFINE T == {k \in 0..n : c[k] < TenTo(k + 1)}
<1>1. c \in [0..n -> Nat] /\ c[0] = v /\ \A k \in 1..n : c[k] = c[k - 1] * 10 + DigitOf(text[head + k])
  BY DEF Collects
<1>2. TenTo(0) = 1 /\ \A k \in Nat : TenTo(k) \in Nat /\ TenTo(k + 1) = 10 * TenTo(k)
  BY TensProperties
<1>3. 0 \in T
  <2>1. TenTo(0 + 1) = 10
    BY <1>2
  <2> QED BY <1>1, <2>1
<1>4. ASSUME NEW k \in 0..(n - 1), k \in T PROVE k + 1 \in T
  <2>1. k + 1 \in 1..n /\ k + 1 \in 0..n /\ (k + 1) - 1 = k /\ k + 1 \in Nat /\ head + (k + 1) \in (head + 1)..(head + n)
    OBVIOUS
  <2>2. c[k + 1] = c[k] * 10 + DigitOf(text[head + (k + 1)])
    BY <1>1, <2>1
  <2>3. DigitOf(text[head + (k + 1)]) \in 0..9
    BY <2>1 DEF AllDigits, IsDigit
  <2>4. c[k] \in Nat /\ c[k] < TenTo(k + 1) /\ TenTo(k + 1) \in Nat /\ TenTo((k + 1) + 1) = 10 * TenTo(k + 1)
    BY <1>1, <1>2, <1>4, <2>1
  <2>5. c[k + 1] < TenTo((k + 1) + 1)
    BY <2>2, <2>3, <2>4
  <2> QED BY <2>1, <2>5
<1>5. n \in T
  <2>1. n \in 0..n
    OBVIOUS
  <2> HIDE DEF T
  <2> QED BY <1>3, <1>4, <2>1, BoundedInduction
<1> QED BY <1>5 DEF TenTo

\* and are the number up to there, if they follow the number up to h.
LEMMA CollectsPrefix ==
  ASSUME text \in Seq(Chars), NEW h \in Nat, NEW n \in Nat, NEW v \in Nat, NEW c, Collects(c, v, h, n),
         SignLength <= h, h + n <= NumberEnds, v = Prefix[h]
  PROVE  c[n] = Prefix[h + n]
<1> DEFINE T == {k \in 0..n : c[k] = Prefix[h + k]}
<1>1. c \in [0..n -> Nat] /\ c[0] = v /\ \A k \in 1..n : c[k] = c[k - 1] * 10 + DigitOf(text[h + k])
  BY DEF Collects
<1>2. \A k \in (SignLength + 1)..NumberEnds : Prefix[k] = Prefix[k - 1] * 10 + DigitOf(text[k])
  BY PrefixIs
<1>3. 0 \in T
  <2>1. h + 0 = h
    OBVIOUS
  <2> QED BY <1>1, <2>1
<1>4. ASSUME NEW k \in 0..(n - 1), k \in T PROVE k + 1 \in T
  <2> DEFINE i == h + (k + 1)
  <2>1. k + 1 \in 1..n /\ k + 1 \in 0..n /\ (k + 1) - 1 = k /\ i - 1 = h + k
    OBVIOUS
  <2>2. i \in (SignLength + 1)..NumberEnds
    <3>1. SignLength \in {0, 1} /\ NumberEnds \in Nat
      BY SignIs, NumberEndsIs
    <3> QED BY <3>1
  <2> HIDE DEF i
  <2>3. c[k + 1] = c[k] * 10 + DigitOf(text[i]) /\ Prefix[i] = Prefix[h + k] * 10 + DigitOf(text[i])
    BY <1>1, <1>2, <2>1, <2>2 DEF i
  <2> QED BY <1>4, <2>1, <2>3 DEF i
<1>5. n \in T
  <2>1. n \in 0..n
    OBVIOUS
  <2> HIDE DEF T
  <2> QED BY <1>3, <1>4, <2>1, BoundedInduction
<1> QED BY <1>5

\* The words of the loop.
LEMMA WordsAre ==
  ASSUME head \in Nat, value \in 0..(Word - 1), NEW n \in Nat, AllDigits(head, head + n)
  PROVE  /\ Words(n) \in [0..n -> 0..(Word - 1)]
         /\ Words(n)[0] = value
         /\ \A k \in 1..n : /\ Words(n)[k] = Next10(Words(n)[k - 1], DigitOf(text[head + k]))
                            /\ DigitOf(At(head + k - 1)) = DigitOf(text[head + k])
                            /\ DigitOf(text[head + k]) \in Nat
<1> DEFINE IsWords(f) == f = [k \in 0..n |-> IF k = 0 THEN value ELSE Next10(f[k - 1], DigitOf(At(head + k - 1)))]
           c == CHOOSE f : IsWords(f)
           S == 0..(Word - 1)
           h == [x \in S \X (0..n) |-> IF x[2] = 0 THEN value ELSE Next10(x[1], DigitOf(text[head + x[2]]))]
<1>1. ASSUME NEW k \in 1..n PROVE At(head + k - 1) = text[head + k] /\ DigitOf(text[head + k]) \in Nat
  <2>1. (head + k - 1) + 1 = head + k /\ head + k \in (head + 1)..(head + n)
    OBVIOUS
  <2> QED BY <2>1 DEF At, AllDigits, IsDigit
<1>2. \A k \in 0..n : k # 0 => k \in 1..n /\ k - 1 \in 0..n
  OBVIOUS
<1>3. \A a \in Nat : \A d \in Nat : Next10(a, d) \in S
  BY WordIsPositive, Remainders DEF Next10
<1>4. \A a \in S : \A d \in Nat : Next10(a, d) \in S
  <2>1. \A a \in S : a \in Nat
    BY WordIsPositive
  <2> HIDE DEF S
  <2> QED BY <1>3, <2>1
<1> HIDE DEF S
<1>5. \E f : IsWords(f)
  <2>1. h \in [S \X (0..n) -> S]
    <3>1. \A a \in S : \A k \in 0..n : k # 0 => Next10(a, DigitOf(text[head + k])) \in S
      BY <1>1, <1>2, <1>4
    <3>2. value \in S
      BY DEF S
    <3> QED BY <3>1, <3>2
  <2>2. PICK f \in [0..n -> S] : Iterates(f, 0..n, value, h)
    <3>1. value \in S
      BY DEF S
    <3> HIDE DEF h
    <3> QED BY <2>1, <3>1, Iteration
  <2>3. ASSUME NEW k \in 0..n
        PROVE  f[k] = IF k = 0 THEN value ELSE Next10(f[k - 1], DigitOf(At(head + k - 1)))
    <3>1. CASE k = 0
      BY <2>2, <3>1 DEF Iterates
    <3>2. CASE k # 0
      <4>1. f[k] = h[<<f[k - 1], k>>]
        <5> HIDE DEF h
        <5> QED BY <2>2, <3>2 DEF Iterates
      <4>2. k - 1 \in 0..n /\ f[k - 1] \in S /\ k \in 1..n
        BY <1>2, <2>2, <3>2
      <4>3. f[k] = Next10(f[k - 1], DigitOf(text[head + k]))
        BY <3>2, <4>1, <4>2
      <4> QED BY <1>1, <3>2, <4>2, <4>3
    <3> QED BY <3>1, <3>2
  <2>4. IsWords(f)
    <3> HIDE DEF h
    <3> QED BY <2>2, <2>3
  <2> QED BY <2>4
<1>6. IsWords(c)
  <2> HIDE DEF IsWords
  <2> QED BY <1>5
<1>7. Words(n) = c
  BY DEF Words
<1> HIDE DEF c
<1>8. c[0] = value /\ \A k \in 1..n : c[k] = Next10(c[k - 1], DigitOf(text[head + k]))
  <2>1. \A k \in 0..n : c[k] = IF k = 0 THEN value ELSE Next10(c[k - 1], DigitOf(At(head + k - 1)))
    BY <1>6
  <2>2. \A k \in 1..n : k \in 0..n /\ k # 0
    OBVIOUS
  <2>3. \A k \in 1..n : c[k] = Next10(c[k - 1], DigitOf(At(head + k - 1)))
    BY <2>1, <2>2
  <2> QED BY <1>1, <2>1, <2>3
<1>9. c \in [0..n -> S]
  <2> DEFINE T == {k \in 0..n : c[k] \in S}
  <2>1. 0 \in T
    BY <1>8 DEF S
  <2>2. ASSUME NEW k \in 0..(n - 1), k \in T PROVE k + 1 \in T
    <3>1. k + 1 \in 1..n /\ k + 1 \in 0..n /\ (k + 1) - 1 = k
      OBVIOUS
    <3>2. c[k + 1] = Next10(c[k], DigitOf(text[head + (k + 1)])) /\ DigitOf(text[head + (k + 1)]) \in Nat
      BY <1>1, <1>8, <3>1
    <3> QED BY <1>4, <2>2, <3>1, <3>2
  <2> HIDE DEF T
  <2>3. 0..n \subseteq T
    BY <2>1, <2>2, BoundedInduction
  <2>4. \A k \in 0..n : c[k] \in S
    BY <2>3 DEF T
  <2> QED BY <1>6, <2>4
<1> QED BY <1>1, <1>7, <1>8, <1>9 DEF S

\* As long as the number fits in the word, none overflows and they are the
\* number up to there.
LEMMA WordsPrefix ==
  ASSUME text \in Seq(Chars), head \in Nat, value \in 0..(Word - 1), NEW n \in Nat, AllDigits(head, head + n),
         SignLength <= head, head + n <= NumberEnds, value = Prefix[head], Absolute < Word
  PROVE  /\ Words(n)[n] = Prefix[head + n]
         /\ \A k \in 1..n : ~Overflows(Words(n)[k - 1], DigitOf(At(head + k - 1)))
<1> DEFINE c == Words(n)
           T == {k \in 0..n : c[k] = Prefix[head + k]}
<1>1. /\ c \in [0..n -> 0..(Word - 1)] /\ c[0] = value
      /\ \A k \in 1..n : /\ c[k] = Next10(c[k - 1], DigitOf(text[head + k]))
                         /\ DigitOf(At(head + k - 1)) = DigitOf(text[head + k])
                         /\ DigitOf(text[head + k]) \in Nat
  BY WordsAre
<1> HIDE DEF c
<1>2. /\ Prefix \in [0..NumberEnds -> Nat]
      /\ \A k \in (SignLength + 1)..NumberEnds : Prefix[k] = Prefix[k - 1] * 10 + DigitOf(text[k])
  BY PrefixIs
<1>3. SignLength \in {0, 1} /\ NumberEnds \in Nat /\ Word \in Nat \ {0}
  BY SignIs, NumberEndsIs, WordIsPositive
<1>4. 0 \in T
  <2>1. head + 0 = head
    OBVIOUS
  <2> QED BY <1>1, <2>1
<1>5. ASSUME NEW k \in 1..n, k - 1 \in T
      PROVE  c[k] = Prefix[head + k] /\ c[k] = c[k - 1] * 10 + DigitOf(text[head + k])
  <2> DEFINE i == head + k
             x == c[k - 1] * 10 + DigitOf(text[i])
  <2>1. i \in (SignLength + 1)..NumberEnds /\ i \in SignLength..NumberEnds /\ i - 1 = head + (k - 1) /\ i \in 0..NumberEnds
    BY <1>3
  <2> HIDE DEF i
  <2>2. Prefix[i] = x
    BY <1>2, <1>5, <2>1
  <2>3. Prefix[i] <= Absolute /\ Prefix[i] \in Nat /\ Absolute \in Nat
    BY <1>2, <1>3, <2>1, PrefixIsLess, PrefixIs, SMTT(30)
  <2>4. x \in 0..(Word - 1)
    BY <1>3, <2>2, <2>3
  <2>5. c[k] = x % Word
    BY <1>1 DEF Next10, i
  <2>6. x % Word = x
    <3> HIDE DEF x
    <3> QED BY <1>3, <2>4, Remainders
  <2> QED BY <2>2, <2>5, <2>6 DEF i
<1>6. 0..n \subseteq T
  <2>1. ASSUME NEW k \in 0..(n - 1), k \in T PROVE k + 1 \in T
    <3>1. k + 1 \in 1..n /\ k + 1 \in 0..n /\ (k + 1) - 1 = k
      OBVIOUS
    <3> HIDE DEF T
    <3>2. c[k + 1] = Prefix[head + (k + 1)]
      BY <1>5, <2>1, <3>1
    <3> QED BY <3>1, <3>2 DEF T
  <2> HIDE DEF T
  <2> QED BY <1>4, <2>1, BoundedInduction
<1>7. ASSUME NEW k \in 1..n PROVE ~Overflows(c[k - 1], DigitOf(At(head + k - 1)))
  <2>1. k - 1 \in T /\ k - 1 \in 0..n
    <3>1. k - 1 \in 0..n
      OBVIOUS
    <3> HIDE DEF T
    <3> QED BY <1>6, <3>1
  <2>2. c[k] = c[k - 1] * 10 + DigitOf(text[head + k])
    <3> HIDE DEF T
    <3> QED BY <1>5, <2>1
  <2>3. c[k - 1] \in Nat /\ DigitOf(text[head + k]) \in Nat
    BY <1>1, <1>3, <2>1
  <2>4. c[k] >= c[k - 1]
    BY <2>2, <2>3
  <2>5. Next10(c[k - 1], DigitOf(At(head + k - 1))) = c[k] /\ c[k] \in Nat
    BY <1>1
  <2> QED BY <2>3, <2>4, <2>5 DEF Overflows
<1>8. c[n] = Prefix[head + n]
  <2>1. n \in 0..n
    OBVIOUS
  <2>2. n \in T
    <3> HIDE DEF T
    <3> QED BY <1>6, <2>1
  <2> QED BY <2>2
<1> QED BY <1>7, <1>8 DEF c

----------------------------------------------------------------------------
(* The inductive invariant.                                                *)

\* the variables, the reader's end, and what is written
State ==
  /\ type \in Types /\ reader \in BOOLEAN /\ written \in BOOLEAN /\ text \in Seq(Chars)
  /\ head \in Nat /\ tail \in Nat /\ head <= tail /\ tail <= Len(text)
  /\ pc \in {"first", "fast", "loop", "done"}
  /\ negative \in BOOLEAN /\ (negative => type.signed)
  /\ value \in 0..(Word - 1)
  /\ error \in {"nil", "EOF", "bad"} /\ (~Done => error = "nil")
  /\ ~reader => tail = Len(text)
  /\ Done => Fits(ret, type)
Written ==
  written => /\ val \in Int /\ Fits(val, type)
             /\ \E s \in Suffixes : text = WriteInt(val, type) \o s

\* before the first digit only a minus has been read,
Start == pc = "first" => /\ head = IF negative THEN 1 ELSE 0
                         /\ negative => text[1] = Minus
\* and then digits, the first of them not a zero.
Consumed ==
  pc \in {"fast", "loop"} =>
    /\ SignLength < head
    /\ negative <=> SignLength = 1
    /\ AllDigits(SignLength, head) /\ text[SignLength + 1] # Zero
    /\ Absolute < Word => value = Prefix[head]
Fresh == pc = "fast" => head = SignLength + 1 /\ tail - head > Window /\ value \in 0..9

\* the answer r with the error e, when h characters are consumed
Answer(h, r, e) ==
  (HasNumber => Absolute < Word) =>
    /\ e \in {"nil", "EOF"} => HasNumber
    /\ e \in {"nil", "EOF"} => r = Number /\ Fits(Number, type)
    /\ e \in {"nil", "EOF"} /\ NumberEnds < Len(text) => h = NumberEnds
    /\ HasNumber /\ Fits(Number, type) /\ ~IsFloat => e \in {"nil", "EOF"}
    /\ IsFloat /\ e \in {"nil", "EOF"} => Absolute = 0
    /\ e = "EOF" => NumberEnds = Len(text)

Inv ==
  /\ State
  /\ Written
  /\ Start
  /\ Consumed
  /\ Fresh
  /\ Done => Answer(head, ret, error)

\* What is read does not change.
LEMMA InputStays ==
  ASSUME UNCHANGED input
  PROVE  /\ type' = type /\ written' = written /\ val' = val /\ text' = text /\ reader' = reader
         /\ SignLength' = SignLength /\ NumberEnds' = NumberEnds /\ HasNumber' = HasNumber
         /\ Absolute' = Absolute /\ Number' = Number /\ IsFloat' = IsFloat /\ Prefix' = Prefix
<1>1. type' = type /\ written' = written /\ val' = val /\ text' = text /\ reader' = reader
  BY DEF input
<1>2. SignLength' = SignLength
  BY <1>1 DEF SignLength
<1>3. NumberEnds' = NumberEnds
  BY <1>1, <1>2 DEF NumberEnds
<1>4. Absolute' = Absolute /\ Prefix' = Prefix
  BY <1>1, <1>2, <1>3 DEF Absolute, Prefix
<1> QED BY <1>1, <1>2, <1>3, <1>4 DEF HasNumber, Number, IsFloat

LEMMA WrittenStays ==
  ASSUME Written, UNCHANGED input
  PROVE  Written'
<1>1. type' = type /\ written' = written /\ val' = val /\ text' = text
  BY DEF input
<1> QED BY <1>1 DEF Written

\* Return leaves a state that fits, and refuses what is above the limit.
LEMMA ReturnIs ==
  ASSUME State, UNCHANGED input, NEW v \in Nat, NEW h \in 0..tail, NEW e \in {"nil", "EOF", "bad"},
         Return(v, h, e)
  PROVE  /\ State' /\ Start' /\ Consumed' /\ Fresh' /\ Done' /\ head' = h
         /\ LET x == IF negative THEN -v ELSE v IN
            /\ error' \in {"nil", "EOF"} => error' = e /\ ret' = x
            /\ error' \in {"nil", "EOF"} <=> e \in {"nil", "EOF"} /\ Fits(x, type)
<1> DEFINE x == IF negative THEN -v ELSE v
           r == Signed(x % Power(2, type.bits), type)
<1>1. /\ type \in Types /\ reader \in BOOLEAN /\ written \in BOOLEAN /\ text \in Seq(Chars)
      /\ head \in Nat /\ tail \in Nat /\ tail <= Len(text) /\ negative \in BOOLEAN /\ (negative => type.signed)
      /\ value \in 0..(Word - 1) /\ (~reader => tail = Len(text))
  BY DEF State
<1>2. /\ type' = type /\ reader' = reader /\ written' = written /\ text' = text /\ tail' = tail
      /\ negative' = negative /\ value' = value /\ pc' = "done" /\ head' = h
  BY DEF Return, input
<1>3. Limit(type, negative) \in Nat /\ (Fits(x, type) <=> v <= Limit(type, negative))
      /\ (v <= Limit(type, negative) => r = x)
  BY <1>1, Converted
<1>4. IF v > Limit(type, negative)
      THEN ret' = 0 /\ error' = IF e \in {"nil", "EOF"} THEN "bad" ELSE e
      ELSE ret' = r /\ error' = e
  BY DEF Return
<1>5. Fits(0, type)
  BY <1>1, TypeLimits DEF Fits
<1> HIDE DEF r
<1>6. error' \in {"nil", "EOF", "bad"} /\ Fits(ret', type)
  <2>1. CASE v > Limit(type, negative)
    BY <1>4, <1>5, <2>1
  <2>2. CASE ~(v > Limit(type, negative))
    <3>1. v <= Limit(type, negative)
      BY <1>3, <2>2
    <3> HIDE DEF x
    <3> QED BY <1>3, <1>4, <2>2, <3>1
  <2> QED BY <2>1, <2>2
<1>7. /\ error' \in {"nil", "EOF"} => error' = e /\ ret' = x
      /\ error' \in {"nil", "EOF"} <=> e \in {"nil", "EOF"} /\ Fits(x, type)
  <2>1. v > Limit(type, negative) <=> ~(v <= Limit(type, negative))
    BY <1>3
  <2> HIDE DEF x
  <2> QED BY <1>3, <1>4, <2>1
<1>8. Done'
  BY <1>2 DEF Done
<1>9. State'
  <2>1. h \in Nat /\ h <= tail
    BY <1>1
  <2> HIDE DEF x
  <2> QED BY <1>1, <1>2, <1>6, <1>8, <2>1 DEF State, Fits, MaxOf, MinOf
<1>10. Start' /\ Consumed' /\ Fresh'
  BY <1>2 DEF Start, Consumed, Fresh
<1> QED BY <1>2, <1>7, <1>8, <1>9, <1>10

\* The answer is right if the magnitude is, and all of it has been read.
LEMMA ReturnAnswers ==
  ASSUME Inv, UNCHANGED input, NEW v \in Nat, NEW h \in 0..tail, NEW e \in {"nil", "EOF", "bad"},
         Return(v, h, e),
         HasNumber, negative <=> SignLength = 1,
         Absolute < Word => v = Absolute,
         NumberEnds < Len(text) => h = NumberEnds,
         e = "bad" => IsFloat \/ ~(Absolute < Word),
         IsFloat /\ e # "bad" => Absolute = 0,
         e = "EOF" => NumberEnds = Len(text)
  PROVE  Inv'
<1> DEFINE x == IF negative THEN -v ELSE v
<1>1. /\ State' /\ Start' /\ Consumed' /\ Fresh' /\ Done' /\ head' = h
      /\ error' \in {"nil", "EOF"} => error' = e /\ ret' = x
      /\ error' \in {"nil", "EOF"} <=> e \in {"nil", "EOF"} /\ Fits(x, type)
  BY ReturnIs DEF Inv
<1>2. Written'
  BY WrittenStays DEF Inv
<1>3. Absolute < Word => x = Number
  <2>1. negative \in BOOLEAN
    BY DEF Inv, State
  <2> QED BY <2>1 DEF Number
<1> HIDE DEF x
<1>4. Answer(head', ret', error')
  <2>1. SUFFICES ASSUME Absolute < Word
        PROVE  /\ error' \in {"nil", "EOF"} => ret' = Number /\ Fits(Number, type)
               /\ error' \in {"nil", "EOF"} /\ NumberEnds < Len(text) => head' = NumberEnds
               /\ Fits(Number, type) /\ ~IsFloat => error' \in {"nil", "EOF"}
               /\ IsFloat /\ error' \in {"nil", "EOF"} => Absolute = 0
               /\ error' = "EOF" => NumberEnds = Len(text)
    BY DEF Answer
  <2>2. error' \in {"nil", "EOF"} => error' = e /\ ret' = Number
    BY <1>1, <1>3, <2>1
  <2>3. error' \in {"nil", "EOF"} <=> e \in {"nil", "EOF"} /\ Fits(Number, type)
    BY <1>1, <1>3, <2>1
  <2> QED BY <1>1, <2>1, <2>2, <2>3
<1>5. Answer(head, ret, error)'
  <2>1. /\ HasNumber' = HasNumber /\ Absolute' = Absolute /\ Number' = Number /\ IsFloat' = IsFloat
        /\ NumberEnds' = NumberEnds /\ text' = text /\ type' = type
    BY InputStays
  <2> QED BY <1>4, <2>1 DEF Answer, Fits, MaxOf, MinOf
<1> QED BY <1>1, <1>2, <1>5 DEF Inv

\* Where no number is, an error is the right answer; and where it is too large
\* for the word any answer.
LEMMA ReturnRefuses ==
  ASSUME Inv, UNCHANGED input, NEW v \in Nat, NEW h \in 0..tail, Return(v, h, "bad"),
         HasNumber => ~(Absolute < Word)
  PROVE  Inv'
<1>1. /\ State' /\ Start' /\ Consumed' /\ Fresh' /\ Done' /\ head' = h
      /\ ~(error' \in {"nil", "EOF"})
  <2>1. "bad" \in {"nil", "EOF", "bad"} /\ ~("bad" \in {"nil", "EOF"})
    OBVIOUS
  <2> QED BY <2>1, ReturnIs DEF Inv
<1>2. Written'
  BY WrittenStays DEF Inv
<1>3. Answer(head, ret, error)'
  <2>1. /\ HasNumber' = HasNumber /\ Absolute' = Absolute
    BY InputStays
  <2>2. HasNumber => ~(Absolute < Word)
    OBVIOUS
  <2>3. CASE HasNumber
    BY <2>1, <2>2, <2>3 DEF Answer, Word
  <2>4. CASE ~HasNumber
    BY <1>1, <2>1, <2>4 DEF Answer, IsFloat
  <2> QED BY <2>3, <2>4
<1> QED BY <1>1, <1>2, <1>3 DEF Inv

----------------------------------------------------------------------------
(* The actions.                                                            *)

LEMMA DigitsJoin ==
  ASSUME NEW i \in Nat, NEW j \in Nat, NEW k \in Nat, i <= j, AllDigits(i, j), AllDigits(j, k)
  PROVE  AllDigits(i, k)
<1>1. \A x \in (i + 1)..k : x \in (i + 1)..j \/ x \in (j + 1)..k
  OBVIOUS
<1> QED BY <1>1 DEF AllDigits

\* assertInteger reports a fraction, and only that.
LEMMA AssertedIs ==
  ASSUME State, NEW h \in Nat, NEW e \in {"nil", "EOF"}
  PROVE  /\ AssertedInteger(h, e) \in {"nil", "EOF", "bad"}
         /\ AssertedInteger(h, e) = "bad" => h < tail /\ text[h + 1] = Dot
         /\ AssertedInteger(h, e) # "bad" => AssertedInteger(h, e) = e
         /\ h < tail /\ text[h + 1] = Dot => AssertedInteger(h, e) = "bad"
  BY DEF AssertedInteger, At, State

LEMMA InitInv == Init => Inv
<1> SUFFICES ASSUME Init PROVE Inv
  OBVIOUS
<1>1. /\ type \in Types /\ reader \in BOOLEAN /\ head = 0 /\ tail = (IF reader THEN 0 ELSE Len(text))
      /\ pc = "first" /\ negative = FALSE /\ value = 0 /\ ret = 0 /\ error = "nil"
  BY DEF Init
<1>2. /\ written \in BOOLEAN /\ text \in Seq(Chars)
      /\ written => val \in Int /\ Fits(val, type) /\ \E s \in Suffixes : text = WriteInt(val, type) \o s
  <2>1. CASE written = TRUE /\ val \in {v \in Values : Fits(v, type)} /\ \E s \in Suffixes : text = WriteInt(val, type) \o s
    <3>1. PICK s \in Suffixes : text = WriteInt(val, type) \o s
      BY <2>1
    <3>2. val \in Int /\ s \in Seq(Chars)
      <4>1. Suffixes \subseteq Seq({Comma}) /\ {Comma} \subseteq Chars /\ Values \subseteq Int
        BY IntCodecAssumption DEF Comma, Chars
      <4>2. s \in Seq({Comma})
        BY <4>1
      <4> QED BY <2>1, <4>1, <4>2, SeqMonotonic
    <3>3. Magnitude(val, type) \in Nat
      <4>1. Power(2, type.bits) \in Nat \ {0}
        BY <1>1, TypeLimits
      <4>2. \A m \in Nat \ {0} : \A a \in Int : a % m \in Nat
        BY Remainders
      <4>3. (IF val < 0 THEN -val ELSE val) \in Int
        BY <3>2
      <4> QED BY <4>1, <4>2, <4>3 DEF Magnitude
    <3>4. WriteUint(Magnitude(val, type)) \in Seq(Chars)
      BY <3>3, WriteUintIsNumeral DEF Numeral
    <3>5. (IF val < 0 THEN <<Minus>> ELSE <<>>) \in Seq(Chars)
      <4>1. Minus \in Chars
        BY DEF Minus, Chars
      <4>2. <<Minus>> \in Seq(Chars) /\ <<>> \in Seq(Chars)
        BY <4>1
      <4> QED BY <4>2
    <3>6. WriteInt(val, type) \in Seq(Chars)
      <4> DEFINE t == WriteUint(Magnitude(val, type))
                 m == IF val < 0 THEN <<Minus>> ELSE <<>>
      <4>1. WriteInt(val, type) = m \o t
        BY DEF WriteInt
      <4> HIDE DEF t, m
      <4>2. m \o t \in Seq(Chars)
        BY <3>4, <3>5 DEF t, m
      <4> QED BY <4>1, <4>2
    <3>7. text \in Seq(Chars)
      BY <3>1, <3>2, <3>6
    <3> QED BY <2>1, <3>1, <3>2, <3>7
  <2>2. CASE written = FALSE /\ val = 0 /\ text \in Texts
    BY <2>2, IntCodecAssumption
  <2> QED BY <2>1, <2>2 DEF Init
<1>3. Len(text) \in Nat /\ 0 \in 0..(Word - 1)
  BY <1>2, WordIsPositive
<1>4. State
  <2>1. ~Done /\ value \in 0..(Word - 1) /\ error \in {"nil", "EOF", "bad"} /\ pc \in {"first", "fast", "loop", "done"}
    BY <1>1, <1>3 DEF Done
  <2>2. head \in Nat /\ tail \in Nat /\ head <= tail /\ tail <= Len(text) /\ (~reader => tail = Len(text))
    <3>1. CASE reader
      BY <1>1, <1>3, <3>1
    <3>2. CASE ~reader
      BY <1>1, <1>3, <3>2
    <3> QED BY <3>1, <3>2
  <2> QED BY <1>1, <1>2, <2>1, <2>2 DEF State
<1>5. Written
  BY <1>2 DEF Written
<1>6. Start /\ Consumed /\ Fresh /\ ~Done
  BY <1>1 DEF Start, Consumed, Fresh, Done
<1> QED BY <1>4, <1>5, <1>6 DEF Inv

\* Before the first digit the sign is what has been read.
LEMMA SignRead ==
  ASSUME Inv, pc = "first", ~negative /\ head < Len(text) => ~(type.signed /\ text[1] = Minus)
  PROVE  SignLength = head /\ (negative <=> SignLength = 1)
<1>1. /\ text \in Seq(Chars) /\ negative \in BOOLEAN /\ (negative => type.signed) /\ head \in Nat /\ head <= Len(text)
      /\ head = (IF negative THEN 1 ELSE 0) /\ (negative => text[1] = Minus) /\ Len(text) \in Nat
  BY SignIs DEF Inv, State, Start
<1>2. SignLength \in {0, 1} /\ (SignLength = 1 <=> type.signed /\ Len(text) >= 1 /\ text[1] = Minus)
  BY <1>1, SignIs
<1> QED BY <1>1, <1>2

LEMMA FirstInv ==
  ASSUME Inv, First
  PROVE  Inv'
<1>1. /\ type \in Types /\ reader \in BOOLEAN /\ written \in BOOLEAN /\ text \in Seq(Chars)
      /\ head \in Nat /\ tail \in Nat /\ head <= tail /\ tail <= Len(text) /\ Len(text) \in Nat
      /\ negative \in BOOLEAN /\ (negative => type.signed) /\ value \in 0..(Word - 1) /\ error = "nil"
      /\ (~reader => tail = Len(text)) /\ pc = "first" /\ ~Done
  BY SignIs DEF Inv, State, First, Done
<1>2. UNCHANGED input /\ type' = type /\ reader' = reader /\ written' = written /\ text' = text
  BY DEF First, input
<1>3. Written'
  BY <1>2, WrittenStays DEF Inv
<1>4. head = (IF negative THEN 1 ELSE 0) /\ (negative => text[1] = Minus)
  BY <1>1 DEF Inv, Start
<1>5. At(head) = text[head + 1]
  BY DEF At
<1>6. CASE Buffered > 0 /\ type.signed /\ ~negative /\ At(head) = Minus
  <2>1. negative' = TRUE /\ head' = head + 1 /\ tail' = tail /\ pc' = pc /\ value' = value /\ ret' = ret /\ error' = error
    BY <1>6 DEF First
  <2>2. head' = 1 /\ text[1] = Minus /\ head < tail
    <3>1. head = 0 /\ head + 1 = 1
      BY <1>4, <1>6
    <3>2. text[1] = Minus
      BY <1>5, <1>6, <3>1
    <3> QED BY <1>1, <1>6, <2>1, <3>1, <3>2 DEF Buffered
  <2>3. State'
    BY <1>1, <1>2, <1>6, <2>1, <2>2 DEF State, Done
  <2>4. Start' /\ Consumed' /\ Fresh' /\ ~Done'
    BY <1>1, <1>2, <2>1, <2>2 DEF Start, Consumed, Fresh, Done
  <2> QED BY <1>3, <2>3, <2>4 DEF Inv
<1>7. CASE Buffered > 0 /\ ~(type.signed /\ ~negative /\ At(head) = Minus)
  <2>1. Begin("nil", text[head + 1], head + 1)
    BY <1>1, <1>5, <1>7 DEF First
  <2>2. head < tail /\ head < Len(text) /\ head + 1 \in 0..tail /\ head + 1 \in Nat
    BY <1>1, <1>7 DEF Buffered
  <2>3. SignLength = head /\ (negative <=> SignLength = 1)
    <3>1. ~negative /\ head < Len(text) => ~(type.signed /\ text[1] = Minus)
      BY <1>4, <1>5, <1>7
    <3> QED BY <1>1, <3>1, SignRead
  <2>4. /\ NumberEnds \in SignLength..Len(text) /\ NumberEnds \in Nat /\ AllDigits(SignLength, NumberEnds)
        /\ HasNumber /\ text[SignLength + 1] = Zero => NumberEnds = SignLength + 1
        /\ SignLength < Len(text) /\ IsDigit(text[SignLength + 1]) => HasNumber
    BY <1>1, NumberEndsIs
  <2>5. CASE text[head + 1] = Zero
    <3>1. Return(0, head + 1, AssertedInteger(head + 1, "nil"))
      BY <2>1, <2>5 DEF Begin
    <3>2. IsDigit(text[head + 1]) /\ DigitOf(text[head + 1]) = 0
      BY <2>5 DEF IsDigit, DigitOf, Zero
    <3>3. HasNumber /\ NumberEnds = head + 1
      BY <2>2, <2>3, <2>4, <2>5, <3>2
    <3>4. Absolute = 0
      <4>1. /\ Prefix[SignLength] = 0 /\ Prefix[NumberEnds] = Absolute
            /\ \A k \in (SignLength + 1)..NumberEnds : Prefix[k] = Prefix[k - 1] * 10 + DigitOf(text[k])
        BY <1>1, PrefixIs
      <4>2. head + 1 \in (SignLength + 1)..NumberEnds /\ (head + 1) - 1 = head
        BY <1>1, <2>3, <3>3
      <4>3. Prefix[head + 1] = Prefix[head] * 10 + DigitOf(text[head + 1])
        BY <4>1, <4>2
      <4> QED BY <2>3, <3>2, <3>3, <4>1, <4>3
    <3> DEFINE e == AssertedInteger(head + 1, "nil")
    <3>5. /\ e \in {"nil", "EOF", "bad"} /\ e # "EOF"
          /\ e = "bad" => head + 1 < tail /\ text[(head + 1) + 1] = Dot
      BY <2>2, AssertedIs DEF Inv
    <3>6. e = "bad" => IsFloat
      BY <1>1, <2>2, <3>3, <3>5 DEF IsFloat
    <3> HIDE DEF e
    <3>7. 0 \in Nat /\ Return(0, head + 1, e)
      BY <3>1 DEF e
    <3> QED BY <1>2, <2>2, <2>3, <3>3, <3>4, <3>5, <3>6, <3>7, ReturnAnswers
  <2>6. CASE ~IsDigit(text[head + 1])
    <3>1. text[head + 1] # Zero
      BY <2>6 DEF IsDigit, DigitOf, Zero
    <3>2. Return(0, head + 1, "bad")
      BY <2>1, <2>6, <3>1 DEF Begin
    <3>3. ~HasNumber
      <4>1. HasNumber => head + 1 \in (SignLength + 1)..NumberEnds
        BY <1>1, <2>3, <2>4 DEF HasNumber
      <4> QED BY <2>4, <2>6, <4>1 DEF AllDigits
    <3>4. 0 \in Nat
      OBVIOUS
    <3> QED BY <1>2, <2>2, <3>2, <3>3, <3>4, ReturnRefuses
  <2>7. CASE IsDigit(text[head + 1]) /\ text[head + 1] # Zero
    <3>1. /\ value' = DigitOf(text[head + 1]) /\ head' = head + 1 /\ tail' = tail /\ negative' = negative /\ error' = error
          /\ pc' = (IF tail - (head + 1) > Window THEN "fast" ELSE "loop")
      BY <2>1, <2>7 DEF Begin
    <3>2. value' \in 0..9 /\ value' \in 0..(Word - 1) /\ value' \in Nat
      <4>1. value' \in 0..9
        BY <2>7, <3>1 DEF IsDigit
      <4>2. Word >= 10
        <5>1. FastDigits \in Nat /\ FastDigits >= 1 /\ Power(10, FastDigits) <= Word
          BY IntCodecAssumption
        <5>2. TenTo(1) <= TenTo(FastDigits) /\ TenTo(0 + 1) = 10 * TenTo(0) /\ TenTo(0) = 1 /\ TenTo(FastDigits) \in Nat
          BY <5>1, TensProperties
        <5> QED BY <5>1, <5>2, WordIsPositive DEF TenTo
      <4> QED BY <4>1, <4>2, WordIsPositive
    <3>3. head + 1 \in (SignLength + 1)..Len(text) /\ AllDigits(SignLength, head + 1)
      BY <1>1, <2>2, <2>3, <2>7 DEF AllDigits
    <3>4. HasNumber /\ head + 1 <= NumberEnds
      BY <1>1, <2>3, <2>7, <3>3, NumberIs
    <3>5. Prefix[head + 1] = value'
      <4>1. /\ Prefix[SignLength] = 0
            /\ \A k \in (SignLength + 1)..NumberEnds : Prefix[k] = Prefix[k - 1] * 10 + DigitOf(text[k])
        BY <1>1, PrefixIs
      <4>2. head + 1 \in (SignLength + 1)..NumberEnds /\ (head + 1) - 1 = head
        BY <1>1, <2>3, <2>4, <3>4
      <4>3. Prefix[head + 1] = Prefix[head] * 10 + DigitOf(text[head + 1])
        BY <4>1, <4>2
      <4> QED BY <2>3, <3>1, <3>2, <4>1, <4>3
    <3>6. State'
      BY <1>1, <1>2, <2>2, <3>1, <3>2 DEF State, Done
    <3>7. SignLength' = SignLength /\ Absolute' = Absolute /\ Prefix' = Prefix
      BY <1>2, InputStays
    <3>8. Start'
      BY <3>1 DEF Start
    <3>9. Consumed'
      <4>1. SignLength < head + 1 /\ (negative <=> SignLength = 1) /\ AllDigits(SignLength, head + 1) /\ text[SignLength + 1] # Zero
        BY <1>1, <2>3, <2>7, <3>3
      <4> QED BY <1>2, <3>1, <3>5, <3>7, <4>1 DEF Consumed, AllDigits, Word
    <3>10. Fresh' /\ ~Done'
      BY <2>3, <3>1, <3>2, <3>7 DEF Fresh, Done
    <3> QED BY <1>3, <3>6, <3>8, <3>9, <3>10 DEF Inv
  <2> QED BY <2>5, <2>6, <2>7
<1>8. CASE ~(Buffered > 0) /\ Ended
  <2>1. Return(0, HeadAtEnd, "bad")
    BY <1>8 DEF First
  <2>2. head = tail /\ tail = Len(text) /\ HeadAtEnd \in 0..tail
    BY <1>1, <1>8 DEF Buffered, Ended, HeadAtEnd
  <2>3. SignLength = head
    BY <1>1, <2>2, SignRead
  <2>4. ~HasNumber
    BY <1>1, <2>2, <2>3, NumberEndsIs DEF HasNumber
  <2>5. 0 \in Nat
    OBVIOUS
  <2> QED BY <1>2, <2>1, <2>2, <2>4, <2>5, ReturnRefuses
<1>9. CASE ~(Buffered > 0) /\ ~Ended
  <2>1. head' = tail /\ tail' \in (tail + 1)..Len(text) /\ pc' = pc /\ negative' = negative /\ value' = value /\ error' = error
    BY <1>9 DEF First, Refill
  <2>2. head = tail /\ reader
    BY <1>1, <1>9 DEF Buffered, Ended
  <2>3. State'
    BY <1>1, <1>2, <2>1, <2>2 DEF State, Done
  <2>4. Start' /\ Consumed' /\ Fresh' /\ ~Done'
    BY <1>1, <1>2, <1>4, <2>1, <2>2 DEF Start, Consumed, Fresh, Done
  <2> QED BY <1>3, <2>3, <2>4 DEF Inv
<1>10. (Buffered > 0) \in BOOLEAN
  OBVIOUS
<1> QED BY <1>6, <1>7, <1>8, <1>9

\* A number whose last digit is in what is buffered.
LEMMA NumberReturns ==
  ASSUME Inv, UNCHANGED input, pc \in {"fast", "loop"}, NEW n \in Nat, head + n < tail,
         AllDigits(head, head + n), ~IsDigit(text[head + n + 1]),
         NEW v \in Nat, Absolute < Word => v = Prefix[head + n],
         Return(v, head + n, AssertedInteger(head + n, "nil"))
  PROVE  Inv'
<1>1. /\ text \in Seq(Chars) /\ head \in Nat /\ tail \in Nat /\ tail <= Len(text) /\ Len(text) \in Nat
      /\ SignLength \in {0, 1}
      /\ SignLength < head /\ (negative <=> SignLength = 1)
      /\ AllDigits(SignLength, head) /\ text[SignLength + 1] # Zero
  BY SignIs DEF Inv, State, Consumed
<1>2. head + n \in (SignLength + 1)..Len(text) /\ AllDigits(SignLength, head + n)
  <2>1. head + n \in Nat /\ SignLength \in Nat /\ SignLength <= head /\ head + n \in (SignLength + 1)..Len(text)
    BY <1>1
  <2> QED BY <1>1, <2>1, DigitsJoin
<1>3. HasNumber /\ NumberEnds = head + n
  BY <1>1, <1>2, NumberIs
<1>4. Absolute < Word => v = Absolute
  BY <1>1, <1>3, PrefixIs
<1> DEFINE e == AssertedInteger(head + n, "nil")
<1>5. /\ e \in {"nil", "EOF", "bad"} /\ e # "EOF"
      /\ e = "bad" => head + n < tail /\ text[(head + n) + 1] = Dot
      /\ text[(head + n) + 1] = Dot => e = "bad"
  <2>1. head + n \in Nat /\ "nil" \in {"nil", "EOF"}
    BY <1>1
  <2> QED BY <2>1, AssertedIs DEF Inv
<1>6. IsFloat <=> text[(head + n) + 1] = Dot
  BY <1>1, <1>3 DEF IsFloat
<1>7. head + n \in 0..tail
  BY <1>1
<1> HIDE DEF e
<1>8. Return(v, head + n, e)
  BY DEF e
<1>9. (e = "bad" => IsFloat) /\ (IsFloat /\ e # "bad" => Absolute = 0)
  BY <1>5, <1>6
<1> QED BY <1>1, <1>3, <1>4, <1>5, <1>7, <1>8, <1>9, ReturnAnswers

LEMMA FastInv ==
  ASSUME Inv, Fast
  PROVE  Inv'
<1> DEFINE n == RunLength(FastDigits)
<1>1. /\ type \in Types /\ reader \in BOOLEAN /\ written \in BOOLEAN /\ text \in Seq(Chars)
      /\ head \in Nat /\ tail \in Nat /\ head <= tail /\ tail <= Len(text) /\ Len(text) \in Nat
      /\ negative \in BOOLEAN /\ (negative => type.signed) /\ value \in 0..(Word - 1) /\ error = "nil"
      /\ (~reader => tail = Len(text)) /\ pc = "fast" /\ ~Done
  BY SignIs DEF Inv, State, Fast, Done
<1>2. UNCHANGED input /\ type' = type /\ reader' = reader /\ written' = written /\ text' = text
  BY DEF Fast, input
<1>3. /\ SignLength \in {0, 1} /\ SignLength < head /\ (negative <=> SignLength = 1)
      /\ AllDigits(SignLength, head) /\ text[SignLength + 1] # Zero
      /\ Absolute < Word => value = Prefix[head]
      /\ tail - head > Window /\ value \in 0..9
  BY <1>1, SignIs DEF Inv, Consumed, Fresh
<1>4. /\ FastDigits \in Nat /\ FastDigits >= 1 /\ FastDigits <= Window /\ Window \in Nat
      /\ Power(10, FastDigits) <= Word
  BY IntCodecAssumption
<1>5. /\ n \in 0..FastDigits /\ AllDigits(head, head + n)
      /\ n < FastDigits => ~IsDigit(text[head + n + 1])
  BY <1>1, <1>4, RunLengthIs
<1>6. value \in Nat /\ head + FastDigits < tail
  BY <1>1, <1>3, <1>4
<1> HIDE DEF n
\* the digits up to the k-th of the run
<1>7. ASSUME NEW k \in Nat, k <= n
      PROVE  /\ Collected(value, k) \in Nat /\ Collected(value, k) < Power(10, k + 1)
             /\ Absolute < Word => Collected(value, k) = Prefix[head + k]
             /\ AllDigits(SignLength, head + k) /\ AllDigits(head, head + k)
  <2>1. AllDigits(head, head + k)
    <3>1. \A j \in (head + 1)..(head + k) : j \in (head + 1)..(head + n)
      BY <1>1, <1>5, <1>7
    <3> QED BY <1>5, <3>1 DEF AllDigits
  <2>2. PICK c : Collects(c, value, head, k) /\ Collected(value, k) = c[k]
    BY <1>1, <1>6, <2>1, CollectedIs
  <2>3. c[k] \in Nat
    BY <2>2 DEF Collects
  <2>4. c[k] < Power(10, k + 1)
    BY <1>1, <1>3, <2>1, <2>2, CollectsIsLess
  <2>5. AllDigits(SignLength, head + k)
    <3>1. head + k \in Nat /\ SignLength \in Nat /\ SignLength <= head
      BY <1>1, <1>3
    <3> QED BY <1>1, <1>3, <2>1, <3>1, DigitsJoin
  <2>6. head + k <= NumberEnds
    <3>1. head + k \in (SignLength + 1)..Len(text)
      <4>1. n \in Nat /\ n <= FastDigits
        BY <1>4, <1>5
      <4>2. k <= FastDigits
        BY <1>4, <1>7, <4>1
      <4> QED BY <1>1, <1>3, <1>4, <1>6, <4>2
    <3> QED BY <1>1, <1>3, <2>5, <3>1, NumberIs
  <2>7. Absolute < Word => c[k] = Prefix[head + k]
    <3>1. SignLength <= head
      BY <1>1, <1>3
    <3> QED BY <1>1, <1>3, <1>6, <2>2, <2>6, <3>1, CollectsPrefix
  <2> QED BY <2>1, <2>2, <2>3, <2>4, <2>5, <2>7
<1>8. CASE n < FastDigits
  <2>1. Return(Collected(value, n), head + n, AssertedInteger(head + n, "nil"))
    BY <1>1, <1>8 DEF Fast, n
  <2>2. n \in Nat /\ n <= n /\ head + n < tail
    <3>1. n \in Nat /\ n <= FastDigits
      BY <1>4, <1>5
    <3> QED BY <1>1, <1>4, <1>6, <3>1
  <2>3. Collected(value, n) \in Nat /\ (Absolute < Word => Collected(value, n) = Prefix[head + n])
    BY <1>7, <2>2
  <2>4. pc \in {"fast", "loop"} /\ ~IsDigit(text[head + n + 1])
    BY <1>1, <1>5, <1>8
  <2> QED BY <1>2, <1>5, <2>1, <2>2, <2>3, <2>4, NumberReturns
<1>9. CASE ~(n < FastDigits)
  <2> DEFINE k == FastDigits - 1
  <2>1. value' = Collected(value, k) /\ head' = head + FastDigits - 1 /\ pc' = "loop"
        /\ tail' = tail /\ negative' = negative /\ ret' = ret /\ error' = error
    BY <1>9 DEF Fast, n
  <2>2. k \in Nat /\ k <= n /\ k + 1 = FastDigits /\ head + k = head + FastDigits - 1 /\ head + k <= tail
    BY <1>1, <1>4, <1>5, <1>6, <1>9
  <2> HIDE DEF k
  <2>3. /\ value' \in Nat /\ value' < Power(10, FastDigits)
        /\ Absolute < Word => value' = Prefix[head']
        /\ AllDigits(SignLength, head')
    BY <1>7, <2>1, <2>2
  <2>4. value' \in 0..(Word - 1)
    <3>1. Power(10, FastDigits) \in Nat
      BY <1>4, TensProperties DEF TenTo
    <3> QED BY <1>4, <2>3, <3>1, WordIsPositive
  <2>5. head' \in Nat /\ head' <= tail /\ SignLength < head'
    BY <1>1, <1>3, <2>1, <2>2
  <2>6. State'
    BY <1>1, <1>2, <2>1, <2>4, <2>5 DEF State, Done
  <2>7. Written'
    BY <1>2, WrittenStays DEF Inv
  <2>8. SignLength' = SignLength /\ Absolute' = Absolute /\ Prefix' = Prefix
    BY <1>2, InputStays
  <2>9. Consumed'
    BY <1>2, <1>3, <2>1, <2>3, <2>5, <2>8 DEF Consumed, AllDigits, Word
  <2>10. Start' /\ Fresh' /\ ~Done'
    BY <2>1 DEF Start, Fresh, Done
  <2> QED BY <2>6, <2>7, <2>9, <2>10 DEF Inv
<1> QED BY <1>8, <1>9

LEMMA LoopInv ==
  ASSUME Inv, Loop
  PROVE  Inv'
<1> DEFINE n == RunLength(Buffered)
           v == Words(n)
           over == {k \in 1..n : Overflows(v[k - 1], DigitOf(At(head + k - 1)))}
<1>1. /\ type \in Types /\ reader \in BOOLEAN /\ written \in BOOLEAN /\ text \in Seq(Chars)
      /\ head \in Nat /\ tail \in Nat /\ head <= tail /\ tail <= Len(text) /\ Len(text) \in Nat
      /\ negative \in BOOLEAN /\ (negative => type.signed) /\ value \in 0..(Word - 1) /\ error = "nil"
      /\ (~reader => tail = Len(text)) /\ pc = "loop" /\ ~Done
  BY SignIs DEF Inv, State, Loop, Done
<1>2. UNCHANGED input /\ type' = type /\ reader' = reader /\ written' = written /\ text' = text
  BY DEF Loop, input
<1>3. /\ SignLength \in {0, 1} /\ SignLength < head /\ (negative <=> SignLength = 1)
      /\ AllDigits(SignLength, head) /\ text[SignLength + 1] # Zero
      /\ Absolute < Word => value = Prefix[head]
  BY <1>1, SignIs DEF Inv, Consumed
<1>4. Buffered \in Nat /\ head + Buffered = tail
  BY <1>1 DEF Buffered
<1>5. /\ n \in 0..Buffered /\ AllDigits(head, head + n)
      /\ n < Buffered => ~IsDigit(text[head + n + 1])
  BY <1>1, <1>4, RunLengthIs
<1>a. /\ over # {} => Return(0, head, "bad")
      /\ over = {} /\ n < Buffered => Return(v[n], head + n, AssertedInteger(head + n, "nil"))
      /\ over = {} /\ ~(n < Buffered) /\ Ended => Return(v[n], HeadAtEnd, AssertedInteger(HeadAtEnd, "EOF"))
      /\ over = {} /\ ~(n < Buffered) /\ ~Ended => /\ value' = v[n] /\ Refill
                                                   /\ pc' = pc /\ negative' = negative /\ error' = error
  BY <1>1 DEF Loop, EOF
<1> HIDE DEF n
<1>6. n \in Nat /\ head + n <= tail /\ head + n \in Nat
  BY <1>1, <1>4, <1>5
<1>7. AllDigits(SignLength, head + n) /\ head + n \in (SignLength + 1)..Len(text)
  <2>1. SignLength \in Nat /\ SignLength <= head
    BY <1>1, <1>3
  <2>2. AllDigits(SignLength, head + n)
    BY <1>1, <1>3, <1>5, <1>6, <2>1, DigitsJoin
  <2> QED BY <1>1, <1>3, <1>6, <2>2
<1>8. /\ HasNumber /\ head + n <= NumberEnds
      /\ head + n = Len(text) \/ ~IsDigit(text[(head + n) + 1]) => NumberEnds = head + n
  BY <1>1, <1>3, <1>7, NumberIs
<1>9. v[n] \in 0..(Word - 1) /\ v[n] \in Nat
  <2>1. v \in [0..n -> 0..(Word - 1)]
    BY <1>1, <1>5, <1>6, WordsAre
  <2>2. n \in 0..n
    BY <1>6
  <2> HIDE DEF v
  <2>3. v[n] \in 0..(Word - 1)
    BY <2>1, <2>2
  <2> QED BY <2>3, WordIsPositive
<1>10. Absolute < Word => v[n] = Prefix[head + n] /\ over = {}
  <2>1. SUFFICES ASSUME Absolute < Word PROVE v[n] = Prefix[head + n] /\ over = {}
    OBVIOUS
  <2>2. SignLength <= head
    BY <1>1, <1>3
  <2>3. /\ v[n] = Prefix[head + n]
        /\ \A k \in 1..n : ~Overflows(v[k - 1], DigitOf(At(head + k - 1)))
    BY <1>1, <1>3, <1>5, <1>6, <1>8, <2>1, <2>2, WordsPrefix
  <2> QED BY <2>3
<1> HIDE DEF v, over
<1>11. CASE over # {}
  <2>1. Return(0, head, "bad") /\ 0 \in Nat /\ head \in 0..tail
    BY <1>1, <1>a, <1>11
  <2> QED BY <1>2, <1>10, <1>11, <2>1, ReturnRefuses
<1>12. CASE over = {} /\ n < Buffered
  <2>1. Return(v[n], head + n, AssertedInteger(head + n, "nil"))
    BY <1>a, <1>12
  <2>2. head + n < tail /\ pc \in {"fast", "loop"} /\ ~IsDigit(text[head + n + 1])
    BY <1>1, <1>4, <1>5, <1>12
  <2>3. Absolute < Word => v[n] = Prefix[head + n]
    BY <1>10
  <2> DEFINE x == v[n]
  <2>4. x \in Nat /\ (Absolute < Word => x = Prefix[head + n]) /\ Return(x, head + n, AssertedInteger(head + n, "nil"))
    BY <1>9, <2>1, <2>3
  <2> HIDE DEF x
  <2> QED BY <1>2, <1>5, <1>6, <2>2, <2>4, NumberReturns
<1>13. CASE over = {} /\ ~(n < Buffered) /\ Ended
  <2> DEFINE e == AssertedInteger(HeadAtEnd, "EOF")
             x == v[n]
  <2>1. head + n = tail /\ tail = Len(text)
    BY <1>1, <1>4, <1>5, <1>13 DEF Ended
  <2>2. NumberEnds = Len(text) /\ ~IsFloat
    <3>1. NumberEnds = Len(text)
      BY <1>8, <2>1
    <3> QED BY <1>1, <3>1 DEF IsFloat
  <2>3. HeadAtEnd \in 0..tail /\ HeadAtEnd \in Nat /\ (HeadAtEnd < tail => HeadAtEnd = head)
    BY <1>1 DEF HeadAtEnd
  <2>4. e = "EOF"
    <3>1. HeadAtEnd < tail => IsDigit(text[HeadAtEnd + 1])
      <4>1. HeadAtEnd < tail => HeadAtEnd + 1 \in (head + 1)..(head + n)
        BY <1>1, <2>1, <2>3
      <4> QED BY <1>5, <4>1 DEF AllDigits
    <3>2. ~IsDigit(Dot)
      BY DEF IsDigit, DigitOf, Dot, Zero
    <3>3. /\ e \in {"nil", "EOF", "bad"}
          /\ e = "bad" => HeadAtEnd < tail /\ text[HeadAtEnd + 1] = Dot
          /\ e # "bad" => e = "EOF"
      <4>1. "EOF" \in {"nil", "EOF"}
        OBVIOUS
      <4> QED BY <2>3, <4>1, AssertedIs DEF Inv
    <3> QED BY <3>1, <3>2, <3>3
  <2>5. Return(x, HeadAtEnd, e) /\ x \in Nat
    BY <1>9, <1>a, <1>13
  <2>6. Absolute < Word => x = Absolute
    BY <1>1, <1>10, <2>1, <2>2, PrefixIs
  <2> HIDE DEF e, x
  <2>7. ~(NumberEnds < Len(text)) /\ e \in {"nil", "EOF", "bad"} /\ e # "bad"
    BY <1>1, <2>2, <2>4
  <2> QED BY <1>2, <1>3, <1>8, <2>2, <2>3, <2>4, <2>5, <2>6, <2>7, ReturnAnswers
<1>14. CASE over = {} /\ ~(n < Buffered) /\ ~Ended
  <2>1. value' = v[n] /\ head' = tail /\ tail' \in (tail + 1)..Len(text)
        /\ pc' = pc /\ negative' = negative /\ error' = error
    BY <1>a, <1>14 DEF Refill
  <2>2. head + n = tail /\ reader
    BY <1>1, <1>4, <1>5, <1>14 DEF Ended
  <2>3. State'
    BY <1>1, <1>2, <1>9, <2>1, <2>2 DEF State, Done, Word
  <2>4. Written'
    BY <1>2, WrittenStays DEF Inv
  <2>5. SignLength' = SignLength /\ Absolute' = Absolute /\ Prefix' = Prefix
    BY <1>2, InputStays
  <2>6. SignLength < tail /\ AllDigits(SignLength, tail) /\ (Absolute < Word => value' = Prefix[tail])
    BY <1>1, <1>3, <1>7, <1>10, <2>1, <2>2
  <2>7. Consumed'
    BY <1>1, <1>2, <1>3, <2>1, <2>5, <2>6 DEF Consumed, AllDigits, Word
  <2>8. Start' /\ Fresh' /\ ~Done'
    BY <1>1, <2>1 DEF Start, Fresh, Done
  <2> QED BY <2>3, <2>4, <2>7, <2>8 DEF Inv
<1> QED BY <1>11, <1>12, <1>13, <1>14

LEMMA NextInv ==
  ASSUME Inv, [Next]_vars
  PROVE  Inv'
<1>1. CASE First
  BY <1>1, FirstInv
<1>2. CASE Fast
  BY <1>2, FastInv
<1>3. CASE Loop
  BY <1>3, LoopInv
<1>4. CASE UNCHANGED vars
  <2>1. UNCHANGED input /\ head' = head /\ tail' = tail /\ pc' = pc /\ negative' = negative
        /\ value' = value /\ ret' = ret /\ error' = error
    BY <1>4 DEF vars, input
  <2>2. /\ type' = type /\ written' = written /\ val' = val /\ text' = text /\ reader' = reader
        /\ SignLength' = SignLength /\ NumberEnds' = NumberEnds /\ HasNumber' = HasNumber
        /\ Absolute' = Absolute /\ Number' = Number /\ IsFloat' = IsFloat /\ Prefix' = Prefix
    BY <2>1, InputStays
  <2>3. State'
    BY <2>1, <2>2 DEF Inv, State, Done, Fits, MaxOf, MinOf
  <2>4. Written'
    BY <2>1, WrittenStays DEF Inv
  <2>5. Start' /\ Consumed' /\ Fresh'
    BY <2>1, <2>2 DEF Inv, Start, Consumed, Fresh, AllDigits, Word
  <2>6. Done' => Answer(head, ret, error)'
    BY <2>1, <2>2 DEF Inv, Done, Answer, Fits, MaxOf, MinOf, Word
  <2> QED BY <2>3, <2>4, <2>5, <2>6 DEF Inv
<1> QED BY <1>1, <1>2, <1>3, <1>4 DEF Next

LEMMA SpecInv == Spec => []Inv
  BY InitInv, NextInv, PTL DEF Spec

\* The Iterator never looks behind what the reader handed over, the word never
\* holds more than its bits, and what is returned fits in the type, whatever the
\* text is.
THEOREM IntType == Spec => []TypeOK
<1>1. Inv => TypeOK
  BY DEF Inv, State, TypeOK
<1> QED BY <1>1, SpecInv, PTL

\* A text is accepted exactly when it begins with an integer of the type, and
\* then that integer is returned and just its characters are consumed: on the
\* fast path, in the loop, and wherever the reader cuts the text.
THEOREM AnyTextIsRead == Spec => []ReadIsNumber
<1>1. Inv => ReadIsNumber
  BY DEF Inv, ReadIsNumber, Answer, Accepted, Done
<1> QED BY <1>1, SpecInv, PTL

----------------------------------------------------------------------------
(* What is written is read back.                                           *)

\* A number that is written and followed by nothing or by a comma.
LEMMA TextOfNumber ==
  ASSUME State, val \in Int, Fits(val, type), NEW s \in Suffixes, text = WriteInt(val, type) \o s
  PROVE  /\ HasNumber /\ Number = val /\ Absolute < Word
         /\ NumberEnds < Len(text) => text[NumberEnds + 1] = Comma
         /\ IsDigit(text[NumberEnds])
<1> DEFINE m == IF val < 0 THEN -val ELSE val
           sign == IF val < 0 THEN <<Minus>> ELSE <<>>
           z == IF val < 0 THEN 1 ELSE 0
           u == WriteUint(m)
           k == z + Len(u)
<1>1. type \in Types /\ text \in Seq(Chars) /\ Len(text) \in Nat
  BY SignIs DEF State
<1>2. m \in Nat /\ m < Power(2, type.bits) /\ m < Word /\ (val < 0 => type.signed) /\ Magnitude(val, type) = m
  <2>1. /\ MaxOf(type) \in Nat /\ Power(2, type.bits) \in Nat \ {0} /\ Power(2, type.bits) <= Word
        /\ type.signed => MinOf(type) = -(MaxOf(type) + 1) /\ Power(2, type.bits) = 2 * (MaxOf(type) + 1)
        /\ ~type.signed => MinOf(type) = 0 /\ Power(2, type.bits) = MaxOf(type) + 1
        /\ type.signed \in BOOLEAN
    BY <1>1, TypeLimits
  <2>2. MinOf(type) <= val /\ val <= MaxOf(type)
    BY DEF Fits
  <2>3. m \in Nat /\ m < Power(2, type.bits) /\ (val < 0 => type.signed)
    BY <2>1, <2>2
  <2> HIDE DEF m
  <2>4. m \in 0..(Power(2, type.bits) - 1)
    BY <2>1, <2>3
  <2>5. m % Power(2, type.bits) = m
    BY <2>1, <2>4, Remainders
  <2> QED BY <2>1, <2>3, <2>5, WordIsPositive DEF Magnitude, m
<1>3. Numeral(u, m)
  <2> HIDE DEF m
  <2> QED BY <1>2, WriteUintIsNumeral
<1>4. WriteInt(val, type) = sign \o u
  BY <1>2 DEF WriteInt
<1> HIDE DEF m, u
<1>5. /\ u \in Seq(Chars) /\ Len(u) >= 1 /\ Len(u) \in Nat
      /\ \A i \in 1..Len(u) : IsDigit(u[i])
      /\ u[1] = Zero => Len(u) = 1
  BY <1>3 DEF Numeral
<1>6. PICK f : Adds(f, u, 0) /\ f[Len(u)] = m
  BY <1>3 DEF Numeral
<1>7. s \in Seq({Comma}) /\ s \in Seq(Chars) /\ Len(s) \in Nat /\ \A i \in 1..Len(s) : s[i] = Comma
  <2>1. s \in Seq({Comma}) /\ {Comma} \subseteq Chars
    BY IntCodecAssumption DEF Comma, Chars
  <2> QED BY <2>1, SeqMonotonic
<1>8. sign \in Seq(Chars) /\ Len(sign) = z /\ z \in {0, 1} /\ (val < 0 => sign[1] = Minus)
  <2>1. Minus \in Chars
    BY DEF Minus, Chars
  <2>2. CASE val < 0
    <3>1. <<Minus>> \in Seq(Chars) /\ Len(<<Minus>>) = 1 /\ <<Minus>>[1] = Minus
      BY <2>1
    <3> QED BY <2>2, <3>1
  <2>3. CASE ~(val < 0)
    <3>1. <<>> \in Seq(Chars) /\ Len(<<>>) = 0
      BY EmptySeq
    <3> QED BY <2>3, <3>1
  <2> QED BY <2>2, <2>3
<1> HIDE DEF sign, z
\* the characters of the text
<1>9. /\ Len(text) = k + Len(s) /\ k \in Nat
      /\ val < 0 => text[1] = Minus
      /\ \A i \in 1..Len(u) : text[z + i] = u[i]
      /\ k < Len(text) => text[k + 1] = Comma
  <2> DEFINE t == sign \o u
  <2>1. /\ t \in Seq(Chars) /\ Len(t) = k
        /\ \A i \in 1..k : t[i] = IF i <= z THEN sign[i] ELSE u[i - z]
    BY <1>5, <1>8, ConcatProperties
  <2>2. text = t \o s
    BY <1>4
  <2> HIDE DEF t
  <2>3. /\ Len(text) = k + Len(s)
        /\ \A i \in 1..(k + Len(s)) : text[i] = IF i <= k THEN t[i] ELSE s[i - k]
    <3>1. /\ Len(t \o s) = Len(t) + Len(s)
          /\ \A i \in 1..(Len(t) + Len(s)) : (t \o s)[i] = IF i <= Len(t) THEN t[i] ELSE s[i - Len(t)]
      BY <1>7, <2>1, ConcatProperties
    <3>2. Len(t) = k
      BY <2>1
    <3> HIDE DEF k
    <3> QED BY <2>2, <3>1, <3>2
  <2>4. ASSUME NEW i \in 1..Len(u) PROVE text[z + i] = u[i]
    <3>1. z + i \in 1..k /\ z + i \in 1..(k + Len(s)) /\ ~(z + i <= z) /\ (z + i) - z = i /\ z + i <= k
      BY <1>5, <1>7, <1>8
    <3>2. text[z + i] = t[z + i] /\ t[z + i] = u[(z + i) - z]
      BY <2>1, <2>3, <3>1
    <3> QED BY <3>1, <3>2
  <2>5. val < 0 => text[1] = Minus
    <3>1. SUFFICES ASSUME val < 0 PROVE text[1] = Minus
      OBVIOUS
    <3>2. z = 1
      BY <3>1 DEF z
    <3>3. 1 \in 1..k /\ 1 \in 1..(k + Len(s)) /\ 1 <= z /\ 1 <= k
      BY <1>5, <1>7, <3>2
    <3>4. text[1] = t[1] /\ t[1] = sign[1]
      BY <2>1, <2>3, <3>3
    <3> QED BY <1>8, <3>1, <3>4
  <2>6. ASSUME k < Len(text) PROVE text[k + 1] = Comma
    <3>1. k + 1 \in 1..(k + Len(s)) /\ ~(k + 1 <= k) /\ (k + 1) - k = 1 /\ 1 \in 1..Len(s)
      BY <1>5, <1>7, <1>8, <2>3, <2>6
    <3>2. text[k + 1] = s[(k + 1) - k]
      BY <2>3, <3>1
    <3> QED BY <1>7, <3>1, <3>2
  <2>7. k \in Nat
    BY <1>5, <1>8
  <2> QED BY <2>3, <2>4, <2>5, <2>6, <2>7
<1>10. 1 \in 1..Len(u) /\ text[z + 1] = u[1] /\ IsDigit(text[z + 1]) /\ z + 1 <= k
  <2>1. 1 \in 1..Len(u)
    BY <1>5
  <2>2. z + 1 <= k
    BY <1>5, <1>8
  <2> QED BY <1>5, <1>9, <2>1, <2>2
<1>11. SignLength = z
  <2>1. SignLength \in {0, 1} /\ (SignLength = 1 <=> type.signed /\ Len(text) >= 1 /\ text[1] = Minus)
    BY <1>1, SignIs
  <2>2. CASE val < 0
    <3>1. Len(text) >= 1 /\ z = 1
      BY <1>5, <1>7, <1>8, <1>9, <2>2 DEF z
    <3> QED BY <1>2, <1>9, <2>1, <2>2, <3>1
  <2>3. CASE ~(val < 0)
    <3>1. z = 0 /\ 0 + 1 = 1
      BY <2>3 DEF z
    <3>2. text[1] # Minus
      <4>1. z + 1 = 1
        BY <3>1
      <4>2. IsDigit(text[1])
        BY <1>10, <4>1
      <4>3. ~IsDigit(Minus)
        BY DEF IsDigit, DigitOf, Minus, Zero
      <4> QED BY <4>2, <4>3
    <3> QED BY <2>1, <3>1, <3>2
  <2> QED BY <2>2, <2>3
<1>12. AllDigits(SignLength, k) /\ k \in (SignLength + 1)..Len(text)
  <2>1. ASSUME NEW j \in (z + 1)..k PROVE IsDigit(text[j])
    <3>1. j - z \in 1..Len(u) /\ z + (j - z) = j
      BY <1>5, <1>8
    <3>2. text[z + (j - z)] = u[j - z]
      BY <1>9, <3>1
    <3> QED BY <1>5, <3>1, <3>2
  <2>2. k \in (z + 1)..Len(text)
    BY <1>5, <1>7, <1>8, <1>9
  <2> HIDE DEF k
  <2> QED BY <1>11, <2>1, <2>2 DEF AllDigits
<1>13. NumberEnds = k /\ HasNumber
  <2>1. k = Len(text) \/ ~IsDigit(text[k + 1])
    <3>1. ~IsDigit(Comma)
      BY DEF IsDigit, DigitOf, Comma, Zero
    <3>2. k = Len(text) \/ k < Len(text)
      BY <1>7, <1>9
    <3> QED BY <1>9, <3>1, <3>2
  <2>2. CASE u[1] # Zero
    <3>1. text[SignLength + 1] # Zero
      BY <1>10, <1>11, <2>2
    <3> HIDE DEF k
    <3> QED BY <1>1, <1>12, <2>1, <3>1, NumberIs
  <2>3. CASE u[1] = Zero
    <3>1. k = SignLength + 1 /\ text[SignLength + 1] = Zero /\ IsDigit(text[SignLength + 1]) /\ SignLength < Len(text)
      <4>1. k = SignLength + 1
        BY <1>5, <1>11, <2>3
      <4>2. SignLength < Len(text)
        BY <1>1, <1>5, <1>7, <1>8, <1>9, <1>11
      <4> QED BY <1>10, <1>11, <2>3, <4>1, <4>2
    <3> QED BY <1>1, <3>1, NumberEndsIs
  <2> QED BY <2>2, <2>3
<1>14. Absolute = m
  <2>1. f \in [0..Len(u) -> Nat] /\ f[0] = 0 /\ \A i \in 1..Len(u) : f[i] = f[i - 1] * 10 + DigitOf(u[i])
    BY <1>6 DEF Adds
  <2>2. Collects(f, 0, z, Len(u))
    BY <1>9, <2>1 DEF Collects
  <2>3. Prefix[z] = 0 /\ Prefix[NumberEnds] = Absolute
    BY <1>1, <1>11, PrefixIs
  <2>4. z \in Nat /\ 0 \in Nat /\ SignLength <= z /\ z + Len(u) <= NumberEnds /\ z + Len(u) = NumberEnds
    BY <1>5, <1>8, <1>11, <1>13
  <2>5. f[Len(u)] = Prefix[z + Len(u)]
    BY <1>1, <1>5, <2>2, <2>3, <2>4, CollectsPrefix
  <2> QED BY <1>6, <2>3, <2>4, <2>5
<1>15. Number = val
  BY <1>8, <1>11, <1>14 DEF Number, m, z
<1>16. IsDigit(text[NumberEnds])
  <2>1. k \in (SignLength + 1)..k
    BY <1>5, <1>8, <1>9, <1>11
  <2> HIDE DEF k
  <2> QED BY <1>12, <1>13, <2>1 DEF AllDigits
<1> HIDE DEF k
<1> QED BY <1>2, <1>9, <1>13, <1>14, <1>15, <1>16

\* Every value of every integer type that is written is read back, the smallest
\* one included, and what follows it is left for the next read: for every size
\* of the groups of the writer, of the window and of the fast path of the
\* reader, and of the pieces.
THEOREM WhatIsWrittenIsRead == Spec => []WrittenIsRead
<1>1. ASSUME Inv, Done, written
      PROVE  /\ error \in {"nil", "EOF"} /\ ret = val
             /\ text[Len(text)] = Comma => text[head + 1] = Comma /\ IsDigit(text[head]) /\ error = "nil"
  <2>1. State /\ Answer(head, ret, error) /\ text \in Seq(Chars)
    BY <1>1 DEF Inv, State
  <2>2. val \in Int /\ Fits(val, type)
    BY <1>1 DEF Inv, Written
  <2>3. PICK s \in Suffixes : text = WriteInt(val, type) \o s
    BY <1>1 DEF Inv, Written
  <2>4. /\ HasNumber /\ Number = val /\ Absolute < Word
        /\ NumberEnds < Len(text) => text[NumberEnds + 1] = Comma
        /\ IsDigit(text[NumberEnds])
    BY <2>1, <2>2, <2>3, TextOfNumber
  <2>5. NumberEnds \in Nat /\ Len(text) \in Nat /\ NumberEnds <= Len(text)
    BY <2>1, SignIs, NumberEndsIs
  <2>6. ~IsFloat
    BY <2>4 DEF IsFloat, Comma, Dot
  <2>7. error \in {"nil", "EOF"} /\ ret = Number
    BY <2>1, <2>2, <2>4, <2>6 DEF Answer
  <2>8. ASSUME text[Len(text)] = Comma
        PROVE  text[head + 1] = Comma /\ IsDigit(text[head]) /\ error = "nil"
    <3>1. NumberEnds # Len(text)
      BY <2>4, <2>8 DEF IsDigit, DigitOf, Comma, Zero
    <3>2. NumberEnds < Len(text)
      BY <2>5, <3>1
    <3>3. head = NumberEnds /\ error # "EOF"
      BY <2>1, <2>4, <2>7, <3>1, <3>2 DEF Answer
    <3> QED BY <2>4, <2>7, <3>2, <3>3
  <2> QED BY <2>4, <2>7, <2>8
<1>2. Inv => WrittenIsRead
  BY <1>1 DEF WrittenIsRead
<1> QED BY <1>2, SpecInv, PTL


----------------------------------------------------------------------------
(* Sequences.                                                              *)

LEMMA Associative ==
  ASSUME NEW s \in Seq(Nat), NEW t \in Seq(Nat), NEW u \in Seq(Nat)
  PROVE  (s \o t) \o u = s \o (t \o u)
  BY ConcatAssociative, SMTT(60)

\* A byte is a number.
LEMMA ByteIs == ASSUME NEW t \in Seq(Nat), NEW k \in 1..Len(t) PROVE t[k] \in Nat
  OBVIOUS

\* A byte moves from the end of one sequence to the start of the next.
LEMMA ConcatCons ==
  ASSUME NEW s \in Seq(Nat), NEW f \in Nat, NEW t \in Seq(Nat)
  PROVE  s \o (<<f>> \o t) = Append(s, f) \o t
<1> DEFINE b == <<f>>
<1>1. b \in Seq(Nat)
  OBVIOUS
<1>2. Append(s, f) = s \o b
  BY AppendIsConcat
<1> HIDE DEF b
<1>3. (s \o b) \o t = s \o (b \o t)
  BY <1>1, Associative
<1> QED BY <1>2, <1>3 DEF b

\* A window is a sequence, and what comes after it.
LEMMA WindowIs ==
  ASSUME NEW t \in Seq(Nat), NEW i \in Nat, NEW j \in Nat, i <= j, j <= Len(t)
  PROVE  /\ SubSeq(t, i + 1, j) \in Seq(Nat) /\ Len(SubSeq(t, i + 1, j)) = j - i
         /\ \A k \in 1..(j - i) : SubSeq(t, i + 1, j)[k] = t[i + k]
         /\ SubSeq(t, 1, i) \o SubSeq(t, i + 1, j) = SubSeq(t, 1, j)
<1>1. Len(t) \in Nat /\ i + 1 \in Int /\ j \in Int /\ \A k \in (i + 1)..j : t[k] \in Nat
  OBVIOUS
<1>2. /\ SubSeq(t, i + 1, j) \in Seq(Nat)
      /\ Len(SubSeq(t, i + 1, j)) = IF i + 1 <= j THEN j - (i + 1) + 1 ELSE 0
      /\ \A k \in 1..(j - (i + 1) + 1) : SubSeq(t, i + 1, j)[k] = t[i + 1 + k - 1]
  BY <1>1, SubSeqProperties
<1>3. j - (i + 1) + 1 = j - i /\ \A k \in 1..(j - i) : i + 1 + k - 1 = i + k
  BY <1>1
<1>4. 1 \in 1..(Len(t) + 1) /\ i \in (1 - 1)..Len(t) /\ j \in i..Len(t)
  BY <1>1
<1>5. SubSeq(t, 1, i) \o SubSeq(t, i + 1, j) = SubSeq(t, 1, j)
  BY <1>4, ConcatAdjacentSubSeq
<1> QED BY <1>2, <1>3, <1>5

\* Windows grow by a byte.
LEMMA WindowGrows ==
  ASSUME NEW t \in Seq(Nat), NEW i \in Nat, NEW j \in Nat, i <= j, j < Len(t)
  PROVE  /\ SubSeq(t, i + 1, i) = <<>>
         /\ SubSeq(t, i + 1, j + 1) = Append(SubSeq(t, i + 1, j), t[j + 1])
<1>1. SubSeq(t, i + 1, i) = <<>>
  <2>1. i + 1 \in Int /\ i \in Int /\ i < i + 1
    OBVIOUS
  <2> QED BY <2>1, SubSeqEmpty
<1>2. i + 1 \in 1..Len(t) /\ j + 1 \in (i + 1)..Len(t) /\ (j + 1) - 1 = j /\ t[j + 1] \in Nat
  OBVIOUS
<1>3. SubSeq(t, i + 1, j + 1) = SubSeq(t, i + 1, j) \o <<t[j + 1]>>
  BY <1>2, SubSeqRecursiveSecond
<1>4. SubSeq(t, i + 1, j) \in Seq(Nat)
  BY WindowIs
<1>5. Append(SubSeq(t, i + 1, j), t[j + 1]) = SubSeq(t, i + 1, j) \o <<t[j + 1]>>
  BY <1>2, <1>4, AppendIsConcat
<1> QED BY <1>1, <1>3, <1>5

----------------------------------------------------------------------------
(* What a text means.                                                      *)

\* The rune of the four digits behind byte i.
IsHex(t, i) == \A k \in 1..4 : HexValue(t[i + k]) >= 0
RuneOf(t, i) == 4096 * HexValue(t[i + 1]) + 256 * HexValue(t[i + 2]) + 16 * HexValue(t[i + 3]) + HexValue(t[i + 4])

\* m[i] is what the bytes behind the first i mean: a byte for itself, one that
\* is escaped, or a rune that is no surrogate.
Plain(t, i, P, m) ==
  /\ t[i + 1] >= 32 /\ t[i + 1] \notin {Quote, Backslash}
  /\ i + 1 \in P /\ m[i] = <<t[i + 1]>> \o m[i + 1]
Short(t, i, P, m) ==
  /\ t[i + 1] = Backslash /\ t[i + 2] \in Escapes
  /\ i + 2 \in P /\ m[i] = <<Unescaped(t[i + 2])>> \o m[i + 2]
Long(t, i, P, m) ==
  /\ t[i + 1] = Backslash /\ t[i + 2] = U
  /\ IsHex(t, i + 2) /\ RuneOf(t, i + 2) \notin Surrogates
  /\ i + 6 \in P /\ m[i] = UTF8(RuneOf(t, i + 2)) \o m[i + 6]

\* P are the places where something starts, and e that of the closing quote.
Decodes(t, e, P, m) ==
  /\ e \in Nat /\ P \in SUBSET (0..e) /\ 0 \in P /\ e \in P
  /\ t \in Seq(Nat) /\ e < Len(t) /\ t[e + 1] = Quote
  /\ m \in [P -> Seq(Nat)] /\ m[e] = <<>>
  /\ \A i \in P \ {e} : Plain(t, i, P, m) \/ Short(t, i, P, m) \/ Long(t, i, P, m)

LEMMA DecodesFacts ==
  ASSUME NEW t, NEW e, NEW P, NEW m, Decodes(t, e, P, m)
  PROVE  /\ e \in Nat /\ P \in SUBSET (0..e) /\ 0 \in P /\ e \in P
         /\ t \in Seq(Nat) /\ Len(t) \in Nat /\ e < Len(t) /\ t[e + 1] = Quote
         /\ m \in [P -> Seq(Nat)] /\ m[e] = <<>>
         /\ \A i \in P \ {e} : Plain(t, i, P, m) \/ Short(t, i, P, m) \/ Long(t, i, P, m)
<1>1. t \in Seq(Nat)
  BY DEF Decodes
<1>2. Len(t) \in Nat
  BY <1>1
<1> QED BY <1>1, <1>2, Zenon DEF Decodes

\* It depends on the text up to the closing quote only.
LEMMA DecodesPrefix ==
  ASSUME NEW t, NEW e, NEW P, NEW m, Decodes(t, e, P, m),
         NEW u \in Seq(Nat), e < Len(u), \A i \in 1..(e + 1) : u[i] = t[i]
  PROVE  Decodes(u, e, P, m)
<1>1. e \in Nat /\ P \in SUBSET (0..e) /\ t \in Seq(Nat) /\ u[e + 1] = Quote
  <2>1. e \in Nat /\ P \in SUBSET (0..e) /\ t \in Seq(Nat) /\ t[e + 1] = Quote
    BY DecodesFacts, Zenon
  <2>2. e + 1 \in 1..(e + 1)
    BY <2>1
  <2> QED BY <2>1, <2>2, Zenon
<1>2. ASSUME NEW i \in P \ {e} PROVE Plain(u, i, P, m) \/ Short(u, i, P, m) \/ Long(u, i, P, m)
  <2>1. i \in Nat /\ i < e
    BY <1>1, <1>2
  <2>2. i + 1 \in 1..(e + 1) /\ u[i + 1] = t[i + 1]
    BY <2>1, <1>1
  <2>3. CASE Plain(t, i, P, m)
    BY <2>2, <2>3 DEF Plain
  <2>4. CASE Short(t, i, P, m)
    <3>1. i + 2 <= e
      <4>1. i + 2 \in P
        BY <2>4 DEF Short
      <4> QED BY <1>1, <4>1
    <3>2. u[i + 2] = t[i + 2]
      BY <1>1, <2>1, <3>1
    <3> QED BY <2>2, <2>4, <3>2 DEF Short
  <2>5. CASE Long(t, i, P, m)
    <3>1. i + 6 <= e
      BY <1>1, <2>5 DEF Long
    <3>2. \A k \in 2..6 : u[i + k] = t[i + k]
      <4>1. \A k \in 2..6 : i + k \in 1..(e + 1)
        BY <1>1, <2>1, <3>1
      <4> QED BY <4>1
    <3>3. \A k \in 1..4 : u[i + 2 + k] = t[i + 2 + k]
      <4>1. \A k \in 1..4 : i + 2 + k = i + (k + 2) /\ k + 2 \in 2..6
        BY <2>1
      <4> QED BY <3>2, <4>1
    <3>4. u[i + 2] = t[i + 2] /\ IsHex(u, i + 2) /\ RuneOf(u, i + 2) = RuneOf(t, i + 2)
      <4>1. u[i + 2] = t[i + 2]
        BY <3>2
      <4>2. IsHex(u, i + 2)
        BY <2>5, <3>3 DEF Long, IsHex
      <4>3. /\ u[i + 2 + 1] = t[i + 2 + 1] /\ u[i + 2 + 2] = t[i + 2 + 2]
            /\ u[i + 2 + 3] = t[i + 2 + 3] /\ u[i + 2 + 4] = t[i + 2 + 4]
        BY <3>3
      <4>4. RuneOf(u, i + 2) = RuneOf(t, i + 2)
        BY <4>3 DEF RuneOf
      <4> QED BY <4>1, <4>2, <4>4
    <3> QED BY <2>2, <2>5, <3>4 DEF Long
  <2> QED BY <1>2, <2>3, <2>4, <2>5 DEF Decodes
<1> QED BY <1>1, <1>2 DEF Decodes

\* u is written for v.
IsUnit(u, v) ==
  \/ Len(u) = 1 /\ v = u /\ u[1] >= 32 /\ u[1] \notin {Quote, Backslash}
  \/ Len(u) = 2 /\ u[1] = Backslash /\ u[2] \in Escapes /\ v = <<Unescaped(u[2])>>
  \/ /\ Len(u) = 6 /\ u[1] = Backslash /\ u[2] = U /\ IsHex(u, 2)
     /\ RuneOf(u, 2) \notin Surrogates /\ v = UTF8(RuneOf(u, 2))

\* A text with nothing behind its closing quote, and its meaning.
Decodable(t, v) == \E P, m : Decodes(t, Len(t) - 1, P, m) /\ m[0] = v

LEMMA DecodableFacts ==
  ASSUME NEW t, NEW x, Decodable(t, x)
  PROVE  t \in Seq(Nat) /\ x \in Seq(Nat)
<1>1. PICK P, m : Decodes(t, Len(t) - 1, P, m) /\ m[0] = x
  BY DEF Decodable
<1> QED BY <1>1, DecodesFacts

\* One more unit in front of a text.
LEMMA Prepend ==
  ASSUME NEW t, NEW x, Decodable(t, x),
         NEW u \in Seq(Nat), NEW v \in Seq(Nat), u # <<>>, IsUnit(u, v)
  PROVE  Decodable(u \o t, v \o x)
<1> PICK P, m : Decodes(t, Len(t) - 1, P, m) /\ m[0] = x
  BY DEF Decodable
<1> DEFINE e == Len(t) - 1
<1>0. Decodes(t, e, P, m) /\ m[0] = x
  OBVIOUS
<1>c. e = Len(t) - 1
  OBVIOUS
<1> HIDE DEF e
<1> DEFINE n == Len(u)
           w == u \o t
           Q == {0} \cup {i + n : i \in P}
           f == [i \in Q |-> IF i = 0 THEN v \o m[0] ELSE m[i - n]]
<1>1. /\ e \in Nat /\ P \in SUBSET (0..e) /\ 0 \in P /\ e \in P
      /\ t \in Seq(Nat) /\ e < Len(t) /\ t[e + 1] = Quote /\ Len(t) \in Nat
      /\ m \in [P -> Seq(Nat)] /\ m[e] = <<>>
      /\ \A i \in P \ {e} : Plain(t, i, P, m) \/ Short(t, i, P, m) \/ Long(t, i, P, m)
  <2> HIDE DEF n, w, Q, f
  <2>1. Decodes(t, e, P, m)
    BY <1>0
  <2> QED BY <2>1, DecodesFacts, SMTT(60)
<1>2. n \in Nat /\ n >= 1
  BY EmptySeq
<1>3. w \in Seq(Nat) /\ Len(w) = n + Len(t) /\ \A i \in 1..(n + Len(t)) : w[i] = IF i <= n THEN u[i] ELSE t[i - n]
  BY <1>1, ConcatProperties
<1>4. v \o m[0] \in Seq(Nat)
  BY <1>1, ConcatProperties
<1> HIDE DEF n, w
<1>b. Len(t) \in Nat /\ e < Len(t) /\ e \in Nat
  BY <1>1
<1>5. \A i \in 1..n : w[i] = u[i]
  <2>1. \A i \in 1..n : i \in 1..(n + Len(t)) /\ i <= n
    BY <1>2, <1>b
  <2> QED BY <1>3, <2>1
<1>6. \A i \in 1..Len(t) : w[n + i] = t[i]
  <2>1. \A i \in 1..Len(t) : n + i \in 1..(n + Len(t)) /\ ~(n + i <= n) /\ (n + i) - n = i
    BY <1>2, <1>b
  <2> QED BY <1>3, <2>1
<1>7. \A i \in P : i \in Nat /\ i <= e /\ i + n \in Nat /\ i + n >= 1 /\ (i + n) - n = i /\ i + n <= e + n
  BY <1>1, <1>2
<1>8. \A i \in P : i + n \in Q /\ i + n # 0 /\ f[i + n] = m[i]
  BY <1>7
<1>9. 0 \in Q /\ f[0] = v \o m[0] /\ Q \in SUBSET (0..(e + n)) /\ f \in [Q -> Seq(Nat)] /\ \A i \in Q \ {0} : \E j \in P : i = j + n
  <2>1. 0 \in Q /\ f[0] = v \o m[0]
    OBVIOUS
  <2>2. Q \in SUBSET (0..(e + n))
    <3>1. 0 \in 0..(e + n)
      BY <1>2, <1>b
    <3>2. \A i \in P : i + n \in 0..(e + n)
      BY <1>2, <1>7, <1>b
    <3> QED BY <3>1, <3>2
  <2>3. \A i \in Q \ {0} : \E j \in P : i = j + n
    OBVIOUS
  <2>4. \A i \in Q \ {0} : f[i] \in Seq(Nat)
    <3>1. \A i \in P : m[i] \in Seq(Nat)
      BY <1>1
    <3> HIDE DEF f, Q
    <3> QED BY <1>8, <2>3, <3>1
  <2> QED BY <1>4, <2>1, <2>2, <2>3, <2>4
<1> HIDE DEF Q, f
<1>a. \A j \in P : f[j + n] = m[j]
  BY <1>8
<1>10. ASSUME NEW j \in P, j # e
       PROVE  Plain(w, j + n, Q, f) \/ Short(w, j + n, Q, f) \/ Long(w, j + n, Q, f)
  <2>0. j \in Nat /\ j + 1 <= e /\ f[j + n] = m[j]
    <3>1. j \in Nat /\ j <= e /\ j # e
      BY <1>7, <1>10
    <3>2. j + 1 <= e
      BY <3>1, <1>b
    <3> QED BY <3>1, <3>2, <1>a
  <2>1. w[j + n + 1] = t[j + 1]
    <3>1. j + 1 \in 1..Len(t) /\ n + (j + 1) = j + n + 1
      BY <1>b, <1>2, <2>0
    <3> QED BY <1>6, <3>1
  <2>2. CASE Plain(t, j, P, m)
    <3>1. j + 1 \in P /\ (j + 1) + n = j + n + 1
      BY <1>2, <2>0, <2>2 DEF Plain
    <3>2. j + n + 1 \in Q /\ f[j + n + 1] = m[j + 1]
      BY <3>1, <1>8
    <3> QED BY <2>0, <2>1, <2>2, <3>2 DEF Plain
  <2>3. CASE Short(t, j, P, m)
    <3>1. j + 2 \in P /\ (j + 2) + n = j + n + 2
      BY <1>2, <2>0, <2>3 DEF Short
    <3>2. j + n + 2 \in Q /\ f[j + n + 2] = m[j + 2]
      BY <3>1, <1>8
    <3>3. w[j + n + 2] = t[j + 2]
      <4>1. j + 2 <= e
        BY <3>1, <1>7
      <4>2. j + 2 \in 1..Len(t) /\ n + (j + 2) = j + n + 2
        BY <1>b, <1>2, <2>0, <4>1
      <4> QED BY <1>6, <4>2
    <3> QED BY <2>0, <2>1, <2>3, <3>2, <3>3 DEF Short
  <2>4. CASE Long(t, j, P, m)
    <3>1. j + 6 \in P /\ (j + 6) + n = j + n + 6
      BY <1>2, <2>0, <2>4 DEF Long
    <3>2. j + n + 6 \in Q /\ f[j + n + 6] = m[j + 6]
      BY <3>1, <1>8
    <3>3. w[j + n + 2] = t[j + 2] /\ \A k \in 1..4 : w[j + n + 2 + k] = t[j + 2 + k]
      <4>1. j + 6 <= e
        BY <3>1, <1>7
      <4>2. j + 2 \in 1..Len(t) /\ n + (j + 2) = j + n + 2
        BY <1>b, <1>2, <2>0, <4>1
      <4>3. \A k \in 1..4 : j + 2 + k \in 1..Len(t) /\ n + (j + 2 + k) = j + n + 2 + k
        BY <1>b, <1>2, <2>0, <4>1
      <4>4. w[j + n + 2] = t[j + 2]
        BY <1>6, <4>2
      <4>5. ASSUME NEW k \in 1..4 PROVE w[j + n + 2 + k] = t[j + 2 + k]
        BY <1>6, <4>3
      <4> QED BY <4>4, <4>5
    <3>4. IsHex(w, j + n + 2)
      BY <2>4, <3>3 DEF Long, IsHex
    <3>5. RuneOf(w, j + n + 2) = RuneOf(t, j + 2)
      <4>1. /\ w[j + n + 2 + 1] = t[j + 2 + 1] /\ w[j + n + 2 + 2] = t[j + 2 + 2]
            /\ w[j + n + 2 + 3] = t[j + 2 + 3] /\ w[j + n + 2 + 4] = t[j + 2 + 4]
        BY <3>3
      <4> QED BY <4>1 DEF RuneOf
    <3> QED BY <2>0, <2>1, <2>4, <3>2, <3>3, <3>4, <3>5 DEF Long
  <2> QED BY <1>1, <1>10, <2>2, <2>3, <2>4
<1>11. Plain(w, 0, Q, f) \/ Short(w, 0, Q, f) \/ Long(w, 0, Q, f)
  <2>0. f[0] = v \o m[0] /\ n \in Q /\ f[n] = m[0] /\ m[0] \in Seq(Nat)
    <3>1. 0 + n = n
      BY <1>2
    <3> QED BY <1>1, <1>8, <1>9, <3>1
  <2>1. CASE n = 1 /\ v = u /\ u[1] >= 32 /\ u[1] \notin {Quote, Backslash}
    <3>1. w[1] = u[1]
      BY <1>5, <2>1
    <3>2. u = <<u[1]>>
      BY <2>1 DEF n
    <3>3. f[0] = <<w[1]>> \o f[1] /\ 1 \in Q
      BY <2>0, <2>1, <3>1, <3>2
    <3>4. 0 + 1 = 1
      OBVIOUS
    <3> QED BY <2>1, <3>1, <3>3, <3>4 DEF Plain
  <2>2. CASE n = 2 /\ u[1] = Backslash /\ u[2] \in Escapes /\ v = <<Unescaped(u[2])>>
    <3>1. w[1] = u[1] /\ w[2] = u[2]
      BY <1>5, <2>2
    <3>2. f[0] = <<Unescaped(w[2])>> \o f[2] /\ 2 \in Q
      BY <2>0, <2>2, <3>1
    <3>3. 0 + 1 = 1 /\ 0 + 2 = 2
      OBVIOUS
    <3> QED BY <2>2, <3>1, <3>2, <3>3 DEF Short
  <2>3. CASE /\ n = 6 /\ u[1] = Backslash /\ u[2] = U /\ IsHex(u, 2)
             /\ RuneOf(u, 2) \notin Surrogates /\ v = UTF8(RuneOf(u, 2))
    <3>1. w[1] = u[1] /\ w[2] = u[2] /\ \A k \in 1..4 : w[2 + k] = u[2 + k]
      <4>1. \A k \in 1..4 : 2 + k \in 1..6
        OBVIOUS
      <4> QED BY <1>5, <2>3, <4>1
    <3>2. IsHex(w, 2)
      BY <2>3, <3>1 DEF IsHex
    <3>3. RuneOf(w, 2) = RuneOf(u, 2)
      BY <3>1 DEF RuneOf
    <3>4. 0 + 1 = 1 /\ 0 + 2 = 2 /\ 0 + 6 = 6
      OBVIOUS
    <3> QED BY <2>0, <2>3, <3>1, <3>2, <3>3, <3>4 DEF Long
  <2> QED BY <2>1, <2>2, <2>3 DEF n, IsUnit
<1>12. Decodes(w, e + n, Q, f)
  <2>1. e + n \in Nat /\ e + n \in Q /\ f[e + n] = <<>>
    BY <1>1, <1>2, <1>7, <1>8
  <2>2. e + n < Len(w) /\ w[e + n + 1] = Quote
    <3>1. e + 1 \in 1..Len(t) /\ n + (e + 1) = e + n + 1 /\ e + n < n + Len(t)
      BY <1>2, <1>b
    <3>2. w[e + n + 1] = t[e + 1]
      BY <1>6, <3>1
    <3> QED BY <1>1, <1>3, <3>1, <3>2
  <2>3. ASSUME NEW i \in Q \ {e + n} PROVE Plain(w, i, Q, f) \/ Short(w, i, Q, f) \/ Long(w, i, Q, f)
    <3>1. CASE i = 0
      BY <1>11, <3>1
    <3>2. CASE i # 0
      BY <1>9, <1>10, <2>3, <3>2
    <3> QED BY <3>1, <3>2
  <2> QED BY <1>3, <1>9, <2>1, <2>2, <2>3 DEF Decodes
<1>13. e + n = Len(w) - 1
  BY <1>1, <1>2, <1>3, <1>c
<1>14. Decodes(w, Len(w) - 1, Q, f) /\ f[0] = v \o x
  BY <1>0, <1>9, <1>12, <1>13
<1> QED BY <1>14 DEF Decodable, w

\* Several bytes that mean themselves.
LEMMA PrependPlain ==
  ASSUME NEW t, NEW x, Decodable(t, x),
         NEW u \in Seq(Nat), \A i \in 1..Len(u) : u[i] >= 32 /\ u[i] \notin {Quote, Backslash}
  PROVE  Decodable(u \o t, u \o x)
<1> DEFINE n == Len(u)
           From(k) == SubSeq(u, n - k + 1, n)
           T == {k \in 0..n : Decodable(From(k) \o t, From(k) \o x)}
<1>1. n \in Nat /\ t \in Seq(Nat) /\ x \in Seq(Nat)
  BY DecodableFacts
<1>2. 0 \in T
  <2>1. n - 0 + 1 \in Int /\ n \in Int /\ n < n - 0 + 1 /\ 0 \in 0..n
    BY <1>1
  <2>2. From(0) = <<>>
    BY <2>1, SubSeqEmpty
  <2>3. <<>> \o t = t /\ <<>> \o x = x
    BY <1>1, ConcatEmptySeq
  <2> QED BY <2>1, <2>2, <2>3
<1>3. ASSUME NEW k \in 0..(n - 1), k \in T PROVE k + 1 \in T
  <2>1. n - (k + 1) + 1 = n - k /\ n - k \in 1..n /\ n \in (n - k)..n /\ k + 1 \in 0..n /\ n - k + 1 \in 1..(n + 1)
    BY <1>1
  <2>2. From(k + 1) = <<u[n - k]>> \o From(k)
    <3>1. SubSeq(u, n - k, n) = <<u[n - k]>> \o SubSeq(u, n - k + 1, n)
      BY <2>1, SubSeqRecursiveFirst
    <3> QED BY <2>1, <3>1
  <2>3. From(k) \in Seq(Nat)
    <3>1. \A i \in (n - k + 1)..n : u[i] \in Nat
      BY <2>1
    <3> QED BY <1>1, <2>1, <3>1, SubSeqProperties
  <2> DEFINE b == <<u[n - k]>>
             a == From(k)
  <2>4. b \in Seq(Nat) /\ b # <<>> /\ IsUnit(b, b)
    <3>1. b \in Seq(Nat) /\ b # <<>> /\ Len(b) = 1 /\ b[1] >= 32 /\ b[1] \notin {Quote, Backslash}
      BY <2>1
    <3> HIDE DEF b
    <3> QED BY <3>1 DEF IsUnit
  <2>5. Decodable(a \o t, a \o x) /\ a \in Seq(Nat)
    BY <1>3, <2>3
  <2> HIDE DEF a, b
  <2>6. Decodable(b \o (a \o t), b \o (a \o x))
    BY <2>4, <2>5, Prepend
  <2>7. b \o (a \o t) = (b \o a) \o t
    BY <1>1, <2>4, <2>5, Associative, ZenonT(60)
  <2>8. b \o (a \o x) = (b \o a) \o x
    BY <1>1, <2>4, <2>5, Associative, ZenonT(60)
  <2>9. From(k + 1) = b \o a
    BY <2>2 DEF a, b
  <2> HIDE DEF From
  <2>10. Decodable(From(k + 1) \o t, From(k + 1) \o x)
    BY <2>6, <2>7, <2>8, <2>9
  <2> QED BY <2>1, <2>10
<1>4. 0..n \subseteq T
  <2> HIDE DEF T
  <2> QED BY <1>1, <1>2, <1>3, BoundedInduction
<1>5. Decodable(From(n) \o t, From(n) \o x)
  <2>1. n \in 0..n
    BY <1>1
  <2>2. n \in T
    BY <1>4, <2>1
  <2> HIDE DEF From, n
  <2> QED BY <2>2
<1>6. From(n) = u
  <2>1. n - n + 1 = 1
    BY <1>1
  <2> QED BY <2>1, SubSeqFull
<1> QED BY <1>5, <1>6

----------------------------------------------------------------------------
(* Bytes and runes.                                                        *)

\* The bytes of a rune that carry on.
Bits(r, n) == [k \in 1..n |-> 128 + ((r \div Power(64, n - k)) % 64)]

Encoded(b, r, n) == <<b>> \o Bits(r, n)

LEMMA RuneBytes ==
  ASSUME NEW r \in Nat, NEW n \in 1..3, NEW b \in Nat, b >= 128
  PROVE  /\ Encoded(b, r, n) \in Seq(Nat) /\ Len(Encoded(b, r, n)) = n + 1
         /\ \A i \in 1..(n + 1) : Encoded(b, r, n)[i] >= 128
<1>1. ASSUME NEW k \in 1..n PROVE 128 + ((r \div Power(64, n - k)) % 64) \in Nat /\ 128 + ((r \div Power(64, n - k)) % 64) >= 128
  <2>1. Power(64, n - k) \in Nat \ {0}
    <3>1. n - k \in Nat /\ 64 \in Nat \ {0}
      OBVIOUS
    <3> QED BY <3>1, PowerProperties
  <2>2. r \div Power(64, n - k) \in Nat
    BY <2>1, Quotients
  <2>3. \A x \in Nat : 128 + (x % 64) \in Nat /\ 128 + (x % 64) >= 128
    OBVIOUS
  <2> QED BY <2>2, <2>3
<1> DEFINE s == Bits(r, n)
<1>2. s \in Seq(Nat) /\ Len(s) = n /\ \A k \in 1..n : s[k] >= 128
  BY <1>1 DEF Bits
<1> HIDE DEF s
<1>3. /\ <<b>> \o s \in Seq(Nat) /\ Len(<<b>> \o s) = n + 1 /\ (<<b>> \o s)[1] = b
      /\ \A k \in 2..(n + 1) : (<<b>> \o s)[k] = s[k - 1]
  BY <1>2, ConsProperties
<1>4. ASSUME NEW i \in 1..(n + 1) PROVE (<<b>> \o s)[i] >= 128
  <2>1. CASE i = 1
    BY <1>3, <2>1
  <2>2. CASE i # 1
    <3>1. i \in 2..(n + 1) /\ i - 1 \in 1..n
      BY <2>2
    <3> QED BY <1>2, <1>3, <3>1
  <2> QED BY <2>1, <2>2
<1> QED BY <1>3, <1>4 DEF s, Encoded

\* The five kinds of runes.
LEMMA UTF8Is ==
  ASSUME NEW r \in Nat
  PROVE  /\ r < 128 => UTF8(r) = <<r>>
         /\ r >= 128 /\ r < 2048 => UTF8(r) = Encoded(192 + r \div 64, r, 1)
         /\ r \in Surrogates => UTF8(r) = <<239, 191, 189>>
         /\ r >= 2048 /\ r < 65536 /\ r \notin Surrogates => UTF8(r) = Encoded(224 + r \div 4096, r, 2)
         /\ r >= 65536 => UTF8(r) = Encoded(240 + r \div 262144, r, 3)
<1>1. r \in Surrogates => r >= 2048 /\ r < 65536
  BY SMT DEF Surrogates
<1> QED BY <1>1, SMT DEF UTF8, Bits, Encoded

\* Runes are sequences of bytes, and those outside ASCII have none of ASCII.
LEMMA UTF8Bytes ==
  ASSUME NEW r \in Nat
  PROVE  /\ UTF8(r) \in Seq(Nat)
         /\ r < 128 => UTF8(r) = <<r>>
         /\ r >= 128 => Len(UTF8(r)) \in 2..4 /\ \A i \in 1..Len(UTF8(r)) : UTF8(r)[i] >= 128
<1>1. CASE r < 128
  <2>1. UTF8(r) = <<r>>
    BY <1>1, UTF8Is, SMT
  <2> QED BY <1>1, <2>1, SMT
<1>2. ASSUME NEW n \in 1..3, NEW b \in Nat, b >= 128, UTF8(r) = Encoded(b, r, n)
      PROVE  UTF8(r) \in Seq(Nat) /\ Len(UTF8(r)) \in 2..4 /\ \A i \in 1..Len(UTF8(r)) : UTF8(r)[i] >= 128
  <2>1. n + 1 \in 2..4
    OBVIOUS
  <2> DEFINE s == Encoded(b, r, n)
  <2>2. s \in Seq(Nat) /\ Len(s) = n + 1 /\ \A i \in 1..(n + 1) : s[i] >= 128
    BY <1>2, RuneBytes
  <2> HIDE DEF s
  <2>3. UTF8(r) = s
    BY <1>2 DEF s
  <2> QED BY <2>1, <2>2, <2>3
<1>3. CASE r >= 128 /\ r < 2048
  <2>1. UTF8(r) = Encoded(192 + r \div 64, r, 1)
    BY <1>3, UTF8Is, SMT
  <2>2. 192 + r \div 64 \in Nat /\ 192 + r \div 64 >= 128 /\ 1 \in 1..3
    BY <1>3, SMT
  <2> QED BY <1>2, <1>3, <2>1, <2>2, SMT
<1>4. CASE r \in Surrogates
  <2>1. UTF8(r) = <<239, 191, 189>>
    BY <1>4, UTF8Is, SMT
  <2>2. r >= 128
    BY <1>4, SMT DEF Surrogates
  <2> QED BY <2>1, <2>2, SMT
<1>5. CASE r >= 2048 /\ r < 65536 /\ r \notin Surrogates
  <2>1. UTF8(r) = Encoded(224 + r \div 4096, r, 2)
    BY <1>5, UTF8Is, SMT
  <2>2. 224 + r \div 4096 \in Nat /\ 224 + r \div 4096 >= 128 /\ 2 \in 1..3
    BY <1>5, SMT
  <2> QED BY <1>2, <1>5, <2>1, <2>2, SMT
<1>6. CASE r >= 65536
  <2>1. UTF8(r) = Encoded(240 + r \div 262144, r, 3)
    BY <1>6, UTF8Is, SMT
  <2>2. 240 + r \div 262144 \in Nat /\ 240 + r \div 262144 >= 128 /\ 3 \in 1..3
    BY <1>6, SMT
  <2> QED BY <1>2, <1>6, <2>1, <2>2, SMT
<1> QED BY <1>1, <1>3, <1>4, <1>5, <1>6, SMT

LEMMA NoSurrogates == \A r \in Nat : r < 128 \/ r \in {RuneError, 8232, 8233} => r \notin Surrogates
  BY SMT DEF Surrogates, RuneError

\* A digit that is written is read.
LEMMA HexIsRead ==
  ASSUME NEW n \in 0..15
  PROVE  Hex(n) \in Nat /\ HexValue(Hex(n)) = n
<1>1. CASE n < 10
  <2>1. Hex(n) = 48 + n /\ 48 + n \in 48..57 /\ (48 + n) - 48 = n
    BY <1>1 DEF Hex, Zero
  <2> QED BY <2>1 DEF HexValue
<1>2. CASE n >= 10
  <2>1. Hex(n) = 87 + n /\ 87 + n \in 97..102 /\ 87 + n \notin 48..57 /\ 87 + n \notin 65..70 /\ (87 + n) - 87 = n
    BY <1>2 DEF Hex, Zero
  <2> QED BY <2>1 DEF HexValue
<1> QED BY <1>1, <1>2

\* What is escaped.
LEMMA EscapeIsUnit ==
  ASSUME NEW b \in 0..127
  PROVE  /\ EscapeByte(b) \in Seq(Nat) /\ EscapeByte(b) # <<>>
         /\ IsUnit(EscapeByte(b), <<b>>)
<1>1. CASE b \in {Quote, Backslash}
  <2>1. EscapeByte(b) = <<Backslash, b>> /\ b \in Escapes /\ Unescaped(b) = b
    BY <1>1 DEF EscapeByte, Escapes, Unescaped, Quote, Backslash
  <2> QED BY <1>1, <2>1 DEF IsUnit, Backslash
<1>2. CASE b \in {9, 10, 13}
  <2>1. \E c \in {110, 114, 116} : EscapeByte(b) = <<Backslash, c>> /\ c \in Escapes /\ Unescaped(c) = b
    BY <1>2 DEF EscapeByte, Escapes, Unescaped, Quote, Backslash
  <2> QED BY <2>1 DEF IsUnit, Backslash
<1>3. CASE b \notin {Quote, Backslash, 9, 10, 13}
  <2> DEFINE h == Hex(b \div 16)
             l == Hex(b % 16)
             u == <<Backslash, U, Zero, Zero, h, l>>
  <2>1. EscapeByte(b) = u
    BY <1>3 DEF EscapeByte
  <2>2. b \div 16 \in 0..15 /\ b % 16 \in 0..15 /\ 16 * (b \div 16) + (b % 16) = b
    OBVIOUS
  <2>3. h \in Nat /\ l \in Nat /\ HexValue(h) = b \div 16 /\ HexValue(l) = b % 16 /\ HexValue(Zero) = 0
    <3>1. HexValue(Zero) = 0
      BY DEF HexValue, Zero
    <3> QED BY <2>2, <3>1, HexIsRead
  <2> HIDE DEF h, l
  <2>4. u \in Seq(Nat) /\ u # <<>> /\ Len(u) = 6 /\ u[1] = Backslash /\ u[2] = U /\ u[3] = Zero /\ u[4] = Zero /\ u[5] = h /\ u[6] = l
    BY <2>3 DEF Backslash, U, Zero
  <2> HIDE DEF u
  <2>5. u[2 + 1] = Zero /\ u[2 + 2] = Zero /\ u[2 + 3] = h /\ u[2 + 4] = l
    BY <2>4
  <2>6. IsHex(u, 2)
    <3>1. \A k \in 1..4 : k = 1 \/ k = 2 \/ k = 3 \/ k = 4
      OBVIOUS
    <3> QED BY <2>2, <2>3, <2>5, <3>1 DEF IsHex
  <2>7. RuneOf(u, 2) = b
    <3>1. RuneOf(u, 2) = 4096 * HexValue(Zero) + 256 * HexValue(Zero) + 16 * HexValue(h) + HexValue(l)
      BY <2>5 DEF RuneOf
    <3> QED BY <2>2, <2>3, <3>1
  <2>8. b \notin Surrogates /\ UTF8(b) = <<b>>
    <3>1. b \in Nat /\ b < 128
      OBVIOUS
    <3> QED BY <3>1, NoSurrogates, UTF8Bytes, SMT
  <2> QED BY <2>1, <2>4, <2>6, <2>7, <2>8 DEF IsUnit
<1> QED BY <1>1, <1>2, <1>3

----------------------------------------------------------------------------
(* What WriteString writes.                                                *)

\* A recursion from the end of a sequence to its start.
FromEnd(w, n, c, p, b) ==
  /\ w \in [1..(n + 1) -> Seq(Nat)]
  /\ w[n + 1] = b /\ \A i \in 1..n : w[i] = c[i] \o w[p[i]]

LEMMA SuffixRecursion ==
  ASSUME NEW n \in Nat, NEW c \in [1..n -> Seq(Nat)], NEW p \in [1..n -> 1..(n + 1)],
         \A i \in 1..n : p[i] > i,
         NEW b \in Seq(Nat)
  PROVE  \E w : FromEnd(w, n, c, p, b)
<1> DEFINE q == [k \in 1..n |-> n + 1 - p[n + 1 - k]]
           h == [x \in Seq(Nat) \X (0..n) |-> IF x[2] = 0 THEN b ELSE c[n + 1 - x[2]] \o x[1]]
           base == [k \in {0} |-> b]
<1>1. \A k \in 1..n : n + 1 - k \in 1..n /\ q[k] = n + 1 - p[n + 1 - k] /\ q[k] \in 0..n /\ q[k] < k
  OBVIOUS
<1>2. h \in [Seq(Nat) \X (0..n) -> Seq(Nat)]
  <2>1. ASSUME NEW y \in Seq(Nat), NEW k \in 0..n PROVE (IF k = 0 THEN b ELSE c[n + 1 - k] \o y) \in Seq(Nat)
    <3>1. CASE k = 0
      BY <3>1
    <3>2. CASE k # 0
      <4>1. k \in 1..n
        BY <3>2
      <4>2. c[n + 1 - k] \in Seq(Nat)
        BY <1>1, <4>1
      <4>3. c[n + 1 - k] \o y \in Seq(Nat)
        BY <4>2, ConcatProperties
      <4> QED BY <3>2, <4>3
    <3> QED BY <3>1, <3>2
  <2> QED BY <2>1
<1>3. /\ 0..n \in SUBSET Nat
      /\ \A k \in (0..n) \cap {0} : base[k] \in Seq(Nat)
      /\ \A k \in (0..n) \ {0} : q[k] \in 0..n /\ q[k] < k
  <2>1. \A k \in (0..n) \ {0} : k \in 1..n
    OBVIOUS
  <2> QED BY <1>1, <2>1
<1>4. \A y \in Seq(Nat) : \A k \in 1..n : h[<<y, k>>] = c[n + 1 - k] \o y
  <2>1. \A k \in 1..n : k \in 0..n /\ k # 0
    OBVIOUS
  <2> QED BY <2>1
<1>5. base[0] = b
  OBVIOUS
<1> HIDE DEF q, h, base
<1>6. PICK f \in [0..n -> Seq(Nat)] : Recursive(f, 0..n, {0}, base, q, h)
  BY <1>2, <1>3, RecursionExists
<1> DEFINE w == [i \in 1..(n + 1) |-> f[n + 1 - i]]
<1>7. \A i \in 1..(n + 1) : n + 1 - i \in 0..n /\ w[i] = f[n + 1 - i]
  OBVIOUS
<1>8. w \in [1..(n + 1) -> Seq(Nat)]
  BY <1>7
<1>9. w[n + 1] = b
  <2>1. n + 1 \in 1..(n + 1) /\ n + 1 - (n + 1) = 0 /\ 0 \in 0..n /\ 0 \in {0}
    OBVIOUS
  <2>2. f[0] = base[0]
    BY <1>6, <2>1 DEF Recursive
  <2> HIDE DEF w
  <2>3. w[n + 1] = f[0]
    BY <1>7, <2>1
  <2> QED BY <1>5, <2>2, <2>3
<1>10. ASSUME NEW i \in 1..n PROVE w[i] = c[i] \o w[p[i]]
  <2> DEFINE k == n + 1 - i
  <2>1. k \in 1..n /\ k \in 0..n /\ k \notin {0} /\ n + 1 - k = i /\ i \in 1..(n + 1) /\ p[i] \in 1..(n + 1)
    OBVIOUS
  <2>2. q[k] = n + 1 - p[i] /\ q[k] \in 0..n
    BY <1>1, <2>1
  <2> HIDE DEF w, k
  <2>3. f[k] = h[<<f[q[k]], k>>]
    BY <1>6, <2>1 DEF Recursive
  <2>4. f[q[k]] \in Seq(Nat)
    BY <2>2
  <2>5. f[k] = c[i] \o f[q[k]]
    BY <1>4, <2>1, <2>3, <2>4
  <2>6. w[i] = f[k] /\ w[p[i]] = f[q[k]]
    BY <1>7, <2>1, <2>2 DEF k
  <2> QED BY <2>5, <2>6
<1> HIDE DEF w
<1> QED BY <1>8, <1>9, <1>10 DEF FromEnd

\* What is written for the rune or byte at i, what it means, and where the next is.
Piece(s, html, i) ==
  IF s[i] < 128 THEN IF s[i] \in SafeSet(html) THEN <<s[i]>> ELSE EscapeByte(s[i])
  ELSE IF html THEN WriteRune(s, i, RuneAt(s, i)) ELSE <<s[i]>>
Said(s, html, i) == IF s[i] < 128 \/ ~html THEN <<s[i]>> ELSE UTF8(RuneAt(s, i).rune)
After(s, html, i) == IF s[i] < 128 \/ ~html THEN i + 1 ELSE i + RuneAt(s, i).size

LEMMA RuneAtIs ==
  ASSUME NEW s \in Seq(Nat), NEW i \in 1..Len(s)
  PROVE  /\ RuneAt(s, i).rune \in Nat /\ RuneAt(s, i).rune \notin Surrogates
         /\ RuneAt(s, i).size \in Nat /\ RuneAt(s, i).size >= 1 /\ i + RuneAt(s, i).size <= Len(s) + 1
         /\ RuneAt(s, i).size = 1 => RuneAt(s, i).rune = RuneError
         /\ RuneAt(s, i).size # 1 => /\ RuneAt(s, i).rune >= 128
                                     /\ SubSeq(s, i, i + RuneAt(s, i).size - 1) = UTF8(RuneAt(s, i).rune)
<1> DEFINE Fits8(r) == i + Len(UTF8(r)) - 1 <= Len(s) /\ SubSeq(s, i, i + Len(UTF8(r)) - 1) = UTF8(r)
           runes == {r \in Runes : Fits8(r)}
           r == CHOOSE r \in runes : TRUE
<1>0. RuneError \in Nat /\ RuneError \notin Surrogates
  <2>1. RuneError \in Nat
    BY SMT DEF RuneError
  <2> QED BY <2>1, NoSurrogates, SMT
<1>1. CASE runes = {}
  <2>1. RuneAt(s, i) = [rune |-> RuneError, size |-> 1]
    BY <1>1, SMT DEF RuneAt
  <2>2. RuneAt(s, i).rune = RuneError /\ RuneAt(s, i).size = 1
    BY <2>1, SMT
  <2>3. i + 1 <= Len(s) + 1 /\ 1 \in Nat
    BY SMT
  <2> QED BY <1>0, <2>2, <2>3, SMT
<1>2. CASE runes # {}
  <2>1. RuneAt(s, i) = [rune |-> r, size |-> Len(UTF8(r))]
    BY <1>2, SMT DEF RuneAt
  <2>2. RuneAt(s, i).rune = r /\ RuneAt(s, i).size = Len(UTF8(r))
    BY <2>1, SMT
  <2>3. r \in runes
    BY <1>2, SMT
  <2> HIDE DEF r
  <2>4. r \in Runes /\ Fits8(r)
    BY <2>3, SMT
  <2>5. r \in Nat /\ r >= 128 /\ r \notin Surrogates
    BY <2>4, StringCodecAssumption, SMT
  <2>6. Len(UTF8(r)) \in 2..4
    BY <2>5, UTF8Bytes, SMT
  <2> DEFINE n == Len(UTF8(r))
  <2>7. SubSeq(s, i, i + n - 1) = UTF8(r) /\ i + n - 1 <= Len(s) /\ n \in 2..4 /\ RuneAt(s, i).size = n
    BY <2>2, <2>4, <2>6
  <2> HIDE DEF n
  <2>8. i \in Nat /\ Len(s) \in Nat
    OBVIOUS
  <2>9. n \in Nat /\ n >= 1 /\ n # 1 /\ i + n <= Len(s) + 1
    BY <2>7, <2>8, SMT
  <2> QED BY <2>2, <2>5, <2>7, <2>9
<1> QED BY <1>1, <1>2

LEMMA SafeIsPlain ==
  ASSUME NEW html \in BOOLEAN, NEW b \in SafeSet(html)
  PROVE  b \in Nat /\ b >= 32 /\ b \notin {Quote, Backslash}
  BY DEF SafeSet

\* Each piece is one unit, or several bytes that mean themselves.
LEMMA PieceIs ==
  ASSUME NEW s \in Seq(Nat), NEW html \in BOOLEAN, NEW i \in 1..Len(s)
  PROVE  /\ Piece(s, html, i) \in Seq(Nat) /\ Said(s, html, i) \in Seq(Nat)
         /\ After(s, html, i) \in 1..(Len(s) + 1) /\ After(s, html, i) > i
         /\ \/ Piece(s, html, i) # <<>> /\ IsUnit(Piece(s, html, i), Said(s, html, i))
            \/ /\ Said(s, html, i) = Piece(s, html, i)
               /\ \A k \in 1..Len(Piece(s, html, i)) :
                    Piece(s, html, i)[k] >= 32 /\ Piece(s, html, i)[k] \notin {Quote, Backslash}
<1>0. s[i] \in Nat /\ i \in Nat /\ Len(s) \in Nat /\ i <= Len(s)
  OBVIOUS
<1>1. ASSUME NEW b \in Nat, b >= 32, b \notin {Quote, Backslash}
      PROVE  <<b>> \in Seq(Nat) /\ <<b>> # <<>> /\ IsUnit(<<b>>, <<b>>)
  BY <1>1 DEF IsUnit
<1>2. CASE s[i] < 128 /\ s[i] \in SafeSet(html)
  <2>1. Piece(s, html, i) = <<s[i]>> /\ Said(s, html, i) = <<s[i]>> /\ After(s, html, i) = i + 1
    BY <1>2 DEF Piece, Said, After
  <2>2. s[i] >= 32 /\ s[i] \notin {Quote, Backslash}
    BY <1>2, SafeIsPlain
  <2>3. i + 1 \in 1..(Len(s) + 1) /\ i + 1 > i
    BY <1>0
  <2> QED BY <1>0, <1>1, <2>1, <2>2, <2>3
<1>3. CASE s[i] < 128 /\ s[i] \notin SafeSet(html)
  <2>1. Piece(s, html, i) = EscapeByte(s[i]) /\ Said(s, html, i) = <<s[i]>> /\ After(s, html, i) = i + 1
    BY <1>3 DEF Piece, Said, After
  <2>2. s[i] \in 0..127 /\ i + 1 \in 1..(Len(s) + 1) /\ i + 1 > i /\ <<s[i]>> \in Seq(Nat)
    <3>1. s[i] \in 0..127
      <4> DEFINE b == s[i]
      <4>1. b \in Nat /\ b < 128
        BY <1>0, <1>3
      <4> HIDE DEF b
      <4>2. b \in 0..127
        BY <4>1
      <4> QED BY <4>2 DEF b
    <3>2. i + 1 \in 1..(Len(s) + 1) /\ i + 1 > i /\ <<s[i]>> \in Seq(Nat)
      BY <1>0
    <3> QED BY <3>1, <3>2
  <2> QED BY <2>1, <2>2, EscapeIsUnit
<1>4. CASE ~(s[i] < 128) /\ ~html
  <2>1. Piece(s, html, i) = <<s[i]>> /\ Said(s, html, i) = <<s[i]>> /\ After(s, html, i) = i + 1
    BY <1>4 DEF Piece, Said, After
  <2>2. s[i] >= 32 /\ s[i] \notin {Quote, Backslash} /\ i + 1 \in 1..(Len(s) + 1) /\ i + 1 > i
    BY <1>0, <1>4 DEF Quote, Backslash
  <2> QED BY <1>0, <1>1, <2>1, <2>2
<1>5. CASE ~(s[i] < 128) /\ html
  <2> DEFINE d == RuneAt(s, i)
  <2>1. Piece(s, html, i) = WriteRune(s, i, d) /\ Said(s, html, i) = UTF8(d.rune) /\ After(s, html, i) = i + d.size
    BY <1>5 DEF Piece, Said, After
  <2>2. /\ d.rune \in Nat /\ d.rune \notin Surrogates
        /\ d.size \in Nat /\ d.size >= 1 /\ i + d.size <= Len(s) + 1
        /\ d.size = 1 => d.rune = RuneError
        /\ d.size # 1 => d.rune >= 128 /\ SubSeq(s, i, i + d.size - 1) = UTF8(d.rune)
    BY RuneAtIs
  <2> HIDE DEF d
  <2>3. i + d.size \in 1..(Len(s) + 1) /\ i + d.size > i
    BY <1>0, <2>2, SMT
  <2>4. UTF8(d.rune) \in Seq(Nat)
    BY <2>2, UTF8Bytes
  <2>5. CASE d.size = 1
    <3> DEFINE u == <<Backslash, U, 102, 102, 102, 100>>
    <3>0. d.rune \notin {8232, 8233}
      BY <2>2, <2>5, SMT DEF RuneError
    <3>1. WriteRune(s, i, d) = u
      BY <2>5, <3>0, SMT DEF WriteRune
    <3>2. /\ u \in Seq(Nat) /\ u # <<>> /\ Len(u) = 6 /\ u[1] = Backslash /\ u[2] = U
          /\ u[2 + 1] = 102 /\ u[2 + 2] = 102 /\ u[2 + 3] = 102 /\ u[2 + 4] = 100
      BY DEF Backslash, U
    <3>3. HexValue(102) = 15 /\ HexValue(100) = 13
      BY DEF HexValue
    <3> HIDE DEF u
    <3>4. IsHex(u, 2)
      <4>1. \A k \in 1..4 : k = 1 \/ k = 2 \/ k = 3 \/ k = 4
        OBVIOUS
      <4> QED BY <3>2, <3>3, <4>1 DEF IsHex
    <3>5. RuneOf(u, 2) = d.rune
      <4>1. RuneOf(u, 2) = 4096 * 15 + 256 * 15 + 16 * 15 + 13
        BY <3>2, <3>3 DEF RuneOf
      <4> QED BY <2>2, <2>5, <4>1, SMT DEF RuneError
    <3>6. IsUnit(u, UTF8(d.rune))
      BY <2>2, <3>2, <3>4, <3>5 DEF IsUnit
    <3> QED BY <2>1, <2>3, <2>4, <3>1, <3>2, <3>6
  <2>6. CASE d.size # 1 /\ d.rune \in {8232, 8233}
    <3> DEFINE x == Hex(d.rune % 16)
               u == <<Backslash, U, 50, 48, 50, x>>
    <3>1. WriteRune(s, i, d) = u
      BY <2>6, SMT DEF WriteRune
    <3>2. d.rune % 16 \in 0..15 /\ d.rune % 16 = d.rune - 8224
      BY <2>6, SMT
    <3>3. x \in Nat /\ HexValue(x) = d.rune % 16
      <4> DEFINE r == d.rune % 16
      <4>1. r \in 0..15
        BY <3>2
      <4> HIDE DEF r
      <4>2. Hex(r) \in Nat /\ HexValue(Hex(r)) = r
        BY <4>1, HexIsRead
      <4> QED BY <4>2 DEF r
    <3> HIDE DEF x
    <3>4. /\ u \in Seq(Nat) /\ u # <<>> /\ Len(u) = 6 /\ u[1] = Backslash /\ u[2] = U
          /\ u[2 + 1] = 50 /\ u[2 + 2] = 48 /\ u[2 + 3] = 50 /\ u[2 + 4] = x
      BY <3>3 DEF Backslash, U
    <3>5. HexValue(50) = 2 /\ HexValue(48) = 0
      BY DEF HexValue
    <3> HIDE DEF u
    <3>6. IsHex(u, 2)
      <4>1. \A k \in 1..4 : k = 1 \/ k = 2 \/ k = 3 \/ k = 4
        OBVIOUS
      <4>2. HexValue(x) >= 0
        BY <3>2, <3>3
      <4> QED BY <3>4, <3>5, <4>1, <4>2 DEF IsHex
    <3>7. RuneOf(u, 2) = d.rune
      <4>0. HexValue(x) = d.rune - 8224
        BY <3>2, <3>3
      <4>1. RuneOf(u, 2) = 4096 * 2 + 256 * 0 + 16 * 2 + (d.rune - 8224)
        BY <3>4, <3>5, <4>0, SMTT(60) DEF RuneOf
      <4> QED BY <2>2, <4>1, SMT
    <3>8. IsUnit(u, UTF8(d.rune))
      BY <2>2, <3>4, <3>6, <3>7 DEF IsUnit
    <3> QED BY <2>1, <2>3, <2>4, <3>1, <3>4, <3>8
  <2>7. CASE d.size # 1 /\ d.rune \notin {8232, 8233}
    <3>1. WriteRune(s, i, d) = UTF8(d.rune)
      BY <2>2, <2>7, SMT DEF WriteRune
    <3> DEFINE u == UTF8(d.rune)
    <3>2. Len(u) \in 2..4 /\ \A k \in 1..Len(u) : u[k] >= 128
      <4> DEFINE r == d.rune
      <4>1. r \in Nat /\ r >= 128
        BY <2>2, <2>7
      <4> HIDE DEF r
      <4>2. Len(UTF8(r)) \in 2..4 /\ \A k \in 1..Len(UTF8(r)) : UTF8(r)[k] >= 128
        BY <4>1, UTF8Bytes
      <4> QED BY <4>2 DEF r
    <3> HIDE DEF u
    <3>3. \A k \in 1..Len(u) : u[k] >= 32 /\ u[k] \notin {Quote, Backslash}
      <4>1. \A k \in 1..Len(u) : u[k] \in Nat
        BY <2>4 DEF u
      <4> QED BY <3>2, <4>1 DEF Quote, Backslash
    <3> QED BY <2>1, <2>3, <2>4, <3>1, <3>3 DEF u
  <2> QED BY <2>5, <2>6, <2>7
<1> QED BY <1>2, <1>3, <1>4, <1>5

\* WriteString piece by piece,
LEMMA WriteStringIs ==
  ASSUME NEW s \in Seq(Nat), NEW html \in BOOLEAN
  PROVE  \E w : /\ WriteString(s, html) = w[1] /\ w[Len(s) + 1] = <<Quote>>
                /\ \A i \in 1..Len(s) : w[i] = Piece(s, html, i) \o w[After(s, html, i)]
<1> DEFINE n == Len(s)
           IsWriter(f) ==
             f = [i \in 1..(Len(s) + 1) |->
                    LET d == RuneAt(s, i) IN
                    CASE i > Len(s) -> <<Quote>>
                      [] i <= Len(s) /\ s[i] < 128 ->
                           (IF s[i] \in SafeSet(html) THEN <<s[i]>> ELSE EscapeByte(s[i])) \o f[i + 1]
                      [] OTHER -> IF html THEN WriteRune(s, i, d) \o f[i + d.size] ELSE <<s[i]>> \o f[i + 1]]
           w == CHOOSE f : IsWriter(f)
           Body(f, i) ==
             LET d == RuneAt(s, i) IN
             CASE i > Len(s) -> <<Quote>>
               [] i <= Len(s) /\ s[i] < 128 ->
                    (IF s[i] \in SafeSet(html) THEN <<s[i]>> ELSE EscapeByte(s[i])) \o f[i + 1]
               [] OTHER -> IF html THEN WriteRune(s, i, d) \o f[i + d.size] ELSE <<s[i]>> \o f[i + 1]
           c == [i \in 1..n |-> Piece(s, html, i)]
           p == [i \in 1..n |-> After(s, html, i)]
<1>1. n \in Nat /\ n + 1 > n /\ n + 1 \in 1..(n + 1) /\ \A i \in 1..n : i \in 1..(n + 1) /\ i <= n /\ ~(i > n) /\ s[i] \in Nat
  OBVIOUS
<1>2. \A f : Body(f, n + 1) = <<Quote>>
  <2>1. n + 1 > Len(s) /\ ~(n + 1 <= Len(s))
    BY <1>1
  <2> HIDE DEF n
  <2> QED BY <2>1
<1>3. ASSUME NEW f, NEW i \in 1..n PROVE Body(f, i) = Piece(s, html, i) \o f[After(s, html, i)]
  <2>1. CASE s[i] < 128
    <3>1. Piece(s, html, i) = (IF s[i] \in SafeSet(html) THEN <<s[i]>> ELSE EscapeByte(s[i])) /\ After(s, html, i) = i + 1
      BY <2>1 DEF Piece, After
    <3>2. Body(f, i) = (IF s[i] \in SafeSet(html) THEN <<s[i]>> ELSE EscapeByte(s[i])) \o f[i + 1]
      BY <1>1, <2>1
    <3> QED BY <3>1, <3>2
  <2>2. CASE ~(s[i] < 128) /\ html
    BY <1>1, <2>2 DEF Piece, After
  <2>3. CASE ~(s[i] < 128) /\ ~html
    BY <1>1, <2>3 DEF Piece, After
  <2> QED BY <2>1, <2>2, <2>3
<1>4. \E f : IsWriter(f)
  <2>1. /\ c \in [1..n -> Seq(Nat)] /\ p \in [1..n -> 1..(n + 1)] /\ (\A i \in 1..n : p[i] > i)
        /\ \A i \in 1..n : c[i] = Piece(s, html, i) /\ p[i] = After(s, html, i)
    BY PieceIs
  <2>2. <<Quote>> \in Seq(Nat)
    BY DEF Quote
  <2> HIDE DEF c, p, n
  <2>3. PICK f \in [1..(n + 1) -> Seq(Nat)] : f[n + 1] = <<Quote>> /\ \A i \in 1..n : f[i] = c[i] \o f[p[i]]
    <3>1. n \in Nat
      BY <1>1
    <3> DEFINE b == <<Quote>>
    <3>2. b \in Seq(Nat)
      BY <2>2
    <3> HIDE DEF b
    <3>3. \E f : FromEnd(f, n, c, p, b)
      BY <2>1, <3>1, <3>2, SuffixRecursion
    <3> QED BY <3>3 DEF b, FromEnd
  <2> HIDE DEF Body
  <2>4. ASSUME NEW i \in 1..(n + 1) PROVE f[i] = Body(f, i)
    <3>1. CASE i = n + 1
      BY <1>2, <2>3, <3>1
    <3>2. CASE i # n + 1
      <4>1. i \in 1..n
        BY <1>1, <3>2
      <4>2. f[i] = c[i] \o f[p[i]] /\ c[i] = Piece(s, html, i) /\ p[i] = After(s, html, i)
        BY <2>1, <2>3, <4>1
      <4> QED BY <1>3, <4>1, <4>2
    <3> QED BY <3>1, <3>2
  <2>5. f = [i \in 1..(n + 1) |-> Body(f, i)]
    BY <2>3, <2>4
  <2>6. IsWriter(f)
    BY <2>5, Zenon DEF Body, n
  <2> QED BY <2>6
<1>5. IsWriter(w)
  <2> HIDE DEF IsWriter
  <2> QED BY <1>4
<1>6. WriteString(s, html) = w[1]
  BY DEF WriteString
<1> HIDE DEF w
<1>7. w = [i \in 1..(n + 1) |-> Body(w, i)]
  BY <1>5, Zenon
<1> HIDE DEF Body
<1>8. \A i \in 1..(n + 1) : w[i] = Body(w, i)
  <2> HIDE DEF n
  <2> QED BY <1>7
<1>9. w[n + 1] = <<Quote>> /\ \A i \in 1..n : w[i] = Piece(s, html, i) \o w[After(s, html, i)]
  <2> HIDE DEF n
  <2> QED BY <1>1, <1>2, <1>3, <1>8
<1> QED BY <1>6, <1>9

\* and what it stands for with escaped HTML,
LEMMA SanitizedIs ==
  ASSUME NEW s \in Seq(Nat)
  PROVE  \E w : /\ Sanitized(s) = w[1] /\ w[Len(s) + 1] = <<>>
                /\ \A i \in 1..Len(s) : w[i] = Said(s, TRUE, i) \o w[After(s, TRUE, i)]
<1> DEFINE n == Len(s)
           IsWriter(f) ==
             f = [i \in 1..(Len(s) + 1) |->
                    LET d == RuneAt(s, i) IN
                    CASE i > Len(s) -> <<>>
                      [] i <= Len(s) /\ s[i] < 128 -> <<s[i]>> \o f[i + 1]
                      [] OTHER -> UTF8(d.rune) \o f[i + d.size]]
           w == CHOOSE f : IsWriter(f)
           Body(f, i) ==
             LET d == RuneAt(s, i) IN
             CASE i > Len(s) -> <<>>
               [] i <= Len(s) /\ s[i] < 128 -> <<s[i]>> \o f[i + 1]
               [] OTHER -> UTF8(d.rune) \o f[i + d.size]
           c == [i \in 1..n |-> Said(s, TRUE, i)]
           p == [i \in 1..n |-> After(s, TRUE, i)]
<1>1. n \in Nat /\ n + 1 > n /\ n + 1 \in 1..(n + 1) /\ \A i \in 1..n : i \in 1..(n + 1) /\ i <= n /\ ~(i > n) /\ s[i] \in Nat
  OBVIOUS
<1>2. \A f : Body(f, n + 1) = <<>>
  BY <1>1
<1>3. ASSUME NEW f, NEW i \in 1..n PROVE Body(f, i) = Said(s, TRUE, i) \o f[After(s, TRUE, i)]
  <2>1. CASE s[i] < 128
    BY <1>1, <2>1 DEF Said, After
  <2>2. CASE ~(s[i] < 128)
    BY <1>1, <2>2 DEF Said, After
  <2> QED BY <2>1, <2>2
<1>4. \E f : IsWriter(f)
  <2>1. /\ c \in [1..n -> Seq(Nat)] /\ p \in [1..n -> 1..(n + 1)] /\ (\A i \in 1..n : p[i] > i)
        /\ \A i \in 1..n : c[i] = Said(s, TRUE, i) /\ p[i] = After(s, TRUE, i)
    BY PieceIs
  <2>2. <<>> \in Seq(Nat)
    OBVIOUS
  <2> HIDE DEF c, p, n
  <2>3. PICK f \in [1..(n + 1) -> Seq(Nat)] : f[n + 1] = <<>> /\ \A i \in 1..n : f[i] = c[i] \o f[p[i]]
    <3>1. n \in Nat
      BY <1>1
    <3> DEFINE b == <<>>
    <3>2. b \in Seq(Nat)
      BY <2>2
    <3> HIDE DEF b
    <3>3. \E f : FromEnd(f, n, c, p, b)
      BY <2>1, <3>1, <3>2, SuffixRecursion
    <3> QED BY <3>3 DEF b, FromEnd
  <2> HIDE DEF Body
  <2>4. ASSUME NEW i \in 1..(n + 1) PROVE f[i] = Body(f, i)
    <3>1. CASE i = n + 1
      BY <1>2, <2>3, <3>1
    <3>2. CASE i # n + 1
      <4>1. i \in 1..n
        BY <1>1, <3>2
      <4>2. f[i] = c[i] \o f[p[i]] /\ c[i] = Said(s, TRUE, i) /\ p[i] = After(s, TRUE, i)
        BY <2>1, <2>3, <4>1
      <4> QED BY <1>3, <4>1, <4>2
    <3> QED BY <3>1, <3>2
  <2>5. f = [i \in 1..(n + 1) |-> Body(f, i)]
    BY <2>3, <2>4
  <2>6. IsWriter(f)
    BY <2>5, Zenon DEF Body, n
  <2> QED BY <2>6
<1>5. IsWriter(w)
  <2> HIDE DEF IsWriter
  <2> QED BY <1>4
<1>6. Sanitized(s) = w[1]
  BY DEF Sanitized
<1> HIDE DEF w
<1>7. w = [i \in 1..(n + 1) |-> Body(w, i)]
  BY <1>5, Zenon
<1> HIDE DEF Body
<1>8. \A i \in 1..(n + 1) : w[i] = Body(w, i)
  <2> DEFINE g == [i \in 1..(n + 1) |-> Body(w, i)]
  <2>1. w = g
    BY <1>7
  <2>2. ASSUME NEW i \in 1..(n + 1) PROVE w[i] = Body(w, i)
    <3>1. g[i] = Body(w, i)
      OBVIOUS
    <3> HIDE DEF g
    <3>2. w[i] = g[i]
      BY <2>1
    <3> QED BY <3>1, <3>2
  <2> DEFINE D == 1..(n + 1)
  <2>3. \A i \in D : w[i] = Body(w, i)
    BY <2>2
  <2> QED BY <2>3 DEF D
<1>9. w[n + 1] = <<>> /\ \A i \in 1..n : w[i] = Said(s, TRUE, i) \o w[After(s, TRUE, i)]
  <2> HIDE DEF n
  <2> QED BY <1>1, <1>2, <1>3, <1>8
<1> QED BY <1>6, <1>9

\* or without: the string itself.
Meaning(s, html) == IF html THEN Sanitized(s) ELSE s

LEMMA MeaningIs ==
  ASSUME NEW s \in Seq(Nat), NEW html \in BOOLEAN
  PROVE  \E w : /\ Meaning(s, html) = w[1] /\ w[Len(s) + 1] = <<>>
                /\ \A i \in 1..Len(s) : w[i] = Said(s, html, i) \o w[After(s, html, i)]
<1>1. CASE html
  <2>1. html = TRUE /\ Meaning(s, html) = Sanitized(s)
    BY <1>1 DEF Meaning
  <2> QED BY <2>1, SanitizedIs
<1>2. CASE ~html
  <2> DEFINE n == Len(s)
             w == [i \in 1..(n + 1) |-> SubSeq(s, i, n)]
  <2>1. n \in Nat /\ 1 \in 1..(n + 1) /\ n + 1 \in 1..(n + 1) /\ \A i \in 1..n : i + 1 \in 1..(n + 1) /\ i \in 1..(n + 1) /\ n \in i..n
    OBVIOUS
  <2>2. w[1] = s
    BY <2>1, SubSeqFull
  <2>3. w[n + 1] = <<>>
    <3>1. n + 1 \in Int /\ n \in Int /\ n < n + 1
      BY <2>1
    <3> QED BY <2>1, <3>1, SubSeqEmpty
  <2>4. ASSUME NEW i \in 1..n PROVE w[i] = Said(s, html, i) \o w[After(s, html, i)]
    <3>1. Said(s, html, i) = <<s[i]>> /\ After(s, html, i) = i + 1
      BY <1>2 DEF Said, After
    <3>2. SubSeq(s, i, n) = <<s[i]>> \o SubSeq(s, i + 1, n)
      BY <2>1, SubSeqRecursiveFirst
    <3> QED BY <2>1, <3>1, <3>2
  <2>5. Meaning(s, html) = s
    BY <1>2 DEF Meaning
  <2> HIDE DEF w
  <2> QED BY <2>2, <2>3, <2>4, <2>5
<1> QED BY <1>1, <1>2

LEMMA NothingWritten == Decodable(<<Quote>>, <<>>)
<1> DEFINE t == <<Quote>>
           m == [i \in {0} |-> <<>>]
<1>1. t \in Seq(Nat) /\ Len(t) = 1 /\ t[1] = Quote
  BY DEF Quote
<1>2. m \in [{0} -> Seq(Nat)] /\ m[0] = <<>>
  OBVIOUS
<1> HIDE DEF t, m
<1>3. Len(t) - 1 = 0 /\ 0 \in Nat /\ {0} \in SUBSET (0..0) /\ 0 \in {0} /\ 0 < Len(t) /\ 0 + 1 = 1 /\ {0} \ {0} = {}
  BY <1>1
<1>4. Decodes(t, 0, {0}, m)
  BY <1>1, <1>2, <1>3 DEF Decodes
<1>5. Decodes(t, Len(t) - 1, {0}, m) /\ m[0] = <<>>
  BY <1>2, <1>3, <1>4
<1>6. Decodable(t, <<>>)
  BY <1>5 DEF Decodable
<1> QED BY <1>6 DEF t

\* Whatever the bytes of a string are, its text means the string.
LEMMA WrittenIsDecodable ==
  ASSUME NEW s \in Seq(Nat), NEW html \in BOOLEAN
  PROVE  Decodable(WriteString(s, html), Meaning(s, html))
<1> DEFINE n == Len(s)
           u(i) == Piece(s, html, i)
           v(i) == Said(s, html, i)
           p(i) == After(s, html, i)
<1>1. n \in Nat
  OBVIOUS
<1>2. PICK w : /\ WriteString(s, html) = w[1] /\ w[n + 1] = <<Quote>>
               /\ \A i \in 1..n : w[i] = u(i) \o w[p(i)]
  BY WriteStringIs
<1>3. PICK x : /\ Meaning(s, html) = x[1] /\ x[n + 1] = <<>>
               /\ \A i \in 1..n : x[i] = v(i) \o x[p(i)]
  BY MeaningIs
<1>4. \A i \in 1..n : /\ u(i) \in Seq(Nat) /\ v(i) \in Seq(Nat) /\ p(i) \in 1..(n + 1) /\ p(i) > i
                      /\ \/ u(i) # <<>> /\ IsUnit(u(i), v(i))
                         \/ v(i) = u(i) /\ \A k \in 1..Len(u(i)) : u(i)[k] >= 32 /\ u(i)[k] \notin {Quote, Backslash}
  BY PieceIs
<1> HIDE DEF n, u, v, p
<1> DEFINE T == {k \in 0..n : Decodable(w[n + 1 - k], x[n + 1 - k])}
<1>5. ASSUME NEW k \in 0..n, \A j \in 0..n : j < k => j \in T PROVE k \in T
  <2>1. CASE k = 0
    <3>1. n + 1 - 0 = n + 1
      BY <1>1
    <3>2. Decodable(w[n + 1], x[n + 1])
      BY <1>2, <1>3, NothingWritten
    <3> QED BY <2>1, <3>1, <3>2
  <2>2. CASE k # 0
    <3> DEFINE i == n + 1 - k
               a == w[p(i)]
               b == x[p(i)]
    <3>1. i \in 1..n
      BY <1>1, <2>2
    <3>2. p(i) \in 1..(n + 1) /\ p(i) > i
      BY <1>4, <3>1
    <3>3. n + 1 - p(i) \in 0..n /\ n + 1 - p(i) < k /\ n + 1 - (n + 1 - p(i)) = p(i)
      <4> DEFINE j == p(i)
      <4>1. j \in 1..(n + 1) /\ j > i
        BY <3>2
      <4> HIDE DEF j
      <4>2. n + 1 - j \in 0..n /\ n + 1 - j < k /\ n + 1 - (n + 1 - j) = j
        BY <1>1, <4>1
      <4> QED BY <4>2 DEF j
    <3>4. n + 1 - p(i) \in T
      BY <1>5, <3>3
    <3>5. Decodable(a, b)
      BY <3>3, <3>4
    <3>6. w[i] = u(i) \o a /\ x[i] = v(i) \o b
      BY <1>2, <1>3, <3>1
    <3> DEFINE y == u(i)
               z == v(i)
    <3>7. /\ y \in Seq(Nat) /\ z \in Seq(Nat)
          /\ \/ y # <<>> /\ IsUnit(y, z)
             \/ z = y /\ \A l \in 1..Len(y) : y[l] >= 32 /\ y[l] \notin {Quote, Backslash}
      BY <1>4, <3>1
    <3> HIDE DEF y, z, a, b
    <3>8. Decodable(y \o a, z \o b)
      <4>1. CASE y # <<>> /\ IsUnit(y, z)
        BY <3>5, <3>7, <4>1, Prepend
      <4>2. CASE z = y /\ \A l \in 1..Len(y) : y[l] >= 32 /\ y[l] \notin {Quote, Backslash}
        <5>1. Decodable(y \o a, y \o b)
          BY <3>5, <3>7, <4>2, PrependPlain
        <5> QED BY <4>2, <5>1
      <4> QED BY <3>7, <4>1, <4>2
    <3>9. Decodable(w[i], x[i])
      BY <3>6, <3>8 DEF y, z
    <3> QED BY <3>9
  <2> QED BY <2>1, <2>2
<1>6. 0..n \subseteq T
  <2>1. 0..n \in SUBSET Nat
    BY <1>1
  <2> HIDE DEF T
  <2> QED BY <1>5, <2>1, StrongInduction
<1>7. n \in T /\ n + 1 - n = 1
  <2>1. n \in 0..n
    BY <1>1
  <2> HIDE DEF T
  <2> QED BY <1>1, <1>6, <2>1
<1>8. Decodable(w[1], x[1])
  BY <1>7
<1> QED BY <1>2, <1>3, <1>8

----------------------------------------------------------------------------
(* Runs of bytes.                                                          *)

LEMMA FirstOfIs ==
  ASSUME NEW T \in SUBSET Nat, T # {}
  PROVE  FirstOf(T) \in T /\ \A k \in T : FirstOf(T) <= k
<1>1. \E k \in T : \A j \in T : k <= j
  BY LeastNumber
<1> QED BY <1>1 DEF FirstOf

NoBackslash(t, h, j) == \A k \in 1..(j - h) : t[h + k] # Backslash

Run(t, h, j, P, m) ==
  /\ j \in P
  /\ SubSeq(t, h + 1, j) \in Seq(Nat)
  /\ m[h] = SubSeq(t, h + 1, j) \o m[j]

\* Bytes that are not escaped mean themselves,
LEMMA PlainRun ==
  ASSUME NEW t, NEW e, NEW P, NEW m, Decodes(t, e, P, m),
         NEW h \in P, NEW j \in Nat, h <= j, j <= e, NoBackslash(t, h, j)
  PROVE  Run(t, h, j, P, m)
<1>1. /\ e \in Nat /\ P \in SUBSET (0..e) /\ 0 \in P /\ e \in P
      /\ t \in Seq(Nat) /\ Len(t) \in Nat /\ e < Len(t) /\ t[e + 1] = Quote
      /\ m \in [P -> Seq(Nat)] /\ m[e] = <<>>
      /\ \A i \in P \ {e} : Plain(t, i, P, m) \/ Short(t, i, P, m) \/ Long(t, i, P, m)
  BY DecodesFacts
<1>2. h \in Nat /\ h <= e
  BY <1>1
<1> DEFINE n == j - h
           W(k) == SubSeq(t, h + 1, h + k)
           T == {k \in 0..n : h + k \in P /\ m[h] = W(k) \o m[h + k]}
<1>3. n \in Nat /\ h + n = j /\ h + 0 = h /\ \A k \in 0..n : h + k \in Nat /\ h <= h + k /\ h + k <= j /\ h + k <= Len(t)
  BY <1>1, <1>2
<1>4. \A k \in 0..n : W(k) \in Seq(Nat)
  BY <1>1, <1>2, <1>3, WindowIs
<1>5. 0 \in T
  <2>1. W(0) = <<>>
    <3>1. h + 1 \in Int /\ h \in Int /\ h < h + 1
      BY <1>2
    <3> QED BY <1>3, <3>1, SubSeqEmpty
  <2>2. m[h] \in Seq(Nat)
    BY <1>1
  <2>3. <<>> \o m[h] = m[h]
    BY <2>2, ConcatEmptySeq
  <2>4. 0 \in 0..n
    BY <1>3
  <2>5. h + 0 \in P /\ m[h] = W(0) \o m[h + 0]
    <3> HIDE DEF W
    <3> QED BY <1>3, <2>1, <2>3
  <2> QED BY <2>4, <2>5
<1>6. ASSUME NEW k \in 0..(n - 1), k \in T PROVE k + 1 \in T
  <2> DEFINE i == h + k
  <2>1. k \in 0..n /\ k + 1 \in 0..n /\ k + 1 \in 1..n /\ i \in Nat /\ h <= i /\ i < e /\ i < Len(t) /\ h + (k + 1) = i + 1
    BY <1>1, <1>2, <1>3
  <2>2. i \in P \ {e}
    BY <1>6, <2>1
  <2>3. t[i + 1] # Backslash
    <3>1. t[h + (k + 1)] # Backslash
      <4> HIDE DEF i
      <4> QED BY <2>1 DEF NoBackslash
    <3> QED BY <2>1, <3>1
  <2>4. Plain(t, i, P, m)
    BY <1>1, <2>2, <2>3 DEF Short, Long
  <2>5. i + 1 \in P /\ m[i] = <<t[i + 1]>> \o m[i + 1]
    BY <2>4 DEF Plain
  <2>6. W(k + 1) = Append(W(k), t[i + 1])
    <3>1. SubSeq(t, h + 1, i + 1) = Append(SubSeq(t, h + 1, i), t[i + 1])
      <4> HIDE DEF i
      <4> QED BY <1>1, <1>2, <2>1, WindowGrows
    <3> QED BY <2>1, <3>1
  <2>7. t[i + 1] \in Nat /\ m[i + 1] \in Seq(Nat) /\ W(k) \in Seq(Nat)
    <3>1. t[i + 1] \in Nat
      <4>1. i + 1 \in 1..Len(t)
        BY <2>1, <1>1
      <4> HIDE DEF i
      <4> QED BY <1>1, <4>1, ByteIs
    <3> QED BY <1>1, <1>4, <2>1, <2>5, <3>1
  <2> DEFINE x == t[i + 1]
             y == m[i + 1]
             w == W(k)
  <2>8. w \o (<<x>> \o y) = Append(w, x) \o y
    <3>1. x \in Nat /\ y \in Seq(Nat) /\ w \in Seq(Nat)
      BY <2>7
    <3> HIDE DEF x, y, w
    <3> QED BY <3>1, ConcatCons
  <2>9. m[h] = w \o m[i]
    BY <1>6
  <2>10. m[h] = Append(w, x) \o y
    BY <2>5, <2>8, <2>9
  <2> HIDE DEF i, W
  <2>11. m[h] = W(k + 1) \o m[h + (k + 1)] /\ h + (k + 1) \in P
    BY <2>1, <2>5, <2>6, <2>10
  <2> QED BY <2>1, <2>11
<1>7. 0..n \subseteq T
  <2> HIDE DEF T, n
  <2> QED BY <1>3, <1>5, <1>6, BoundedInduction
<1>8. n \in T /\ n \in 0..n
  <2> HIDE DEF T, n
  <2>1. n \in 0..n
    BY <1>3
  <2> QED BY <1>7, <2>1
<1>9. h + n \in P /\ m[h] = W(n) \o m[h + n] /\ W(n) \in Seq(Nat)
  BY <1>4, <1>8
<1>10. j \in P /\ SubSeq(t, h + 1, j) \in Seq(Nat) /\ m[h] = SubSeq(t, h + 1, j) \o m[j]
  <2> HIDE DEF n
  <2> QED BY <1>3, <1>9
<1> HIDE DEF n, W, T
<1> QED BY <1>10 DEF Run

\* and a run of those ends at the closing quote at the latest.
LEMMA RunEnds ==
  ASSUME NEW t, NEW e, NEW P, NEW m, Decodes(t, e, P, m),
         NEW h \in P, NEW j \in Nat, h <= j,
         \A k \in 1..(j - h) : t[h + k] # Quote
  PROVE  j <= e
<1>1. e \in Nat /\ P \in SUBSET (0..e) /\ t[e + 1] = Quote
  BY DecodesFacts
<1>2. SUFFICES ASSUME e < j PROVE FALSE
  BY <1>1
<1>3. h \in Nat /\ h <= e
  BY <1>1
<1>4. e + 1 - h \in 1..(j - h) /\ h + (e + 1 - h) = e + 1
  BY <1>1, <1>2, <1>3
<1> QED BY <1>1, <1>4

\* What is at a place: a quote only at the end, and never less than a space.
LEMMA AtPlace ==
  ASSUME NEW t, NEW e, NEW P, NEW m, Decodes(t, e, P, m), NEW j \in P
  PROVE  /\ j \in Nat /\ j <= e /\ j + 1 \in 1..Len(t) /\ t[j + 1] >= 32
         /\ t[j + 1] = Quote <=> j = e
         /\ t[j + 1] = Backslash => j # e /\ (Short(t, j, P, m) \/ Long(t, j, P, m))
         /\ t[j + 1] \notin {Quote, Backslash} => j # e /\ Plain(t, j, P, m)
<1>1. /\ e \in Nat /\ P \in SUBSET (0..e) /\ t[e + 1] = Quote
      /\ t \in Seq(Nat) /\ Len(t) \in Nat /\ e < Len(t)
      /\ \A i \in P \ {e} : Plain(t, i, P, m) \/ Short(t, i, P, m) \/ Long(t, i, P, m)
  BY DecodesFacts
<1>2. j \in Nat /\ j <= e /\ j + 1 \in 1..Len(t)
  BY <1>1
<1>3. Quote # Backslash /\ Quote >= 32 /\ Backslash >= 32
  BY DEF Quote, Backslash
<1>4. CASE j = e
  BY <1>1, <1>2, <1>3, <1>4
<1>5. CASE j # e
  <2>1. Plain(t, j, P, m) \/ Short(t, j, P, m) \/ Long(t, j, P, m)
    BY <1>1, <1>5
  <2>2. Plain(t, j, P, m) => t[j + 1] >= 32 /\ t[j + 1] \notin {Quote, Backslash}
    BY DEF Plain
  <2>3. Short(t, j, P, m) \/ Long(t, j, P, m) => t[j + 1] = Backslash
    BY DEF Short, Long
  <2> QED BY <1>2, <1>3, <1>5, <2>1, <2>2, <2>3
<1> QED BY <1>4, <1>5

\* Where a raw string is: behind a backslash, or at a place.
RawPlace(t, e, P, j, r) ==
  IF r THEN j >= 1 /\ j - 1 \in P \ {e} /\ t[j] = Backslash ELSE j \in P

\* A raw string stops at the closing quote, or behind a backslash that is not
\* followed by one byte only.
LEMMA RawRun ==
  ASSUME NEW t, NEW e, NEW P, NEW m, Decodes(t, e, P, m),
         NEW h \in Nat, NEW n \in Nat, NEW r,
         \A k \in 1..n : r[k] = (t[h + k] = Backslash /\ ~r[k - 1]),
         r[0] \in BOOLEAN, RawPlace(t, e, P, h, r[0]),
         \A k \in 1..n : ~(t[h + k] = Quote /\ ~r[k - 1]) /\ ~(t[h + k] \notin Escapes /\ r[k - 1])
  PROVE  r[n] \in BOOLEAN /\ RawPlace(t, e, P, h + n, r[n])
<1> DEFINE T == {k \in 0..n : r[k] \in BOOLEAN /\ RawPlace(t, e, P, h + k, r[k])}
<1>1. 0 \in T
  <2>1. h + 0 = h /\ 0 \in 0..n
    OBVIOUS
  <2> QED BY <2>1
<1>2. ASSUME NEW k \in 0..(n - 1), k \in T PROVE k + 1 \in T
  <2> DEFINE c == t[h + k + 1]
  <2>1. k \in Nat /\ k + 1 \in 0..n /\ k + 1 \in 1..n /\ (k + 1) - 1 = k /\ h + (k + 1) = h + k + 1
    OBVIOUS
  <2>2. /\ r[k + 1] = (c = Backslash /\ ~r[k])
        /\ ~(c = Quote /\ ~r[k]) /\ ~(c \notin Escapes /\ r[k])
    <3>1. t[h + (k + 1)] = c
      BY <2>1
    <3> HIDE DEF c
    <3> QED BY <2>1, <3>1
  <2>3. r[k] \in BOOLEAN /\ RawPlace(t, e, P, h + k, r[k])
    BY <1>2
  <2>4. CASE ~r[k]
    <3> DEFINE i == h + k
    <3>1. i \in P /\ c = t[i + 1] /\ c # Quote /\ r[k + 1] = (c = Backslash)
      BY <2>2, <2>3, <2>4 DEF RawPlace
    <3>2. i \in Nat /\ i # e
      BY <3>1, AtPlace
    <3> HIDE DEF i, c
    <3>3. CASE c = Backslash
      <4>1. RawPlace(t, e, P, i + 1, r[k + 1])
        <5>1. (i + 1) - 1 = i /\ i + 1 >= 1
          BY <3>2
        <5> QED BY <3>1, <3>2, <3>3, <5>1 DEF RawPlace
      <4> QED BY <2>1, <3>1, <4>1 DEF i
    <3>4. CASE c # Backslash
      <4>1. Plain(t, i, P, m)
        BY <3>1, <3>4, AtPlace
      <4>2. RawPlace(t, e, P, i + 1, r[k + 1])
        BY <3>1, <3>4, <4>1 DEF RawPlace, Plain
      <4> QED BY <2>1, <3>1, <4>2 DEF i
    <3> QED BY <3>3, <3>4
  <2>5. CASE r[k]
    <3> DEFINE i == h + k - 1
    <3>1. i \in P \ {e} /\ t[i + 1] = Backslash /\ t[i + 2] \in Escapes /\ r[k + 1] = FALSE
      <4>1. i + 1 = h + k /\ i + 2 = h + k + 1
        BY <2>1
      <4>2. h + k - 1 \in P \ {e} /\ t[h + k] = Backslash
        BY <2>3, <2>5 DEF RawPlace
      <4>3. t[i + 1] = Backslash
        BY <4>1, <4>2
      <4>4. t[i + 2] \in Escapes
        BY <2>2, <2>5, <4>1
      <4>5. r[k + 1] = FALSE
        <5> HIDE DEF c
        <5> QED BY <2>2, <2>5
      <4> QED BY <4>2, <4>3, <4>4, <4>5
    <3>2. i \in Nat
      BY <3>1, AtPlace
    <3>3. Short(t, i, P, m) \/ Long(t, i, P, m)
      <4> HIDE DEF i
      <4> QED BY <3>1, AtPlace
    <3>4. U \notin Escapes
      BY DEF U, Escapes, Quote, Backslash
    <3>5. i + 2 \in P
      BY <3>1, <3>3, <3>4 DEF Short, Long
    <3>6. h + (k + 1) = i + 2
      BY <2>1
    <3> HIDE DEF i
    <3>7. RawPlace(t, e, P, h + (k + 1), r[k + 1]) /\ r[k + 1] \in BOOLEAN
      BY <3>1, <3>5, <3>6 DEF RawPlace
    <3> QED BY <2>1, <3>7
  <2> QED BY <2>3, <2>4, <2>5
<1>3. 0..n \subseteq T
  <2> HIDE DEF T
  <2> QED BY <1>1, <1>2, BoundedInduction
<1>4. n \in 0..n
  OBVIOUS
<1> QED BY <1>3, <1>4

\* A digit of a rune.
LEMMA HexIsSmall == \A c : HexValue(c) >= 0 => HexValue(c) \in 0..15
<1> SUFFICES ASSUME NEW c, HexValue(c) >= 0 PROVE HexValue(c) \in 0..15
  OBVIOUS
<1>1. CASE c \in 48..57
  <2>1. HexValue(c) = c - 48
    BY <1>1 DEF HexValue
  <2> QED BY <1>1, <2>1
<1>2. CASE c \in 65..70
  <2>1. HexValue(c) = c - 55
    BY <1>2 DEF HexValue
  <2> QED BY <1>2, <2>1
<1>3. CASE c \in 97..102
  <2>1. HexValue(c) = c - 87
    BY <1>3 DEF HexValue
  <2> QED BY <1>3, <2>1
<1>4. CASE c \notin 48..57 /\ c \notin 65..70 /\ c \notin 97..102
  <2>1. HexValue(c) = -1
    BY <1>4 DEF HexValue
  <2> QED BY <2>1
<1> QED BY <1>1, <1>2, <1>3, <1>4

----------------------------------------------------------------------------
(* The inductive invariant, for a text that was written.                   *)

\* so many digits of the rune behind byte i have been read.
Digits(i, n) ==
  CASE n = 0 -> 0
    [] n = 1 -> HexValue(text[i + 1])
    [] n = 2 -> 16 * HexValue(text[i + 1]) + HexValue(text[i + 2])
    [] OTHER -> 256 * HexValue(text[i + 1]) + 16 * HexValue(text[i + 2]) + HexValue(text[i + 3])

\* in the middle of a rune,
InRune(P, m) ==
  /\ digits \in 0..3 /\ head - digits - 2 \in P
  /\ Long(text, head - digits - 2, P, m)
\* what a raw string has copied,
CopiedTo(h) ==
  reads # "skipString" =>
    sb = SubSeq(text, 1, h) /\ (~escape.has => \A i \in 1..h : text[i] # Backslash)
\* and what has been read, and will be, is the string.
SoFar(m, i) == sb \in Seq(Nat) /\ sb \o m[i] = m[0]

Reading(e, P, m) ==
  /\ Decodes(text, e, P, m) /\ m[0] = expected.means
  /\ head \in Nat /\ tail \in Nat /\ head <= tail /\ tail <= Len(text)
  /\ ~reader => tail = Len(text)
  /\ error = "nil" /\ high = 0
  /\ expected.rest # Broken
  /\ \/ rest = expected.rest
     \/ rest = Broken /\ SubSeq(text, e + 2, Len(text)) = expected.rest /\ pc \notin {"rawString", "read"}

Place(e, P, m) ==
  /\ pc \in {"string", "escape", "u4", "raw", "rawU4", "rawString", "skip", "read"}
  /\ pc = "string" => head \in P /\ SoFar(m, head)
  /\ pc = "escape" => head - 1 \in P /\ text[head] = Backslash /\ SoFar(m, head - 1)
  /\ pc = "u4" => InRune(P, m) /\ rune = Digits(head - digits, digits) /\ SoFar(m, head - digits - 2)
  /\ pc = "raw" => /\ escape.reading \in BOOLEAN /\ RawPlace(text, e, P, head, escape.reading)
                   /\ escape.reading => escape.has
                   /\ CopiedTo(head)
  /\ pc = "rawU4" => InRune(P, m) /\ escape.reading = FALSE /\ escape.has /\ CopiedTo(head)
  /\ pc = "rawString" => head = e + 1 /\ CopiedTo(head)
  /\ pc = "skip" => head = 0 /\ reads = "skipString" /\ escape.reading = FALSE
  /\ pc = "read" => rest = expected.rest /\ (reads # "skipString" => sb = m[0])

StringInv == written /\ reads # "binary" => \E e, P, m : Reading(e, P, m) /\ Place(e, P, m)

\* What a reader does to its text: nothing.
Kept == text' = text /\ reader' = reader /\ expected' = expected /\ reads' = reads

LEMMA ReadingFacts ==
  ASSUME NEW e, NEW P, NEW m, Reading(e, P, m)
  PROVE  /\ Decodes(text, e, P, m)
         /\ e \in Nat /\ P \in SUBSET (0..e) /\ 0 \in P /\ e \in P
         /\ text \in Seq(Nat) /\ Len(text) \in Nat /\ e < Len(text) /\ text[e + 1] = Quote
         /\ m \in [P -> Seq(Nat)] /\ m[e] = <<>>
         /\ head \in Nat /\ tail \in Nat /\ head <= tail /\ tail <= Len(text)
         /\ Buffered \in Nat /\ Buffered = tail - head
         /\ error = "nil" /\ high = 0
<1>1. Decodes(text, e, P, m) /\ head \in Nat /\ tail \in Nat /\ head <= tail /\ tail <= Len(text) /\ error = "nil" /\ high = 0
  BY DEF Reading
<1>2. Buffered \in Nat /\ Buffered = tail - head
  BY <1>1 DEF Buffered
<1> QED BY <1>1, <1>2, DecodesFacts

LEMMA ReadingStays ==
  ASSUME NEW e, NEW P, NEW m, Reading(e, P, m), Kept, tail' = tail,
         head' \in Nat, head' <= tail, error' = error, high' = high,
         \/ rest' = rest /\ pc' \notin {"rawString", "read"}
         \/ rest' = expected.rest
  PROVE  Reading(e, P, m)'
<1>1. text' = text /\ reader' = reader /\ expected' = expected
  BY DEF Kept
<1>2. Decodes(text, e, P, m) /\ m[0] = expected.means /\ tail \in Nat /\ tail <= Len(text) /\ (~reader => tail = Len(text))
      /\ error = "nil" /\ high = 0 /\ expected.rest # Broken
      /\ \/ rest = expected.rest
         \/ rest = Broken /\ SubSeq(text, e + 2, Len(text)) = expected.rest
  BY DEF Reading
<1>3. Decodes(text, e, P, m)'
  BY <1>1, <1>2, Zenon
<1> QED BY <1>1, <1>2, <1>3 DEF Reading

\* Nothing is missing before the closing quote.
LEMMA NeverEnded ==
  ASSUME NEW e, NEW P, NEW m, Reading(e, P, m), Place(e, P, m), pc \in States
  PROVE  head <= e
<1>1. e \in Nat /\ P \in SUBSET (0..e) /\ head \in Nat /\ Decodes(text, e, P, m) /\ e < Len(text)
  BY ReadingFacts
<1>2. pc \in {"string", "escape", "u4", "raw", "rawU4"}
  BY DEF Place, States
<1>3. ASSUME head - 1 \in P, text[head] = Backslash PROVE head <= e
  <2>1. (head - 1) + 1 = head
    BY <1>1
  <2>2. head - 1 # e
    BY <1>1, <1>3, <2>1, AtPlace
  <2> QED BY <1>1, <1>3, <2>2
<1>4. ASSUME InRune(P, m) PROVE head <= e
  <2>1. digits \in 0..3 /\ head - digits - 2 \in P /\ head - digits - 2 + 6 \in P
    BY <1>4 DEF InRune, Long
  <2> QED BY <1>1, <2>1
<1>5. CASE pc = "string"
  BY <1>1, <1>5 DEF Place
<1>6. CASE pc = "escape"
  BY <1>3, <1>6 DEF Place
<1>7. CASE pc = "u4"
  BY <1>4, <1>7 DEF Place
<1>8. CASE pc = "raw"
  <2>1. \/ head \in P
        \/ head - 1 \in P /\ text[head] = Backslash
    BY <1>8 DEF Place, RawPlace
  <2> QED BY <1>1, <1>3, <2>1
<1>9. CASE pc = "rawU4"
  BY <1>4, <1>9 DEF Place
<1> QED BY <1>2, <1>5, <1>6, <1>7, <1>8, <1>9

LEMMA LoadMoreInv ==
  ASSUME NEW e, NEW P, NEW m, Reading(e, P, m), Place(e, P, m), Kept, LoadMore
  PROVE  Reading(e, P, m)' /\ Place(e, P, m)'
<1>1. e < Len(text) /\ e \in Nat /\ head \in Nat /\ tail \in Nat /\ tail <= Len(text) /\ Len(text) \in Nat
  BY ReadingFacts
<1>2. head <= e /\ head = tail
  <2>1. pc \in States /\ tail - head = 0
    BY DEF LoadMore, Buffered
  <2> QED BY <1>1, <2>1, NeverEnded
<1>3. ~Ended
  <2>1. ~reader => tail = Len(text)
    BY DEF Reading
  <2> QED BY <1>1, <1>2, <2>1 DEF Ended
<1>4. /\ head' = tail /\ tail' \in (tail + 1)..Len(text)
      /\ pc' = pc /\ error' = error /\ rest' = rest
      /\ sb' = sb /\ rune' = rune /\ digits' = digits /\ high' = high /\ escape' = escape
  BY <1>3 DEF LoadMore, Refill, builder
<1>5. head' = head /\ tail' \in Nat /\ tail < tail' /\ tail' <= Len(text)
  BY <1>1, <1>2, <1>4
<1>6. text' = text /\ reader' = reader /\ expected' = expected /\ reads' = reads /\ reader
  BY <1>3 DEF Kept, Ended
<1>7. Decodes(text, e, P, m)'
  BY <1>6, ReadingFacts, Zenon
<1>8. Reading(e, P, m)'
  BY <1>1, <1>2, <1>4, <1>5, <1>6, <1>7 DEF Reading
<1>9. /\ InRune(P, m)' <=> InRune(P, m)
      /\ CopiedTo(head)' <=> CopiedTo(head)
      /\ Digits(head - digits, digits)' = Digits(head - digits, digits)
      /\ \A i : SoFar(m, i)' <=> SoFar(m, i)
  BY <1>4, <1>5, <1>6 DEF InRune, CopiedTo, Digits, SoFar, Long, IsHex, RuneOf
<1>10. SoFar(m, head)' = SoFar(m, head) /\ SoFar(m, head - 1)' = SoFar(m, head - 1)
       /\ SoFar(m, head - digits - 2)' = SoFar(m, head - digits - 2)
  BY <1>4, <1>5 DEF SoFar
<1>11. RawPlace(text, e, P, head, escape.reading)' <=> RawPlace(text, e, P, head, escape.reading)
  BY <1>4, <1>5, <1>6 DEF RawPlace
<1>12. Place(e, P, m)'
  BY <1>4, <1>5, <1>6, <1>9, <1>10, <1>11, Zenon DEF Place
<1> QED BY <1>8, <1>12

\* The window is the text behind head.
LEMMA Window8Is ==
  ASSUME NEW e, NEW P, NEW m, Reading(e, P, m), NEW n \in 0..Buffered
  PROVE  /\ Window8(n) \in Seq(Nat) /\ Len(Window8(n)) = n
         /\ \A k \in 1..n : Window8(n)[k] = text[head + k]
         /\ SubSeq(text, 1, head) \o Window8(n) = SubSeq(text, 1, head + n)
         /\ \A k \in 1..n : At(head + k - 1) = text[head + k]
<1>1. /\ text \in Seq(Nat) /\ head \in Nat /\ tail \in Nat /\ Buffered \in Nat /\ Buffered = tail - head
      /\ tail <= Len(text) /\ Len(text) \in Nat
  BY ReadingFacts
<1>2. n \in Nat /\ head + n \in Nat /\ head <= head + n /\ head + n <= Len(text) /\ (head + n) - head = n
  BY <1>1
<1> DEFINE j == head + n
<1>3. /\ SubSeq(text, head + 1, j) \in Seq(Nat) /\ Len(SubSeq(text, head + 1, j)) = j - head
      /\ \A k \in 1..(j - head) : SubSeq(text, head + 1, j)[k] = text[head + k]
      /\ SubSeq(text, 1, head) \o SubSeq(text, head + 1, j) = SubSeq(text, 1, j)
  <2> HIDE DEF j
  <2>1. j \in Nat /\ head <= j /\ j <= Len(text)
    BY <1>2 DEF j
  <2> QED BY <1>1, <2>1, WindowIs
<1>4. Window8(n) = SubSeq(text, head + 1, j)
  BY DEF Window8
<1>5. \A k \in 1..n : (head + k - 1) + 1 = head + k
  BY <1>1
<1> QED BY <1>2, <1>3, <1>4, <1>5 DEF At

\* Bytes that are no backslash are added to the string.
LEMMA SoFarGrows ==
  ASSUME NEW e, NEW P, NEW m, Reading(e, P, m), head \in P, SoFar(m, head),
         NEW n \in 0..Buffered, \A k \in 1..n : text[head + k] \notin {Quote, Backslash}
  PROVE  /\ head + n \in P /\ sb \o Window8(n) \in Seq(Nat)
         /\ (sb \o Window8(n)) \o m[head + n] = m[0]
<1>1. /\ Decodes(text, e, P, m) /\ head \in Nat /\ tail \in Nat /\ Buffered \in Nat /\ Buffered = tail - head
      /\ m \in [P -> Seq(Nat)]
  BY ReadingFacts
<1> DEFINE j == head + n
<1>2. j \in Nat /\ head <= j /\ j - head = n /\ n \in Nat
  BY <1>1
<1> HIDE DEF j
<1>a. \A k \in 1..(j - head) : text[head + k] # Quote
  BY <1>2
<1>b. \A k \in 1..(j - head) : text[head + k] # Backslash
  BY <1>2
<1>3. j <= e
  BY <1>1, <1>2, <1>a, RunEnds
<1>4. /\ j \in P /\ SubSeq(text, head + 1, j) \in Seq(Nat)
      /\ m[head] = SubSeq(text, head + 1, j) \o m[j]
  <2>1. NoBackslash(text, head, j)
    BY <1>b DEF NoBackslash
  <2>2. Run(text, head, j, P, m)
    BY <1>1, <1>2, <1>3, <2>1, PlainRun
  <2> QED BY <2>2 DEF Run
<1> DEFINE w == SubSeq(text, head + 1, j)
<1>5. Window8(n) = w
  BY DEF Window8, j
<1>6. sb \in Seq(Nat) /\ sb \o m[head] = m[0] /\ m[j] \in Seq(Nat)
  BY <1>1, <1>4 DEF SoFar
<1>7. w \in Seq(Nat) /\ m[head] = w \o m[j]
  BY <1>4
<1> HIDE DEF w
<1>8. (sb \o w) \o m[j] = sb \o (w \o m[j])
  BY <1>6, <1>7, Associative
<1>9. sb \o w \in Seq(Nat)
  BY <1>6, <1>7, ConcatProperties
<1> QED BY <1>4, <1>5, <1>6, <1>7, <1>8, <1>9 DEF j

\* The closing quote is where it should be, and what follows it is known.
LEMMA CloseIs ==
  ASSUME NEW e, NEW P, NEW m, Reading(e, P, m), NEW state, Close(state, e + 1)
  PROVE  pc' = state /\ head' = e + 1 /\ tail' = tail /\ error' = error /\ rest' = expected.rest
<1>1. pc' = state /\ head' = e + 1 /\ tail' = tail /\ error' = error
      /\ rest' = IF rest = Broken THEN SubSeq(text, e + 1 + 1, Len(text)) ELSE rest
  BY DEF Close, Go
<1>2. e \in Nat
  BY ReadingFacts
<1>3. e + 1 + 1 = e + 2
  BY <1>2
<1>4. SubSeq(text, e + 1 + 1, Len(text)) = SubSeq(text, e + 2, Len(text))
  BY <1>3
<1>5. \/ rest = expected.rest
      \/ rest = Broken /\ SubSeq(text, e + 2, Len(text)) = expected.rest /\ pc \notin {"rawString", "read"}
  BY DEF Reading
<1>6. expected.rest # Broken
  BY DEF Reading
<1>7. rest' = expected.rest
  <2>1. CASE rest = Broken
    <3>1. rest' = SubSeq(text, e + 1 + 1, Len(text))
      BY <1>1, <2>1
    <3>2. SubSeq(text, e + 2, Len(text)) = expected.rest
      BY <1>5, <1>6, <2>1, Zenon
    <3> QED BY <1>4, <3>1, <3>2
  <2>2. CASE rest # Broken
    BY <1>1, <1>5, <2>2, Zenon
  <2> QED BY <2>1, <2>2
<1> QED BY <1>1, <1>7

LEMMA StopsIs ==
  ASSUME NEW e, NEW P, NEW m, Reading(e, P, m), NEW T, T \in SUBSET (1..Buffered), T # {}
  PROVE  /\ FirstOf(T) \in T /\ FirstOf(T) \in 1..Buffered /\ FirstOf(T) - 1 \in 0..Buffered
         /\ \A k \in 1..(FirstOf(T) - 1) : k \in 1..Buffered /\ k \notin T
<1>1. Buffered \in Nat
  BY ReadingFacts
<1>2. T \in SUBSET Nat
  OBVIOUS
<1> DEFINE n == FirstOf(T)
<1>3. n \in T /\ \A k \in T : n <= k
  BY <1>2, FirstOfIs
<1>4. n \in 1..Buffered
  BY <1>3
<1> HIDE DEF n
<1>5. n - 1 \in 0..Buffered /\ \A k \in 1..(n - 1) : k \in 1..Buffered /\ ~(n <= k)
  BY <1>1, <1>4
<1> QED BY <1>3, <1>4, <1>5 DEF n

LEMMA ReadStringInnerInv ==
  ASSUME NEW e, NEW P, NEW m, Reading(e, P, m), Place(e, P, m), Kept, ReadStringInner
  PROVE  Reading(e, P, m)' /\ Place(e, P, m)'
<1> DEFINE stops == {k \in 1..Buffered : At(head + k - 1) \in {Quote, Backslash} \cup (0..31)}
           k == FirstOf(stops)
           c == At(head + k - 1)
<1>1. /\ Decodes(text, e, P, m) /\ head \in Nat /\ tail \in Nat /\ Buffered \in Nat /\ Buffered = tail - head
      /\ m \in [P -> Seq(Nat)] /\ error = "nil" /\ m[e] = <<>> /\ e \in Nat /\ head <= tail
  BY ReadingFacts
<1>2. head \in P /\ SoFar(m, head)
  BY DEF Place, ReadStringInner
<1>3. \A i \in 1..Buffered : i \notin stops => text[head + i] \notin {Quote, Backslash}
  <2>1. Buffered \in 0..Buffered
    BY <1>1
  <2>2. \A i \in 1..Buffered : At(head + i - 1) = text[head + i]
    BY <2>1, Window8Is
  <2> QED BY <2>2
<1>5. CASE stops = {}
  <2>1. Go("string", tail) /\ sb' = sb \o Window8(Buffered) /\ UNCHANGED <<rune, digits, high, escape, rest>>
    BY <1>5 DEF ReadStringInner
  <2>2. pc' = "string" /\ head' = tail /\ tail' = tail /\ error' = error /\ high' = high /\ rest' = rest
    BY <2>1 DEF Go
  <2>3. \A i \in 1..Buffered : text[head + i] \notin {Quote, Backslash}
    <3>1. \A i \in 1..Buffered : i \notin stops
      BY <1>5
    <3> HIDE DEF stops
    <3> QED BY <1>3, <3>1
  <2>4. head + Buffered = tail /\ Buffered \in 0..Buffered
    BY <1>1
  <2>5. tail \in P /\ sb' \in Seq(Nat) /\ sb' \o m[tail] = m[0]
    <3>1. /\ head + Buffered \in P /\ sb \o Window8(Buffered) \in Seq(Nat)
          /\ (sb \o Window8(Buffered)) \o m[head + Buffered] = m[0]
      BY <1>2, <2>3, <2>4, SoFarGrows
    <3> QED BY <2>1, <2>4, <3>1
  <2>6. Reading(e, P, m)'
    BY <1>1, <2>2, ReadingStays
  <2>7. Place(e, P, m)'
    BY <2>2, <2>5 DEF Place, SoFar
  <2> QED BY <2>6, <2>7
<1>6. CASE stops # {}
  <2>1. stops \in SUBSET (1..Buffered)
    OBVIOUS
  <2>2. /\ k \in stops /\ k \in 1..Buffered /\ k - 1 \in 0..Buffered
        /\ \A i \in 1..(k - 1) : i \in 1..Buffered /\ i \notin stops
    <3> HIDE DEF stops
    <3> QED BY <1>6, <2>1, StopsIs
  <2> DEFINE j == head + (k - 1)
             w == Window8(k - 1)
  <2>3. \A i \in 1..(k - 1) : text[head + i] \notin {Quote, Backslash}
    <3> HIDE DEF stops, k
    <3> QED BY <1>3, <2>2
  <2>4. /\ j \in P /\ sb \o w \in Seq(Nat)
        /\ (sb \o w) \o m[j] = m[0]
    <3> HIDE DEF stops, k
    <3> QED BY <1>2, <2>2, <2>3, SoFarGrows
  <2>5. c = text[j + 1] /\ j + 1 = head + k /\ head + k <= tail /\ head + k \in Nat /\ c \in {Quote, Backslash} \cup (0..31)
    <3>1. c \in {Quote, Backslash} \cup (0..31)
      BY <2>2
    <3>2. At(head + k - 1) = text[head + k]
      <4>1. Buffered \in 0..Buffered
        BY <1>1
      <4> HIDE DEF stops, k
      <4> QED BY <2>2, <4>1, Window8Is
    <3> HIDE DEF stops, k
    <3>3. j + 1 = head + k /\ head + k <= tail /\ head + k \in Nat
      BY <1>1, <2>2
    <3> QED BY <3>1, <3>2, <3>3
  <2>6. c >= 32 /\ (c = Quote <=> j = e)
    <3> HIDE DEF j
    <3> QED BY <1>1, <2>4, <2>5, AtPlace
  <2>7. c \in {Quote, Backslash}
    <3> HIDE DEF c
    <3> QED BY <2>5, <2>6
  <2>8. \/ /\ c = Quote /\ Close("read", head + k) /\ sb' = sb \o w
           /\ UNCHANGED <<rune, digits, high, escape>>
        \/ /\ c = Backslash /\ Go("escape", head + k) /\ sb' = sb \o w
           /\ UNCHANGED <<rune, digits, high, escape, rest>>
    <3>1. ~(c < 32)
      <4>1. Quote >= 32 /\ Backslash >= 32
        BY DEF Quote, Backslash
      <4> HIDE DEF c
      <4> QED BY <2>7, <4>1 DEF Quote, Backslash
    <3> QED BY <1>6, <3>1 DEF ReadStringInner
  <2> HIDE DEF stops, k, c, w
  <2>9. CASE c = Quote
    <3>1. Close("read", head + k) /\ sb' = sb \o w /\ high' = high
      BY <2>8, <2>9 DEF Quote, Backslash
    <3>2. j = e /\ head + k = e + 1
      BY <2>5, <2>6, <2>9
    <3>3. Close("read", e + 1)
      BY <3>1, <3>2
    <3>4. pc' = "read" /\ head' = e + 1 /\ tail' = tail /\ error' = error /\ rest' = expected.rest
      BY <3>3, CloseIs
    <3>5. sb' = m[0]
      <4>1. (sb \o w) \o m[e] = m[0]
        BY <2>4, <3>2
      <4> DEFINE s == sb \o w
      <4>2. s \in Seq(Nat) /\ s \o <<>> = m[0]
        BY <1>1, <2>4, <4>1
      <4> HIDE DEF s
      <4>3. s \o <<>> = s
        BY <4>2, ConcatEmptySeq
      <4> QED BY <3>1, <4>2, <4>3 DEF s
    <3>6. head' \in Nat /\ head' <= tail
      BY <2>5, <3>2, <3>4
    <3>7. Reading(e, P, m)'
      BY <3>1, <3>4, <3>6, ReadingStays
    <3>8. expected' = expected /\ reads' = reads
      BY DEF Kept
    <3>9. Place(e, P, m)'
      BY <3>4, <3>5, <3>8 DEF Place
    <3> QED BY <3>7, <3>9
  <2>10. CASE c = Backslash
    <3>1. Go("escape", head + k) /\ sb' = sb \o w /\ high' = high /\ rest' = rest
      BY <2>8, <2>10 DEF Quote, Backslash
    <3>2. pc' = "escape" /\ head' = head + k /\ tail' = tail /\ error' = error
      BY <3>1 DEF Go
    <3>3. head' - 1 = j /\ text' = text
      <4>1. j \in Nat
        BY <1>1, <2>4, AtPlace
      <4> HIDE DEF j
      <4> QED BY <2>5, <3>2, <4>1 DEF Kept
    <3>4. Reading(e, P, m)'
      BY <2>5, <3>1, <3>2, ReadingStays
    <3>5. text'[head'] = Backslash
      BY <2>5, <2>10, <3>2, <3>3
    <3>6. Place(e, P, m)'
      <4>1. head' - 1 \in P /\ sb' \in Seq(Nat) /\ sb' \o m[head' - 1] = m[0]
        BY <2>4, <3>1, <3>3
      <4> QED BY <3>2, <3>5, <4>1 DEF Place, SoFar
    <3> QED BY <3>4, <3>6
  <2> QED BY <2>7, <2>9, <2>10
<1> QED BY <1>5, <1>6

LEMMA ReadEscapedCharInv ==
  ASSUME NEW e, NEW P, NEW m, Reading(e, P, m), Place(e, P, m), Kept, ReadEscapedChar
  PROVE  Reading(e, P, m)' /\ Place(e, P, m)'
<1> DEFINE i == head - 1
           c == At(head)
<1>1. /\ Decodes(text, e, P, m) /\ head \in Nat /\ tail \in Nat /\ Buffered \in Nat /\ Buffered = tail - head
      /\ m \in [P -> Seq(Nat)] /\ high = 0 /\ text \in Seq(Nat) /\ tail <= Len(text)
  BY ReadingFacts
<1>2. i \in P /\ text[head] = Backslash /\ sb \in Seq(Nat) /\ sb \o m[i] = m[0]
  BY DEF Place, ReadEscapedChar, SoFar
<1>3. Escaped(c, sb) /\ high' = high /\ rest' = rest /\ Buffered > 0
  BY DEF ReadEscapedChar
<1>4. /\ i \in Nat /\ i + 1 = head /\ i + 2 = head + 1 /\ head + 1 \in Nat /\ head + 1 <= tail
      /\ c = text[i + 2]
  <2>1. i \in Nat
    <3> HIDE DEF i
    <3> QED BY <1>1, <1>2, AtPlace
  <2>2. i + 1 = head /\ i + 2 = head + 1 /\ head + 1 \in Nat /\ head + 1 <= tail
    BY <1>1, <1>3
  <2>3. c = text[head + 1]
    BY DEF At
  <2> QED BY <2>1, <2>2, <2>3
<1>5. Short(text, i, P, m) \/ Long(text, i, P, m)
  <2>1. text[i + 1] = Backslash
    BY <1>2, <1>4
  <2> HIDE DEF i
  <2> QED BY <1>1, <1>2, <2>1, AtPlace
<1>6. U \notin Escapes
  BY DEF U, Escapes, Quote, Backslash
<1>7. rune' = 0 /\ digits' = 0
  BY <1>3 DEF Escaped
<1> HIDE DEF i, c
<1>8. CASE Short(text, i, P, m)
  <2>1. c \in Escapes /\ i + 2 \in P /\ m[i] = <<Unescaped(c)>> \o m[i + 2]
    BY <1>4, <1>8 DEF Short
  <2>2. Go("string", head + 1) /\ sb' = Append(sb, Unescaped(c))
    BY <1>3, <1>6, <2>1 DEF Escaped
  <2>3. pc' = "string" /\ head' = i + 2 /\ tail' = tail /\ error' = error
    BY <1>4, <2>2 DEF Go
  <2>4. Unescaped(c) \in Nat
    <3>1. c \in {Quote, Backslash, 47, 98, 102, 110, 114, 116}
      BY <2>1 DEF Escapes
    <3> QED BY <3>1 DEF Unescaped, Quote, Backslash
  <2>5. Append(sb, Unescaped(c)) \in Seq(Nat) /\ Append(sb, Unescaped(c)) \o m[i + 2] = m[0]
    <3> DEFINE x == Unescaped(c)
               y == m[i + 2]
    <3>1. x \in Nat /\ y \in Seq(Nat) /\ sb \o (<<x>> \o y) = m[0]
      BY <1>1, <1>2, <2>1, <2>4
    <3> HIDE DEF x, y
    <3>2. sb \o (<<x>> \o y) = Append(sb, x) \o y
      BY <1>2, <3>1, ConcatCons
    <3>3. Append(sb, x) \in Seq(Nat)
      BY <1>2, <3>1
    <3> QED BY <3>1, <3>2, <3>3 DEF x, y
  <2>6. Reading(e, P, m)'
    BY <1>3, <1>4, <2>3, ReadingStays
  <2>7. Place(e, P, m)'
    <3>1. head' \in P /\ sb' \in Seq(Nat) /\ sb' \o m[head'] = m[0]
      BY <2>1, <2>2, <2>3, <2>5
    <3> QED BY <2>3, <3>1 DEF Place, SoFar
  <2> QED BY <2>6, <2>7
<1>9. CASE Long(text, i, P, m)
  <2>1. c = U
    BY <1>4, <1>9 DEF Long
  <2>2. Go("u4", head + 1) /\ sb' = sb
    BY <1>3, <1>6, <2>1 DEF Escaped
  <2>3. pc' = "u4" /\ head' = i + 2 /\ tail' = tail /\ error' = error
    BY <1>4, <2>2 DEF Go
  <2>4. Reading(e, P, m)'
    BY <1>3, <1>4, <2>3, ReadingStays
  <2>5. head' - digits' - 2 = i /\ digits' \in 0..3 /\ text' = text
    BY <1>4, <1>7, <2>3 DEF Kept
  <2>6. InRune(P, m)'
    <3>1. Long(text', i, P, m)
      BY <1>9, <2>5
    <3> QED BY <1>2, <2>5, <3>1, Zenon DEF InRune
  <2>7. rune' = Digits(head - digits, digits)'
    BY <1>7 DEF Digits
  <2>8. SoFar(m, head - digits - 2)'
    <3>1. sb' \in Seq(Nat) /\ sb' \o m[head' - digits' - 2] = m[0]
      BY <1>2, <2>2, <2>5
    <3> QED BY <3>1 DEF SoFar
  <2>9. Place(e, P, m)'
    BY <2>3, <2>6, <2>7, <2>8 DEF Place
  <2> QED BY <2>4, <2>9
<1> QED BY <1>5, <1>8, <1>9

\* The four digits, when they are all there.
LEMMA RuneIs ==
  ASSUME NEW t \in Seq(Nat), NEW i, IsHex(t, i)
  PROVE  /\ \A k \in 1..4 : HexValue(t[i + k]) \in 0..15
         /\ RuneOf(t, i) \in Nat
<1>1. \A k \in 1..4 : HexValue(t[i + k]) \in 0..15
  BY HexIsSmall DEF IsHex
<1>2. /\ HexValue(t[i + 1]) \in 0..15 /\ HexValue(t[i + 2]) \in 0..15
      /\ HexValue(t[i + 3]) \in 0..15 /\ HexValue(t[i + 4]) \in 0..15
  BY <1>1
<1>3. \A x, y, z, w \in 0..15 : 4096 * x + 256 * y + 16 * z + w \in Nat
  OBVIOUS
<1>4. RuneOf(t, i) \in Nat
  <2> DEFINE x == HexValue(t[i + 1])
             y == HexValue(t[i + 2])
             z == HexValue(t[i + 3])
             w == HexValue(t[i + 4])
  <2>1. RuneOf(t, i) = 4096 * x + 256 * y + 16 * z + w /\ x \in 0..15 /\ y \in 0..15 /\ z \in 0..15 /\ w \in 0..15
    BY <1>2 DEF RuneOf
  <2> HIDE DEF x, y, z, w
  <2> QED BY <1>3, <2>1
<1> QED BY <1>1, <1>4

\* A whole rune has been read.
LEMMA AfterU4Is ==
  ASSUME NEW e, NEW P, NEW m, Reading(e, P, m), Kept,
         NEW i \in P, Long(text, i, P, m), SoFar(m, i), AfterU4(RuneOf(text, i + 2), i + 6), i + 6 <= tail
  PROVE  Reading(e, P, m)' /\ Place(e, P, m)'
<1> DEFINE r == RuneOf(text, i + 2)
           x == UTF8(r)
<1>1. /\ Decodes(text, e, P, m) /\ high = 0 /\ m \in [P -> Seq(Nat)] /\ text \in Seq(Nat)
  BY ReadingFacts
<1>2. i \in Nat /\ i + 6 \in Nat
  <2>1. i \in Nat
    BY <1>1, AtPlace
  <2> QED BY <2>1
<1>3. IsHex(text, i + 2) /\ r \notin Surrogates /\ i + 6 \in P /\ m[i] = x \o m[i + 6]
  BY DEF Long
<1>4. r \in Nat
  BY <1>1, <1>3, RuneIs
<1>5. sb' = sb \o x /\ high' = 0 /\ Go("string", i + 6) /\ rest' = rest
  <2>1. AfterU4(r, i + 6)
    OBVIOUS
  <2> HIDE DEF r
  <2> QED BY <1>1, <1>3, <2>1 DEF AfterU4
<1>6. pc' = "string" /\ head' = i + 6 /\ tail' = tail /\ error' = error
  BY <1>5 DEF Go
<1> HIDE DEF r
<1>7. x \in Seq(Nat)
  BY <1>4, UTF8Bytes
<1> DEFINE y == m[i + 6]
<1>8. y \in Seq(Nat) /\ sb \in Seq(Nat) /\ sb \o (x \o y) = m[0]
  BY <1>1, <1>3 DEF SoFar
<1> HIDE DEF x, y
<1>9. sb \o x \in Seq(Nat) /\ (sb \o x) \o y = m[0]
  <2>1. (sb \o x) \o y = sb \o (x \o y)
    BY <1>7, <1>8, Associative
  <2>2. sb \o x \in Seq(Nat)
    BY <1>7, <1>8, ConcatProperties
  <2> QED BY <1>8, <2>1, <2>2
<1>10. Reading(e, P, m)'
  BY <1>1, <1>2, <1>5, <1>6, ReadingStays
<1>11. Place(e, P, m)'
  <2>1. head' \in P /\ sb' \in Seq(Nat) /\ sb' \o m[head'] = m[0]
    BY <1>3, <1>5, <1>6, <1>9 DEF y
  <2> QED BY <1>6, <2>1 DEF Place, SoFar
<1> QED BY <1>10, <1>11

LEMMA ReadU4Inv ==
  ASSUME NEW e, NEW P, NEW m, Reading(e, P, m), Place(e, P, m), Kept, ReadU4
  PROVE  Reading(e, P, m)' /\ Place(e, P, m)'
<1> DEFINE i == head - digits - 2
           d(k) == HexValue(At(head + k))
           r == 16 * rune + d(0)
           x(k) == HexValue(text[i + 2 + k])
<1>1. /\ Decodes(text, e, P, m) /\ head \in Nat /\ tail \in Nat /\ Buffered \in Nat /\ Buffered = tail - head
      /\ text \in Seq(Nat) /\ high = 0
  BY ReadingFacts
<1>2. /\ digits \in 0..3 /\ i \in P /\ Long(text, i, P, m) /\ rune = Digits(head - digits, digits) /\ SoFar(m, i)
      /\ Buffered > 0
  BY DEF Place, ReadU4, InRune
<1>3. i \in Nat /\ head = i + 2 + digits /\ head - digits = i + 2 /\ digits \in Nat /\ head + 1 <= tail
  <2>1. i \in Nat
    <3> HIDE DEF i
    <3> QED BY <1>1, <1>2, AtPlace
  <2> QED BY <1>1, <1>2, <2>1
<1>4. IsHex(text, i + 2)
  BY <1>2 DEF Long
<1>5. /\ \A k \in 1..4 : x(k) \in 0..15
      /\ RuneOf(text, i + 2) = 4096 * x(1) + 256 * x(2) + 16 * x(3) + x(4)
  <2>1. \A k \in 1..4 : x(k) \in 0..15
    <3> HIDE DEF i
    <3> QED BY <1>1, <1>4, RuneIs
  <2>2. RuneOf(text, i + 2) = 4096 * x(1) + 256 * x(2) + 16 * x(3) + x(4)
    BY DEF RuneOf
  <2> QED BY <2>1, <2>2
<1>6. rune = CASE digits = 0 -> 0 [] digits = 1 -> x(1) [] digits = 2 -> 16 * x(1) + x(2)
               [] OTHER -> 256 * x(1) + 16 * x(2) + x(3)
  <2> HIDE DEF i
  <2> QED BY <1>2, <1>3 DEF Digits
<1>7. \A k \in 0..3 : digits + k <= 3 => d(k) = x(digits + k + 1)
  <2>1. \A k \in 0..3 : head + k + 1 = i + 2 + (digits + k + 1)
    BY <1>3, <1>2
  <2>2. \A k \in 0..3 : d(k) = HexValue(text[head + k + 1])
    BY DEF At
  <2> HIDE DEF i
  <2> QED BY <2>1, <2>2
<1> HIDE DEF i
<1>8. CASE digits = 0 /\ Buffered >= 4
  <2>1. d(0) = x(1) /\ d(1) = x(2) /\ d(2) = x(3) /\ d(3) = x(4)
    <3>1. /\ 0 \in 0..3 /\ 1 \in 0..3 /\ 2 \in 0..3 /\ 3 \in 0..3
          /\ digits + 0 + 1 = 1 /\ digits + 1 + 1 = 2 /\ digits + 2 + 1 = 3 /\ digits + 3 + 1 = 4
          /\ digits + 0 <= 3 /\ digits + 1 <= 3 /\ digits + 2 <= 3 /\ digits + 3 <= 3
      BY <1>8
    <3> HIDE DEF d, x
    <3> QED BY <1>7, <3>1
  <2>2. AreHex(Window8(4))
    <3>1. 4 \in 0..Buffered
      BY <1>1, <1>8
    <3>2. Len(Window8(4)) = 4 /\ \A k \in 1..4 : Window8(4)[k] = text[head + k]
      BY <3>1, Window8Is
    <3>3. head = i + 2
      BY <1>3, <1>8
    <3>4. \A k \in 1..4 : HexValue(text[head + k]) >= 0
      BY <1>4, <3>3 DEF IsHex
    <3> QED BY <3>2, <3>4 DEF AreHex
  <2>3. AfterU4(4096 * d(0) + 256 * d(1) + 16 * d(2) + d(3), head + 4)
    BY <1>8, <2>2 DEF ReadU4
  <2>4. 4096 * d(0) + 256 * d(1) + 16 * d(2) + d(3) = RuneOf(text, i + 2) /\ head + 4 = i + 6 /\ i + 6 <= tail
    <3>1. head + 4 = i + 6 /\ i + 6 <= tail
      BY <1>1, <1>3, <1>8
    <3>2. 4096 * d(0) + 256 * d(1) + 16 * d(2) + d(3) = RuneOf(text, i + 2)
      <4> HIDE DEF d, x
      <4> QED BY <1>5, <2>1
    <3> QED BY <3>1, <3>2
  <2>5. AfterU4(RuneOf(text, i + 2), i + 6)
    <3> HIDE DEF d, x
    <3> QED BY <2>3, <2>4
  <2> QED BY <1>2, <2>4, <2>5, AfterU4Is
<1>9. d(0) = x(digits + 1) /\ x(digits + 1) \in 0..15 /\ digits + 1 \in 1..4
  <2>1. 0 \in 0..3 /\ digits + 0 + 1 = digits + 1 /\ digits + 0 <= 3 /\ digits + 1 \in 1..4
    BY <1>2
  <2> HIDE DEF d, x
  <2>2. d(0) = x(digits + 0 + 1)
    BY <1>7, <2>1
  <2> QED BY <1>5, <2>1, <2>2
<1>10. CASE ~(digits = 0 /\ Buffered >= 4) /\ digits = 3
  <2>1. AfterU4(r, head + 1)
    <3>1. ~(d(0) < 0)
      <4> HIDE DEF d, x
      <4> QED BY <1>9
    <3> QED BY <1>10, <3>1 DEF ReadU4
  <2>2. r = RuneOf(text, i + 2) /\ head + 1 = i + 6 /\ i + 6 <= tail
    <3>1. head + 1 = i + 6 /\ i + 6 <= tail
      BY <1>3, <1>10
    <3>2. rune = 256 * x(1) + 16 * x(2) + x(3) /\ d(0) = x(4)
      <4>1. digits + 1 = 4
        BY <1>10
      <4> HIDE DEF d, x
      <4> QED BY <1>6, <1>9, <1>10, <4>1
    <3>3. x(1) \in 0..15 /\ x(2) \in 0..15 /\ x(3) \in 0..15 /\ x(4) \in 0..15
      BY <1>5
    <3>4. r = RuneOf(text, i + 2)
      <4> HIDE DEF d, x
      <4> QED BY <1>5, <3>2, <3>3
    <3> QED BY <3>1, <3>4
  <2>3. AfterU4(RuneOf(text, i + 2), i + 6)
    <3> HIDE DEF r
    <3> QED BY <2>1, <2>2
  <2> QED BY <1>2, <2>2, <2>3, AfterU4Is
<1>11. CASE ~(digits = 0 /\ Buffered >= 4) /\ digits # 3
  <2>1. rune' = r /\ digits' = digits + 1 /\ Go("u4", head + 1) /\ sb' = sb /\ high' = high /\ rest' = rest
    <3>1. ~(d(0) < 0)
      <4> HIDE DEF d, x
      <4> QED BY <1>9
    <3> QED BY <1>11, <3>1 DEF ReadU4
  <2>2. pc' = "u4" /\ head' = head + 1 /\ tail' = tail /\ error' = error
    BY <2>1 DEF Go
  <2>3. head' \in Nat /\ head' <= tail
    BY <1>1, <1>3, <2>2
  <2>4. Reading(e, P, m)'
    BY <2>1, <2>2, <2>3, ReadingStays
  <2>5. head' - digits' - 2 = i /\ head' - digits' = i + 2 /\ digits' \in 0..3 /\ text' = text
    <3>1. digits' = digits + 1 /\ head' = head + 1
      BY <2>1, <2>2
    <3> QED BY <1>2, <1>3, <1>11, <3>1 DEF Kept
  <2>6. InRune(P, m)'
    <3>1. Long(text', i, P, m)
      BY <1>2, <2>5
    <3> QED BY <1>2, <2>5, <3>1, Zenon DEF InRune
  <2>7. rune' = Digits(head - digits, digits)'
    <3>1. rune' = CASE digits' = 0 -> 0 [] digits' = 1 -> x(1) [] digits' = 2 -> 16 * x(1) + x(2)
                    [] OTHER -> 256 * x(1) + 16 * x(2) + x(3)
      <4>1. rune' = 16 * rune + x(digits + 1)
        BY <1>9, <2>1
      <4>2. x(1) \in 0..15 /\ x(2) \in 0..15 /\ x(3) \in 0..15
        BY <1>5
      <4> HIDE DEF x
      <4>3. CASE digits = 0
        <5>1. rune = 0 /\ digits' = 1 /\ digits + 1 = 1
          BY <1>6, <2>1, <4>3
        <5> QED BY <4>1, <4>2, <5>1
      <4>4. CASE digits = 1
        <5>1. rune = x(1) /\ digits' = 2 /\ digits + 1 = 2
          BY <1>6, <2>1, <4>4
        <5> QED BY <4>1, <4>2, <5>1
      <4>5. CASE digits = 2
        <5>1. rune = 16 * x(1) + x(2) /\ digits' = 3 /\ digits + 1 = 3
          BY <1>6, <2>1, <4>5
        <5> QED BY <4>1, <4>2, <5>1
      <4> QED BY <1>2, <1>11, <4>3, <4>4, <4>5
    <3> QED BY <2>5, <3>1 DEF Digits
  <2>8. SoFar(m, head - digits - 2)'
    <3>1. sb' \in Seq(Nat) /\ sb' \o m[head' - digits' - 2] = m[0]
      BY <1>2, <2>1, <2>5 DEF SoFar
    <3> QED BY <3>1 DEF SoFar
  <2>9. Place(e, P, m)'
    BY <2>2, <2>6, <2>7, <2>8 DEF Place
  <2> QED BY <2>4, <2>9
<1> QED BY <1>8, <1>10, <1>11

----------------------------------------------------------------------------
(* Raw strings.                                                            *)

LEMMA BooleanIteration ==
  ASSUME NEW n \in Nat, NEW b \in BOOLEAN, NEW h \in [BOOLEAN \X (0..n) -> BOOLEAN]
  PROVE  \E f \in [0..n -> BOOLEAN] : Iterates(f, 0..n, b, h)
<1> DEFINE S == BOOLEAN
<1>1. b \in S /\ h \in [S \X (0..n) -> S] /\ n \in Nat
  OBVIOUS
<1> HIDE DEF S
<1>2. \E f \in [0..n -> S] : Iterates(f, 0..n, b, h)
  BY <1>1, Iteration, Zenon
<1> QED BY <1>2 DEF S

\* readingEscape behind each byte of the window.
IsReading(f) ==
  f = [k \in 0..Buffered |->
         IF k = 0 THEN escape.reading ELSE At(head + k - 1) = Backslash /\ ~f[k - 1]]

LEMMA IsReadingIs ==
  ASSUME NEW e, NEW P, NEW m, Reading(e, P, m), escape.reading \in BOOLEAN
  PROVE  /\ \E f : IsReading(f)
         /\ \A f : IsReading(f) =>
              /\ f[0] = escape.reading
              /\ \A k \in 1..Buffered : f[k] = (text[head + k] = Backslash /\ ~f[k - 1])
<1> DEFINE n == Buffered
           b(k) == text[head + k] = Backslash
           h == [x \in BOOLEAN \X (0..n) |-> b(x[2]) /\ ~x[1]]
<1>1. n \in Nat /\ n \in 0..n
  <2>1. n \in Nat
    BY ReadingFacts
  <2> HIDE DEF n
  <2> QED BY <2>1
<1>2. \A k \in 1..n : At(head + k - 1) = text[head + k]
  BY <1>1, Window8Is
<1>3. \A k \in 0..n : k # 0 => k \in 1..n /\ k - 1 \in 0..n
  <2> HIDE DEF n
  <2> QED BY <1>1
<1>4. \E f : IsReading(f)
  <2>1. h \in [BOOLEAN \X (0..n) -> BOOLEAN]
    OBVIOUS
  <2>2. PICK f \in [0..n -> BOOLEAN] : Iterates(f, 0..n, escape.reading, h)
    <3> DEFINE x == escape.reading
    <3>1. x \in BOOLEAN
      OBVIOUS
    <3> HIDE DEF h, n, x
    <3>2. \E f \in [0..n -> BOOLEAN] : Iterates(f, 0..n, x, h)
      BY <1>1, <2>1, <3>1, BooleanIteration
    <3> QED BY <3>2 DEF x
  <2>3. ASSUME NEW k \in 0..n
        PROVE  f[k] = IF k = 0 THEN escape.reading ELSE At(head + k - 1) = Backslash /\ ~f[k - 1]
    <3>1. CASE k = 0
      <4>1. f[0] = escape.reading
        BY <2>2, Zenon DEF Iterates
      <4> QED BY <3>1, <4>1, Zenon
    <3>2. CASE k # 0
      <4>1. f[k] = h[<<f[k - 1], k>>]
        <5> DEFINE D == 0..n
        <5>1. k \in D
          OBVIOUS
        <5> HIDE DEF h, n, D
        <5>2. Iterates(f, D, escape.reading, h)
          BY <2>2 DEF D
        <5> QED BY <3>2, <5>1, <5>2, Zenon DEF Iterates
      <4>2. k - 1 \in 0..n /\ k \in 1..n
        BY <1>3, <3>2
      <4>3. f[k - 1] \in BOOLEAN
        <5> HIDE DEF n
        <5> QED BY <2>2, <4>2
      <4>4. h[<<f[k - 1], k>>] = (b(k) /\ ~f[k - 1])
        <5> HIDE DEF n, b
        <5> QED BY <4>2, <4>3
      <4>5. At(head + k - 1) = text[head + k]
        BY <1>2, <4>2
      <4> HIDE DEF h
      <4>6. f[k] = (At(head + k - 1) = Backslash /\ ~f[k - 1])
        BY <4>1, <4>4, <4>5, Zenon
      <4> QED BY <3>2, <4>6, Zenon
    <3> QED BY <3>1, <3>2
  <2>4. f = [k \in 0..n |-> f[k]]
    BY <2>2
  <2>5. f = [k \in 0..n |-> IF k = 0 THEN escape.reading ELSE At(head + k - 1) = Backslash /\ ~f[k - 1]]
    <3> HIDE DEF n
    <3> QED BY <2>3, <2>4, Zenon
  <2>6. IsReading(f)
    BY <2>5, Zenon DEF IsReading
  <2> QED BY <2>6
<1>5. ASSUME NEW f, IsReading(f)
      PROVE  /\ f[0] = escape.reading
             /\ \A k \in 1..n : f[k] = (text[head + k] = Backslash /\ ~f[k - 1])
  <2>1. f = [k \in 0..n |-> IF k = 0 THEN escape.reading ELSE At(head + k - 1) = Backslash /\ ~f[k - 1]]
    BY <1>5, Zenon DEF IsReading
  <2> HIDE DEF n
  <2>2. \A k \in 0..n : f[k] = IF k = 0 THEN escape.reading ELSE At(head + k - 1) = Backslash /\ ~f[k - 1]
    BY <2>1, Zenon
  <2>3. 0 \in 0..n
    BY <1>1
  <2>4. f[0] = escape.reading
    BY <2>2, <2>3, Zenon
  <2>5. ASSUME NEW k \in 1..n PROVE f[k] = (text[head + k] = Backslash /\ ~f[k - 1])
    <3>1. k \in 0..n /\ k # 0
      BY <1>1
    <3>2. f[k] = (At(head + k - 1) = Backslash /\ ~f[k - 1])
      BY <2>2, <3>1, Zenon
    <3> QED BY <1>2, <3>2, Zenon
  <2> QED BY <2>4, <2>5
<1> QED BY <1>4, <1>5

\* What was copied grows by a window.
LEMMA CopiedGrows ==
  ASSUME NEW e, NEW P, NEW m, Reading(e, P, m), CopiedTo(head), Kept, NEW n \in 0..Buffered,
         sb' = sb \o Window8(n),
         ~escape'.has => ~escape.has /\ \A j \in 1..n : text[head + j] # Backslash
  PROVE  \A h : h = head + n => (reads # "skipString" =>
           /\ sb' = SubSeq(text', 1, h)
           /\ ~escape'.has => \A i \in 1..h : text'[i] # Backslash)
<1>1. head \in Nat /\ n \in Nat
  <2>1. head \in Nat /\ Buffered \in Nat
    BY ReadingFacts
  <2> QED BY <2>1
<1>2. SubSeq(text, 1, head) \o Window8(n) = SubSeq(text, 1, head + n) /\ text' = text
  BY Window8Is DEF Kept
<1>3. ASSUME reads # "skipString", ~escape'.has, NEW i \in 1..(head + n) PROVE text[i] # Backslash
  <2>1. CASE i <= head
    <3>1. i \in 1..head
      BY <1>1, <2>1
    <3> QED BY <1>3, <3>1 DEF CopiedTo
  <2>2. CASE i > head
    <3>1. i - head \in 1..n /\ head + (i - head) = i
      BY <1>1, <2>2
    <3>2. text[head + (i - head)] # Backslash
      BY <1>3, <3>1
    <3> QED BY <3>1, <3>2
  <2> QED BY <1>1, <2>1, <2>2
<1>4. reads # "skipString" => sb' = SubSeq(text', 1, head + n)
  BY <1>2 DEF CopiedTo
<1> QED BY <1>2, <1>3, <1>4

Stop(r, k) ==
  \/ text[head + k] < 32
  \/ text[head + k] = Quote /\ ~r[k - 1]
  \/ text[head + k] \notin Escapes /\ r[k - 1]

EndOrRune(r, n, e, P, m) ==
  \/ ~r[n] /\ text[head + n + 1] = Quote /\ head + n = e
  \/ r[n] /\ text[head + n + 1] = U /\ head + n - 1 \in P /\ Long(text, head + n - 1, P, m)

\* A raw string stops at the closing quote or at a rune.
LEMMA RawStopIs ==
  ASSUME NEW e, NEW P, NEW m, Reading(e, P, m),
         escape.reading \in BOOLEAN, RawPlace(text, e, P, head, escape.reading),
         NEW r, r[0] = escape.reading,
         \A k \in 1..Buffered : r[k] = (text[head + k] = Backslash /\ ~r[k - 1]),
         NEW n \in 0..Buffered, \A k \in 1..n : ~Stop(r, k)
  PROVE  /\ r[n] \in BOOLEAN /\ RawPlace(text, e, P, head + n, r[n])
         /\ n < Buffered /\ Stop(r, n + 1) => EndOrRune(r, n, e, P, m)
<1>1. /\ Decodes(text, e, P, m) /\ head \in Nat /\ Buffered \in Nat /\ text \in Seq(Nat)
      /\ tail \in Nat /\ tail <= Len(text) /\ Buffered = tail - head /\ Len(text) \in Nat
  BY ReadingFacts
<1>2. n \in Nat /\ \A k \in 1..n : k \in 1..Buffered
  BY <1>1
<1>3. r[n] \in BOOLEAN /\ RawPlace(text, e, P, head + n, r[n])
  <2>1. \A k \in 1..n : r[k] = (text[head + k] = Backslash /\ ~r[k - 1])
    BY <1>2
  <2>2. \A k \in 1..n : ~(text[head + k] = Quote /\ ~r[k - 1]) /\ ~(text[head + k] \notin Escapes /\ r[k - 1])
    BY DEF Stop
  <2>3. r[0] \in BOOLEAN /\ RawPlace(text, e, P, head, r[0])
    OBVIOUS
  <2> QED BY <1>1, <1>2, <2>1, <2>2, <2>3, RawRun
<1>4. ASSUME n < Buffered, Stop(r, n + 1)
      PROVE  \/ ~r[n] /\ text[head + n + 1] = Quote /\ head + n = e
             \/ r[n] /\ text[head + n + 1] = U /\ head + n - 1 \in P /\ Long(text, head + n - 1, P, m)
  <2> DEFINE j == head + n
             c == text[j + 1]
  <2>1. j \in Nat /\ head + (n + 1) = j + 1 /\ (n + 1) - 1 = n
    BY <1>1, <1>2
  <2>2. c < 32 \/ (c = Quote /\ ~r[n]) \/ (c \notin Escapes /\ r[n])
    BY <1>4, <2>1 DEF Stop
  <2>3. CASE ~r[n]
    <3>1. j \in P
      BY <1>3, <2>3 DEF RawPlace
    <3>2. c >= 32 /\ (c = Quote <=> j = e) /\ c \in Nat
      <4>1. j + 1 \in 1..Len(text) /\ c >= 32 /\ (c = Quote <=> j = e)
        <5> HIDE DEF j
        <5> QED BY <1>1, <3>1, AtPlace
      <4> QED BY <1>1, <4>1
    <3>3. c = Quote
      <4> HIDE DEF c
      <4> QED BY <2>2, <2>3, <3>2
    <3> QED BY <2>3, <3>2, <3>3
  <2>4. CASE r[n]
    <3> DEFINE i == j - 1
    <3>1. i \in P \ {e} /\ text[j] = Backslash
      BY <1>3, <2>4 DEF RawPlace
    <3>2. i + 1 = j /\ i + 2 = j + 1
      BY <2>1
    <3>3. Short(text, i, P, m) \/ Long(text, i, P, m)
      <4>1. text[i + 1] = Backslash /\ i \in P
        BY <3>1, <3>2
      <4> HIDE DEF i, j
      <4> QED BY <1>1, <4>1, AtPlace
    <3>4. c \notin Escapes \/ c < 32
      BY <2>2, <2>4
    <3>5. ~(c \in Escapes /\ c < 32)
      BY DEF Escapes, Quote, Backslash
    <3>6. U \notin Escapes /\ ~(U < 32)
      BY DEF U, Escapes, Quote, Backslash
    <3>7. c = text[i + 2]
      BY <3>2
    <3>8. Long(text, i, P, m)
      <4> HIDE DEF i, c
      <4> QED BY <3>3, <3>4, <3>5, <3>7 DEF Short
    <3>9. c = U
      <4> HIDE DEF i, c
      <4> QED BY <3>7, <3>8 DEF Long
    <3>10. text[head + n + 1] = U
      BY <3>9
    <3>11. head + n - 1 \in P /\ Long(text, head + n - 1, P, m)
      <4>1. i = head + n - 1
        BY <1>1, <1>2
      <4> HIDE DEF i
      <4> QED BY <3>1, <3>8, <4>1
    <3> QED BY <2>4, <3>10, <3>11, Zenon
  <2> QED BY <1>3, <2>3, <2>4
<1> QED BY <1>3, <1>4 DEF EndOrRune

LEMMA ReadRawStringInnerInv ==
  ASSUME NEW e, NEW P, NEW m, Reading(e, P, m), Place(e, P, m), Kept, ReadRawStringInner
  PROVE  Reading(e, P, m)' /\ Place(e, P, m)'
<1> DEFINE r == CHOOSE f : IsReading(f)
           stops == {k \in 1..Buffered : \/ At(head + k - 1) < 32
                                         \/ At(head + k - 1) = Quote /\ ~r[k - 1]
                                         \/ At(head + k - 1) \notin Escapes /\ r[k - 1]}
           k == FirstOf(stops)
           c == At(head + k - 1)
           seen(n) == escape.has \/ \E j \in 1..n : At(head + j - 1) = Backslash
           Copied(n, x) == sb' = sb \o Window8(n) /\ escape' = [reading |-> x, has |-> seen(n)]
<1>1. /\ Decodes(text, e, P, m) /\ head \in Nat /\ tail \in Nat /\ Buffered \in Nat /\ Buffered = tail - head
      /\ text \in Seq(Nat) /\ tail <= Len(text) /\ Len(text) \in Nat /\ high = 0
  BY ReadingFacts
<1>2. /\ escape.reading \in BOOLEAN /\ RawPlace(text, e, P, head, escape.reading)
      /\ escape.reading => escape.has
      /\ CopiedTo(head) /\ Buffered > 0
  BY DEF Place, ReadRawStringInner
<1>3. /\ r[0] = escape.reading
      /\ \A i \in 1..Buffered : r[i] = (text[head + i] = Backslash /\ ~r[i - 1])
  <2>1. \E f : IsReading(f)
    BY <1>2, IsReadingIs
  <2>2. IsReading(r)
    BY <2>1
  <2> HIDE DEF r
  <2> QED BY <1>2, <2>2, IsReadingIs
<1>4. \/ /\ stops = {} /\ Go("raw", tail) /\ Copied(Buffered, r[Buffered])
         /\ UNCHANGED <<rune, digits, high, rest>>
      \/ /\ stops # {} /\ c = Quote /\ Close("rawString", head + k) /\ Copied(k, FALSE)
         /\ UNCHANGED <<rune, digits, high>>
      \/ /\ stops # {} /\ c = U /\ head + k + 4 > tail
         /\ Go("rawU4", head + k) /\ Copied(k, FALSE) /\ digits' = 0
         /\ UNCHANGED <<rune, high, rest>>
      \/ /\ stops # {} /\ c = U /\ head + k + 4 <= tail
         /\ IF AreHex(SubSeq(text, head + k + 1, head + k + 4))
            THEN Go("raw", head + k + 4) /\ Copied(k + 4, FALSE) /\ UNCHANGED <<rune, digits, high, rest>>
            ELSE Fail(head + k)
      \/ stops # {} /\ c \notin {Quote, U} /\ Fail(head)
  BY Zenon DEF ReadRawStringInner, IsReading
<1>5. \A i \in 1..Buffered : i \in stops <=> Stop(r, i)
  <2>1. Buffered \in 0..Buffered
    BY <1>1
  <2>2. \A i \in 1..Buffered : At(head + i - 1) = text[head + i]
    BY <2>1, Window8Is
  <2> HIDE DEF r
  <2> QED BY <2>2 DEF Stop
<1>6. ASSUME NEW n \in 0..Buffered, NEW x, Copied(n, x)
      PROVE  /\ sb' = sb \o Window8(n) /\ escape'.reading = x
             /\ escape'.has <=> seen(n)
             /\ ~escape'.has => ~escape.has /\ \A j \in 1..n : text[head + j] # Backslash
  <2>1. sb' = sb \o Window8(n) /\ escape' = [reading |-> x, has |-> seen(n)]
    BY <1>6
  <2>2. escape'.reading = x /\ escape'.has = seen(n)
    <3> HIDE DEF seen
    <3> QED BY <2>1
  <2>3. \A j \in 1..n : At(head + j - 1) = text[head + j]
    BY Window8Is
  <2>4. ~seen(n) => ~escape.has /\ \A j \in 1..n : text[head + j] # Backslash
    BY <2>3
  <2> HIDE DEF seen
  <2> QED BY <2>1, <2>2, <2>4, Zenon
<1> HIDE DEF r, seen
<1>7. ASSUME NEW n \in 0..Buffered, NEW x, Copied(n, x), head' = head + n
      PROVE  CopiedTo(head)'
  <2>1. reads # "skipString" => sb' = SubSeq(text', 1, head') /\ (~escape'.has => \A i \in 1..head' : text'[i] # Backslash)
    <3>1. sb' = sb \o Window8(n) /\ (~escape'.has => ~escape.has /\ \A j \in 1..n : text[head + j] # Backslash)
      BY <1>6, <1>7
    <3> HIDE DEF Copied
    <3> QED BY <1>2, <1>7, <3>1, CopiedGrows
  <2>2. reads' = reads
    BY DEF Kept
  <2> QED BY <2>1, <2>2, Zenon DEF CopiedTo
<1>8. CASE stops = {}
  <2>1. Go("raw", tail) /\ Copied(Buffered, r[Buffered]) /\ high' = high /\ rest' = rest
    BY <1>4, <1>8
  <2> HIDE DEF Copied, stops
  <2>2. pc' = "raw" /\ head' = tail /\ tail' = tail /\ error' = error /\ text' = text
    BY <2>1 DEF Go, Kept
  <2>3. Buffered \in 0..Buffered /\ head + Buffered = tail /\ Buffered \in 1..Buffered /\ \A i \in 1..Buffered : ~Stop(r, i)
    BY <1>1, <1>2, <1>5, <1>8
  <2>4. r[Buffered] \in BOOLEAN /\ RawPlace(text, e, P, head + Buffered, r[Buffered])
    BY <1>2, <1>3, <2>3, RawStopIs
  <2>5. escape'.reading = r[Buffered] /\ CopiedTo(head)'
    BY <1>6, <1>7, <2>1, <2>2, <2>3
  <2>6. r[Buffered] => escape'.has
    <3>1. r[Buffered] => text[head + Buffered] = Backslash
      BY <1>3, <2>3
    <3>2. ~escape'.has => text[head + Buffered] # Backslash
      <4>1. ~escape'.has => \A j \in 1..Buffered : text[head + j] # Backslash
        BY <1>6, <2>1, <2>3
      <4> QED BY <2>3, <4>1
    <3> QED BY <3>1, <3>2
  <2>7. Reading(e, P, m)'
    BY <1>1, <2>1, <2>2, ReadingStays
  <2>8. RawPlace(text, e, P, head, escape.reading)' /\ (escape.reading \in BOOLEAN)'
    <3>1. RawPlace(text', e, P, head', escape'.reading)
      BY <2>2, <2>3, <2>4, <2>5
    <3> QED BY <2>4, <2>5, <3>1, Zenon
  <2>9. Place(e, P, m)'
    BY <2>2, <2>5, <2>6, <2>8 DEF Place
  <2> QED BY <2>7, <2>9
<1>9. CASE stops # {}
  <2> DEFINE n == k - 1
  <2>1. stops \in SUBSET (1..Buffered)
    OBVIOUS
  <2>2. /\ k \in stops /\ k \in 1..Buffered /\ n \in 0..Buffered
        /\ \A i \in 1..n : i \in 1..Buffered /\ i \notin stops
    <3> HIDE DEF stops
    <3> QED BY <1>9, <2>1, StopsIs
  <2>3. n + 1 = k /\ n < Buffered /\ n \in Nat /\ k \in 0..Buffered /\ head + n + 1 = head + k /\ head + n - 1 = head + k - 2
    <3> HIDE DEF stops, k
    <3> QED BY <1>1, <2>2
  <2>c. c = text[head + k]
    <3>1. Buffered \in 0..Buffered
      BY <1>1
    <3> HIDE DEF stops, k
    <3> QED BY <2>2, <3>1, Window8Is
  <2> HIDE DEF stops, k, n, c, Copied
  <2>4. \/ ~r[n] /\ c = Quote /\ head + n = e
        \/ r[n] /\ c = U /\ head + n - 1 \in P /\ Long(text, head + n - 1, P, m)
    <3>1. \A i \in 1..n : ~Stop(r, i)
      BY <1>5, <2>2
    <3>2. Stop(r, n + 1)
      BY <1>5, <2>2, <2>3
    <3>3. EndOrRune(r, n, e, P, m)
      BY <1>2, <1>3, <2>2, <2>3, <3>1, <3>2, RawStopIs
    <3> QED BY <2>3, <2>c, <3>3 DEF EndOrRune
  <2>5. Quote # U
    BY DEF Quote, U
  <2>6. CASE c = Quote
    <3>1. Close("rawString", head + k) /\ Copied(k, FALSE) /\ high' = high /\ head + n = e
      BY <1>4, <1>9, <2>4, <2>5, <2>6
    <3>2. head + k = e + 1
      BY <1>1, <2>3, <3>1
    <3>3. Close("rawString", e + 1)
      BY <3>1, <3>2
    <3>4. pc' = "rawString" /\ head' = e + 1 /\ tail' = tail /\ error' = error /\ rest' = expected.rest
      BY <3>3, CloseIs
    <3>5. CopiedTo(head)'
      BY <1>7, <2>3, <3>1, <3>2, <3>4
    <3>6. head' \in Nat /\ head' <= tail
      BY <1>1, <2>3, <3>2, <3>4
    <3>7. Reading(e, P, m)'
      BY <3>1, <3>4, <3>6, ReadingStays
    <3>8. Place(e, P, m)'
      BY <3>4, <3>5 DEF Place
    <3> QED BY <3>7, <3>8
  <2>7. CASE c = U
    <3> DEFINE i == head + n - 1
    <3>1. r[n] /\ i \in P /\ Long(text, i, P, m)
      BY <2>4, <2>5, <2>7
    <3>2. i \in Nat
      <4> HIDE DEF i
      <4> QED BY <1>1, <3>1, AtPlace
    <3>3. head + k = i + 2 /\ head + k + 4 = i + 6 /\ head + k + 1 = i + 3
      BY <1>1, <2>3
    <3> HIDE DEF i
    <3>4. \A j \in 1..4 : HexValue(text[i + 2 + j]) >= 0
      BY <3>1 DEF Long, IsHex
    <3>5. CASE head + k + 4 <= tail
      <4>1. k + 4 \in 0..Buffered /\ head + (k + 4) = i + 6 /\ i + 6 <= tail /\ i + 2 <= i + 6 /\ i + 6 <= Len(text)
        BY <1>1, <2>3, <3>3, <3>5
      <4>2. AreHex(SubSeq(text, head + k + 1, head + k + 4))
        <5> DEFINE a == i + 2
                   b == i + 6
        <5>1. a \in Nat /\ b \in Nat /\ a <= b /\ b <= Len(text) /\ b - a = 4 /\ a + 1 = head + k + 1 /\ b = head + k + 4
          BY <3>2, <3>3, <4>1
        <5> HIDE DEF b
        <5>2. /\ Len(SubSeq(text, a + 1, b)) = b - a
              /\ \A l \in 1..(b - a) : SubSeq(text, a + 1, b)[l] = text[a + l]
          <6> HIDE DEF a
          <6> QED BY <1>1, <5>1, WindowIs
        <5> DEFINE s == SubSeq(text, a + 1, b)
        <5>3. Len(s) = 4 /\ \A l \in 1..4 : s[l] = text[a + l]
          BY <5>1, <5>2
        <5>4. s = SubSeq(text, head + k + 1, head + k + 4)
          BY <5>1
        <5> HIDE DEF s
        <5>5. AreHex(s)
          BY <3>4, <5>3 DEF AreHex
        <5> QED BY <5>4, <5>5
      <4>3. Go("raw", head + k + 4) /\ Copied(k + 4, FALSE) /\ high' = high /\ rest' = rest
        <5>1. ~(head + k + 4 > tail)
          BY <1>1, <2>3, <3>5
        <5> QED BY <1>4, <1>9, <2>5, <2>7, <4>2, <5>1
      <4>4. pc' = "raw" /\ head' = i + 6 /\ tail' = tail /\ error' = error /\ text' = text
        BY <3>3, <4>3 DEF Go, Kept
      <4>5. CopiedTo(head)' /\ escape'.reading = FALSE
        <5>1. head' = head + (k + 4)
          BY <4>1, <4>4
        <5> DEFINE l == k + 4
        <5>2. l \in 0..Buffered /\ Copied(l, FALSE) /\ head' = head + l
          BY <4>1, <4>3, <5>1
        <5> HIDE DEF l
        <5> QED BY <1>6, <1>7, <5>2
      <4>6. i + 6 \in P
        BY <3>1 DEF Long
      <4>7. RawPlace(text, e, P, head, escape.reading)' /\ (escape.reading \in BOOLEAN)'
        BY <4>4, <4>5, <4>6 DEF RawPlace
      <4>8. Reading(e, P, m)'
        <5>1. head' \in Nat /\ head' <= tail
          BY <3>2, <4>1, <4>4
        <5> QED BY <4>3, <4>4, <5>1, ReadingStays
      <4>9. Place(e, P, m)'
        BY <4>4, <4>5, <4>7 DEF Place
      <4> QED BY <4>8, <4>9
    <3>6. CASE ~(head + k + 4 <= tail)
      <4>1. Go("rawU4", head + k) /\ Copied(k, FALSE) /\ digits' = 0 /\ high' = high /\ rest' = rest
        BY <1>4, <1>9, <2>5, <2>7, <3>6
      <4>2. pc' = "rawU4" /\ head' = i + 2 /\ tail' = tail /\ error' = error /\ text' = text
        BY <3>3, <4>1 DEF Go, Kept
      <4>3. CopiedTo(head)' /\ escape'.reading = FALSE
        BY <1>6, <1>7, <2>3, <3>3, <4>1, <4>2
      <4>4. escape'.has
        <5>1. CASE n = 0
          <6>1. escape.has
            BY <1>2, <1>3, <3>1, <5>1
          <6>2. ~escape'.has => ~escape.has
            BY <1>6, <2>3, <4>1
          <6> QED BY <6>1, <6>2
        <5>2. CASE n # 0
          <6>1. n \in 1..Buffered /\ n \in 1..k
            BY <1>1, <2>3, <5>2
          <6>2. text[head + n] = Backslash
            BY <1>3, <3>1, <6>1
          <6>3. ~escape'.has => \A j \in 1..k : text[head + j] # Backslash
            BY <1>6, <2>3, <4>1
          <6> QED BY <6>1, <6>2, <6>3
        <5> QED BY <5>1, <5>2
      <4>5. Reading(e, P, m)'
        <5>1. head' \in Nat /\ head' <= tail
          BY <1>1, <2>3, <2>2, <3>3, <4>2
        <5> QED BY <4>1, <4>2, <5>1, ReadingStays
      <4>6. InRune(P, m)'
        <5>1. digits' \in 0..3 /\ head' - digits' - 2 = i
          BY <3>2, <4>1, <4>2
        <5>2. Long(text', i, P, m)
          BY <3>1, <4>2
        <5> QED BY <3>1, <5>1, <5>2, Zenon DEF InRune
      <4>7. Place(e, P, m)'
        BY <4>2, <4>3, <4>4, <4>6 DEF Place
      <4> QED BY <4>5, <4>7
    <3> QED BY <3>5, <3>6
  <2> QED BY <2>4, <2>6, <2>7
<1> QED BY <1>8, <1>9

LEMMA ReadAndFillU4Inv ==
  ASSUME NEW e, NEW P, NEW m, Reading(e, P, m), Place(e, P, m), Kept, ReadAndFillU4
  PROVE  Reading(e, P, m)' /\ Place(e, P, m)'
<1> DEFINE i == head - digits - 2
<1>1. /\ Decodes(text, e, P, m) /\ head \in Nat /\ tail \in Nat /\ Buffered \in Nat /\ Buffered = tail - head
      /\ text \in Seq(Nat) /\ high = 0
  BY ReadingFacts
<1>2. /\ digits \in 0..3 /\ i \in P /\ Long(text, i, P, m) /\ escape.reading = FALSE /\ escape.has /\ CopiedTo(head)
      /\ Buffered > 0
  BY DEF Place, ReadAndFillU4, InRune
<1>3. i \in Nat /\ head = i + 2 + digits /\ digits \in Nat /\ head + 1 <= tail /\ 1 \in 0..Buffered
      /\ i + 2 + (digits + 1) = head + 1 /\ digits + 1 \in 1..4
  <2>1. i \in Nat
    <3> HIDE DEF i
    <3> QED BY <1>1, <1>2, AtPlace
  <2> QED BY <1>1, <1>2, <2>1
<1> HIDE DEF i
<1>4. AreHex(Window8(1))
  <2>1. Len(Window8(1)) = 1 /\ \A k \in 1..1 : Window8(1)[k] = text[head + k]
    BY <1>3, Window8Is
  <2>2. HexValue(text[head + 1]) >= 0
    <3>1. HexValue(text[i + 2 + (digits + 1)]) >= 0
      BY <1>2, <1>3 DEF Long, IsHex
    <3> QED BY <1>3, <3>1
  <2>3. \A k \in 1..1 : k = 1
    OBVIOUS
  <2> QED BY <2>1, <2>2, <2>3 DEF AreHex
<1>5. /\ Go(IF digits = 3 THEN "raw" ELSE "rawU4", head + 1)
      /\ sb' = sb \o Window8(1) /\ digits' = digits + 1
      /\ high' = high /\ escape' = escape /\ rest' = rest
  BY <1>4 DEF ReadAndFillU4
<1>6. /\ pc' = (IF digits = 3 THEN "raw" ELSE "rawU4") /\ head' = head + 1 /\ tail' = tail /\ error' = error
      /\ text' = text /\ reads' = reads
  BY <1>5 DEF Go, Kept
<1>7. Reading(e, P, m)'
  <2>1. head' \in Nat /\ head' <= tail /\ pc' \notin {"rawString", "read"}
    BY <1>1, <1>3, <1>6
  <2> QED BY <1>5, <1>6, <2>1, ReadingStays
<1>8. CopiedTo(head)'
  <2>1. ~escape'.has => ~escape.has /\ \A j \in 1..1 : text[head + j] # Backslash
    BY <1>2, <1>5
  <2>2. reads # "skipString" => sb' = SubSeq(text', 1, head') /\ (~escape'.has => \A j \in 1..head' : text'[j] # Backslash)
    BY <1>2, <1>3, <1>5, <1>6, <2>1, CopiedGrows
  <2> QED BY <1>6, <2>2, Zenon DEF CopiedTo
<1>9. CASE digits = 3
  <2>1. pc' = "raw" /\ head' = i + 6 /\ i + 6 \in P
    BY <1>2, <1>3, <1>6, <1>9 DEF Long
  <2>2. RawPlace(text, e, P, head, escape.reading)' /\ (escape.reading \in BOOLEAN)' /\ escape'.reading = FALSE
    BY <1>2, <1>5, <2>1 DEF RawPlace
  <2>3. Place(e, P, m)'
    BY <1>8, <2>1, <2>2 DEF Place
  <2> QED BY <1>7, <2>3
<1>10. CASE digits # 3
  <2>1. pc' = "rawU4" /\ digits' \in 0..3 /\ head' - digits' - 2 = i
    BY <1>2, <1>3, <1>5, <1>6, <1>10
  <2>2. InRune(P, m)'
    <3>1. Long(text', i, P, m)
      BY <1>2, <1>6
    <3> QED BY <1>2, <2>1, <3>1, Zenon DEF InRune
  <2>3. escape'.reading = FALSE /\ escape'.has
    BY <1>2, <1>5
  <2>4. Place(e, P, m)'
    BY <1>8, <2>1, <2>2, <2>3 DEF Place
  <2> QED BY <1>7, <2>4
<1> QED BY <1>9, <1>10

\* A raw string without a backslash is the string; one with a backslash is read
\* as a string, all of which there is.
LEMMA RawStringInv ==
  ASSUME NEW e, NEW P, NEW m, Reading(e, P, m), Place(e, P, m), UNCHANGED <<reads, expected>>, RawString
  PROVE  Reading(e, P, m)' /\ Place(e, P, m)'
<1>1. /\ Decodes(text, e, P, m) /\ head \in Nat /\ tail \in Nat /\ e \in Nat /\ e < Len(text) /\ Len(text) \in Nat
      /\ text \in Seq(Nat) /\ 0 \in P /\ m \in [P -> Seq(Nat)] /\ m[e] = <<>> /\ head <= tail
  BY ReadingFacts
<1>2. head = e + 1 /\ CopiedTo(head) /\ rest = expected.rest
  BY DEF Place, RawString, Reading
<1>3. rest' = rest /\ error' = error /\ high' = high /\ reads' = reads /\ expected' = expected
  BY DEF RawString
<1> DEFINE u == SubSeq(text, 1, e + 1)
<1>4. u \in Seq(Nat) /\ Len(u) = e + 1 /\ \A i \in 1..(e + 1) : u[i] = text[i]
  <2>1. 0 \in Nat /\ e + 1 \in Nat /\ 0 <= e + 1 /\ e + 1 <= Len(text) /\ 0 + 1 = 1 /\ (e + 1) - 0 = e + 1
    BY <1>1
  <2>2. SubSeq(text, 0 + 1, e + 1) \in Seq(Nat) /\ Len(SubSeq(text, 0 + 1, e + 1)) = (e + 1) - 0
        /\ \A k \in 1..((e + 1) - 0) : SubSeq(text, 0 + 1, e + 1)[k] = text[0 + k]
    BY <1>1, <2>1, WindowIs
  <2>3. \A k \in 1..(e + 1) : 0 + k = k
    BY <1>1
  <2> QED BY <2>1, <2>2, <2>3
<1>5. CASE reads = "skipString" \/ ~escape.has
  <2>1. pc' = "read" /\ sb' = SubSeq(sb, 1, Len(sb) - 1) /\ text' = text /\ reader' = reader /\ head' = head /\ tail' = tail
    BY <1>5 DEF RawString
  <2>2. Reading(e, P, m)'
    <3>1. Kept
      BY <1>3, <2>1 DEF Kept
    <3> QED BY <1>1, <1>2, <1>3, <2>1, <3>1, ReadingStays
  <2>3. ASSUME reads # "skipString" PROVE sb' = m[0]
    <3>1. sb = u /\ \A i \in 1..(e + 1) : text[i] # Backslash
      BY <1>2, <1>5, <2>3 DEF CopiedTo
    <3>2. NoBackslash(text, 0, e)
      <4>1. \A k \in 1..(e - 0) : k \in 1..(e + 1) /\ 0 + k = k
        BY <1>1
      <4> QED BY <3>1, <4>1 DEF NoBackslash
    <3>3. Run(text, 0, e, P, m)
      <4>1. 0 <= e
        BY <1>1
      <4> QED BY <1>1, <3>2, <4>1, PlainRun
    <3> DEFINE w == SubSeq(text, 1, e)
    <3>4. w \in Seq(Nat) /\ m[0] = w \o <<>>
      <4>1. 0 + 1 = 1
        OBVIOUS
      <4> QED BY <1>1, <3>3, <4>1 DEF Run
    <3>5. m[0] = w
      <4> HIDE DEF w
      <4> QED BY <3>4, ConcatEmptySeq
    <3>6. SubSeq(SubSeq(text, 1, e + 1), 1, e) = w
      <4>1. 1 \in 1..Len(text) /\ e + 1 \in 0..Len(text) /\ (e + 1) - 1 = e
        BY <1>1
      <4>2. CASE e = 0
        <5>1. e \in Int /\ 1 \in Int /\ e < 1
          BY <1>1, <4>2
        <5> QED BY <5>1, SubSeqEmpty
      <4>3. CASE e # 0
        <5> DEFINE a == SubSeq(u, 1, e)
        <5>1. a \in Seq(Nat) /\ Len(a) = e /\ \A k \in 1..e : a[k] = u[k]
          <6>1. 0 \in Nat /\ 0 <= e /\ e <= Len(u) /\ 0 + 1 = 1 /\ e - 0 = e
            BY <1>1, <1>4
          <6> HIDE DEF u
          <6>2. SubSeq(u, 0 + 1, e) \in Seq(Nat) /\ Len(SubSeq(u, 0 + 1, e)) = e - 0
                /\ \A k \in 1..(e - 0) : SubSeq(u, 0 + 1, e)[k] = u[0 + k]
            BY <1>1, <1>4, <6>1, WindowIs
          <6>3. \A k \in 1..e : 0 + k = k
            BY <1>1
          <6> QED BY <6>1, <6>2, <6>3
        <5>2. w \in Seq(Nat) /\ Len(w) = e /\ \A k \in 1..e : w[k] = text[k]
          <6>1. 0 \in Nat /\ 0 <= e /\ e <= Len(text) /\ 0 + 1 = 1 /\ e - 0 = e
            BY <1>1
          <6>2. SubSeq(text, 0 + 1, e) \in Seq(Nat) /\ Len(SubSeq(text, 0 + 1, e)) = e - 0
                /\ \A k \in 1..(e - 0) : SubSeq(text, 0 + 1, e)[k] = text[0 + k]
            BY <1>1, <6>1, WindowIs
          <6>3. \A k \in 1..e : 0 + k = k
            BY <1>1
          <6> QED BY <6>1, <6>2, <6>3
        <5>3. \A k \in 1..e : a[k] = w[k]
          <6>1. \A k \in 1..e : k \in 1..(e + 1)
            BY <1>1
          <6> HIDE DEF a, u, w
          <6> QED BY <1>4, <5>1, <5>2, <6>1
        <5>4. a = w
          <6> HIDE DEF a, w
          <6> QED BY <5>1, <5>2, <5>3, SeqEqual
        <5> QED BY <5>4
      <4> QED BY <4>2, <4>3
    <3>7. Len(sb) - 1 = e
      <4> HIDE DEF u
      <4> QED BY <1>1, <1>4, <3>1
    <3>8. SubSeq(sb, 1, Len(sb) - 1) = SubSeq(u, 1, e)
      <4> HIDE DEF u
      <4> QED BY <3>1, <3>7
    <3> QED BY <2>1, <3>5, <3>6, <3>8
  <2>4. Place(e, P, m)'
    BY <1>2, <1>3, <2>1, <2>3 DEF Place
  <2> QED BY <2>2, <2>4
<1>6. CASE ~(reads = "skipString" \/ ~escape.has)
  <2>1. pc' = "string" /\ sb' = <<>> /\ text' = sb /\ reader' = FALSE /\ head' = 0 /\ tail' = Len(sb)
    BY <1>6 DEF RawString
  <2>2. sb = u
    BY <1>2, <1>6 DEF CopiedTo
  <2> HIDE DEF u
  <2>3. text' = u /\ tail' = Len(u)
    BY <2>1, <2>2
  <2>4. Decodes(u, e, P, m)
    <3>1. e < Len(u)
      BY <1>1, <1>4
    <3> QED BY <1>1, <1>4, <3>1, DecodesPrefix
  <2>5. Decodes(text, e, P, m)'
    BY <2>3, <2>4, Zenon
  <2>6. Reading(e, P, m)'
    <3>1. m[0] = expected.means /\ error = "nil" /\ high = 0 /\ expected.rest # Broken
      BY DEF Reading
    <3>2. (head \in Nat)' /\ (tail \in Nat)' /\ (head <= tail)' /\ (tail <= Len(text))' /\ tail' = Len(text)'
      BY <1>1, <1>4, <2>1, <2>3
    <3> QED BY <1>2, <1>3, <2>5, <3>1, <3>2 DEF Reading
  <2>7. SoFar(m, head)'
    <3>1. <<>> \o m[0] = m[0]
      <4>1. m[0] \in Seq(Nat)
        BY <1>1
      <4> QED BY <4>1, ConcatEmptySeq
    <3> QED BY <2>1, <3>1 DEF SoFar
  <2>8. Place(e, P, m)'
    BY <1>1, <2>1, <2>7 DEF Place
  <2> QED BY <2>6, <2>8
<1> QED BY <1>5, <1>6

LEMMA SkipStringInv ==
  ASSUME NEW e, NEW P, NEW m, Reading(e, P, m), Place(e, P, m), Kept, SkipString
  PROVE  Reading(e, P, m)' /\ Place(e, P, m)'
<1> DEFINE stops == {k \in 1..Buffered : At(head + k - 1) \in {Quote, Backslash} \cup (0..31)}
           k == FirstOf(stops)
           c == At(head + k - 1)
<1>1. /\ Decodes(text, e, P, m) /\ head \in Nat /\ tail \in Nat /\ Buffered \in Nat /\ Buffered = tail - head
      /\ head <= tail /\ 0 \in P /\ e \in Nat
  BY ReadingFacts
<1>2. head = 0 /\ head \in P /\ reads = "skipString" /\ reads' = "skipString" /\ escape.reading = FALSE /\ text' = text
      /\ expected' = expected
  BY <1>1 DEF Place, SkipString, Kept
<1>3. ASSUME pc' = "raw", UNCHANGED <<builder, rest>>, head' \in P, tail' = tail, error' = error, head' <= tail
      PROVE  Reading(e, P, m)' /\ Place(e, P, m)'
  <2>1. high' = high /\ escape' = escape /\ rest' = rest
    BY <1>3 DEF builder
  <2>2. head' \in Nat
    BY <1>1, <1>3, AtPlace
  <2>3. Reading(e, P, m)'
    BY <1>3, <2>1, <2>2, ReadingStays
  <2>4. CopiedTo(head)'
    BY <1>2, Zenon DEF CopiedTo
  <2>5. RawPlace(text, e, P, head, escape.reading)' /\ (escape.reading \in BOOLEAN)' /\ escape'.reading = FALSE
    BY <1>2, <1>3, <2>1 DEF RawPlace
  <2>6. Place(e, P, m)'
    BY <1>3, <2>4, <2>5 DEF Place
  <2> QED BY <2>3, <2>6
<1>4. CASE stops = {}
  <2>1. Go("raw", head) /\ UNCHANGED <<builder, rest>>
    BY <1>4 DEF SkipString
  <2> QED BY <1>1, <1>2, <1>3, <2>1 DEF Go
<1>5. CASE stops # {}
  <2> DEFINE n == k - 1
             j == head + n
  <2>1. stops \in SUBSET (1..Buffered)
    OBVIOUS
  <2>2. /\ k \in stops /\ k \in 1..Buffered /\ n \in 0..Buffered
        /\ \A i \in 1..n : i \in 1..Buffered /\ i \notin stops
    <3> HIDE DEF stops
    <3> QED BY <1>5, <2>1, StopsIs
  <2>3. \A i \in 1..n : text[head + i] # Quote /\ text[head + i] # Backslash
    <3>1. Buffered \in 0..Buffered
      BY <1>1
    <3>2. \A i \in 1..Buffered : At(head + i - 1) = text[head + i]
      BY <3>1, Window8Is
    <3>3. \A i \in 1..Buffered : i \notin stops => text[head + i] # Quote /\ text[head + i] # Backslash
      BY <3>2
    <3> HIDE DEF stops, k, n
    <3> QED BY <2>2, <3>3
  <2>4. /\ j \in Nat /\ head <= j /\ j - head = n /\ j <= tail /\ j + 1 <= tail /\ j + 1 = head + k /\ head + k - 1 = j
    <3> HIDE DEF stops, k
    <3> QED BY <1>1, <2>2
  <2>5. c = text[j + 1]
    <3>1. At(head + k - 1) = text[head + k - 1 + 1]
      BY DEF At
    <3> HIDE DEF stops, k, j
    <3> QED BY <2>4, <3>1
  <2>6. j \in P
    <3> HIDE DEF stops, k, n, j
    <3>1. \A i \in 1..(j - head) : text[head + i] # Quote
      BY <2>3, <2>4
    <3>2. NoBackslash(text, head, j)
      BY <2>3, <2>4 DEF NoBackslash
    <3>3. j <= e
      BY <1>1, <1>2, <2>4, <3>1, RunEnds
    <3>4. Run(text, head, j, P, m)
      BY <1>1, <1>2, <2>4, <3>2, <3>3, PlainRun
    <3> QED BY <3>4 DEF Run
  <2>7. IF c = Quote THEN Close("read", head + k) /\ UNCHANGED builder
        ELSE Go("raw", head + k - 1) /\ UNCHANGED <<builder, rest>>
    BY <1>5 DEF SkipString
  <2> HIDE DEF stops, k, n, j, c
  <2>8. CASE c = Quote
    <3>1. j = e
      BY <1>1, <2>5, <2>6, <2>8, AtPlace
    <3>2. head + k = e + 1
      BY <2>4, <3>1
    <3>3. Close("read", e + 1) /\ UNCHANGED builder
      BY <2>7, <2>8, <3>2
    <3>4. pc' = "read" /\ head' = e + 1 /\ tail' = tail /\ error' = error /\ rest' = expected.rest
      BY <3>3, CloseIs
    <3>5. high' = high /\ head' \in Nat /\ head' <= tail
      BY <1>1, <2>4, <3>1, <3>3, <3>4 DEF builder
    <3>6. Reading(e, P, m)'
      BY <3>4, <3>5, ReadingStays
    <3>7. Place(e, P, m)'
      BY <1>2, <3>4 DEF Place
    <3> QED BY <3>6, <3>7
  <2>9. CASE c # Quote
    <3>1. Go("raw", j) /\ UNCHANGED <<builder, rest>>
      BY <2>4, <2>7, <2>9
    <3> QED BY <1>3, <2>4, <2>6, <3>1 DEF Go
  <2> QED BY <2>8, <2>9
<1> QED BY <1>4, <1>5

----------------------------------------------------------------------------
(* The theorem.                                                            *)

LEMMA BytesAreNat == /\ \A s \in Seq(Chars) : s \in Seq(Nat)
                     /\ \A s \in Seq({Comma}) : s \in Seq(Nat)
                     /\ \A s \in Seq(Nat) : s # Broken
<1>1. Chars \in SUBSET Nat /\ {Comma} \in SUBSET Nat
  BY DEF Chars, Comma
<1>2. \A s \in Seq(Chars) : s \in Seq(Nat)
  <2> HIDE DEF Chars
  <2> QED BY <1>1, SeqMonotonic
<1>3. \A s \in Seq({Comma}) : s \in Seq(Nat)
  BY <1>1, SeqMonotonic
<1>4. Broken \notin Seq(Nat)
  BY DEF Broken
<1> QED BY <1>2, <1>3, <1>4

\* A text is followed by its suffix.
LEMMA SuffixIs ==
  ASSUME NEW w \in Seq(Nat), NEW s \in Seq(Nat)
  PROVE  /\ w \o s \in Seq(Nat) /\ Len(w \o s) = Len(w) + Len(s)
         /\ \A i \in 1..Len(w) : (w \o s)[i] = w[i]
         /\ SubSeq(w \o s, Len(w) + 1, Len(w \o s)) = s
<1>1. Len(w) \in Nat /\ Len(s) \in Nat
  OBVIOUS
<1>2. w \o s \in Seq(Nat) /\ Len(w \o s) = Len(w) + Len(s) /\ \A i \in 1..(Len(w) + Len(s)) : (w \o s)[i] = IF i <= Len(w) THEN w[i] ELSE s[i - Len(w)]
  BY ConcatProperties
<1>3. \A i \in 1..Len(w) : (w \o s)[i] = w[i]
  <2>1. \A i \in 1..Len(w) : i \in 1..(Len(w) + Len(s)) /\ i <= Len(w)
    BY <1>1
  <2> QED BY <1>2, <2>1
<1>4. CASE Len(s) = 0
  <2>1. s = <<>>
    BY <1>4, EmptySeq
  <2>2. Len(w) + 1 \in Int /\ Len(w) + Len(s) \in Int /\ Len(w) + Len(s) < Len(w) + 1
    BY <1>1, <1>4
  <2>3. SubSeq(w \o s, Len(w) + 1, Len(w) + Len(s)) = <<>>
    BY <2>2, SubSeqEmpty
  <2> QED BY <1>2, <1>3, <2>1, <2>3
<1>5. CASE Len(s) # 0
  <2> DEFINE a == Len(w) + 1
             b == Len(w) + Len(s)
  <2>1. a \in Len(w)+1 .. Len(w)+Len(s) /\ b \in Len(w)+1 .. Len(w)+Len(s) /\ a - Len(w) = 1 /\ b - Len(w) = Len(s)
    BY <1>1, <1>5
  <2> HIDE DEF a, b
  <2>2. SubSeq(w \o s, a, b) = SubSeq(s, a - Len(w), b - Len(w))
    BY <2>1, SubSeqOfConcat2
  <2>3. SubSeq(s, 1, Len(s)) = s
    BY SubSeqFull
  <2>4. SubSeq(w \o s, a, b) = s
    BY <2>1, <2>2, <2>3
  <2> QED BY <1>2, <1>3, <2>4 DEF a, b
<1> QED BY <1>4, <1>5

LEMMA StringInitInv == StringInit => StringInv
<1> SUFFICES ASSUME StringInit, written, reads # "binary"
             PROVE  \E e, P, m : Reading(e, P, m) /\ Place(e, P, m)
  BY DEF StringInv
<1>1. PICK s \in Strings, html \in BOOLEAN, suffix \in Suffixes :
        /\ text = WriteString(s, html) \o suffix
        /\ expected = [means |-> IF html THEN Sanitized(s) ELSE s, rest |-> suffix]
  BY DEF StringInit
<1>2. /\ reads \in {"ReadString", "ReadRawString", "skipString"}
      /\ sb = <<>> /\ high = 0 /\ rest = Broken /\ escape = [reading |-> FALSE, has |-> FALSE]
      /\ reader \in BOOLEAN /\ head = 0 /\ tail = IF reader THEN 0 ELSE Len(text)
      /\ pc = CASE reads = "ReadString" -> "string" [] reads \in {"ReadRawString", "binary"} -> "raw" [] OTHER -> "skip"
      /\ error = "nil"
  BY DEF StringInit, NoString
<1>3. s \in Seq(Nat) /\ suffix \in Seq(Nat) /\ suffix # Broken
  <2>1. s \in Seq(Chars) /\ suffix \in Seq({Comma})
    BY StringCodecAssumption, IntCodecAssumption
  <2>2. s \in Seq(Nat) /\ suffix \in Seq(Nat)
    BY <2>1, BytesAreNat
  <2> QED BY <2>2, BytesAreNat
<1> DEFINE w == WriteString(s, html)
           x == Meaning(s, html)
<1>4. Decodable(w, x)
  BY <1>3, WrittenIsDecodable
<1>5. expected.means = x /\ expected.rest = suffix
  BY <1>1 DEF Meaning
<1>6. text = w \o suffix
  BY <1>1
<1> HIDE DEF w, x
<1>7. PICK P, m : Decodes(w, Len(w) - 1, P, m) /\ m[0] = x
  BY <1>4 DEF Decodable
<1> DEFINE e == Len(w) - 1
<1>8. Decodes(w, e, P, m)
  BY <1>7
<1>9. w \in Seq(Nat) /\ e \in Nat /\ 0 \in P /\ m \in [P -> Seq(Nat)]
  <2> HIDE DEF e
  <2> QED BY <1>8, DecodesFacts
<1>10. Len(w) = e + 1 /\ Len(w) + 1 = e + 2
  BY <1>9
<1> HIDE DEF e
<1>11. /\ text \in Seq(Nat) /\ Len(text) = Len(w) + Len(suffix) /\ \A i \in 1..(e + 1) : text[i] = w[i]
       /\ SubSeq(text, e + 2, Len(text)) = suffix
  <2>1. /\ w \o suffix \in Seq(Nat) /\ Len(w \o suffix) = Len(w) + Len(suffix)
        /\ \A i \in 1..Len(w) : (w \o suffix)[i] = w[i]
        /\ SubSeq(w \o suffix, Len(w) + 1, Len(w \o suffix)) = suffix
    BY <1>3, <1>9, SuffixIs
  <2>2. text \in Seq(Nat) /\ Len(text) = Len(w) + Len(suffix)
    BY <1>6, <2>1
  <2>3. \A i \in 1..(e + 1) : text[i] = w[i]
    BY <1>6, <1>10, <2>1
  <2>4. SubSeq(text, e + 2, Len(text)) = suffix
    BY <1>6, <1>10, <2>1, Zenon
  <2> QED BY <2>2, <2>3, <2>4
<1>12. e < Len(text) /\ Len(text) \in Nat
  BY <1>3, <1>9, <1>10, <1>11
<1>13. Decodes(text, e, P, m)
  BY <1>8, <1>11, <1>12, DecodesPrefix
<1>14. pc \in {"string", "raw", "skip"} /\ (pc = "skip" => reads = "skipString")
  BY <1>2
<1>15. Reading(e, P, m)
  <2>1. tail \in Nat /\ head <= tail /\ tail <= Len(text) /\ (~reader => tail = Len(text))
    BY <1>2, <1>12
  <2> QED BY <1>2, <1>3, <1>5, <1>7, <1>11, <1>13, <1>14, <2>1 DEF Reading
<1>16. SoFar(m, head)
  <2>1. m[0] \in Seq(Nat)
    BY <1>9
  <2>2. <<>> \o m[0] = m[0]
    BY <2>1, ConcatEmptySeq
  <2> QED BY <1>2, <2>2 DEF SoFar
<1>17. CopiedTo(head)
  <2>1. SubSeq(text, 1, 0) = <<>>
    BY SubSeqEmpty
  <2> QED BY <1>2, <2>1 DEF CopiedTo
<1>18. escape.reading = FALSE /\ RawPlace(text, e, P, head, escape.reading)
  BY <1>2, <1>9 DEF RawPlace
<1>19. Place(e, P, m)
  BY <1>2, <1>9, <1>14, <1>16, <1>17, <1>18 DEF Place
<1> QED BY <1>15, <1>19

LEMMA StringNextInv == StringInv /\ [StringNext]_<<vars, strVars>> => StringInv'
<1> SUFFICES ASSUME StringInv, [StringNext]_<<vars, strVars>>, written', reads' # "binary"
             PROVE  \E e, P, m : (Reading(e, P, m) /\ Place(e, P, m))'
  BY DEF StringInv
<1>1. written' = written /\ reads' = reads /\ expected' = expected
  BY DEF StringNext, vars, strVars, number
<1>2. PICK e, P, m : Reading(e, P, m) /\ Place(e, P, m)
  BY <1>1 DEF StringInv
<1>3. SUFFICES Reading(e, P, m)' /\ Place(e, P, m)'
  OBVIOUS
<1>4. CASE StringNext
  <2>1. ASSUME UNCHANGED <<text, reader>> PROVE Kept
    BY <1>1, <2>1 DEF Kept
  <2>2. CASE UNCHANGED <<text, reader>> /\ LoadMore
    BY <1>2, <2>1, <2>2, LoadMoreInv
  <2>3. CASE UNCHANGED <<text, reader>> /\ ReadStringInner
    BY <1>2, <2>1, <2>3, ReadStringInnerInv
  <2>4. CASE UNCHANGED <<text, reader>> /\ ReadEscapedChar
    BY <1>2, <2>1, <2>4, ReadEscapedCharInv
  <2>5. CASE UNCHANGED <<text, reader>> /\ ReadU4
    BY <1>2, <2>1, <2>5, ReadU4Inv
  <2>6. CASE UNCHANGED <<text, reader>> /\ ReadLow
    BY <1>2, <2>6 DEF ReadLow, Place
  <2>7. CASE UNCHANGED <<text, reader>> /\ ReadLowU
    BY <1>2, <2>7 DEF ReadLowU, Place
  <2>8. CASE UNCHANGED <<text, reader>> /\ ReadRawStringInner
    BY <1>2, <2>1, <2>8, ReadRawStringInnerInv
  <2>9. CASE UNCHANGED <<text, reader>> /\ ReadAndFillU4
    BY <1>2, <2>1, <2>9, ReadAndFillU4Inv
  <2>10. CASE UNCHANGED <<text, reader>> /\ SkipString
    BY <1>2, <2>1, <2>10, SkipStringInv
  <2>11. CASE UNCHANGED <<text, reader>> /\ DecodeBinary
    BY <1>1, <2>11 DEF DecodeBinary
  <2>12. CASE RawString
    BY <1>1, <1>2, <2>12, RawStringInv
  <2> QED BY <1>4, <2>2, <2>3, <2>4, <2>5, <2>6, <2>7, <2>8, <2>9, <2>10, <2>11, <2>12 DEF StringNext
<1>5. CASE UNCHANGED <<vars, strVars>>
  <2>1. /\ text' = text /\ reader' = reader /\ head' = head /\ tail' = tail /\ pc' = pc /\ error' = error
        /\ sb' = sb /\ rune' = rune /\ digits' = digits /\ high' = high /\ escape' = escape /\ rest' = rest
    BY <1>5 DEF vars, strVars, builder
  <2>2. Reading(e, P, m)'
    <3>1. Decodes(text, e, P, m)'
      BY <1>2, <2>1, Zenon DEF Reading
    <3> QED BY <1>1, <1>2, <2>1, <3>1 DEF Reading
  <2>3. /\ InRune(P, m)' <=> InRune(P, m)
        /\ CopiedTo(head)' <=> CopiedTo(head)
        /\ Digits(head - digits, digits)' = Digits(head - digits, digits)
    BY <1>1, <2>1 DEF InRune, CopiedTo, Digits, Long, IsHex, RuneOf
  <2>4. SoFar(m, head)' = SoFar(m, head) /\ SoFar(m, head - 1)' = SoFar(m, head - 1)
        /\ SoFar(m, head - digits - 2)' = SoFar(m, head - digits - 2)
    BY <2>1 DEF SoFar
  <2>5. RawPlace(text, e, P, head, escape.reading)' <=> RawPlace(text, e, P, head, escape.reading)
    BY <2>1 DEF RawPlace
  <2>6. Place(e, P, m)'
    BY <1>1, <1>2, <2>1, <2>3, <2>4, <2>5, Zenon DEF Place
  <2> QED BY <2>2, <2>6
<1> QED BY <1>4, <1>5

\* Whatever the bytes of a string are, with escaped HTML or without, the text
\* written for it is accepted by ReadString, by ReadRawString and String, and by
\* skipString; those that return it return the string (with escaped HTML, U+FFFD
\* for bytes that are no runes), and what follows is left, wherever the reader
\* cuts the text.
THEOREM WrittenStringIsRead == StringSpec => [](written /\ reads # "binary" => StringIsRead)
<1>1. StringInv => (written /\ reads # "binary" => StringIsRead)
  <2> SUFFICES ASSUME StringInv, written, reads # "binary", pc = "read"
               PROVE  /\ error \in {"nil", "EOF"} <=> expected.means # Broken
                      /\ error = "nil" => rest = expected.rest /\ (reads # "skipString" => sb = expected.means)
    BY DEF StringIsRead
  <2>1. PICK e, P, m : Reading(e, P, m) /\ Place(e, P, m)
    BY DEF StringInv
  <2>2. m[0] = expected.means /\ error = "nil" /\ rest = expected.rest /\ (reads # "skipString" => sb = m[0])
    BY <2>1 DEF Reading, Place
  <2>3. m[0] \in Seq(Nat)
    BY <2>1, ReadingFacts
  <2>4. expected.means # Broken
    <3>1. m[0] # Broken
      BY <2>3, BytesAreNat
    <3> QED BY <2>2, <3>1
  <2> QED BY <2>2, <2>4
<1> QED BY <1>1, StringInitInv, StringNextInv, PTL DEF StringSpec
=============================================================================
