----------------------------- MODULE MCScalars -----------------------------
(* SloppySkip, FloatCodec with mantissas of 14 and 5 bits, and the strings and *)
(* integers of MCStringCodec and MCIntCodec.                               *)
EXTENDS MCStringCodec, SloppySkip

\* fractions in lowest terms: of 32 below and above the limit
Reduced(n, d) == n % 2 = 1 \/ d = 1
MCLossyValues == {v \in (0..70) \X {1, 2, 4, 8, 32} : Reduced(v[1], v[2])}
MCSmallExponent == -2
MCShortValues == {<<0, 0>>} \cup ({1, 5, 12, 25} \X (-4..3))

\* the digits as bytes; 10 and 11 stand for a dot and an e
FloatBytes(texts) == {[i \in 1..Len(t) |-> CASE t[i] < 10 -> Zero + t[i] [] t[i] = 10 -> Dot [] t[i] = 11 -> E [] OTHER -> t[i]] : t \in texts}
ShortTexts == FloatBytes(UNION {[1..n -> {0, 5, 10, 11, Minus, Plus, Comma}] : n \in 0..3})
\* numbers around what a mantissa and a word hold
Hundredths == {WriteUint(n \div 100) \o <<Dot>> \o Padded(n % 100) \o <<Comma>> :
                 n \in {1605, 16383, 16385, 20025, 28673, 32771, 65537, 99901, 131073, 200025, 211201, 261999}}
LongTexts == Hundredths \cup FloatBytes({
  <<1, 6, 3, 8, 5, Comma>>, <<2, 6, 2, 1, 3, 7, Comma>>, <<9, 9, 9, 9, 9, 9, Comma>>, <<2, 6, 2, 1, 4, 10, 5, Comma>>,
  <<1, 10, 1, 2, 5, Comma>>, <<0, 10, 0, 5, 93>>, <<1, 10, 5, 11, Minus, 1, Comma>>, <<Minus, 1, 2, 11, 1, Comma>>,
  <<5, 10, 0, 10, 1>>, <<1, 10, 5, 34>>, <<5, 34>>})
\* numbers on both sides of 2^19 and 2^20, the largest floats
HugeTexts == FloatBytes({
  <<1, 11, 6>>, <<5, 11, 6, Comma>>, <<0, 10, 5, 5, 11, 6, Comma>>, <<5, 2, 4, 2, 8, 7, Comma>>, <<5, 1, 5, 0, 0, 0>>, <<5, 1, 6, 1, 0, 0, Comma>>,
  <<Minus, 1, 11, Plus, 6, 93>>, <<1, 0, 4, 8, 5, 4, 3, Comma>>, <<1, 0, 4, 8, 5, 4, 4, Comma>>, <<1, 0, 4, 8, 5, 7, 6, 10, 0, Comma>>})
MCFloatTexts == ShortTexts \cup LongTexts \cup HugeTexts

\* after the first byte of a value, with what follows it; brackets and escaped
\* quotes in strings, and values nested one level deeper than is allowed
Value(k, bytes, after) == [kind |-> k, text |-> bytes \o (IF after = Broken THEN <<>> ELSE after), rest |-> after]
Str(s) == WriteString(s, FALSE)
Tricky == {<<>>, <<97>>, <<Backslash>>, <<Quote>>, <<Backslash, Backslash>>, <<97, Backslash, Quote>>, <<Backslash, Backslash, Quote, 93>>, <<91, 125>>}
QuotedTexts == {<<Quote>> \o Str(s) : s \in Tricky}
MCSloppyValues ==
  {Value("number", n, <<c>>) : n \in {<<>>, <<53>>, <<Dot, 53, E, Minus, 49>>}, c \in {Comma, 93, 125, 32}} \cup
  {Value("number", <<53>>, <<>>)} \cup
  {Value("string", Str(s), after) : s \in Tricky, after \in {<<>>, <<Comma, Quote>>}} \cup
  {Value("array", a \o <<93>>, after) : a \in {<<>>, <<91, 93>>, <<123, 125>>} \cup QuotedTexts, after \in {<<>>, <<93, Comma>>}} \cup
  {Value("array", <<91>> \o q \o <<93, Comma>> \o q \o <<93>>, <<93>>) : q \in QuotedTexts} \cup
  {Value("object", q \o <<58>> \o v \o <<125>>, <<125>>) : q \in QuotedTexts, v \in {<<48>>, <<123, 125>>, <<91, 93>>}} \cup
  {Value("array", <<91, 91, 93>>, Broken), Value("object", <<123, 123>>, Broken), Value("string", <<97>>, Broken), Value("object", <<Quote, 97>>, Broken), Value("array", <<48>>, Broken)}

----------------------------------------------------------------------------
ScalarInit ==
  \/ Init /\ reads = "integer" /\ expected = [means |-> <<>>, rest |-> <<>>] /\ NoString /\ NoFloat /\ NotSloppy
  \/ StringInit /\ NoFloat /\ NotSloppy
  \/ FloatInit /\ NotSloppy
  \/ SloppyInit
ScalarNext ==
  \/ Next /\ UNCHANGED <<strVars, float, sloppyVars>>
  \/ StringNext /\ UNCHANGED <<float, sloppyVars>>
  \/ FloatNext /\ UNCHANGED sloppyVars
  \/ SloppyNext
ScalarSpec == ScalarInit /\ [][ScalarNext]_<<vars, strVars, float, sloppyVars>>
=============================================================================
