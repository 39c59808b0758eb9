-------------------------------- MODULE Json --------------------------------
(***************************************************************************)
(* The JSON grammar (RFC 8259) over the bytes of module Iterator: the      *)
(* reference that Skip, Unmarshal, Valid and Decode are compared with.     *)
(* It describes no code.  Each ...End operator maps a position in the      *)
(* sequence s to the position after the construct that starts there, or to *)
(* NoEnd.                                                                  *)
(***************************************************************************)
EXTENDS Integers, Sequences

LOCAL DecimalDigits == {"0", "1"}
LOCAL NumberBytes == DecimalDigits \cup {"+", "-", ".", "e"}
LOCAL HexDigits == DecimalDigits \cup {"a", "e", "f"}

NoEnd == 0

Has(s, p, c) == p \in 1..Len(s) /\ s[p] = c

RECURSIVE RunEnd(_, _, _)
RunEnd(s, p, S) == IF p \in 1..Len(s) /\ s[p] \in S THEN RunEnd(s, p + 1, S) ELSE p

AfterSpace(s, p) == RunEnd(s, p, {" "})

LOCAL Digit(s, p) == p <= Len(s) /\ s[p] \in DecimalDigits
LOCAL SignEnd(s, p, S) == IF p <= Len(s) /\ s[p] \in S THEN p + 1 ELSE p

\* -? (0 | [1-9][0-9]*) (. [0-9]+)? (e [+-]? [0-9]+)?, and no number byte after it
NumberEndAt(s, p) ==
  LET int == SignEnd(s, p, {"-"})
      frac == IF Has(s, int, "0") THEN int + 1 ELSE RunEnd(s, int, DecimalDigits)
      exp == IF Has(s, frac, ".") THEN RunEnd(s, frac + 1, DecimalDigits) ELSE frac
      sign == SignEnd(s, exp + 1, {"+", "-"})
      end == IF Has(s, exp, "e") THEN RunEnd(s, sign, DecimalDigits) ELSE exp
  IN IF /\ Digit(s, int)
        /\ Has(s, frac, ".") => Digit(s, frac + 1)
        /\ Has(s, exp, "e") => Digit(s, sign)
        /\ RunEnd(s, p, NumberBytes) = end
     THEN end ELSE NoEnd

\* p is after the opening quote
RECURSIVE StringEnd(_, _)
StringEnd(s, p) ==
  IF p > Len(s) \/ Has(s, p, "0x00") THEN NoEnd
  ELSE IF Has(s, p, "\"") THEN p + 1
  ELSE IF ~Has(s, p, "\\") THEN StringEnd(s, p + 1)
  ELSE IF p < Len(s) /\ s[p + 1] \in {"\"", "\\", "f", "n", "r", "t"} THEN StringEnd(s, p + 2)
  ELSE IF Has(s, p + 1, "u") /\ p + 5 <= Len(s) /\ \A k \in 2..5 : s[p + k] \in HexDigits
       THEN StringEnd(s, p + 6)
  ELSE NoEnd

WordEnd(s, p, word) ==
  IF \A k \in 1..Len(word) : Has(s, p + k - 1, word[k]) THEN p + Len(word) ELSE NoEnd

RECURSIVE ValueEnd(_, _), ElementsEnd(_, _), MembersEnd(_, _)
ElementsEnd(s, p) ==     \* value (, value)* ]
  LET end == ValueEnd(s, AfterSpace(s, p))
      q == AfterSpace(s, end)
  IN IF end = NoEnd THEN NoEnd
     ELSE IF Has(s, q, "]") THEN q + 1
     ELSE IF Has(s, q, ",") THEN ElementsEnd(s, q + 1) ELSE NoEnd

MembersEnd(s, p) ==      \* name : value (, name : value)* }
  LET quote == AfterSpace(s, p)
      name == IF Has(s, quote, "\"") THEN StringEnd(s, quote + 1) ELSE NoEnd
      colon == AfterSpace(s, name)
      end == IF name # NoEnd /\ Has(s, colon, ":")
               THEN ValueEnd(s, AfterSpace(s, colon + 1)) ELSE NoEnd
      q == AfterSpace(s, end)
  IN IF end = NoEnd THEN NoEnd
     ELSE IF Has(s, q, "}") THEN q + 1
     ELSE IF Has(s, q, ",") THEN MembersEnd(s, q + 1) ELSE NoEnd

ValueEnd(s, p) ==
  IF p > Len(s) THEN NoEnd
  ELSE CASE s[p] = "\"" -> StringEnd(s, p + 1)
         [] s[p] = "n" -> WordEnd(s, p, <<"n", "u", "l", "l">>)
         [] s[p] = "t" -> WordEnd(s, p, <<"t", "r", "u", "e">>)
         [] s[p] = "f" -> WordEnd(s, p, <<"f", "a", "l", "s", "e">>)
         [] s[p] \in DecimalDigits \cup {"-"} -> NumberEndAt(s, p)
         [] s[p] = "[" -> LET q == AfterSpace(s, p + 1)
                          IN IF Has(s, q, "]") THEN q + 1 ELSE ElementsEnd(s, p + 1)
         [] s[p] = "{" -> LET q == AfterSpace(s, p + 1)
                          IN IF Has(s, q, "}") THEN q + 1 ELSE MembersEnd(s, p + 1)
         [] OTHER -> NoEnd

\* s is one JSON text
IsJSON(s) ==
  LET end == ValueEnd(s, AfterSpace(s, 1))
  IN end # NoEnd /\ AfterSpace(s, end) = Len(s) + 1

\* the value that starts at or after offset `from` ends at offset `to`
IsValueSpan(s, from, to) == ValueEnd(s, AfterSpace(s, from + 1)) = to + 1
\* a value starts at or after offset `from`
StartsValue(s, from) == ValueEnd(s, AfterSpace(s, from + 1)) # NoEnd

\* the deepest nesting of brackets in a prefix of s (strings hold none here)
NestingAt(s, p) ==
  LET Count(S) == Len(SelectSeq(SubSeq(s, 1, p), LAMBDA c : c \in S))
  IN Count({"[", "{"}) - Count({"]", "}"})
Nesting(s) == CHOOSE n \in 0..Len(s) :
  /\ \A p \in 0..Len(s) : NestingAt(s, p) <= n
  /\ \E p \in 0..Len(s) : NestingAt(s, p) = n
=============================================================================
