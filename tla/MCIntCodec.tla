----------------------------- MODULE MCIntCodec -----------------------------
(* IntCodec with words of 14 and 7 bits.                                   *)
EXTENDS IntCodec

\* around the limits of the types, the digits of a group and of the fast path
MCValues == {0, 1, 9, 10, 63, 64, 99, 100, 127, 1005, 8191, 9999, 10203, 16383,
             -1, -9, -10, -63, -64, -100, -5060, -8191, -8192}
\* the digits as bytes
Bytes(texts) == {[i \in 1..Len(t) |-> IF t[i] < 10 THEN Zero + t[i] ELSE t[i]] : t \in texts}
Short == UNION {[1..n -> {0, 1, 9, Minus, Dot, Comma}] : n \in 0..3}
\* 128, 65, -65, 8192, 16384, 16389, 16390 and longer ones, with a fraction, and cut off
Limits == {<<1, 2, 8>>, <<6, 5, Comma>>, <<Minus, 6, 5>>, <<8, 1, 9, 2, Comma>>, <<Minus, 8, 1, 9, 3>>,
           <<1, 6, 3, 8, 3, Dot, 1>>, <<1, 2, Dot, 5, 0, 0, 0>>, <<0, 0, 0, 0, 0, 0, 1>>,
           <<1, 6, 3, 8, 4>>, <<1, 6, 3, 8, 9, Comma>>, <<1, 6, 3, 9, 0>>, <<9, 9, 9, 9, 9, 9>>}
MCTexts == Bytes(Short \cup Limits)

\* wider than the word: 20000, 99999
TooWide == Bytes({<<2, 0, 0, 0, 0>>, <<9, 9, 9, 9, 9>>})
MCSuffixes == {<<>>, <<Comma>>, <<Comma, Comma, Comma, Comma>>}
=============================================================================
