--------------------------- MODULE MCStringCodec ---------------------------
(* StringCodec, with the integers of MCIntCodec.                           *)
EXTENDS MCIntCodec, StringCodec

MCRunes == {233, 8232, 8233, 65533, 128516}
\* a, quote, backslash, newline, a control character, <, DEL, é, two separators,
\* U+FFFD, an emoji, and bytes that are no runes
Parts == {<<97>>, <<Quote>>, <<Backslash>>, <<10>>, <<31>>, <<60>>, <<127>>} \cup {UTF8(r) : r \in MCRunes} \cup
         {<<255>>, <<226, 128>>}
MCStrings == {<<>>} \cup Parts \cup {p \o q : p \in Parts, q \in Parts}

\* what a text can be made of: its bytes and the UTF-16 units they stand for
Hex4(u) == <<Backslash, U, Hex(u \div 4096), Hex((u \div 256) % 16), Hex((u \div 16) % 16), Hex(u % 16)>>
Unit(bytes, units) == [bytes |-> bytes, units |-> units]
High == Unit(Hex4(55357), <<55357>>)
Low == Unit(<<Backslash, U, 68, 69, 48, 52>>, <<56836>>)        \* \uDE04
Newline == Unit(<<Backslash, 110>>, <<10>>)
A == Unit(<<97>>, <<97>>)
Good == {A, High, Low, Newline, Unit(UTF8(128516), <<128516>>), Unit(<<Backslash, Quote>>, <<Quote>>),
         Unit(<<Backslash, Backslash>>, <<Backslash>>), Unit(<<Backslash, 47>>, <<47>>), Unit(Hex4(8232), <<8232>>), Unit(Hex4(0), <<0>>)}
\* a control character, \x, \u00g0, \u1/11 and \u
Bad == {<<31>>, <<Backslash, 120>>, <<Backslash, U, 48, 48, 103, 48>>, <<Backslash, U, 49, 47, 49, 49>>, <<Backslash, U>>}

\* UTF-16: a high surrogate and a low one are one rune, another one is U+FFFD
Meaning(units) ==
  LET m[i \in 1..(Len(units) + 1)] ==
        IF i > Len(units) THEN <<>>
        ELSE IF i < Len(units) /\ units[i] \in 55296..56319 /\ units[i + 1] \in 56320..57343
        THEN UTF8(65536 + (units[i] % 1024) * 1024 + (units[i + 1] % 1024)) \o m[i + 2]
        ELSE UTF8(IF units[i] \in Surrogates THEN RuneError ELSE units[i]) \o m[i + 1]
  IN m[1]

Whole(u) == [text |-> u.bytes \o <<Quote, Comma>>, means |-> Meaning(u.units), rest |-> <<Comma>>]
Two(u, v) == Unit(u.bytes \o v.bytes, u.units \o v.units)
Wholes ==
  {Whole(u) : u \in Good} \cup {Whole(Two(u, v)) : u \in Good, v \in Good} \cup
  {Whole(Two(Two(u, v), w)) : u \in {A, High}, v \in {High, Low, Newline}, w \in {A, Newline, Low} \ {Low}} \cup
  {Whole(Two(A, Two(High, Low)))}
Cut == {[text |-> SubSeq(d.text, 1, n), means |-> Broken, rest |-> <<>>] : d \in {Whole(Two(High, Low))}, n \in 0..12}
Refused ==
  {[text |-> u.bytes \o b \o <<97, Quote, Comma>>, means |-> Broken, rest |-> <<>>] : u \in {A, High, Newline}, b \in Bad}
MCDocuments == Wholes \cup Cut \cup Refused

\* without those of which the code loses bytes: one unsafe byte, at the end, and a
\* safe one between an unsafe one and one outside ASCII (see README)
MCBinaries ==
  {<<>>, <<97>>, <<97, 97>>, <<1, 97>>, <<97, 1, 97>>, <<1, 1>>, <<97, Quote, 97, Backslash, 97>>, <<255, 255>>, <<255, 97>>,
   <<1, 255>>, <<97, 255, 97>>, <<97, 255, 255, 10, 97, 97>>, <<255, 97, 10, 97>>}
\* \\x41, \\x5c and a byte as they are; \n, \\y41, \\x4A and \\xg0
BinaryText(bytes, means) == [text |-> bytes \o <<Quote, Comma>>, means |-> means, rest |-> <<Comma>>]
X(a, b) == <<Backslash, Backslash, 120, a, b>>
MCBinaryTexts ==
  {BinaryText(X(52, 49), <<65>>), BinaryText(X(53, 99) \o <<97>>, <<92, 97>>), BinaryText(UTF8(233), UTF8(233)),
   BinaryText(<<Backslash, 110>>, Broken), BinaryText(<<97, Backslash, Backslash, 121, 52, 49>>, Broken),
   BinaryText(X(52, 65), Broken), BinaryText(X(103, 48), Broken), [text |-> X(52, 49), means |-> Broken, rest |-> <<>>]}
=============================================================================
