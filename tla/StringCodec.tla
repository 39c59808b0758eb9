---------------------------- MODULE StringCodec ----------------------------
(* Strings written by a Stream and read by an Iterator (stream_str.go,     *)
(* iter_str.go, rawstring.go, skipString), from the same reader as the     *)
(* integers of module IntCodec: pieces of any size; and byte slices as     *)
(* strings (extra/binary_as_string_codec.go).  Text begins after the       *)
(* opening quote.                                                          *)
EXTENDS IntCodec

CONSTANTS
  Strings,       \* bound: the strings written, as bytes
  Runes,         \* bound: the runes outside ASCII in them
  Documents,     \* bound: other texts to read, [text, means, rest]
  Binaries,      \* bound: the byte slices written as strings
  BinaryTexts    \* bound: other texts to read into a byte slice

VARIABLES
  reads,         \* who reads: "ReadString", "ReadRawString", "skipString" or "binary"
  expected,      \* what the text means and what follows it
  sb,            \* the bytes of the string so far: strings.Builder, or copied
  rune,          \* the rune whose digits are being read
  digits,        \* how many of them have been read
  high,          \* the surrogate before it, or 0
  escape,        \* readingEscape and hasEscapes of readRawStringInner
  rest           \* what was left when the closing quote had been read

builder == <<sb, rune, digits, high, escape>>
strVars == <<reads, expected, builder, rest>>
number == <<type, written, val, negative, value, ret>>

Quote == 34
Backslash == 92
U == 117
RuneError == 65533
Surrogates == 55296..57343
Broken == <<-1>>                \* no bytes: not known

ASSUME StringCodecAssumption ==
  /\ Strings \subseteq Seq(Chars)
  /\ \A r \in Runes : r \in Nat /\ r >= 128 /\ r <= 1114111 /\ r \notin Surrogates

\* utf8.EncodeRune: a surrogate is written as RuneError
UTF8(r) ==
  LET More(n) == [k \in 1..n |-> 128 + ((r \div Power(64, n - k)) % 64)]
  IN CASE r < 128 -> <<r>>
       [] r >= 128 /\ r < 2048 -> <<192 + r \div 64>> \o More(1)
       [] r \in Surrogates -> <<239, 191, 189>>
       [] r >= 2048 /\ r < 65536 /\ r \notin Surrogates -> <<224 + r \div 4096>> \o More(2)
       [] OTHER -> <<240 + r \div 262144>> \o More(3)

----------------------------------------------------------------------------
(* Stream.WriteString and WriteStringWithHTMLEscaped.                      *)
Hex(n) == IF n < 10 THEN Zero + n ELSE 87 + n
SafeSet(html) == (32..127) \ ({Quote, Backslash} \cup IF html THEN {38, 60, 62} ELSE {})
EscapeByte(b) ==
  CASE b \in {Quote, Backslash} -> <<Backslash, b>>
    [] b = 10 -> <<Backslash, 110>>
    [] b = 13 -> <<Backslash, 114>>
    [] b = 9 -> <<Backslash, 116>>
    [] OTHER -> <<Backslash, U, Zero, Zero, Hex(b \div 16), Hex(b % 16)>>

\* utf8.DecodeRuneInString at byte i of s: RuneError and one byte if there is none
RuneAt(s, i) ==
  LET Fits8(r) == i + Len(UTF8(r)) - 1 <= Len(s) /\ SubSeq(s, i, i + Len(UTF8(r)) - 1) = UTF8(r)
      runes == {r \in Runes : Fits8(r)}
  IN IF runes = {} THEN [rune |-> RuneError, size |-> 1]
     ELSE LET r == CHOOSE r \in runes : TRUE IN [rune |-> r, size |-> Len(UTF8(r))]

\* mutant: what is not a rune is written as it is
WriteRuneAsItIs(s, i, d) == SubSeq(s, i, i + d.size - 1)
WriteRune(s, i, d) ==
  CASE d.size = 1 -> <<Backslash, U, 102, 102, 102, 100>>
    [] d.rune \in {8232, 8233} -> <<Backslash, U, 50, 48, 50, Hex(d.rune % 16)>>
    [] OTHER -> SubSeq(s, i, i + d.size - 1)

WriteString(s, html) ==
  LET w[i \in 1..(Len(s) + 1)] ==
        LET d == RuneAt(s, i) IN
        CASE i > Len(s) -> <<Quote>>
          [] i <= Len(s) /\ s[i] < 128 ->
               (IF s[i] \in SafeSet(html) THEN <<s[i]>> ELSE EscapeByte(s[i])) \o w[i + 1]
          [] OTHER -> IF html THEN WriteRune(s, i, d) \o w[i + d.size] ELSE <<s[i]>> \o w[i + 1]
  IN w[1]

\* a string with RuneError for the bytes that are no runes
Sanitized(s) ==
  LET w[i \in 1..(Len(s) + 1)] ==
        LET d == RuneAt(s, i) IN
        CASE i > Len(s) -> <<>>
          [] i <= Len(s) /\ s[i] < 128 -> <<s[i]>> \o w[i + 1]
          [] OTHER -> UTF8(d.rune) \o w[i + d.size]
  IN w[1]

----------------------------------------------------------------------------
(* binaryAsStringCodec: a byte that is not safe is \\xhh, which JSON reads  *)
(* as a backslash and text.                                                *)
BinarySafe == SafeSet(FALSE)
HexEscape(b) == <<Backslash, Backslash, 120, Hex(b \div 16), Hex(b % 16)>>

\* safe bytes are written when the next one that is ASCII and not safe comes, or
\* the end: those before a byte outside ASCII are lost
WriteBytesSlowPath(s) ==
  LET safe(i) == s[i] \in BinarySafe
      start[i \in 1..(Len(s) + 1)] == IF i = 1 THEN 1 ELSE IF safe(i - 1) THEN start[i - 1] ELSE i
      w[i \in 0..Len(s)] ==
        CASE i = 0 -> <<>>
          [] i > 0 /\ safe(i) -> w[i - 1]
          [] i > 0 /\ s[i] >= 128 -> w[i - 1] \o HexEscape(s[i])
          [] OTHER -> w[i - 1] \o SubSeq(s, start[i], i - 1) \o HexEscape(s[i])
  IN w[Len(s)] \o SubSeq(s, start[Len(s) + 1], Len(s)) \o <<Quote>>

\* up to the first byte that is not safe; when that is the last one, it is lost
WriteBytes(s) ==
  LET stops == {i \in 1..Len(s) : s[i] \notin BinarySafe \/ i = Len(s)}
      i == CHOOSE i \in stops : \A j \in stops : i <= j
      safe == SelectSeq(SubSeq(s, 1, i), LAMBDA b : b \in BinarySafe)
  IN IF s = <<>> THEN <<Quote>>
     ELSE IF i = Len(s) THEN safe \o <<Quote>> ELSE safe \o WriteBytesSlowPath(SubSeq(s, i, Len(s)))

\* readHex takes small letters only; an escape that is cut short panics: there
\* is no raw[i + 2]
ReadHex(c) == CASE c \in 48..57 -> c - 48 [] c \in 97..102 -> c - 87 [] OTHER -> -1
BytesOf(raw) ==
  LET n == Len(raw)
      b[i \in 1..(n + 1)] ==
        CASE i > n -> <<>>
          [] i <= n /\ raw[i] # Backslash -> <<raw[i]>> \o b[i + 1]
          [] OTHER -> IF raw[i + 1] # Backslash \/ raw[i + 2] # 120 \/ ReadHex(raw[i + 3]) < 0 \/ ReadHex(raw[i + 4]) < 0
                      THEN Broken ELSE <<16 * ReadHex(raw[i + 3]) + ReadHex(raw[i + 4])>> \o b[i + 5]
  IN b[1]

----------------------------------------------------------------------------
(* What all readers share.                                                 *)
Window8(n) == SubSeq(text, head + 1, head + n)      \* buf[head:head+n]
FirstOf(set) == CHOOSE k \in set : \A j \in set : k <= j

\* ReportError: nothing is read after it
Fail(h) == /\ pc' = "read" /\ error' = "bad" /\ head' = h
           /\ UNCHANGED <<tail, builder, rest>>
Go(state, h) == pc' = state /\ head' = h /\ UNCHANGED <<tail, error>>
\* the closing quote; RawString.String has a text of its own
Close(state, h) ==
  /\ Go(state, h)
  /\ rest' = IF rest = Broken THEN SubSeq(text, h + 1, Len(text)) ELSE rest

HexValue(c) ==
  CASE c \in 48..57 -> c - 48 [] c \in 65..70 -> c - 55 [] c \in 97..102 -> c - 87 [] OTHER -> -1
AreHex(bytes) == \A k \in 1..Len(bytes) : HexValue(bytes[k]) >= 0

Unescaped(c) ==
  CASE c = 98 -> 8 [] c = 102 -> 12 [] c = 110 -> 10 [] c = 114 -> 13 [] c = 116 -> 9 [] OTHER -> c
Escapes == {Quote, Backslash, 47, 98, 102, 110, 114, 116}

\* loadMore where the reader still has something; otherwise readByte returns 0,
\* which every reader takes for an unexpected end
States == {"string", "escape", "u4", "low", "lowU", "raw", "rawU4"}
LoadMore ==
  /\ pc \in States /\ Buffered = 0
  /\ IF Ended THEN Fail(HeadAtEnd)
     ELSE Refill /\ UNCHANGED <<pc, error, builder, rest>>

----------------------------------------------------------------------------
(* readStringInner, readEscapedChar, readU4.                               *)
ReadStringInner ==
  /\ pc = "string" /\ Buffered > 0
  /\ LET stops == {k \in 1..Buffered : At(head + k - 1) \in {Quote, Backslash} \cup (0..31)}
         k == FirstOf(stops)
         c == At(head + k - 1)
     IN \/ /\ stops = {} /\ Go("string", tail) /\ sb' = sb \o Window8(Buffered)
           /\ UNCHANGED <<rune, digits, high, escape, rest>>
        \/ /\ stops # {} /\ c = Quote /\ Close("read", head + k) /\ sb' = sb \o Window8(k - 1)
           /\ UNCHANGED <<rune, digits, high, escape>>
        \/ /\ stops # {} /\ c = Backslash /\ Go("escape", head + k) /\ sb' = sb \o Window8(k - 1)
           /\ UNCHANGED <<rune, digits, high, escape, rest>>
        \/ stops # {} /\ c < 32 /\ Fail(head)

\* after a backslash and c, with the bytes before them
Escaped(c, before) ==
  /\ rune' = 0 /\ digits' = 0 /\ UNCHANGED escape
  /\ \/ c = U /\ Go("u4", head + 1) /\ sb' = before
     \/ c \in Escapes /\ Go("string", head + 1) /\ sb' = Append(before, Unescaped(c))
     \/ c \notin Escapes \cup {U} /\ pc' = "read" /\ error' = "bad" /\ head' = head + 1 /\ sb' = before /\ UNCHANGED tail

ReadEscapedChar ==
  /\ pc = "escape" /\ Buffered > 0
  /\ Escaped(At(head), sb)
  /\ UNCHANGED <<high, rest>>

\* utf16.DecodeRune, or both one after the other
Combined(r1, r2) ==
  IF r1 < 56320 /\ r2 \in 56320..57343 THEN UTF8((r1 - 55296) * 1024 + (r2 - 56320) + 65536)
  ELSE UTF8(r1) \o UTF8(r2)
AfterU4(r, h) ==
  /\ rune' = r /\ digits' = 4 /\ UNCHANGED <<escape, rest>>
  /\ IF high # 0 THEN sb' = sb \o Combined(high, r) /\ high' = 0 /\ Go("string", h)
     ELSE IF r \in Surrogates THEN sb' = sb /\ high' = r /\ Go("low", h)
     ELSE sb' = sb \o UTF8(r) /\ high' = 0 /\ Go("string", h)

\* all four digits if they are buffered, otherwise one at a time
ReadU4 ==
  /\ pc = "u4" /\ Buffered > 0
  /\ LET d(k) == HexValue(At(head + k))
         r == 16 * rune + d(0)
     IN IF digits = 0 /\ Buffered >= 4
        THEN IF AreHex(Window8(4)) THEN AfterU4(4096 * d(0) + 256 * d(1) + 16 * d(2) + d(3), head + 4)
             ELSE Fail(head)
        ELSE IF d(0) < 0 THEN Fail(head + 1)
        ELSE IF digits = 3 THEN AfterU4(r, head + 1)
        ELSE rune' = r /\ digits' = digits + 1 /\ Go("u4", head + 1) /\ UNCHANGED <<sb, high, escape, rest>>

\* a surrogate must be followed by another escape to be part of a pair
ReadLow ==
  /\ pc = "low" /\ Buffered > 0
  /\ IF At(head) = Backslash
     THEN Go("lowU", head + 1) /\ UNCHANGED <<builder, rest>>
     ELSE /\ Go("string", head) /\ sb' = sb \o UTF8(high) /\ high' = 0
          /\ UNCHANGED <<rune, digits, escape, rest>>

\* mutant: the byte after the backslash is dropped instead of escaped
AfterSurrogateDropped(c) == Go("string", head + 1) /\ sb' = sb \o UTF8(high) /\ UNCHANGED <<rune, digits, escape>>
AfterSurrogate(c) == Escaped(c, sb \o UTF8(high))

ReadLowU ==
  /\ pc = "lowU" /\ Buffered > 0 /\ UNCHANGED rest
  /\ IF At(head) = U
     THEN rune' = 0 /\ digits' = 0 /\ Go("u4", head + 1) /\ UNCHANGED <<sb, high, escape>>
     ELSE AfterSurrogate(At(head)) /\ high' = 0

----------------------------------------------------------------------------
(* readRawStringInner, with head at the first byte that was not copied.    *)
ReadRawStringInner ==
  /\ pc = "raw" /\ Buffered > 0
  /\ LET Byte(k) == At(head + k - 1)
         reading[k \in 0..Buffered] ==
           IF k = 0 THEN escape.reading ELSE Byte(k) = Backslash /\ ~reading[k - 1]
         stops == {k \in 1..Buffered : \/ Byte(k) < 32
                                       \/ Byte(k) = Quote /\ ~reading[k - 1]
                                       \/ Byte(k) \notin Escapes /\ reading[k - 1]}
         k == FirstOf(stops)
         seen(n) == escape.has \/ \E j \in 1..n : Byte(j) = Backslash
         Copied(n, r) == sb' = sb \o Window8(n) /\ escape' = [reading |-> r, has |-> seen(n)]
     IN \/ /\ stops = {} /\ Go("raw", tail) /\ Copied(Buffered, reading[Buffered])
           /\ UNCHANGED <<rune, digits, high, rest>>
        \/ /\ stops # {} /\ Byte(k) = Quote /\ Close("rawString", head + k) /\ Copied(k, FALSE)
           /\ UNCHANGED <<rune, digits, high>>
        \/ /\ stops # {} /\ Byte(k) = U /\ head + k + 4 > tail
           /\ Go("rawU4", head + k) /\ Copied(k, FALSE) /\ digits' = 0
           /\ UNCHANGED <<rune, high, rest>>
        \/ /\ stops # {} /\ Byte(k) = U /\ head + k + 4 <= tail
           /\ IF AreHex(SubSeq(text, head + k + 1, head + k + 4))
              THEN Go("raw", head + k + 4) /\ Copied(k + 4, FALSE) /\ UNCHANGED <<rune, digits, high, rest>>
              ELSE Fail(head + k)
        \/ stops # {} /\ Byte(k) \notin {Quote, U} /\ Fail(head)

\* readAndFillU4
ReadAndFillU4 ==
  /\ pc = "rawU4" /\ Buffered > 0
  /\ IF ~AreHex(Window8(1)) THEN Fail(head + 1)
     ELSE /\ Go(IF digits = 3 THEN "raw" ELSE "rawU4", head + 1)
          /\ sb' = sb \o Window8(1) /\ digits' = digits + 1
          /\ UNCHANGED <<rune, high, escape, rest>>

\* RawString.String, which a skipped string does not need: a string with escapes
\* is read once more
RawString ==
  /\ pc = "rawString" /\ reads # "binary" /\ UNCHANGED <<rune, digits, high, escape, rest, error>>
  /\ IF reads = "skipString" \/ ~escape.has
     THEN pc' = "read" /\ sb' = SubSeq(sb, 1, Len(sb) - 1) /\ UNCHANGED <<text, reader, head, tail>>
     ELSE pc' = "string" /\ sb' = <<>> /\ text' = sb /\ reader' = FALSE /\ head' = 0 /\ tail' = Len(sb)

\* binaryAsStringCodec.Decode
DecodeBinary ==
  /\ pc = "rawString" /\ reads = "binary"
  /\ pc' = "read" /\ sb' = BytesOf(SubSeq(sb, 1, Len(sb) - 1))
  /\ error' = IF -1 \in {sb'[i] : i \in 1..Len(sb')} THEN "bad" ELSE error
  /\ UNCHANGED <<head, tail, rune, digits, high, escape, rest>>

\* skipString: in the window, or else from its first escape as a raw string
SkipString ==
  /\ pc = "skip"
  /\ LET stops == {k \in 1..Buffered : At(head + k - 1) \in {Quote, Backslash} \cup (0..31)}
         k == FirstOf(stops)
     IN IF stops = {} THEN Go("raw", head) /\ UNCHANGED <<builder, rest>>
        ELSE IF At(head + k - 1) = Quote THEN Close("read", head + k) /\ UNCHANGED builder
        ELSE Go("raw", head + k - 1) /\ UNCHANGED <<builder, rest>>

----------------------------------------------------------------------------
NoString ==
  /\ sb = <<>> /\ rune = 0 /\ digits = 0 /\ high = 0 /\ rest = Broken
  /\ escape = [reading |-> FALSE, has |-> FALSE]

\* a string that was written, or another text
StringInit ==
  /\ reads \in {"ReadString", "ReadRawString", "skipString", "binary"} /\ NoString
  /\ \/ \E s \in Binaries, suffix \in Suffixes :
          /\ reads = "binary"
          /\ written = TRUE /\ text = WriteBytes(s) \o suffix
          /\ expected = [means |-> s, rest |-> suffix]
     \/ \E s \in Strings, html \in BOOLEAN, suffix \in Suffixes :
          /\ reads # "binary"
          /\ written = TRUE /\ text = WriteString(s, html) \o suffix
          /\ expected = [means |-> IF html THEN Sanitized(s) ELSE s, rest |-> suffix]
     \/ \E d \in IF reads = "binary" THEN BinaryTexts ELSE Documents :
          written = FALSE /\ text = d.text /\ expected = [means |-> d.means, rest |-> d.rest]
  /\ reader \in BOOLEAN /\ head = 0 /\ tail = IF reader THEN 0 ELSE Len(text)
  /\ pc = CASE reads = "ReadString" -> "string" [] reads \in {"ReadRawString", "binary"} -> "raw" [] OTHER -> "skip"
  /\ type \in {t \in Types : t.signed /\ t.bits = WordBits} /\ val = 0
  /\ negative = FALSE /\ value = 0 /\ ret = 0 /\ error = "nil"

StringNext ==
  /\ UNCHANGED <<number, reads, expected>>
  /\ \/ /\ UNCHANGED <<text, reader>>
        /\ \/ LoadMore \/ ReadStringInner \/ ReadEscapedChar \/ ReadU4 \/ ReadLow \/ ReadLowU
           \/ ReadRawStringInner \/ ReadAndFillU4 \/ SkipString \/ DecodeBinary
     \/ RawString

StringSpec == StringInit /\ [][StringNext]_<<vars, strVars>>

----------------------------------------------------------------------------
\* Whatever bytes a string has, and wherever its text is cut into pieces, it is
\* read back by ReadString, by ReadRawString and String, and skipped; with
\* escaped HTML (encoding/json does it always) bytes that are no runes come back
\* as U+FFFD.  Every other text is read as JSON defines it or refused: all
\* readers agree, and what ReadRawString accepts String can decode
\* (rawstring.go:40 "should never happen").  A byte slice written as a string
\* comes back too, and in its place no escape but \\xhh is accepted.
StringIsRead ==
  pc = "read" =>
    /\ error \in {"nil", "EOF"} <=> expected.means # Broken
    /\ error = "nil" => rest = expected.rest /\ (reads # "skipString" => sb = expected.means)
=============================================================================
