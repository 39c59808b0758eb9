----------------------------- MODULE SloppySkip -----------------------------
(* Skip in the build jsoniter_sloppy (iter_skip_sloppy.go): it looks for   *)
(* the end of a value and does not validate it.  Skip itself has read the  *)
(* first byte.  The reader is that of StringCodec.                         *)
EXTENDS FloatCodec

CONSTANTS
  MaxDepth,      \* bound: maxDepth
  SloppyValues   \* bound: the values to skip, [kind, text, rest]: after its first byte

VARIABLES
  kind,          \* "number", "string", "array" or "object"
  level,         \* of the arrays in an array, of the objects in an object
  skipChar       \* findStringEnd: the last byte of the buffer is an odd backslash

sloppyVars == <<kind, level, skipChar>>
notSloppy == <<type, written, val, negative, value, ret, text, reader, reads, expected, builder, float, kind>>

Opening == IF kind = "array" THEN 91 ELSE 123
Closing == IF kind = "array" THEN 93 ELSE 125

\* loadMore, after which the byte behind a backslash is passed over
Load(h) ==
  IF Ended THEN pc' = "read" /\ error' = "bad" /\ head' = h /\ UNCHANGED <<tail, rest>>
  ELSE /\ tail' \in (tail + 1)..Len(text)
       /\ head' = tail + IF skipChar' THEN 1 ELSE 0
       /\ UNCHANGED <<pc, error, rest>>

SkipNumberSloppy ==
  /\ pc = "sloppyNumber" /\ UNCHANGED <<level, skipChar>>
  /\ LET ends == {k \in 1..Buffered : At(head + k - 1) \in {32, 10, 13, 9, Comma, 125, 93}}
     IN IF ends # {} THEN Close("read", head + FirstOf(ends) - 1) /\ UNCHANGED <<tail, error>>
        \* without an error when there are no more bytes
        ELSE \/ ~Ended /\ Load(head)
             \/ Ended /\ pc' = "read" /\ error' = EOF(error) /\ head' = HeadAtEnd /\ UNCHANGED <<tail, rest>>

\* how many backslashes the k bytes from head on end with
Backslashes(k) ==
  LET runs == {n \in 0..k : \A j \in (k - n + 1)..k : At(head + j - 1) = Backslash}
  IN CHOOSE n \in runs : \A m \in runs : m <= n

\* mutant: a buffer that ends with a backslash ends with an escape
EndsWithBackslash(k) == k > 0 /\ At(head + k - 1) = Backslash
EndsEscaping(k) == Backslashes(k) % 2 = 1

\* findStringEnd and skipString, which came from a container or from Skip
SkipStringSloppy ==
  /\ pc = "sloppyString" /\ UNCHANGED level
  /\ LET ends == {k \in 1..Buffered : At(head + k - 1) = Quote /\ ~EndsEscaping(k - 1)}
     IN IF ends # {}
        THEN /\ skipChar' = FALSE
             /\ IF kind = "string" THEN Close("read", head + FirstOf(ends))
                ELSE Go("sloppyContainer", head + FirstOf(ends)) /\ UNCHANGED rest
        ELSE skipChar' = EndsEscaping(Buffered) /\ Load(head)

\* skipArray and skipObject count their own brackets, up to the next string
SkipContainerSloppy ==
  /\ pc = "sloppyContainer" /\ UNCHANGED skipChar
  /\ LET Byte(k) == At(head + k - 1)
         count[k \in 0..Buffered] ==
           IF k = 0 THEN level
           ELSE count[k - 1] + IF Byte(k) = Opening THEN 1 ELSE IF Byte(k) = Closing THEN -1 ELSE 0
         stops == {k \in 1..Buffered : Byte(k) = Quote \/ count[k] \in {0, MaxDepth + 1}}
         k == FirstOf(stops)
     IN \/ stops # {} /\ Byte(k) = Quote /\ Go("sloppyString", head + k) /\ level' = count[k] /\ UNCHANGED rest
        \/ stops # {} /\ count[k] = 0 /\ Close("read", head + k) /\ level' = 0
        \/ stops # {} /\ count[k] = MaxDepth + 1 /\ level' = count[k] /\ Fail(head)
        \/ stops = {} /\ level' = count[Buffered] /\ Load(head)

----------------------------------------------------------------------------
NotSloppy == kind = "none" /\ level = 0 /\ skipChar = FALSE
SloppyInit ==
  /\ NoString /\ NoFloat /\ reads = "sloppy" /\ skipChar = FALSE
  /\ written = FALSE
  /\ \E v \in SloppyValues :
       /\ kind = v.kind /\ text = v.text
       /\ expected = [means |-> IF v.rest = Broken THEN Broken ELSE <<>>, rest |-> v.rest]
  /\ level = IF kind \in {"array", "object"} THEN 1 ELSE 0
  /\ pc = CASE kind = "number" -> "sloppyNumber" [] kind = "string" -> "sloppyString" [] OTHER -> "sloppyContainer"
  /\ reader \in BOOLEAN /\ head = 0 /\ tail = IF reader THEN 0 ELSE Len(text)
  /\ type \in {t \in Types : t.signed /\ t.bits = WordBits} /\ val = 0
  /\ negative = FALSE /\ value = 0 /\ ret = 0 /\ error = "nil"

SloppyNext ==
  /\ UNCHANGED notSloppy
  /\ SkipNumberSloppy \/ SkipStringSloppy \/ SkipContainerSloppy
=============================================================================
