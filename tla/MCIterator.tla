----------------------------- MODULE MCIterator -----------------------------
(* Iterator on small inputs, compared with the JSON grammar.               *)
EXTENDS Iterator, Json

Chars(s) == [i \in 1..Len(s) |-> SubSeq(s, i, i)]

Values ==
  {"null ", " true,", "\"s\"", "\"s\\\"\\n\" ", "\"\\u1ae0s\" ", "10,", "-1.0]", "1e1 ", "0 ",
   "0.1,", "0.1e11 ", "0.1e100,", "-0.1e100]", "1e1000 ", "1e1000", "[]", "[0 ,[ ] ]", "{} ", "{\"s\":1}", "{\"s\" : [],\"\\f\":\"\"}", "[[[]]]"}
Broken ==
  {"", " ", "nulx", "\"s", "\"\\x\"", "\"\\u1ax0\"", "[1", "[1}", "[1,]", "{\"s\"1}", "{s:1}", "[1.]", "1e,",
   "{\"s\":1]", "[0.1.1]", "-x", "]"}
Streams ==
  {"1 [1] ", "{\"s\":0}[]", "\"s\" null true ", "[1,1]}", "\"s\"\"t\" "}
MCValues == {Chars(s) : s \in Values \cup Broken}
MCStreams == {Chars(s) : s \in Streams} \cup {<<"1", " ", NUL, "1">>}

\* every string of at most four bytes of JSON, every string of at most five
\* bytes of a number, and longer documents
Alphabet == {"[", "]", "{", "}", ",", ":", "\"", "0", "1", " "}
Numerals == UNION {[1..n -> NumberChars] : n \in 1..5}
Documents == MCValues \cup Numerals \cup UNION {[1..n -> Alphabet] : n \in 0..4}
MCInputs == Documents \cup MCStreams

\* what the code gets wrong, one input per run
Number == {Chars("1")}
NumberLast == {Chars("[] 10")}

(* The operations of a client fit its input: one Skip of a value, in one    *)
(* piece or in many, three operations on a stream of values, Unmarshal and *)
(* Valid on what is in memory.                                             *)
MCInit ==
  /\ Init
  /\ input \in MCStreams => source = "reader"
  /\ input \notin MCValues \cup MCStreams => source = "bytes"

OfValue == input \in MCValues /\ nops = 0
OfStream == input \in MCStreams
MCNext ==
  \/ Run \/ Pause
  \/ OfValue /\ StartSkip
  \/ (OfValue \/ OfStream) /\ StartSkipAndReturnBytes
  \/ OfStream /\ StartDecode
  \/ OfStream /\ StartMore
  \/ OfStream /\ StartWhatIsNext
  \/ OfStream /\ input' \in MCStreams /\ Reset
  \/ input \in Documents /\ StartUnmarshal
  \/ input \in Documents /\ StartValid

\* with the fairness of FairSpec
MCSpec == MCInit /\ [][MCNext]_vars /\ WF_vars(Run)

----------------------------------------------------------------------------
Skips == {"Skip", "SkipAndReturnBytes", "Decode"}

\* JSON numbers the code refuses: larger than any float64, or than any float32
\* when they begin with 0, since Skip reads those with ReadFloat32 (README, 5)
TooLarge(s) ==
  \E p \in 1..Len(s) :
    /\ s[p] \in Digits \cup {"-"} /\ NumberEndAt(s, p) # NoEnd
    /\ p > 1 => s[p - 1] \notin NumberChars
    /\ Exceeds(SubSeq(s, p, NumberEndAt(s, p) - 1),
               IF s[p] = "0" THEN MaxExponent32 ELSE MaxExponent64)

\* ... and numbers of no JSON it accepts: after a minus the retry of skipNumber
\* takes any float, also with a plus, a dot or zeros in front (README, 5)
LooseNumber(s) ==
  /\ Len(s) > 1 /\ s[1] = "-" /\ IsFloat(Tail(s))
  /\ \/ s[2] = "."
     \/ s[2] = "+" /\ ValidPositiveFloat(Tail(s))
     \/ s[2] = "0" /\ Len(s) > 2 /\ s[3] \in Digits

Readable(from) ==
  StartsValue(input, from) /\ Nesting(input) <= MaxDepth /\ ~TooLarge(input)

\* Skip without an error has moved over exactly one JSON value, whatever the
\* chunks the reader split it into (iter_skip.go:73; skipNumber forgets an
\* error the reader returns in mid-number, so that case is left out).
SkipMovesOverValue ==
  Completed(Skips) /\ op.err = "nil" /\ it.err = "nil" /\ op.dry # "ioerr" =>
    IsValueSpan(input, op.start, Offset(it))

\* A JSON value in the input is never refused, whatever the chunks, unless it
\* is nested too deeply, holds a number too large for a float or the reader failed.
SkipAcceptsValue ==
  Completed(Skips) /\ op.err = "nil" /\ Readable(op.start) =>
    op.ok \/ op.dry = "ioerr"

\* Unmarshal into a RawMessage succeeds exactly on a JSON text whose numbers a
\* float can hold, followed by nothing but space, and on the loose numbers the
\* retry of skipNumber lets through (config.go:348, iter_skip_strict.go:18).
UnmarshalIffJSON ==
  Completed({"Unmarshal"}) =>
    (op.ok <=> \/ IsJSON(input) /\ Nesting(input) <= MaxDepth /\ ~TooLarge(input)
               \/ LooseNumber(input))

\* adapter.go:152 "Valid reports whether data is a valid JSON encoding."
ValidIffJSON == Completed({"Valid"}) => (op.ok <=> IsJSON(input))

\* iter_skip.go:34 "SkipAndReturnBytes skip next JSON element, and return its
\* content as []byte": also when the element is the last of the input.
CaptureReturnsLastValue ==
  Completed({"SkipAndReturnBytes", "Decode"}) /\ op.err = "nil" /\ op.ok /\ op.bytes # <<>> =>
    \E from, to \in op.start..Len(input) : op.bytes = SubSeq(input, from + 1, to)
=============================================================================
