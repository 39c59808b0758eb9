--------------------------- MODULE CodecRegistry ---------------------------
(* What DecoderOf and EncoderOf promise (reflect.go:101, reflect.go:190):   *)
(* a call for a type is answered with a codec of that type, wrapped by the  *)
(* extensions that were registered when the type was first asked for, and   *)
(* by the same ones ever after, whichever goroutine asks.  A codec is       *)
(* represented by the sequence of extensions that wrap it.                  *)
EXTENDS Sequences

CONSTANTS
  Goroutines,     \* the callers
  Keys,           \* what is asked for: a side (decoder or encoder) and a type
  Extensions,     \* values given to RegisterExtension
  None

VARIABLES
  registered,     \* extensions registered so far, in order
  known,          \* the codec of a key, None before it is first answered
  asked,          \* what each goroutine asks for, None when it does not
  answer          \* what each goroutine was answered last, None before

vars == <<registered, known, asked, answer>>

Init ==
  /\ registered = <<>>
  /\ known = [k \in Keys |-> None]
  /\ asked = [g \in Goroutines |-> None]
  /\ answer = [g \in Goroutines |-> None]

Register(e) ==
  /\ \A g \in Goroutines : asked[g] = None
  /\ registered' = Append(registered, e)
  /\ UNCHANGED <<known, asked, answer>>

Ask(g, k) ==
  /\ asked[g] = None
  /\ asked' = [asked EXCEPT ![g] = k]
  /\ answer' = [answer EXCEPT ![g] = None]
  /\ UNCHANGED <<registered, known>>

CodecOf(k) == IF known[k] = None THEN registered ELSE known[k]

Answer(g) ==
  /\ asked[g] # None
  /\ known' = [known EXCEPT ![asked[g]] = CodecOf(asked[g])]
  /\ answer' = [answer EXCEPT ![g] = CodecOf(asked[g])]
  /\ asked' = [asked EXCEPT ![g] = None]
  /\ UNCHANGED registered

Next ==
  \/ \E e \in Extensions : Register(e)
  \/ \E g \in Goroutines : Answer(g) \/ \E k \in Keys : Ask(g, k)

Spec == Init /\ [][Next]_vars
=============================================================================
