----------------------------- MODULE JsonStream -----------------------------
(***************************************************************************)
(* json.c: the writer with which both servers make every JSON body.  It    *)
(* keeps what it wrote last in a buffer of Size bytes and hands the buffer *)
(* to a callback, which makes an HTTP chunk of it, whenever it fills up.   *)
(* A call that does not fit the place where the text stands is dropped and *)
(* silences the writer; nobody is told.                                    *)
(*                                                                         *)
(* Left out are json_uint64, which nothing calls and which passes on the   *)
(* length of its number negated, and floats that are no number, of which   *)
(* printf makes "nan" and "inf": what the sketch gives is finite.          *)
(*                                                                         *)
(* Abstracted: the bytes of a string, of a number and of a literal.  A     *)
(* string is quotes around "c"s, a number a run of "d"s, a literal one     *)
(* "w".  Strings contain no quotes: the writer does not escape them.       *)
(***************************************************************************)
EXTENDS Integers, Sequences, SequencesExt, FiniteSets

CONSTANTS
  Size,            \* json->size
  MaxDepth,        \* JSON_MAX_DEPTH, which the code does not check
  IntegerBuffer,   \* the size of the buffer in json_integer
  Digits,          \* lengths of the unsigned numbers and floats that are written
  IntegerDigits,   \* lengths of the integers that are written
  StringLengths,   \* lengths of the strings that are written
  MaxText          \* bound: no call once the text is this long

ASSUME SizeAssumption == Size \in Nat /\ Size > 1
ASSUME MaxDepthAssumption == MaxDepth \in Nat
ASSUME DigitsAssumption ==
  /\ Digits \subseteq Nat \ {0} /\ IntegerDigits \subseteq Nat \ {0}
  /\ StringLengths \subseteq Nat /\ IntegerBuffer \in Nat

VARIABLES
  state,     \* json->state
  nesting,   \* json->nesting, as long as json->nesting_idx says
  buffer,    \* json->buffer, as long as json->pos says
  sent       \* what on_flush was given so far

jsonVars == <<state, nesting, buffer, sent>>

States == {"START", "END", "OBJECT", "OBJECT_KEY", "OBJECT_VALUE",
           "ARRAY", "ARRAY_ITEM", "ERROR"}
Symbols == {"{", "}", "[", "]", ",", ":", "quote", "c", "d", "w", "junk"}

Text == sent \o buffer

------------------------------------------------------------------------------
(* Output: what is in the buffer and what was flushed.                     *)
Flushed(o) == [buffer |-> <<>>, sent |-> o.sent \o o.buffer]
Buffered(o, c) == [o EXCEPT !.buffer = Append(@, c)]

FlushIfFull(o, limit) == IF Len(o.buffer) >= limit THEN Flushed(o) ELSE o

json_put(o, c) == FlushIfFull(Buffered(o, c), Size - 1)

(* Pieces go to the last byte of the buffer, and what is left over from    *)
(* the last piece stays there unless it leaves less than one byte.         *)
json_write(o, data) ==
  LET put[k \in 0..Len(data)] ==
        IF k = 0 THEN o ELSE FlushIfFull(Buffered(put[k - 1], data[k]), Size)
  IN  FlushIfFull(put[Len(data)], Size - 1)

Out == [buffer |-> buffer, sent |-> sent]
SetOut(o) == buffer' = o.buffer /\ sent' = o.sent

Quoted(o, n) == json_put(json_write(json_put(o, "quote"), [i \in 1..n |-> "c"]), "quote")

------------------------------------------------------------------------------
(* The places of the text where a value may stand, and the state after it. *)
AfterValue(s) ==
  CASE s = "START" -> "END"
    [] s \in {"ARRAY", "ARRAY_ITEM"} -> "ARRAY_ITEM"
    [] s = "OBJECT_KEY" -> "OBJECT_VALUE"

ValuePlaces == {"START", "ARRAY", "ARRAY_ITEM", "OBJECT_KEY"}

SeparatedNever == Out    \* mutant
Separated == IF state = "ARRAY_ITEM" THEN json_put(Out, ",") ELSE Out

(* A call in a place where it does not fit.                                *)
Misplaced == state' = "ERROR" /\ UNCHANGED <<nesting, buffer, sent>>
Silent == state = "ERROR" /\ UNCHANGED jsonVars

Scalar(places, text(_)) ==
  \/ Silent
  \/ state \notin places \union {"ERROR"} /\ Misplaced
  \/ /\ state \in ValuePlaces
     /\ SetOut(text(Separated))
     /\ state' = AfterValue(state)
     /\ UNCHANGED nesting

------------------------------------------------------------------------------
(* The calls.                                                              *)
json_reset ==
  /\ state' = "START" /\ nesting' = <<>>
  /\ buffer' = <<>> /\ sent' = <<>>

json_flush ==
  /\ SetOut(Flushed(Out))
  /\ UNCHANGED <<state, nesting>>

Start(bracket, inside) ==
  \/ Silent
  \/ state \notin ValuePlaces \union {"ERROR"} /\ Misplaced
  \/ /\ state \in ValuePlaces
     /\ Len(nesting) < MaxDepth
     /\ SetOut(json_put(Separated, bracket))
     /\ state' = inside
     /\ nesting' = Append(nesting, inside)

json_object_start == Start("{", "OBJECT")
json_array_start == Start("[", "ARRAY")

Surroundings(n) ==
  IF n = <<>> THEN "END"
  ELSE IF Last(n) = "OBJECT" THEN "OBJECT_VALUE" ELSE "ARRAY_ITEM"

(* Mutant: the end of a nested value does not look at what surrounds it.   *)
CloseForgetsParent(bracket, places) ==
  \/ Silent
  \/ state \notin places \union {"ERROR"} /\ Misplaced
  \/ /\ state \in places
     /\ SetOut(json_put(Out, bracket))
     /\ nesting' = Front(nesting)
     /\ state' = IF nesting' = <<>> THEN "END" ELSE state

Close(bracket, places) ==
  \/ Silent
  \/ state \notin places \union {"ERROR"} /\ Misplaced
  \/ /\ state \in places
     /\ SetOut(json_put(Out, bracket))
     /\ nesting' = Front(nesting)
     /\ state' = Surroundings(nesting')

json_object_end == Close("}", {"OBJECT", "OBJECT_VALUE"})
json_array_end == Close("]", {"ARRAY", "ARRAY_ITEM"})

(* A number of n characters.  json_integer prints into its buffer with     *)
(* snprintf, which cuts the text, and then writes as many bytes as         *)
(* snprintf says the number needs.                                         *)
json_integer(n) ==
  Scalar(ValuePlaces,
         LAMBDA o : json_write(o, [i \in 1..n |->
                                     IF i < IntegerBuffer THEN "d" ELSE "junk"]))

(* json_uint8, 16 and 32, whose buffers hold the largest of their numbers. *)
json_unsigned(n) == Scalar(ValuePlaces, LAMBDA o : json_write(o, [i \in 1..n |-> "d"]))

json_float(n) == Scalar(ValuePlaces, LAMBDA o : json_write(o, [i \in 1..n |-> "d"]))

json_boolean == Scalar(ValuePlaces, LAMBDA o : json_write(o, <<"w">>))
json_null == Scalar(ValuePlaces, LAMBDA o : json_write(o, <<"w">>))

(* A string is a key where a key is expected.                              *)
json_string(n) ==
  \/ Scalar(ValuePlaces \union {"OBJECT", "OBJECT_VALUE"}, LAMBDA o : Quoted(o, n))
  \/ /\ state \in {"OBJECT", "OBJECT_VALUE"}
     /\ LET o == IF state = "OBJECT_VALUE" THEN json_put(Out, ",") ELSE Out
        IN  SetOut(json_put(Quoted(o, n), ":"))
     /\ state' = "OBJECT_KEY"
     /\ UNCHANGED nesting

------------------------------------------------------------------------------
JsonInit == state = "START" /\ nesting = <<>> /\ buffer = <<>> /\ sent = <<>>

Call ==
  \/ json_flush
  \/ json_object_start \/ json_object_end
  \/ json_array_start \/ json_array_end
  \/ \E n \in IntegerDigits : json_integer(n)
  \/ \E n \in Digits : json_unsigned(n) \/ json_float(n)
  \/ json_boolean \/ json_null
  \/ \E n \in StringLengths : json_string(n)

JsonNext == json_reset \/ (Len(Text) < MaxText /\ Call)

JsonSpec == JsonInit /\ [][JsonNext]_jsonVars

------------------------------------------------------------------------------
(* What a JSON text is, said of the text alone.                            *)
Quotes(t, i) == Cardinality({j \in 1..i : t[j] = "quote"})
InString(t, i) == Quotes(t, i) % 2 = 1

Level(t, i) == Cardinality({j \in 1..i : t[j] \in {"{", "["}})
               - Cardinality({j \in 1..i : t[j] \in {"}", "]"}})
Latest(S) == CHOOSE j \in S : \A k \in S : k <= j
Around(t, i) ==
  IF Level(t, i) = 0 THEN "top"
  ELSE t[Latest({j \in 1..i : t[j] \in {"{", "["} /\ Level(t, j) = Level(t, i)})]

KeyNext(t, i) == i > 0 /\ \/ t[i] = "{"
                          \/ t[i] = "," /\ Around(t, i) = "{"
ValueNext(t, i) == \/ i = 0
                   \/ t[i] \in {"[", ":"}
                   \/ t[i] = "," /\ Around(t, i) = "["

IsKey(t, i) == /\ i > 0 /\ t[i] = "quote" /\ ~InString(t, i)
               /\ KeyNext(t, Latest({j \in 1..(i - 1) : t[j] = "quote"}) - 1)
ValueDone(t, i) ==
  /\ i > 0
  /\ \/ t[i] \in {"}", "]", "d", "w"}
     \/ t[i] = "quote" /\ ~InString(t, i) /\ ~IsKey(t, i)

(* The symbol after the first i of t may stand there.                      *)
MayFollow(t, i) ==
  LET c == t[i + 1]
  IN  IF InString(t, i) THEN c \in {"c", "quote"}
      ELSE \/ c \in {"{", "[", "w"} /\ ValueNext(t, i)
           \/ c = "d" /\ (ValueNext(t, i) \/ t[i] = "d")
           \/ c = "quote" /\ (ValueNext(t, i) \/ KeyNext(t, i))
           \/ c = ":" /\ IsKey(t, i)
           \/ c = "," /\ Around(t, i) # "top" /\ ValueDone(t, i)
           \/ c = "}" /\ Around(t, i) = "{" /\ (t[i] = "{" \/ ValueDone(t, i))
           \/ c = "]" /\ Around(t, i) = "[" /\ (t[i] = "[" \/ ValueDone(t, i))

IsPrefixOfJson(t) == \A i \in 0..(Len(t) - 1) : MayFollow(t, i)
IsJson(t) == IsPrefixOfJson(t) /\ Level(t, Len(t)) = 0 /\ ValueDone(t, Len(t))

------------------------------------------------------------------------------
(* Whatever of these calls are made, in whatever order, and wherever the   *)
(* buffer is cut into chunks: what left the accessory, with what waits in  *)
(* the buffer, never stops being the beginning of a JSON text.             *)
AlwaysJson == IsPrefixOfJson(Text)

(* The writer says it is at the end exactly when the text is complete, and *)
(* the kinds of the open brackets are the ones it remembers.               *)
EndIsComplete ==
  /\ state # "ERROR" => (state = "END" <=> IsJson(Text))
  /\ Len(nesting) = Level(Text, Len(Text))
==============================================================================
