---------------------------- MODULE QueryParams ----------------------------
(***************************************************************************)
(* query_params.c: the query of a request's URL as a list of parameters.   *)
(* The parser walks over a string that ends with NUL and has no length.    *)
(*                                                                         *)
(* Abstracted: a character that is not a delimiter is any member of Char;  *)
(* indices start at 1, and what memory holds behind the NUL is not known,  *)
(* so that a parser that leaves the string is "outside" and goes nowhere.  *)
(***************************************************************************)
EXTENDS Integers, Sequences, SequencesExt

CONSTANTS
  Char,       \* characters that are no delimiters
  MaxLength   \* bound: the length of a query

ASSUME CharAssumption == Char \intersect {"=", "&", "#", "NUL"} = {}
ASSUME MaxLengthAssumption == MaxLength \in Nat

VARIABLES
  query,    \* s
  index,    \* i
  params,   \* the list, newest parameter first
  parser    \* where the parser is

queryVars == <<query, index, params, parser>>

Delimiters == {"=", "&", "#"}
None == "NULL"      \* a parameter without a value
NUL == "NUL"

At(i) == IF i <= Len(query) THEN query[i] ELSE NUL

(* The first index from i on that holds a character of stop, or the NUL.   *)
Until(i, stop) ==
  CHOOSE j \in i..(Len(query) + 1) :
    At(j) \in stop \union {NUL} /\ \A k \in i..(j - 1) : At(k) \notin stop

Param(n, v) == [name |-> n, value |-> v]
SubStr(i, j) == SubSeq(query, i, j - 1)

------------------------------------------------------------------------------
(* One round of the loop, when a name starts at the index.                 *)
ValueStart == Until(index, Delimiters) + 1
ValueEnd ==
  IF At(ValueStart - 1) = "=" THEN Until(ValueStart, {"&", "#"}) ELSE ValueStart - 1

ValueOf ==
  IF ValueEnd <= ValueStart THEN None ELSE SubStr(ValueStart, ValueEnd)

(* Mutant: the list is built in the order of the query.                    *)
TakeParamInOrder ==
  /\ parser = "parse" /\ index <= Len(query)
  /\ Until(index, Delimiters) # index
  /\ params' = Append(params, Param(SubStr(index, ValueStart - 1), ValueOf))
  /\ index' = ValueEnd
  /\ parser' = IF At(ValueEnd) \in {NUL, "#"} THEN "done" ELSE "parse"
  /\ UNCHANGED query

TakeParam ==
  /\ parser = "parse" /\ index <= Len(query)
  /\ Until(index, Delimiters) # index
  /\ params' = <<Param(SubStr(index, ValueStart - 1), ValueOf)>> \o params
  /\ index' = ValueEnd
  /\ parser' = IF At(ValueEnd) \in {NUL, "#"} THEN "done" ELSE "parse"
  /\ UNCHANGED query

(* No name here: the character is skipped, be it a delimiter or the NUL.   *)
SkipCharacter ==
  /\ parser = "parse"
  /\ \/ index <= Len(query) /\ At(index) \in Delimiters /\ UNCHANGED parser
     \/ index > Len(query) /\ parser' = "outside"
  /\ index' = index + 1
  /\ UNCHANGED <<query, params>>

QueryInit ==
  /\ query \in UNION {[1..n -> Char \union Delimiters] : n \in 0..MaxLength}
  /\ index = 1 /\ params = <<>>
  /\ parser = "parse"

QueryNext == TakeParam \/ SkipCharacter

QuerySpec == QueryInit /\ [][QueryNext]_queryVars

query_params_find(list, n) ==
  IF \E k \in 1..Len(list) : list[k].name = n
  THEN list[CHOOSE k \in 1..Len(list) :
              list[k].name = n /\ \A j \in 1..(k - 1) : list[j].name # n].value
  ELSE "absent"

------------------------------------------------------------------------------
(* The grammar: name, or name=value, joined by ampersands, up to a '#'.    *)
Ends(from) == {j \in from..(Len(query) + 1) : At(j) \in {"&", "#", NUL}}
Starts == {1} \union {j + 1 : j \in {k \in 1..Len(query) : query[k] = "&"}}
InQuery(j) == \A k \in 1..(j - 1) : At(k) # "#"

NameEnd(j) == Until(j, Delimiters)
WellFormed ==
  /\ query # <<>>
  /\ \A j \in Starts : InQuery(j) => At(j) \notin Delimiters \union {NUL}

(* The value of a name is what stands between the '=' after its last       *)
(* occurrence and the next '&' or '#'.                                     *)
Occurrences(n) == {j \in Starts : InQuery(j) /\ SubStr(j, NameEnd(j)) = n}
Meaning(n) ==
  IF Occurrences(n) = {} THEN "absent"
  ELSE LET j == CHOOSE j \in Occurrences(n) : \A k \in Occurrences(n) : k <= j
           v == NameEnd(j) + 1
       IN  IF At(v - 1) = "=" /\ At(v) \notin {"&", "#", NUL}
           THEN SubStr(v, Until(v, {"&", "#"}))
           ELSE None

(* Every name that fits in a query, and the empty one.                     *)
Names == UNION {[1..n -> Char] : n \in 0..MaxLength}

(* On a query of the grammar the parser stays inside the string and every  *)
(* look-up answers what the query says of that name, the last one of       *)
(* several; without a value, with a value that holds '=', before a '#'.    *)
QueryUnderstood ==
  WellFormed =>
    /\ parser # "outside"
    /\ parser = "done" => \A n \in Names : query_params_find(params, n) = Meaning(n)

(* After the query ended, nothing is read any more.                        *)
StaysInside == parser # "outside"
==============================================================================
