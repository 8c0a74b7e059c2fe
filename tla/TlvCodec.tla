------------------------------ MODULE TlvCodec ------------------------------
(***************************************************************************)
(* tlv.c: the type-length-value lists of the pairing messages.  A list is  *)
(* built, formatted into a message of the size that the formatter itself   *)
(* computed, and parsed from the message of a peer that encodes the same   *)
(* way.  Values longer than a length byte can say are cut into chunks.     *)
(*                                                                         *)
(* Abstracted: a type, a length and a byte of a value are numbers; the     *)
(* length byte ends at Chunk instead of 255.  Messages are complete: the   *)
(* parser does not look past their end.                                    *)
(***************************************************************************)
EXTENDS Integers, Sequences, SequencesExt

CONSTANTS
  Chunk,      \* 255, the longest chunk
  Type,       \* types of values
  Value,      \* what values hold, sequences of bytes
  MaxValues,  \* bound: the length of a list that is built
  Memory      \* bound: how many parsed values fit into memory

ASSUME ChunkAssumption == Chunk \in Nat \ {0}
ASSUME ValueAssumption == Type \subseteq Nat /\ Value \subseteq Seq(Nat)

VARIABLES
  values,    \* the list that is built
  message,   \* what tlv_format wrote, past the end of its message too
  room,      \* the size of that message
  position,  \* i in tlv_parse
  parsed,    \* the list tlv_parse made so far
  doing      \* what the caller does with the list

tlvVars == <<values, message, room, position, parsed, doing>>

Tlv(t, v) == [type |-> t, value |-> v]
TLVs == [type : Type, value : Value]

------------------------------------------------------------------------------
(* tlv_format.                                                             *)
ChunkCount(v) == (Len(v) + Chunk - 1) \div Chunk

Piece(v, k) == SubSeq(v, (k - 1) * Chunk + 1, IF k * Chunk < Len(v) THEN k * Chunk ELSE Len(v))

Formatted(tlv) ==
  IF tlv.value = <<>> THEN <<tlv.type, 0>>
  ELSE FlattenSeq([k \in 1..ChunkCount(tlv.value) |->
                     LET p == Piece(tlv.value, k) IN <<tlv.type, Len(p)>> \o p])

Encoded(list) == FlattenSeq([n \in 1..Len(list) |-> Formatted(list[n])])

(* An empty value takes two bytes and is counted with none.                *)
OneHeaderPerValue(list) ==    \* mutant
  LET size[n \in 0..Len(list)] ==
        IF n = 0 THEN 0 ELSE size[n - 1] + Len(list[n].value) + 2
  IN  size[Len(list)]
RequiredSize(list) ==
  LET size[n \in 0..Len(list)] ==
        IF n = 0 THEN 0
        ELSE size[n - 1] + Len(list[n].value) + 2 * ChunkCount(list[n].value)
  IN  size[Len(list)]

------------------------------------------------------------------------------
(* One round of the loop of tlv_parse at index i of the message b.  Chunks *)
(* of full length with the type of the first one are followed by one more  *)
(* of that type.  When they hold nothing the index stays where it is.      *)
IsFullOfAnyType(b, i, j) == j <= Len(b) /\ b[j + 1] = Chunk    \* mutant
IsFull(b, i, j) == j <= Len(b) /\ b[j] = b[i] /\ b[j + 1] = Chunk

FullChunks(b, i) ==
  CHOOSE n \in 0..Len(b) :
    /\ \A k \in 0..(n - 1) : IsFull(b, i, i + k * (Chunk + 2))
    /\ ~IsFull(b, i, i + n * (Chunk + 2))

RestLength(b, i, j) == IF j <= Len(b) /\ b[j] = b[i] THEN b[j + 1] ELSE 0

ParsedTlv(b, i) ==
  LET n == FullChunks(b, i)
      j == i + n * (Chunk + 2)
      chunk(k) == SubSeq(b, i + k * (Chunk + 2) + 2, i + (k + 1) * (Chunk + 2) - 1)
  IN  Tlv(b[i], FlattenSeq([k \in 1..n |-> chunk(k - 1)])
                  \o SubSeq(b, j + 2, j + 1 + RestLength(b, i, j)))

StaysAtFullChunk(b, i) ==    \* mutant
  LET j == i + FullChunks(b, i) * (Chunk + 2)
      rest == RestLength(b, i, j)
  IN  IF rest > 0 THEN j + 2 + rest ELSE i
NextIndex(b, i) ==
  LET j == i + FullChunks(b, i) * (Chunk + 2)
      rest == RestLength(b, i, j)
  IN  IF rest > 0 THEN j + 2 + rest ELSE j

------------------------------------------------------------------------------
tlv_add_value(t, v) ==
  /\ doing = "build" /\ Len(values) < MaxValues
  /\ values' = Append(values, Tlv(t, v))
  /\ UNCHANGED <<message, room, position, parsed, doing>>

(* Callers ask for the size, allocate that much and format again.          *)
tlv_format ==
  /\ doing = "build"
  /\ room' = RequiredSize(values)
  /\ message' = Encoded(values)
  /\ doing' = "formatted"
  /\ UNCHANGED <<values, position, parsed>>

(* A peer's message with these values has arrived.                         *)
StartParse ==
  /\ doing = "build"
  /\ message' = Encoded(values)
  /\ position' = 1
  /\ doing' = "parse"
  /\ UNCHANGED <<values, room, parsed>>

tlv_parse ==
  /\ doing = "parse"
  /\ \/ /\ position > Len(message)
        /\ doing' = "parsed"
        /\ UNCHANGED <<position, parsed>>
     \/ /\ position <= Len(message) /\ Len(parsed) < Memory
        /\ parsed' = Append(parsed, ParsedTlv(message, position))
        /\ position' = NextIndex(message, position)
        /\ UNCHANGED doing
     \/ /\ position <= Len(message) /\ Len(parsed) = Memory    \* tlv_malloc fails
        /\ doing' = "crashed"
        /\ UNCHANGED <<position, parsed>>
  /\ UNCHANGED <<values, message, room>>

tlv_free ==
  /\ doing \in {"build", "formatted", "parsed"}
  /\ values' = <<>> /\ parsed' = <<>> /\ message' = <<>>
  /\ room' = 0 /\ position' = 1
  /\ doing' = "build"

TlvInit ==
  /\ values = <<>> /\ parsed = <<>> /\ message = <<>>
  /\ room = 0 /\ position = 1
  /\ doing = "build"

TlvNext ==
  \/ \E t \in Type, v \in Value : tlv_add_value(t, v)
  \/ tlv_format \/ StartParse \/ tlv_parse \/ tlv_free

TlvSpec == TlvInit /\ [][TlvNext]_tlvVars

TlvFairSpec == TlvSpec /\ WF_tlvVars(tlv_parse)

------------------------------------------------------------------------------
NoEmptyValue == \A n \in 1..Len(values) : values[n].value # <<>>

(* What a receiver can tell of a list: a value that fills its chunks is    *)
(* continued by a next value of the same type.                             *)
Merge(list, tlv) ==
  IF /\ list # <<>> /\ Last(list).type = tlv.type
     /\ Len(Last(list).value) % Chunk = 0
  THEN Append(Front(list), [tlv EXCEPT !.value = Last(list).value \o @])
  ELSE Append(list, tlv)
Merged(list) ==
  LET merged[n \in 0..Len(list)] ==
        IF n = 0 THEN <<>> ELSE Merge(merged[n - 1], list[n])
  IN  merged[Len(list)]
Received == Merged(values)

(* Chunks that are counted and chunks that are written are the same, also  *)
(* for values of exactly one chunk: what is written fills the buffer and   *)
(* goes no further.  Empty values are counted wrongly.                     *)
BufferHolds ==
  doing = "formatted" /\ NoEmptyValue => Len(message) = room

(* The parser gives back what was formatted, however values are cut into   *)
(* chunks; neighbours of one type may run together.                        *)
RoundTrip ==
  doing = "parsed" /\ NoEmptyValue => parsed = Received

(* The loop of the parser comes to the end of every message that holds no  *)
(* empty value.                                                            *)
ParseEnds ==
  (doing = "parse" /\ NoEmptyValue) ~> doing = "parsed"

(* A separator, which the list of pairings holds, is written past the end. *)
NothingOverrun == doing = "formatted" => Len(message) <= room
==============================================================================
