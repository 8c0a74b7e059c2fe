---------------------------- MODULE BoundedBuffer ----------------------------
(***************************************************************************)
(* What a bounded buffer promises its user: a sequence of at most Size     *)
(* records, oldest first.  A FIFO hands out the oldest record, a LIFO the  *)
(* newest; a push to a full buffer is refused or, in overwrite mode,       *)
(* sacrifices the OLDEST record in either discipline.                      *)
(* EventQueue (cQueue.c) is shown to implement this module.                *)
(***************************************************************************)
EXTENDS Naturals, Sequences

CONSTANTS
  Record,   \* the records that can be stored
  Size,     \* the capacity
  NoRecord  \* "no record was handed out"

VARIABLES
  items,    \* the stored records, oldest first
  kind,     \* "FIFO" or "LIFO"
  overwrite,\* does a push to a full buffer replace the oldest record?
  result    \* what the last operation answered

bufVars == <<items, kind, overwrite, result>>

Kinds == {"FIFO", "LIFO"}
Answers == [ok : BOOLEAN, rec : Record \union {NoRecord}]

Refused == [ok |-> FALSE, rec |-> NoRecord]
Done == [ok |-> TRUE, rec |-> NoRecord]
Handed(r) == [ok |-> TRUE, rec |-> r]

(* The record the discipline hands out next, and the buffer without it.    *)
Offered == IF kind = "FIFO" THEN items[1] ELSE items[Len(items)]
Remaining == IF kind = "FIFO"
             THEN [i \in 1..(Len(items) - 1) |-> items[i + 1]]
             ELSE [i \in 1..(Len(items) - 1) |-> items[i]]

Create ==
  /\ items' = <<>>
  /\ kind' \in Kinds
  /\ overwrite' \in BOOLEAN
  /\ result' \in {Done, Refused}

Put(r) ==
  /\ UNCHANGED <<kind, overwrite>>
  /\ \/ /\ Len(items) < Size
        /\ items' = [i \in 1..(Len(items) + 1) |->
                       IF i = Len(items) + 1 THEN r ELSE items[i]]
        /\ result' = Done
     \/ /\ Len(items) = Size
        /\ overwrite
        /\ items' = [i \in 1..Size |-> IF i = Size THEN r ELSE items[i + 1]]
        /\ result' = Done
     \/ /\ Len(items) = Size
        /\ ~overwrite
        /\ UNCHANGED items
        /\ result' = Refused

Take ==
  /\ UNCHANGED <<kind, overwrite>>
  /\ \/ /\ Len(items) = 0
        /\ UNCHANGED items
        /\ result' = Refused
     \/ /\ Len(items) > 0
        /\ items' = Remaining
        /\ result' = Handed(Offered)

(* Remove the offered record without handing it out.                       *)
Discard ==
  /\ UNCHANGED <<kind, overwrite>>
  /\ \/ /\ Len(items) = 0
        /\ UNCHANGED items
        /\ result' = Refused
     \/ /\ Len(items) > 0
        /\ items' = Remaining
        /\ result' = Done

Look ==
  /\ UNCHANGED <<items, kind, overwrite>>
  /\ result' = IF Len(items) = 0 THEN Refused ELSE Handed(Offered)

(* Reading by position is promised for the FIFO discipline only: position  *)
(* 0 is the oldest record.  A LIFO may answer anything.                    *)
LookAt(i) ==
  /\ UNCHANGED <<items, kind, overwrite>>
  /\ \/ /\ i >= Len(items)
        /\ result' = Refused
     \/ /\ i < Len(items)
        /\ kind = "FIFO"
        /\ result' = Handed(items[i + 1])
     \/ /\ i < Len(items)
        /\ kind = "LIFO"
        /\ \E r \in Record \union {NoRecord} : result' = Handed(r)

Clear ==
  /\ items' = <<>>
  /\ result' = Done
  /\ UNCHANGED <<kind, overwrite>>

BufInit ==
  /\ items = <<>>
  /\ kind \in Kinds
  /\ overwrite \in BOOLEAN
  /\ result = Refused

BufNext ==
  \/ Create \/ Take \/ Discard \/ Look \/ Clear
  \/ \E r \in Record : Put(r)
  \/ \E i \in 0..(Size - 1) : LookAt(i)

BufSpec == BufInit /\ [][BufNext]_bufVars
==============================================================================
