----------------------------- MODULE EventQueue -----------------------------
(***************************************************************************)
(* cQueue.c: the ring buffer that holds the pending event notifications of *)
(* one client of the ESP8266 server (q_init is called with LIFO discipline *)
(* and overwrite mode there; every combination is modelled here).          *)
(*                                                                         *)
(* Abstracted: a record is one value (the code copies rec_sz bytes), the   *)
(* allocation of the record array either succeeds or fails.  An operation  *)
(* on a queue that is not initialized dereferences a freed or NULL array:  *)
(* no caller does it and no action here does.                              *)
(***************************************************************************)
EXTENDS Integers, Sequences

CONSTANTS
  Record,    \* the records that may be pushed
  Size,      \* rec_nb, the capacity of the queue
  NoRecord   \* content of an array cell that was never written

ASSUME SizeAssumption == Size \in Nat \ {0}
ASSUME NoRecordAssumption == NoRecord \notin Record

VARIABLES
  buf,   \* the record array, indexed 0..rec_nb-1
  in,    \* index the next push writes
  out,   \* index of the oldest record (maintained for FIFO only)
  cnt,   \* number of records stored
  impl,  \* queue discipline
  ovw,   \* overwrite mode
  init,  \* q->init = QUEUE_INITIALIZED
  res    \* return value (and record) of the last operation

vars == <<buf, in, out, cnt, impl, ovw, init, res>>
config == <<impl, ovw, init>>

Index == 0..(Size - 1)
Cell == Record \union {NoRecord}
Types == {"FIFO", "LIFO"}
Answers == [ok : BOOLEAN, rec : Cell]

Refused == [ok |-> FALSE, rec |-> NoRecord]
Done == [ok |-> TRUE, rec |-> NoRecord]
Handed(r) == [ok |-> TRUE, rec |-> r]

------------------------------------------------------------------------------
(* Index arithmetic and the inline predicates of cQueue.h.                 *)

(* Mutants of the definitions they stand before, for the sensitivity runs  *)
(* of PROJECT.json: bugs this code could have had.                         *)
inc_idx_past_end(i) == IF i < Size THEN i + 1 ELSE 0
dec_idx_stops_at_zero(i) == IF i > 0 THEN i - 1 ELSE 0

inc_idx(i) == IF i < Size - 1 THEN i + 1 ELSE 0
dec_idx(i) == IF i > 0 THEN i - 1 ELSE Size - 1

q_isEmpty == cnt = 0
q_isFull == cnt = Size

(* The cell q_pop, q_peek and q_drop are about.                            *)
Current == IF impl = "FIFO" THEN out ELSE dec_idx(in)

(* The cell q_peekIdx reads for position idx.                              *)
PeekCell(idx) == IF impl = "FIFO" THEN (out + idx) % Size ELSE idx

------------------------------------------------------------------------------
(* q_init on a queue that may or may not be in use: the old array is freed *)
(* first; when the new one cannot be allocated the queue stays dead.       *)
q_init(type, overwrite) ==
  /\ impl' = type
  /\ ovw' = overwrite
  /\ \/ /\ init' = TRUE
        /\ buf' = [i \in Index |-> NoRecord]
        /\ in' = 0 /\ out' = 0 /\ cnt' = 0
        /\ res' = Done
     \/ /\ init' = FALSE
        /\ UNCHANGED <<buf, in, out, cnt>>
        /\ res' = Refused

q_kill ==
  /\ init
  /\ init' = FALSE
  /\ res' = Done
  /\ UNCHANGED <<buf, in, out, cnt, impl, ovw>>

q_flush_keeps_out ==    \* mutant
  /\ init
  /\ in' = 0 /\ cnt' = 0
  /\ res' = Done
  /\ UNCHANGED <<buf, out, config>>

q_flush ==
  /\ init
  /\ in' = 0 /\ out' = 0 /\ cnt' = 0
  /\ res' = Done
  /\ UNCHANGED <<buf, config>>

(* A full queue refuses the record, or overwrites its oldest one.          *)
q_push(r) ==
  /\ init
  /\ UNCHANGED config
  /\ \/ /\ ~ovw /\ q_isFull
        /\ res' = Refused
        /\ UNCHANGED <<buf, in, out, cnt>>
     \/ /\ ovw \/ ~q_isFull
        /\ buf' = [buf EXCEPT ![in] = r]
        /\ in' = inc_idx(in)
        /\ cnt' = IF q_isFull THEN cnt ELSE cnt + 1
        /\ out' = IF q_isFull /\ impl = "FIFO" THEN inc_idx(out) ELSE out
        /\ res' = Done

(* Give up the current record: shared by q_pop and q_drop.                 *)
Advance ==
  /\ cnt' = cnt - 1
  /\ out' = IF impl = "FIFO" THEN inc_idx(out) ELSE out
  /\ in' = IF impl = "FIFO" THEN in ELSE dec_idx(in)

q_pop ==
  /\ init
  /\ UNCHANGED <<buf, config>>
  /\ \/ /\ q_isEmpty
        /\ res' = Refused
        /\ UNCHANGED <<in, out, cnt>>
     \/ /\ ~q_isEmpty
        /\ res' = Handed(buf[Current])
        /\ Advance

q_drop ==
  /\ init
  /\ UNCHANGED <<buf, config>>
  /\ \/ /\ q_isEmpty
        /\ res' = Refused
        /\ UNCHANGED <<in, out, cnt>>
     \/ /\ ~q_isEmpty
        /\ res' = Done
        /\ Advance

q_peek ==
  /\ init
  /\ res' = IF q_isEmpty THEN Refused ELSE Handed(buf[Current])
  /\ UNCHANGED <<buf, in, out, cnt, config>>

q_peekIdx(idx) ==
  /\ init
  /\ res' = IF idx + 1 > cnt THEN Refused ELSE Handed(buf[PeekCell(idx)])
  /\ UNCHANGED <<buf, in, out, cnt, config>>

------------------------------------------------------------------------------
(* The Queue_t is allocated by the caller; its fields are first set by     *)
(* q_init, so the initial state is that of a queue not yet initialized.    *)
Init ==
  /\ buf = [i \in Index |-> NoRecord]
  /\ in = 0 /\ out = 0 /\ cnt = 0
  /\ impl \in Types
  /\ ovw \in BOOLEAN
  /\ init = FALSE
  /\ res = Refused

Next ==
  \/ \E type \in Types, overwrite \in BOOLEAN : q_init(type, overwrite)
  \/ q_kill \/ q_flush \/ q_pop \/ q_drop \/ q_peek
  \/ \E r \in Record : q_push(r)
  \/ \E idx \in Index : q_peekIdx(idx)

Spec == Init /\ [][Next]_vars

------------------------------------------------------------------------------
(* The indices stay inside the array and the count inside the capacity,    *)
(* whatever order the operations are called in.                            *)
TypeOK ==
  /\ buf \in [Index -> Cell]
  /\ in \in Index
  /\ out \in Index
  /\ cnt \in 0..Size
  /\ impl \in Types
  /\ ovw \in BOOLEAN
  /\ init \in BOOLEAN
  /\ res \in Answers

(* Where the oldest record lies, computed from in and cnt alone, and the   *)
(* cell i places after it.                                                 *)
First == IF cnt <= in THEN in - cnt ELSE in - cnt + Size
Cyclic(i) == IF First + i < Size THEN First + i ELSE First + i - Size

(* The two ways the code finds a record agree: in FIFO mode out is exactly *)
(* the place cnt records before in, also after overwrites; in LIFO mode    *)
(* out is never moved.  No pop hands out a cell that was never written.    *)
IndexOK ==
  /\ impl = "FIFO" /\ init => out = First
  /\ impl = "LIFO" /\ init => out = 0
  /\ init => \A i \in 0..(cnt - 1) : buf[Cyclic(i)] \in Record

(* The ring implements the bounded buffer: overwriting costs the oldest    *)
(* record, a FIFO pop answers the oldest and a LIFO pop the newest one.    *)
Items == IF init THEN [i \in 1..cnt |-> buf[Cyclic(i - 1)]] ELSE <<>>
Buffer == INSTANCE BoundedBuffer
            WITH items <- Items, kind <- impl, overwrite <- ovw, result <- res
ImplementsBuffer == Buffer!BufSpec
==============================================================================
