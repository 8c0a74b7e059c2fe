-------------------------- MODULE EventQueueProofs --------------------------
(***************************************************************************)
(* Theorems about EventQueue for every capacity and every set of records.  *)
(* IndexOK is inductive relative to TypeOK; both together carry the step   *)
(* simulation behind the refinement theorem.  Then the events that the     *)
(* ESP8266 server keeps in such queues, for every number of clients,       *)
(* characteristics and values.                                             *)
(***************************************************************************)
EXTENDS EventQueue, Esp8266Events, ListsProofs

(* inc_idx and dec_idx stay inside the array and undo one another.         *)
LEMMA IndexArithmetic ==
  ASSUME NEW i \in Index
  PROVE  /\ inc_idx(i) \in Index
         /\ dec_idx(i) \in Index
         /\ dec_idx(inc_idx(i)) = i
  BY SizeAssumption DEF Index, inc_idx, dec_idx

(* Adding a position to an index runs past the end of the array at most    *)
(* once.                                                                   *)
LEMMA ModuloOnce ==
  ASSUME NEW i \in Index, NEW j \in Index
  PROVE  (i + j) % Size = IF i + j < Size THEN i + j ELSE i + j - Size
  BY SizeAssumption DEF Index

(* The three shapes of an answer are answers.                              *)
LEMMA AnswerTypes ==
  /\ Refused \in Answers
  /\ Done \in Answers
  /\ \A r \in Cell : Handed(r) \in Answers
  BY Zenon DEF Refused, Done, Handed, Answers, Cell

LEMMA TypeInit == Init => TypeOK
<1> SUFFICES ASSUME Init PROVE TypeOK
  OBVIOUS
<1>1. impl \in Types /\ ovw \in BOOLEAN /\ init \in BOOLEAN
  BY Zenon DEF Init
<1>2. buf \in [Index -> Cell] /\ in \in Index /\ out \in Index /\ cnt \in 0..Size
  BY SizeAssumption DEF Init, Index, Cell
<1>3. QED
  BY <1>1, <1>2, AnswerTypes DEF Init, TypeOK

LEMMA TypeStep == TypeOK /\ [Next]_vars => TypeOK'
<1> SUFFICES ASSUME TypeOK, [Next]_vars
             PROVE  TypeOK'
  OBVIOUS
<1> USE SizeAssumption, AnswerTypes DEF TypeOK
<1>1. ASSUME NEW type \in Types, NEW overwrite \in BOOLEAN,
             q_init(type, overwrite)
      PROVE  TypeOK'
  <2>1. impl' \in Types /\ ovw' \in BOOLEAN /\ init' \in BOOLEAN
    BY <1>1, Zenon DEF q_init
  <2>2. /\ buf' \in [Index -> Cell]
        /\ in' \in Index /\ out' \in Index /\ cnt' \in 0..Size
    BY <1>1 DEF q_init, Index, Cell
  <2>3. res' \in Answers
    BY <1>1 DEF q_init
  <2>4. QED
    BY <2>1, <2>2, <2>3
<1>2. CASE q_kill
  <2>1. init' \in BOOLEAN
    BY <1>2, Zenon DEF q_kill
  <2>2. QED
    BY <1>2, <2>1 DEF q_kill
<1>3. CASE q_flush
  BY <1>3 DEF q_flush, config, Index, Cell
<1>4. ASSUME NEW r \in Record, q_push(r)
      PROVE  TypeOK'
  <2>1. buf' \in [Index -> Cell] /\ res' \in Answers
    BY <1>4 DEF q_push, Cell
  <2>2. in' \in Index /\ out' \in Index
    BY <1>4, IndexArithmetic DEF q_push
  <2>3. cnt' \in 0..Size
    BY <1>4 DEF q_push, q_isFull
  <2>4. QED
    BY <1>4, <2>1, <2>2, <2>3 DEF q_push, config
<1>5. CASE q_pop
  <2>1. Current \in Index
    BY IndexArithmetic DEF Current
  <2>2. res' \in Answers
    BY <1>5, <2>1 DEF q_pop
  <2>3. in' \in Index /\ out' \in Index
    BY <1>5, IndexArithmetic DEF q_pop, Advance
  <2>4. cnt' \in 0..Size
    BY <1>5 DEF q_pop, Advance, q_isEmpty
  <2>5. QED
    BY <1>5, <2>2, <2>3, <2>4 DEF q_pop, config
<1>6. CASE q_drop
  <2>1. in' \in Index /\ out' \in Index
    BY <1>6, IndexArithmetic DEF q_drop, Advance
  <2>2. cnt' \in 0..Size
    BY <1>6 DEF q_drop, Advance, q_isEmpty
  <2>3. QED
    BY <1>6, <2>1, <2>2 DEF q_drop, config
<1>7. CASE q_peek
  <2>1. Current \in Index
    BY IndexArithmetic DEF Current
  <2>2. QED
    BY <1>7, <2>1 DEF q_peek, config
<1>8. ASSUME NEW idx \in Index, q_peekIdx(idx)
      PROVE  TypeOK'
  <2>1. PeekCell(idx) \in Index
    BY DEF PeekCell, Index
  <2>2. QED
    BY <1>8, <2>1 DEF q_peekIdx, config
<1>9. CASE UNCHANGED vars
  BY <1>9 DEF vars
<1>10. QED
  BY <1>1, <1>2, <1>3, <1>4, <1>5, <1>6, <1>7, <1>8, <1>9 DEF Next

(* Type correctness: no sequence of calls drives an index out of the array *)
(* or the count above the capacity.                                        *)
THEOREM TypeCorrect == Spec => []TypeOK
  BY TypeInit, TypeStep, PTL DEF Spec

------------------------------------------------------------------------------
(* The cells the stored records occupy.                                    *)

(* The oldest record's cell is a cell, and the places that follow it are   *)
(* pairwise different cells.                                               *)
LEMMA CyclicCells ==
  ASSUME TypeOK
  PROVE  /\ First \in Index
         /\ \A i \in Index : Cyclic(i) \in Index
         /\ \A i, j \in Index : Cyclic(i) = Cyclic(j) => i = j
  BY SizeAssumption DEF TypeOK, First, Cyclic, Index

(* The next cell to be written is the one after the last stored record,    *)
(* and the newest record is in the cell before it.                         *)
LEMMA CyclicEnds ==
  ASSUME TypeOK
  PROVE  /\ cnt < Size => Cyclic(cnt) = in
         /\ cnt = Size => First = in
         /\ cnt > 0 => Cyclic(cnt - 1) = dec_idx(in)
         /\ Cyclic(0) = First
  BY SizeAssumption DEF TypeOK, First, Cyclic, Index, dec_idx

(* A push that finds room leaves the oldest record where it is.            *)
LEMMA PushPlaces ==
  ASSUME TypeOK, TypeOK', cnt < Size, in' = inc_idx(in), cnt' = cnt + 1
  PROVE  First' = First /\ \A i \in Index : (Cyclic(i))' = Cyclic(i)
  BY SizeAssumption DEF TypeOK, First, Cyclic, Index, inc_idx

(* A push on a full queue moves every place one cell on.                   *)
LEMMA OverwritePlaces ==
  ASSUME TypeOK, TypeOK', cnt = Size, in' = inc_idx(in), cnt' = cnt
  PROVE  /\ First' = inc_idx(First)
         /\ \A i \in Index : i + 1 \in Index => (Cyclic(i))' = Cyclic(i + 1)
         /\ (Cyclic(Size - 1))' = in
  BY SizeAssumption DEF TypeOK, First, Cyclic, Index, inc_idx

(* Giving up the oldest record moves every place one cell on, giving up    *)
(* the newest one moves none.                                              *)
LEMMA TakeOldestPlaces ==
  ASSUME TypeOK, TypeOK', cnt > 0, cnt' = cnt - 1, in' = in
  PROVE  /\ First' = inc_idx(First)
         /\ \A i \in 0..(cnt - 2) : (Cyclic(i))' = Cyclic(i + 1)
<1>1. First' = inc_idx(First)
  BY SizeAssumption DEF TypeOK, First, Index, inc_idx
<1>2. QED
  BY <1>1, SizeAssumption DEF TypeOK, First, Cyclic, Index, inc_idx

LEMMA TakeNewestPlaces ==
  ASSUME TypeOK, TypeOK', cnt > 0, cnt' = cnt - 1, in' = dec_idx(in)
  PROVE  First' = First /\ \A i \in Index : (Cyclic(i))' = Cyclic(i)
<1>1. First' = First
  BY SizeAssumption DEF TypeOK, First, Index, dec_idx
<1>2. QED
  BY <1>1 DEF Cyclic

------------------------------------------------------------------------------
(* IndexOK is preserved by every step.                                     *)

LEMMA IndexInit == Init => IndexOK
  BY DEF Init, IndexOK

(* Pops and drops move the indices alike.                                  *)
LEMMA AdvanceIndex ==
  ASSUME TypeOK, TypeOK', IndexOK, init, cnt > 0, Advance,
         UNCHANGED <<buf, config>>
  PROVE  IndexOK'
<1>1. impl \in Types
  BY DEF TypeOK
<1>2. CASE impl = "FIFO"
  <2>1. in' = in /\ cnt' = cnt - 1 /\ out' = inc_idx(out)
    BY <1>2 DEF Advance
  <2>2. out' = First'
    BY <1>2, <2>1, TakeOldestPlaces DEF IndexOK
  <2>3. ASSUME NEW i \in 0..(cnt' - 1)
        PROVE  (buf[Cyclic(i)])' \in Record
    <3>1. i \in 0..(cnt - 2) /\ i + 1 \in 0..(cnt - 1)
      BY <2>1 DEF TypeOK
    <3>2. (Cyclic(i))' = Cyclic(i + 1)
      BY <2>1, <3>1, TakeOldestPlaces
    <3>3. QED
      BY <3>1, <3>2 DEF IndexOK, config
  <2>4. QED
    BY <1>2, <2>2, <2>3 DEF IndexOK, config
<1>3. CASE impl = "LIFO"
  <2>1. in' = dec_idx(in) /\ cnt' = cnt - 1 /\ out' = out
    BY <1>3 DEF Advance
  <2>2. ASSUME NEW i \in 0..(cnt' - 1)
        PROVE  (buf[Cyclic(i)])' \in Record
    <3>1. i \in 0..(cnt - 1) /\ i \in Index
      <4>1. cnt' = cnt - 1 /\ cnt \in 0..Size /\ Size \in Nat
        BY <2>1, SizeAssumption DEF TypeOK
      <4>2. QED
        BY <4>1 DEF Index
    <3>2. (Cyclic(i))' = Cyclic(i)
      BY <2>1, <3>1, TakeNewestPlaces
    <3>3. QED
      BY <3>1, <3>2 DEF IndexOK, config
  <2>3. QED
    BY <1>3, <2>1, <2>2 DEF IndexOK, config
<1>4. QED
  BY <1>1, <1>2, <1>3 DEF Types

LEMMA PushIndex ==
  ASSUME TypeOK, TypeOK', IndexOK, NEW r \in Record, q_push(r)
  PROVE  IndexOK'
<1>1. init /\ init' /\ impl' = impl
  BY DEF q_push, config
<1>2. CASE ~ovw /\ q_isFull
  BY <1>1, <1>2 DEF q_push, IndexOK, First, Cyclic
<1>3. CASE ~q_isFull
  <2>1. /\ buf' = [buf EXCEPT ![in] = r]
        /\ in' = inc_idx(in) /\ cnt' = cnt + 1 /\ out' = out /\ cnt < Size
    BY <1>3, SizeAssumption DEF q_push, q_isFull, TypeOK
  <2>2. First' = First
    BY <2>1, PushPlaces
  <2>3. ASSUME NEW i \in 0..(cnt' - 1)
        PROVE  (buf[Cyclic(i)])' \in Record
    <3>1. i \in Index /\ cnt \in Index /\ i \in 0..cnt
      BY <2>1, SizeAssumption DEF TypeOK, Index
    <3>2. (Cyclic(i))' = Cyclic(i) /\ Cyclic(i) \in Index
      BY <2>1, <3>1, PushPlaces, CyclicCells
    <3>3. i # cnt => Cyclic(i) # in
      BY <2>1, <3>1, CyclicCells, CyclicEnds
    <3>4. i = cnt => Cyclic(i) = in
      BY <2>1, CyclicEnds
    <3>5. i # cnt => i \in 0..(cnt - 1)
      BY <3>1 DEF TypeOK
    <3>6. QED
      BY <1>1, <2>1, <3>2, <3>3, <3>4, <3>5 DEF IndexOK, TypeOK
  <2>4. QED
    BY <1>1, <2>1, <2>2, <2>3 DEF IndexOK
<1>4. CASE ovw /\ q_isFull
  <2>1. /\ buf' = [buf EXCEPT ![in] = r]
        /\ in' = inc_idx(in) /\ cnt' = cnt /\ cnt = Size
        /\ out' = IF impl = "FIFO" THEN inc_idx(out) ELSE out
    BY <1>4 DEF q_push, q_isFull
  <2>2. First' = inc_idx(First)
    BY <2>1, OverwritePlaces
  <2>3. ASSUME NEW i \in 0..(cnt' - 1)
        PROVE  (buf[Cyclic(i)])' \in Record
    <3>1. i \in Index /\ (i = Size - 1 \/ i + 1 \in Index)
      BY <2>1, SizeAssumption DEF Index
    <3>2. CASE i = Size - 1
      BY <2>1, <3>2, OverwritePlaces DEF TypeOK
    <3>3. CASE i + 1 \in Index
      <4>1. (Cyclic(i))' = Cyclic(i + 1) /\ Cyclic(i + 1) \in Index
        BY <2>1, <3>1, <3>3, OverwritePlaces, CyclicCells
      <4>2. Cyclic(i + 1) # in
        <5>1. 0 \in Index /\ i + 1 # 0 /\ Cyclic(0) = in
          BY <2>1, <3>1, CyclicEnds, SizeAssumption DEF Index
        <5>2. QED
          BY <3>3, <5>1, CyclicCells
      <4>3. i + 1 \in 0..(cnt - 1)
        BY <2>1, <3>3 DEF Index
      <4>4. QED
        BY <1>1, <2>1, <4>1, <4>2, <4>3 DEF IndexOK, TypeOK
    <3>4. QED
      BY <3>1, <3>2, <3>3
  <2>4. QED
    BY <1>1, <2>1, <2>2, <2>3 DEF IndexOK
<1>5. QED
  BY <1>2, <1>3, <1>4 DEF q_push

LEMMA IndexStep == TypeOK /\ IndexOK /\ [Next]_vars => IndexOK'
<1> SUFFICES ASSUME TypeOK, IndexOK, [Next]_vars
             PROVE  IndexOK'
  OBVIOUS
<1>0. TypeOK'
  BY TypeStep
<1>1. ASSUME NEW type \in Types, NEW overwrite \in BOOLEAN,
             q_init(type, overwrite)
      PROVE  IndexOK'
  <2>1. CASE init' = TRUE /\ in' = 0 /\ out' = 0 /\ cnt' = 0
    BY <2>1 DEF IndexOK, First
  <2>2. CASE init' = FALSE
    BY <2>2 DEF IndexOK
  <2>3. QED
    BY <1>1, <2>1, <2>2 DEF q_init
<1>2. CASE q_kill
  BY <1>2 DEF q_kill, IndexOK
<1>3. CASE q_flush
  BY <1>3 DEF q_flush, IndexOK, First
<1>4. ASSUME NEW r \in Record, q_push(r)
      PROVE  IndexOK'
  BY <1>0, <1>4, PushIndex
<1>5. CASE q_pop
  <2>1. CASE q_isEmpty
    BY <1>5, <2>1 DEF q_pop, q_isEmpty, IndexOK, First, Cyclic, config
  <2>2. CASE ~q_isEmpty
    <3>1. init /\ cnt > 0 /\ Advance /\ UNCHANGED <<buf, config>>
      BY <1>5, <2>2 DEF q_pop, q_isEmpty, TypeOK
    <3>2. QED
      BY <1>0, <3>1, AdvanceIndex
  <2>3. QED
    BY <2>1, <2>2
<1>6. CASE q_drop
  <2>1. CASE q_isEmpty
    BY <1>6, <2>1 DEF q_drop, q_isEmpty, IndexOK, First, Cyclic, config
  <2>2. CASE ~q_isEmpty
    <3>1. init /\ cnt > 0 /\ Advance /\ UNCHANGED <<buf, config>>
      BY <1>6, <2>2 DEF q_drop, q_isEmpty, TypeOK
    <3>2. QED
      BY <1>0, <3>1, AdvanceIndex
  <2>3. QED
    BY <2>1, <2>2
<1>7. CASE q_peek
  BY <1>7 DEF q_peek, config, IndexOK, First, Cyclic
<1>8. ASSUME NEW idx \in Index, q_peekIdx(idx)
      PROVE  IndexOK'
  BY <1>8 DEF q_peekIdx, config, IndexOK, First, Cyclic
<1>9. CASE UNCHANGED vars
  BY <1>9 DEF vars, IndexOK, First, Cyclic
<1>10. QED
  BY <1>1, <1>2, <1>3, <1>4, <1>5, <1>6, <1>7, <1>8, <1>9 DEF Next

(* The read index and the write index never drift apart: what q_pop calls  *)
(* the oldest record is the one cnt places before the write index.         *)
THEOREM IndexCorrect == Spec => []IndexOK
<1>1. TypeOK /\ IndexOK /\ [Next]_vars => TypeOK' /\ IndexOK'
  BY TypeStep, IndexStep
<1>2. QED
  BY TypeInit, IndexInit, <1>1, PTL DEF Spec

------------------------------------------------------------------------------
(* The ring implements BoundedBuffer.                                      *)

(* The stored records as a sequence.                                       *)
LEMMA ItemsAreStored ==
  ASSUME TypeOK, IndexOK, init
  PROVE  /\ Items \in Seq(Record)
         /\ Len(Items) = cnt
         /\ \A i \in 1..cnt : Items[i] = buf[Cyclic(i - 1)]
<1>1. Items = [i \in 1..cnt |-> buf[Cyclic(i - 1)]] /\ cnt \in Nat
  BY DEF Items, TypeOK
<1>2. \A i \in 1..cnt : buf[Cyclic(i - 1)] \in Record
  <2>1. ASSUME NEW i \in 1..cnt PROVE i - 1 \in 0..(cnt - 1)
    BY <1>1
  <2>2. QED
    BY <2>1 DEF IndexOK
<1>3. QED
  BY <1>1, <1>2

(* The record the code reads is the one the discipline offers.             *)
LEMMA CurrentIsOffered ==
  ASSUME TypeOK, IndexOK, init, cnt > 0
  PROVE  buf[Current] = Buffer!Offered
<1>1. 1 \in 1..cnt /\ cnt \in 1..cnt /\ 1 - 1 = 0
  BY DEF TypeOK
<1>2. CASE impl = "FIFO"
  <2>1. Current = Cyclic(0)
    BY <1>2, CyclicEnds DEF Current, IndexOK
  <2>2. QED
    BY <1>1, <1>2, <2>1, ItemsAreStored DEF Buffer!Offered
<1>3. CASE impl # "FIFO"
  <2>1. Current = Cyclic(cnt - 1)
    BY <1>3, CyclicEnds DEF Current
  <2>2. QED
    BY <1>1, <1>3, <2>1, ItemsAreStored DEF Buffer!Offered
<1>4. QED
  BY <1>2, <1>3

LEMMA AdvanceItems ==
  ASSUME TypeOK, TypeOK', IndexOK, IndexOK', init, cnt > 0, Advance,
         UNCHANGED <<buf, config>>
  PROVE  Items' = Buffer!Remaining
<1>1. /\ cnt' = cnt - 1 /\ cnt \in Nat /\ init' /\ impl' = impl /\ buf' = buf
      /\ Len(Items) = cnt
  BY ItemsAreStored DEF Advance, config, TypeOK
<1>2. Items' = [i \in 1..(cnt - 1) |-> buf[(Cyclic(i - 1))']]
  BY <1>1 DEF Items
<1>3. CASE impl = "FIFO"
  <2>1. in' = in
    BY <1>3 DEF Advance
  <2>2. ASSUME NEW i \in 1..(cnt - 1)
        PROVE  buf[(Cyclic(i - 1))'] = Items[i + 1]
    <3>1. i - 1 \in 0..(cnt - 2) /\ i + 1 \in 1..cnt /\ (i + 1) - 1 = (i - 1) + 1
      BY <1>1
    <3>2. (Cyclic(i - 1))' = Cyclic((i - 1) + 1)
      BY <1>1, <2>1, <3>1, TakeOldestPlaces
    <3>3. Items[i + 1] = buf[Cyclic((i + 1) - 1)]
      BY <3>1, ItemsAreStored
    <3>4. QED
      BY <3>1, <3>2, <3>3
  <2>3. Buffer!Remaining = [i \in 1..(cnt - 1) |-> Items[i + 1]]
    BY <1>1, <1>3 DEF Buffer!Remaining
  <2>4. QED
    BY <1>2, <2>2, <2>3
<1>4. CASE impl # "FIFO"
  <2>1. in' = dec_idx(in)
    BY <1>4 DEF Advance
  <2>2. ASSUME NEW i \in 1..(cnt - 1)
        PROVE  buf[(Cyclic(i - 1))'] = Items[i]
    <3>1. i - 1 \in Index /\ i \in 1..cnt
      BY <1>1, SizeAssumption DEF TypeOK, Index
    <3>2. (Cyclic(i - 1))' = Cyclic(i - 1)
      BY <1>1, <2>1, <3>1, TakeNewestPlaces
    <3>3. QED
      BY <3>1, <3>2, ItemsAreStored
  <2>3. Buffer!Remaining = [i \in 1..(cnt - 1) |-> Items[i]]
    BY <1>1, <1>4 DEF Buffer!Remaining
  <2>4. QED
    BY <1>2, <2>2, <2>3
<1>5. QED
  BY <1>3, <1>4

LEMMA PushIsPut ==
  ASSUME TypeOK, TypeOK', IndexOK, IndexOK', NEW r \in Record, q_push(r)
  PROVE  Buffer!Put(r)
<1>1. /\ init /\ init' /\ impl' = impl /\ ovw' = ovw
      /\ cnt \in 0..Size /\ Len(Items) = cnt
  BY ItemsAreStored DEF q_push, config, TypeOK
<1>2. CASE ~ovw /\ q_isFull
  <2>1. Items' = Items /\ res' = Refused /\ cnt = Size
    BY <1>1, <1>2 DEF q_push, q_isFull, Items, Cyclic, First
  <2>2. QED
    BY <1>1, <1>2, <2>1 DEF Buffer!Put, Buffer!Refused, Refused
<1>3. CASE ~q_isFull
  <2>1. /\ buf' = [buf EXCEPT ![in] = r] /\ res' = Done
        /\ in' = inc_idx(in) /\ cnt' = cnt + 1 /\ cnt < Size
    BY <1>1, <1>3, SizeAssumption DEF q_push, q_isFull
  <2>2. Items' = [i \in 1..(cnt + 1) |-> buf'[(Cyclic(i - 1))']]
    BY <1>1, <2>1 DEF Items
  <2>3. ASSUME NEW i \in 1..(cnt + 1)
        PROVE  buf'[(Cyclic(i - 1))'] = IF i = cnt + 1 THEN r ELSE Items[i]
    <3>1. i - 1 \in Index /\ cnt \in Index
      BY <1>1, <2>1, SizeAssumption DEF Index
    <3>2. (Cyclic(i - 1))' = Cyclic(i - 1) /\ Cyclic(i - 1) \in Index
      BY <2>1, <3>1, PushPlaces, CyclicCells
    <3>3. CASE i = cnt + 1
      <4>1. Cyclic(i - 1) = in
        <5>1. i - 1 = cnt
          BY <1>1, <3>3
        <5>2. QED
          BY <2>1, <5>1, CyclicEnds
      <4>2. QED
        BY <2>1, <3>2, <3>3, <4>1 DEF TypeOK
    <3>4. CASE i # cnt + 1
      <4>1. i \in 1..cnt /\ i - 1 # cnt
        BY <1>1, <3>4
      <4>2. Cyclic(i - 1) # in
        BY <2>1, <3>1, <4>1, CyclicCells, CyclicEnds
      <4>3. QED
        BY <2>1, <3>2, <3>4, <4>1, <4>2, ItemsAreStored, <1>1 DEF TypeOK
    <3>5. QED
      BY <3>3, <3>4
  <2>4. Items' = [i \in 1..(Len(Items) + 1) |->
                    IF i = Len(Items) + 1 THEN r ELSE Items[i]]
    BY <1>1, <2>2, <2>3
  <2>5. QED
    BY <1>1, <2>1, <2>4 DEF Buffer!Put, Buffer!Done, Done
<1>4. CASE ovw /\ q_isFull
  <2>1. /\ buf' = [buf EXCEPT ![in] = r] /\ res' = Done
        /\ in' = inc_idx(in) /\ cnt' = cnt /\ cnt = Size
    BY <1>4 DEF q_push, q_isFull
  <2>2. Items' = [i \in 1..Size |-> buf'[(Cyclic(i - 1))']]
    BY <1>1, <2>1 DEF Items
  <2>3. ASSUME NEW i \in 1..Size
        PROVE  buf'[(Cyclic(i - 1))'] = IF i = Size THEN r ELSE Items[i + 1]
    <3>1. i - 1 \in Index /\ 0 \in Index
      BY SizeAssumption DEF Index
    <3>2. CASE i = Size
      BY <2>1, <3>2, OverwritePlaces DEF TypeOK
    <3>3. CASE i # Size
      <4>1. i \in Index /\ i # 0 /\ (i - 1) + 1 = i /\ i + 1 \in 1..cnt
            /\ (i + 1) - 1 = i
        BY <2>1, <3>3, SizeAssumption DEF Index
      <4>2. (Cyclic(i - 1))' = Cyclic(i) /\ Cyclic(i) \in Index
        BY <2>1, <3>1, <4>1, OverwritePlaces, CyclicCells
      <4>3. Cyclic(i) # in
        BY <2>1, <3>1, <4>1, CyclicCells, CyclicEnds
      <4>4. Items[i + 1] = buf[Cyclic((i + 1) - 1)]
        BY <1>1, <4>1, ItemsAreStored
      <4>5. QED
        BY <2>1, <3>3, <4>1, <4>2, <4>3, <4>4 DEF TypeOK
    <3>4. QED
      BY <3>2, <3>3
  <2>4. Items' = [i \in 1..Size |-> IF i = Size THEN r ELSE Items[i + 1]]
    BY <2>2, <2>3
  <2>5. QED
    BY <1>1, <1>4, <2>1, <2>4 DEF Buffer!Put, Buffer!Done, Done
<1>5. QED
  BY <1>2, <1>3, <1>4 DEF q_push

(* A queue without records is the empty buffer.                            *)
LEMMA EmptyItems ==
  ASSUME ~init \/ cnt = 0
  PROVE  Items = <<>>
  BY DEF Items

LEMMA RefinementInit == Init => Buffer!BufInit
  BY EmptyItems DEF Init, Items, Types, Refused,
     Buffer!BufInit, Buffer!Kinds, Buffer!Refused

LEMMA RefinementStep ==
  ASSUME TypeOK, TypeOK', IndexOK, IndexOK', [Next]_vars
  PROVE  [Buffer!BufNext]_(Buffer!bufVars)
<1> USE DEF Buffer!BufNext
<1>1. ASSUME NEW type \in Types, NEW overwrite \in BOOLEAN,
             q_init(type, overwrite)
      PROVE  Buffer!Create
  <2>1. Items' = <<>>
    BY <1>1 DEF q_init, Items
  <2>2. res' \in {Done, Refused}
    BY <1>1 DEF q_init
  <2>3. impl' \in Types /\ ovw' \in BOOLEAN
    BY <1>1, Zenon DEF q_init
  <2>4. QED
    BY <2>1, <2>2, <2>3 DEF Buffer!Create, Buffer!Kinds, Types,
       Buffer!Done, Done, Buffer!Refused, Refused
<1>2. CASE q_kill
  <2>1. Items' = <<>>
    BY <1>2 DEF q_kill, Items
  <2>2. QED
    BY <1>2, <2>1 DEF q_kill, Buffer!Clear, Buffer!Done, Done
<1>3. CASE q_flush
  <2>1. Items' = <<>>
    BY <1>3 DEF q_flush, Items
  <2>2. QED
    BY <1>3, <2>1 DEF q_flush, config, Buffer!Clear, Buffer!Done, Done
<1>4. ASSUME NEW r \in Record, q_push(r)
      PROVE  Buffer!Put(r)
  BY <1>4, PushIsPut
<1>5. CASE q_pop
  <2>1. init /\ impl' = impl /\ ovw' = ovw /\ buf' = buf /\ init' = init
        /\ Len(Items) = cnt /\ cnt \in Nat
    BY <1>5, ItemsAreStored DEF q_pop, config, TypeOK
  <2>2. CASE q_isEmpty
    <3>1. Items' = Items /\ res' = Refused
      BY <1>5, <2>1, <2>2 DEF q_pop, q_isEmpty, Items
    <3>2. QED
      BY <2>1, <2>2, <3>1
         DEF Buffer!Take, Buffer!Refused, Refused, q_isEmpty
  <2>3. CASE ~q_isEmpty
    <3>1. cnt > 0 /\ Advance /\ res' = Handed(buf[Current])
      BY <1>5, <2>1, <2>3 DEF q_pop, q_isEmpty
    <3>2. Items' = Buffer!Remaining /\ buf[Current] = Buffer!Offered
      BY <2>1, <3>1, AdvanceItems, CurrentIsOffered DEF config
    <3>3. QED
      BY <2>1, <3>1, <3>2 DEF Buffer!Take, Buffer!Handed, Handed
  <2>4. QED
    BY <2>2, <2>3
<1>6. CASE q_drop
  <2>1. init /\ impl' = impl /\ ovw' = ovw /\ buf' = buf /\ init' = init
        /\ Len(Items) = cnt /\ cnt \in Nat
    BY <1>6, ItemsAreStored DEF q_drop, config, TypeOK
  <2>2. CASE q_isEmpty
    <3>1. Items' = Items /\ res' = Refused
      BY <1>6, <2>1, <2>2 DEF q_drop, q_isEmpty, Items
    <3>2. QED
      BY <2>1, <2>2, <3>1
         DEF Buffer!Discard, Buffer!Refused, Refused, q_isEmpty
  <2>3. CASE ~q_isEmpty
    <3>1. cnt > 0 /\ Advance /\ res' = Done
      BY <1>6, <2>1, <2>3 DEF q_drop, q_isEmpty
    <3>2. Items' = Buffer!Remaining
      BY <2>1, <3>1, AdvanceItems DEF config
    <3>3. QED
      BY <2>1, <3>1, <3>2 DEF Buffer!Discard, Buffer!Done, Done
  <2>4. QED
    BY <2>2, <2>3
<1>7. CASE q_peek
  <2>1. UNCHANGED <<Items, impl, ovw>> /\ Len(Items) = cnt /\ cnt \in Nat
    BY <1>7, ItemsAreStored DEF q_peek, config, Items, Cyclic, First, TypeOK
  <2>2. cnt > 0 => buf[Current] = Buffer!Offered
    BY <1>7, CurrentIsOffered DEF q_peek
  <2>3. QED
    <3>1. CASE cnt = 0
      BY <1>7, <2>1, <3>1
         DEF q_peek, q_isEmpty, Buffer!Look, Buffer!Refused, Refused
    <3>2. CASE cnt > 0
      <4>1. res' = Handed(Buffer!Offered)
        BY <1>7, <2>2, <3>2 DEF q_peek, q_isEmpty
      <4>2. QED
        BY <2>1, <3>2, <4>1 DEF Buffer!Look, Buffer!Handed, Handed
    <3>3. QED
      BY <2>1, <3>1, <3>2
<1>8. ASSUME NEW idx \in Index, q_peekIdx(idx)
      PROVE  Buffer!LookAt(idx)
  <2>1. init /\ UNCHANGED <<Items, impl, ovw>> /\ Len(Items) = cnt /\ cnt \in 0..Size
    BY <1>8, ItemsAreStored DEF q_peekIdx, config, Items, Cyclic, First, TypeOK
  <2>2. CASE idx + 1 > cnt
    BY <1>8, <2>1, <2>2
       DEF q_peekIdx, Index, Buffer!LookAt, Buffer!Refused, Refused
  <2>3. CASE ~(idx + 1 > cnt)
    <3>1. res' = Handed(buf[PeekCell(idx)]) /\ idx < cnt
      BY <1>8, <2>1, <2>3 DEF q_peekIdx, Index
    <3>2. CASE impl = "FIFO"
      <4>1. PeekCell(idx) = Cyclic(idx)
        <5>1. out = First /\ out \in Index
          BY <2>1, <3>2 DEF IndexOK, TypeOK
        <5>2. QED
          BY <3>2, <5>1, ModuloOnce DEF PeekCell, Cyclic
      <4>2. Items[idx + 1] = buf[Cyclic(idx)]
        <5>1. idx + 1 \in 1..cnt /\ (idx + 1) - 1 = idx
          BY <2>1, <3>1 DEF Index
        <5>2. QED
          BY <2>1, <5>1, ItemsAreStored
      <4>3. QED
        BY <2>1, <3>1, <3>2, <4>1, <4>2
           DEF Buffer!LookAt, Buffer!Handed, Handed
    <3>3. CASE impl = "LIFO"
      <4>1. buf[PeekCell(idx)] \in Record \union {NoRecord}
        BY <3>3 DEF PeekCell, TypeOK, Cell
      <4>2. QED
        BY <2>1, <3>1, <3>3, <4>1
           DEF Buffer!LookAt, Buffer!Handed, Handed
    <3>4. QED
      BY <3>2, <3>3 DEF TypeOK, Types
  <2>4. QED
    BY <2>2, <2>3
<1>9. CASE UNCHANGED vars
  <2>1. UNCHANGED <<Items, impl, ovw, res>>
    BY <1>9 DEF vars, Items, Cyclic, First
  <2>2. QED
    BY <2>1 DEF Buffer!bufVars
<1>10. CASE Next
  <2>1. \A idx \in Index : q_peekIdx(idx) => \E i \in 0..(Size - 1) : Buffer!LookAt(i)
    BY <1>8 DEF Index
  <2>2. QED
    BY <1>1, <1>2, <1>3, <1>4, <1>5, <1>6, <1>7, <1>10, <2>1 DEF Next
<1>11. QED
  BY <1>9, <1>10

(* cQueue.c implements the bounded buffer: for every capacity, discipline  *)
(* and overwrite mode, records leave in the promised order and only the    *)
(* oldest one is ever sacrificed.                                          *)
THEOREM RingImplementsBuffer == Spec => ImplementsBuffer
<1>1. TypeOK /\ TypeOK' /\ IndexOK /\ IndexOK' /\ [Next]_vars
        => [Buffer!BufNext]_(Buffer!bufVars)
  BY RefinementStep
<1>2. QED
  BY RefinementInit, <1>1, TypeCorrect, IndexCorrect, PTL
     DEF Spec, ImplementsBuffer, Buffer!BufSpec

------------------------------------------------------------------------------
(* The events of a characteristic in the queue of a client.                *)
EventsOK ==
  /\ DOMAIN value = Characteristic /\ DOMAIN session = Client
  /\ queue \in [Client -> Seq(Event)] /\ \A c \in Client : Len(queue[c]) <= QueueSize
  /\ DOMAIN view = Client /\ \A c \in Client : DOMAIN view[c] = Characteristic
  /\ DOMAIN callback = Characteristic

(* Only a client that was served in this pass may have events left of a    *)
(* characteristic that it has not subscribed to: it unsubscribed.  Who     *)
(* subscribes is served and begins without any.                            *)
NoOldEvents ==
  \A c \in Client, ch \in Characteristic :
    c \notin served /\ c \notin callback[ch] => Events(queue[c], ch) = {}

EventsInv == EventsOK /\ ClosedHearsNothing /\ NewestIsCurrent /\ NoOldEvents

LEMMA NewestOf ==
  ASSUME NEW q \in Seq(Event), NEW ch, NEW i \in DOMAIN q, q[i].characteristic = ch,
         \A j \in DOMAIN q : q[j].characteristic = ch => j <= i
  PROVE  Newest(q, ch) = q[i].value /\ Events(q, ch) # {}
<1>1. Events(q, ch) \in SUBSET (1..Len(q)) /\ i \in Events(q, ch) /\ Len(q) \in Nat
  BY DEF Events
<1>2. Max(Events(q, ch)) \in Events(q, ch) /\ Max(Events(q, ch)) >= i
  BY <1>1, MaxIsGreatest
<1>3. Max(Events(q, ch)) <= i /\ Max(Events(q, ch)) \in Nat /\ i \in Nat
  BY <1>1, <1>2 DEF Events
<1>4. Max(Events(q, ch)) = i  BY <1>2, <1>3
<1> QED  BY <1>1, <1>4 DEF Newest

LEMMA NewestExists ==
  ASSUME NEW q \in Seq(Event), NEW ch, Events(q, ch) # {}
  PROVE  \E i \in DOMAIN q :
           /\ q[i].characteristic = ch /\ Newest(q, ch) = q[i].value
           /\ \A j \in DOMAIN q : q[j].characteristic = ch => j <= i
<1>1. Events(q, ch) \in SUBSET (1..Len(q)) /\ Len(q) \in Nat  BY DEF Events
<1>2. /\ Max(Events(q, ch)) \in Events(q, ch)
      /\ \A j \in Events(q, ch) : Max(Events(q, ch)) >= j
  BY <1>1, MaxIsGreatest
<1> DEFINE i == Max(Events(q, ch))
<1>3. \A j \in DOMAIN q : q[j].characteristic = ch => j <= i
  <2> TAKE j \in DOMAIN q
  <2> HAVE q[j].characteristic = ch
  <2>1. j \in Events(q, ch)  BY DEF Events
  <2>2. i >= j /\ i \in Nat /\ j \in Nat  BY <1>1, <1>2, <2>1
  <2> QED  BY <2>2
<1> HIDE DEF i
<1>4. i \in DOMAIN q /\ q[i].characteristic = ch /\ Newest(q, ch) = q[i].value
  BY <1>2 DEF Events, Newest, i
<1> QED  BY <1>3, <1>4

(* A pushed event is the newest of its characteristic; of another one the  *)
(* newest stays the newest, unless it was the oldest event of all and went.*)
LEMMA PushedEvents ==
  ASSUME NEW q \in Seq(Event), Len(q) <= QueueSize, NEW e \in Event
  PROVE  /\ Pushed(q, e) \in Seq(Event) /\ Len(Pushed(q, e)) <= QueueSize
         /\ Newest(Pushed(q, e), e.characteristic) = e.value
         /\ \A ch : ch # e.characteristic /\ Events(Pushed(q, e), ch) # {} =>
              Events(q, ch) # {} /\ Newest(Pushed(q, e), ch) = Newest(q, ch)
<1> DEFINE p == Pushed(q, e)
           lost == IF Len(q) < QueueSize THEN 0 ELSE 1
<1>1. /\ p \in Seq(Event) /\ Len(p) = Len(q) + 1 - lost /\ p[Len(p)] = e
      /\ \A i \in 1..(Len(p) - 1) : i + lost \in 1..Len(q) /\ p[i] = q[i + lost]
      /\ Len(p) <= QueueSize /\ Len(p) >= 1
  <2>0. Len(q) \in Nat /\ QueueSize \in Nat \ {0}  BY QueueSizeAssumption
  <2>1. CASE Len(q) < QueueSize
    <3>1. p = Append(q, e) /\ lost = 0  BY <2>1 DEF Pushed
    <3> QED  BY <2>0, <2>1, <3>1
  <2>2. CASE ~(Len(q) < QueueSize)
    <3>1. p = Append(Tail(q), e) /\ lost = 1  BY <2>2 DEF Pushed
    <3>2. q # <<>> /\ Len(q) = QueueSize  BY <2>0, <2>2
    <3>3. Tail(q) \in Seq(Event) /\ Len(Tail(q)) = Len(q) - 1
          /\ \A i \in 1..Len(Tail(q)) : Tail(q)[i] = q[i + 1]
      BY <3>2
    <3> QED  BY <2>0, <3>1, <3>2, <3>3
  <2> QED  BY <2>1, <2>2
<1>2. lost \in {0, 1} /\ Len(q) \in Nat /\ Len(p) \in Nat  BY <1>1
<1>3. DOMAIN p = 1..Len(p) /\ DOMAIN q = 1..Len(q)  BY <1>1
<1> HIDE DEF p, lost
<1>4. Newest(p, e.characteristic) = e.value
  <2>1. Len(p) \in DOMAIN p /\ \A j \in DOMAIN p : j <= Len(p)  BY <1>1, <1>2, <1>3
  <2> QED  BY <1>1, <2>1, NewestOf
<1>5. ASSUME NEW ch, ch # e.characteristic, Events(p, ch) # {}
      PROVE  Events(q, ch) # {} /\ Newest(p, ch) = Newest(q, ch)
  <2>1. PICK i \in DOMAIN p :
          /\ p[i].characteristic = ch /\ Newest(p, ch) = p[i].value
          /\ \A j \in DOMAIN p : p[j].characteristic = ch => j <= i
    BY <1>1, <1>5, NewestExists
  <2>2. i \in 1..(Len(p) - 1)  BY <1>1, <1>2, <1>3, <1>5, <2>1
  <2>3. i + lost \in DOMAIN q /\ q[i + lost] = p[i]  BY <1>1, <1>3, <2>2
  <2>4. ASSUME NEW j \in DOMAIN q, q[j].characteristic = ch PROVE j <= i + lost
    <3>1. CASE j - lost \in 1..(Len(p) - 1)
      <4>1. p[j - lost] = q[(j - lost) + lost] /\ (j - lost) + lost = j
        BY <1>1, <1>2, <1>3, <3>1
      <4>2. j - lost \in DOMAIN p  BY <1>2, <1>3, <3>1
      <4>3. j - lost <= i  BY <2>1, <2>4, <4>1, <4>2
      <4> QED  BY <1>2, <1>3, <4>3
    <3>2. CASE j - lost \notin 1..(Len(p) - 1)
      <4>1. Len(p) = Len(q) + 1 - lost /\ j \in 1..Len(q)  BY <1>1, <1>3
      <4>2. j =< lost  BY <1>2, <3>2, <4>1
      <4> QED  BY <1>2, <1>3, <2>2, <4>2
    <3> QED  BY <3>1, <3>2
  <2> QED  BY <2>1, <2>3, <2>4, NewestOf
<1> QED  BY <1>1, <1>4, <1>5 DEF p

LEMMA EventsStart == EventsInit => EventsInv
<1> SUFFICES ASSUME EventsInit PROVE EventsInv  OBVIOUS
<1> USE DEF EventsInit
<1>1. EventsOK
  <2>1. \A c \in Client : Len(queue[c]) <= QueueSize  BY QueueSizeAssumption
  <2> QED  BY <2>1 DEF EventsOK, NotOpen
<1>2. ClosedHearsNothing  BY DEF ClosedHearsNothing
<1>3. NewestIsCurrent  BY DEF NewestIsCurrent
<1>4. NoOldEvents  BY DEF NoOldEvents, Events
<1> QED  BY <1>1, <1>2, <1>3, <1>4 DEF EventsInv

(* A change of a value that tells every subscriber but those who wrote it. *)
LEMMA NotifyKeeps ==
  ASSUME EventsInv, NEW ch \in Characteristic, NEW v \in Value, NEW writers,
         homekit_characteristic_notify(ch, v, writers),
         value' = [value EXCEPT ![ch] = v], callback' = callback,
         session' = session, served \subseteq served',
         DOMAIN view' = Client,
         \A c \in Client : DOMAIN view'[c] = Characteristic,
         \A c \in Client, k \in Characteristic : k # ch => view'[c][k] = view[c][k],
         \A c \in (writers \intersect callback[ch]) \intersect Client : view'[c][ch] = v
  PROVE  EventsInv'
<1> DEFINE e == [characteristic |-> ch, value |-> v]
<1>1. e \in Event /\ e.characteristic = ch /\ e.value = v  BY DEF Event
<1>2. queue' = [c \in Client |-> IF c \in callback[ch] \ writers
                                 THEN Pushed(queue[c], e) ELSE queue[c]]
  BY DEF homekit_characteristic_notify
<1> HIDE DEF e
<1>3. \A c \in Client : queue[c] \in Seq(Event) /\ Len(queue[c]) <= QueueSize
  BY DEF EventsInv, EventsOK
<1>4. \A c \in Client : c \in callback[ch] \ writers =>
        /\ queue'[c] \in Seq(Event) /\ Len(queue'[c]) <= QueueSize
        /\ Newest(queue'[c], ch) = v
        /\ \A k : k # ch /\ Events(queue'[c], k) # {} =>
              Events(queue[c], k) # {} /\ Newest(queue'[c], k) = Newest(queue[c], k)
  BY <1>1, <1>2, <1>3, PushedEvents
<1>5. \A c \in Client : c \notin callback[ch] \ writers => queue'[c] = queue[c]
  BY <1>2
<1>6. value'[ch] = v /\ \A k \in Characteristic : k # ch => value'[k] = value[k]
  BY DEF EventsInv, EventsOK
<1>7. EventsOK'
  <2>1. \A c \in Client : queue'[c] \in Seq(Event) /\ Len(queue'[c]) <= QueueSize
    BY <1>3, <1>4, <1>5
  <2>2. queue' \in [Client -> Seq(Event)]  BY <1>2, <2>1
  <2> QED  BY <2>1, <2>2 DEF EventsInv, EventsOK
<1>8. ClosedHearsNothing'
  BY <1>5 DEF EventsInv, ClosedHearsNothing
<1>9. NewestIsCurrent'
  <2> SUFFICES ASSUME NEW c \in Client, NEW k \in Characteristic,
                      c \in callback[k], session[c] = "open", Events(queue'[c], k) # {}
               PROVE  Newest(queue'[c], k) = value'[k] \/ view'[c][k] = value'[k]
    BY DEF NewestIsCurrent
  <2>1. CASE k = ch
    <3>1. CASE c \in writers  BY <1>6, <2>1, <3>1
    <3>2. CASE c \notin writers  BY <1>4, <1>6, <2>1, <3>2
    <3> QED  BY <3>1, <3>2
  <2>2. CASE k # ch
    <3>1. Events(queue[c], k) # {} /\ Newest(queue'[c], k) = Newest(queue[c], k)
      BY <1>4, <1>5, <2>2
    <3>2. Newest(queue[c], k) = value[k] \/ view[c][k] = value[k]
      BY <3>1 DEF EventsInv, NewestIsCurrent
    <3> QED  BY <1>6, <2>2, <3>1, <3>2
  <2> QED  BY <2>1, <2>2
<1>10. NoOldEvents'
  <2> SUFFICES ASSUME NEW c \in Client, NEW k \in Characteristic,
                      c \notin served', c \notin callback[k]
               PROVE  Events(queue'[c], k) = {}
    BY DEF NoOldEvents
  <2>1. Events(queue[c], k) = {}  BY DEF EventsInv, NoOldEvents
  <2> QED  BY <1>4, <1>5, <2>1
<1> QED  BY <1>7, <1>8, <1>9, <1>10 DEF EventsInv

LEMMA EventsStep == EventsInv /\ [EventsNext]_eventVars => EventsInv'
<1> SUFFICES ASSUME EventsInv, [EventsNext]_eventVars PROVE EventsInv'  OBVIOUS
<1>0. EventsOK /\ ClosedHearsNothing /\ NewestIsCurrent /\ NoOldEvents
  BY DEF EventsInv
<1>1. ASSUME NEW ch \in Characteristic, NEW v \in Value, SketchSets(ch, v)
      PROVE  EventsInv'
  <2>1. homekit_characteristic_notify(ch, v, {})  BY <1>1 DEF SketchSets
  <2>2. /\ value' = [value EXCEPT ![ch] = v] /\ callback' = callback
        /\ session' = session /\ served \subseteq served' /\ view' = view
    BY <1>1 DEF SketchSets
  <2>3. DOMAIN view' = Client /\ \A d \in Client : DOMAIN view'[d] = Characteristic
    BY <1>0, <2>2 DEF EventsOK
  <2>4. \A d \in Client, k \in Characteristic : k # ch => view'[d][k] = view[d][k]
    BY <2>2
  <2>5. \A d \in ({} \intersect callback[ch]) \intersect Client : view'[d][ch] = v
    OBVIOUS
  <2> QED  BY <1>0, <2>1, <2>2, <2>3, <2>4, <2>5, NotifyKeeps
<1>2. ASSUME NEW c \in Client, NEW ch \in Characteristic, NEW v \in Value,
             UpdateValue(c, ch, v)
      PROVE  EventsInv'
  <2>1. homekit_characteristic_notify(ch, v, {c})  BY <1>2 DEF UpdateValue
  <2>2. /\ value' = [value EXCEPT ![ch] = v] /\ callback' = callback
        /\ session' = session /\ served \subseteq served'
        /\ view' = IF c \in callback[ch] THEN [view EXCEPT ![c][ch] = v] ELSE view
    BY <1>2 DEF UpdateValue, Request, Tell
  <2>3. DOMAIN view' = Client /\ \A d \in Client : DOMAIN view'[d] = Characteristic
    BY <1>0, <2>2 DEF EventsOK
  <2>4. \A d \in Client, k \in Characteristic : k # ch => view'[d][k] = view[d][k]
    BY <1>0, <2>2 DEF EventsOK
  <2>5. \A d \in ({c} \intersect callback[ch]) \intersect Client : view'[d][ch] = v
    BY <1>0, <2>2 DEF EventsOK
  <2> QED  BY <2>1, <2>2, <2>3, <2>4, <2>5, NotifyKeeps
<1>3. ASSUME NEW c \in Client, NEW ch \in Characteristic, Subscribe(c, ch)
      PROVE  EventsInv'
  <2>1. /\ session[c] = "open" /\ c \notin served /\ served' = served \union {c}
        /\ session' = session /\ callback' = [callback EXCEPT ![ch] = @ \union {c}]
        /\ value' = value /\ queue' = queue /\ view' = view
    BY <1>3 DEF Subscribe, Request
  <2>2. \A d \in Client, k \in Characteristic :
          /\ d \in callback[k] => d \in callback'[k]
          /\ d \in callback'[k] => d \in callback[k] \/ (d = c /\ k = ch)
    BY <1>0, <2>1 DEF EventsOK
  <2>3. EventsOK'  BY <1>0, <2>1 DEF EventsOK
  <2>4. ClosedHearsNothing'  BY <1>0, <2>1, <2>2 DEF ClosedHearsNothing
  <2>5. NewestIsCurrent'
    BY <1>0, <2>1, <2>2 DEF NewestIsCurrent, NoOldEvents
  <2>6. NoOldEvents'  BY <1>0, <2>1, <2>2 DEF NoOldEvents
  <2> QED  BY <2>3, <2>4, <2>5, <2>6 DEF EventsInv
<1>4. ASSUME NEW c \in Client, NEW ch \in Characteristic, Unsubscribe(c, ch)
      PROVE  EventsInv'
  <2>1. /\ served' = served \union {c} /\ session' = session
        /\ callback' = [callback EXCEPT ![ch] = @ \ {c}]
        /\ view' = [view EXCEPT ![c][ch] = Unknown]
        /\ value' = value /\ queue' = queue
    BY <1>4 DEF Unsubscribe, Request
  <2>2. \A d \in Client, k \in Characteristic :
          d \in callback'[k] <=> d \in callback[k] /\ ~(d = c /\ k = ch)
    BY <1>0, <2>1 DEF EventsOK
  <2>3. \A d \in Client, k \in Characteristic :
          ~(d = c /\ k = ch) => view'[d][k] = view[d][k]
    BY <1>0, <2>1 DEF EventsOK
  <2>4. EventsOK'  BY <1>0, <2>1 DEF EventsOK
  <2>5. ClosedHearsNothing'  BY <1>0, <2>1, <2>2 DEF ClosedHearsNothing
  <2>6. NewestIsCurrent'  BY <1>0, <2>1, <2>2, <2>3 DEF NewestIsCurrent
  <2>7. NoOldEvents'  BY <1>0, <2>1, <2>2 DEF NoOldEvents
  <2> QED  BY <2>4, <2>5, <2>6, <2>7 DEF EventsInv
<1>5. ASSUME NEW c \in Client, NEW ch \in Characteristic, GetCharacteristic(c, ch)
      PROVE  EventsInv'
  <2>1. /\ served' = served \union {c} /\ session' = session
        /\ view' = IF c \in callback[ch]
                   THEN [view EXCEPT ![c][ch] = value[ch]] ELSE view
        /\ value' = value /\ callback' = callback /\ queue' = queue
    BY <1>5 DEF GetCharacteristic, Request, Tell
  <2>2. \A d \in Client, k \in Characteristic :
          view'[d][k] = view[d][k] \/ view'[d][k] = value[k]
    BY <1>0, <2>1 DEF EventsOK
  <2>3. EventsOK'  BY <1>0, <2>1 DEF EventsOK
  <2>4. ClosedHearsNothing'  BY <1>0, <2>1 DEF ClosedHearsNothing
  <2>5. NewestIsCurrent'  BY <1>0, <2>1, <2>2 DEF NewestIsCurrent
  <2>6. NoOldEvents'  BY <1>0, <2>1 DEF NoOldEvents
  <2> QED  BY <2>3, <2>4, <2>5, <2>6 DEF EventsInv
<1>6. CASE homekit_server_process_notifications
  <2>1. /\ queue' = [c \in Client |-> <<>>] /\ served' = {}
        /\ value' = value /\ session' = session /\ callback' = callback
    BY <1>6 DEF homekit_server_process_notifications
  <2>2. DOMAIN view' = Client /\ \A c \in Client : DOMAIN view'[c] = Characteristic
    BY <1>6 DEF homekit_server_process_notifications
  <2>3. \A c \in Client : \A k : Events(queue'[c], k) = {}  BY <2>1 DEF Events
  <2>4. EventsOK'
    <3>1. \A c \in Client : Len(queue'[c]) <= QueueSize
      BY <2>1, QueueSizeAssumption
    <3> QED  BY <1>0, <2>1, <2>2, <3>1 DEF EventsOK
  <2>5. ClosedHearsNothing'  BY <1>0, <2>1 DEF ClosedHearsNothing
  <2>6. NewestIsCurrent'  BY <2>3 DEF NewestIsCurrent
  <2>7. NoOldEvents'  BY <2>3 DEF NoOldEvents
  <2> QED  BY <2>4, <2>5, <2>6, <2>7 DEF EventsInv
<1>7. ASSUME NEW c \in Client, Verified(c)
      PROVE  EventsInv'
  <2>1. /\ session[c] = "closed" /\ session' = [session EXCEPT ![c] = "open"]
        /\ UNCHANGED <<value, callback, queue, served, view>>
    BY <1>7 DEF Verified
  <2>2. session'[c] = "open" /\ \A d \in Client : d # c => session'[d] = session[d]
    BY <1>0, <2>1 DEF EventsOK
  <2>3. EventsOK'  BY <1>0, <2>1 DEF EventsOK
  <2>4. ClosedHearsNothing'  BY <1>0, <2>1, <2>2 DEF ClosedHearsNothing
  <2>5. NewestIsCurrent'
    BY <1>0, <2>1, <2>2 DEF NewestIsCurrent, ClosedHearsNothing
  <2>6. NoOldEvents'  BY <1>0, <2>1 DEF NoOldEvents
  <2> QED  BY <2>3, <2>4, <2>5, <2>6 DEF EventsInv
<1>8. ASSUME NEW c \in Client, MarkDisconnect(c)
      PROVE  EventsInv'
  <2>1. /\ session' = [session EXCEPT ![c] = "marked"]
        /\ view' = [view EXCEPT ![c] = NotOpen]
        /\ UNCHANGED <<value, callback, queue, served>>
    BY <1>8 DEF MarkDisconnect
  <2>2. /\ session'[c] = "marked"
        /\ \A d \in Client : d # c => session'[d] = session[d] /\ view'[d] = view[d]
    BY <1>0, <2>1 DEF EventsOK
  <2>3. EventsOK'  BY <1>0, <2>1 DEF EventsOK, NotOpen
  <2>4. ClosedHearsNothing'  BY <1>0, <2>1, <2>2 DEF ClosedHearsNothing
  <2>5. NewestIsCurrent'  BY <1>0, <2>1, <2>2 DEF NewestIsCurrent
  <2>6. NoOldEvents'  BY <1>0, <2>1 DEF NoOldEvents
  <2> QED  BY <2>3, <2>4, <2>5, <2>6 DEF EventsInv
<1>9. ASSUME NEW c \in Client, homekit_server_close_client(c)
      PROVE  EventsInv'
  <2>1. /\ session' = [session EXCEPT ![c] = "closed"]
        /\ callback' = [ch \in Characteristic |-> callback[ch] \ {c}]
        /\ queue' = [queue EXCEPT ![c] = <<>>]
        /\ UNCHANGED <<value, served, view>>
    BY <1>9 DEF homekit_server_close_client
  <2>2. /\ session'[c] = "closed" /\ queue'[c] = <<>>
        /\ \A d \in Client : d # c => session'[d] = session[d] /\ queue'[d] = queue[d]
    BY <1>0, <2>1 DEF EventsOK
  <2>3. \A d \in Client, k \in Characteristic :
          d \in callback'[k] <=> d # c /\ d \in callback[k]
    BY <2>1
  <2>4. \A k : Events(queue'[c], k) = {}  BY <2>2 DEF Events
  <2>5. EventsOK'
    <3>1. \A d \in Client : Len(queue'[d]) <= QueueSize
      BY <1>0, <2>2, QueueSizeAssumption DEF EventsOK
    <3> QED  BY <1>0, <2>1, <3>1 DEF EventsOK
  <2>6. ClosedHearsNothing'  BY <1>0, <2>2, <2>3 DEF ClosedHearsNothing
  <2>7. NewestIsCurrent'  BY <1>0, <2>1, <2>2, <2>3 DEF NewestIsCurrent
  <2>8. NoOldEvents'  BY <1>0, <2>1, <2>2, <2>3, <2>4 DEF NoOldEvents
  <2> QED  BY <2>5, <2>6, <2>7, <2>8 DEF EventsInv
<1>10. CASE UNCHANGED eventVars
  BY <1>0, <1>10 DEF eventVars, EventsInv, EventsOK, ClosedHearsNothing,
     NewestIsCurrent, NoOldEvents
<1> QED
  BY <1>1, <1>2, <1>3, <1>4, <1>5, <1>6, <1>7, <1>8, <1>9, <1>10, Zenon DEF EventsNext

(* A context whose client is gone keeps neither a subscription nor an      *)
(* event, so the client that is verified in it later begins afresh.        *)
THEOREM ClosedIsSilent == EventsSpec => []ClosedHearsNothing
<1>1. EventsInv => ClosedHearsNothing  BY DEF EventsInv
<1> QED  BY EventsStart, EventsStep, <1>1, PTL DEF EventsSpec

(* A subscribed controller that has events of a characteristic pending     *)
(* has the current value as the newest of them, or knows it already,       *)
(* however often the bounded queue overflowed.                             *)
THEOREM PendingIsCurrent == EventsSpec => []NewestIsCurrent
<1>1. EventsInv => NewestIsCurrent  BY DEF EventsInv
<1> QED  BY EventsStart, EventsStep, <1>1, PTL DEF EventsSpec
==============================================================================
