-------------------------- MODULE ScratchAllocator --------------------------
(***************************************************************************)
(* The allocator of tlv.c, and its twin in cJSON_memory.c: a handler lends *)
(* a buffer on its stack, from which blocks are cut until it is used up;   *)
(* the rest comes from the heap.  Blocks given back are not used again;    *)
(* when the first one is given back, the buffer is gone.                   *)
(*                                                                         *)
(* Handlers are those that lend the buffer: pair verify, and the update of *)
(* characteristics for JSON.  Blocks of the heap leave no trace here.      *)
(***************************************************************************)
EXTENDS Integers

CONSTANTS Room,      \* size of the buffer a handler lends
          Word,      \* sizeof(void*)
          Needs      \* sizes that are asked for, the first of a handler included

ASSUME ScratchAssumption ==
  /\ {Room, Word} \subseteq Nat \ {0} /\ Needs \subseteq Nat \ {0}
  /\ \E n \in Needs : n + Word < Room

VARIABLES lent,     \* tlv_allocator.buffer is set
          offset,   \* tlv_allocator.offset
          live,     \* blocks of the buffer in use: where they begin and end
          handling  \* a handler that lent its buffer is running

scratchVars == <<lent, offset, live, handling>>

Block == [from : 0..Room, to : 0..Room]

(* align_tlv_memory_size().                                                *)
Aligned(n) == IF n % Word = 0 THEN n ELSE n + Word - (n % Word)

Fits(n) == lent /\ Aligned(n) + offset < Room

(* tlv_malloc() with room in the buffer.                                   *)
tlv_malloc(n) ==
  /\ handling /\ Fits(n)
  /\ live' = live \union {[from |-> offset, to |-> offset + Aligned(n)]}
  /\ offset' = offset + Aligned(n)
  /\ UNCHANGED <<lent, handling>>

(* The handler lends its buffer, tlv_new() makes the message the root.     *)
set_tlv_allocator_buffer(n) ==
  /\ ~handling /\ handling' = TRUE
  /\ Aligned(n) < Room
  /\ lent' = TRUE /\ offset' = Aligned(n)
  /\ live' = live \union {[from |-> 0, to |-> Aligned(n)]}

(* Mutant: any block may be the last.                                      *)
ResetAtAny(b) == lent' = FALSE /\ offset' = 0
ResetAtRoot(b) ==
  IF b.from = 0 THEN lent' = FALSE /\ offset' = 0 ELSE UNCHANGED <<lent, offset>>

(* tlv_free_malloc(); handlers free the message last.                      *)
tlv_free_malloc(b) ==
  /\ b \in live /\ handling
  /\ b.from = 0 => live = {b}
  /\ live' = live \ {b}
  /\ ResetAtRoot(b)
  /\ handling' = (b.from # 0)

ScratchInit == lent = FALSE /\ offset = 0 /\ live = {} /\ handling = FALSE

ScratchNext ==
  \/ \E n \in Needs : set_tlv_allocator_buffer(n) \/ tlv_malloc(n)
  \/ \E b \in live : tlv_free_malloc(b)

ScratchSpec == ScratchInit /\ [][ScratchNext]_scratchVars

(* A block belongs to one owner, lies inside the buffer, and the allocator *)
(* knows it as its own until it is given back; nothing in use outlives the *)
(* handler, whose stack holds it.                                          *)
BlocksAreSafe ==
  /\ live # {} => handling /\ lent
  /\ \A b \in live : b.from < b.to /\ b.to <= offset /\ b.to < Room
  /\ \A b, k \in live : b # k => b.to <= k.from \/ k.to <= b.from
=============================================================================
