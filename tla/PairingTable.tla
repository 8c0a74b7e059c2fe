---------------------------- MODULE PairingTable ----------------------------
(***************************************************************************)
(* storage.c as functions on storage images: what each call makes of the   *)
(* buffer ex_storage.                                                      *)
(*                                                                         *)
(* An image is the 128-byte header (is the magic there? which accessory id *)
(* and key generation does it hold?) and max_pairing slots.  A slot is     *)
(* Blank (all 0xff, never written since the last format), Erased (zeroed   *)
(* by a removal) or a pairing record.  A call is described by an outcome:  *)
(* the images it hands to on_storage_change, in order, and what it         *)
(* returns.                                                                *)
(*                                                                         *)
(* Abstracted: the public key of a record (one per device, it always       *)
(* imports), failures of the key export, of malloc and of the SPI flash    *)
(* calls (not compiled in: EX_STORAGE_CHAR is defined on both platforms).  *)
(***************************************************************************)
EXTENDS Integers, Sequences, FiniteSetsExt, SequencesExt

CONSTANTS
  Device,      \* controllers, named by their device id
  Perm,        \* permission bytes, among them Admin
  Admin,       \* the value with the pairing_permissions_admin bit
  MaxPairing,  \* max_pairing
  MaxIdentity, \* bound: number of different accessory identities
  Blank,       \* a slot of 0xff bytes
  Erased       \* a slot of zero bytes

ASSUME MaxPairingAssumption == MaxPairing \in Nat \ {0}
ASSUME PermAssumption == Admin \in Perm
ASSUME MaxIdentityAssumption == MaxIdentity \in Nat \ {0, 1}
ASSUME SlotAssumption == /\ Blank # Erased
                         /\ Blank \notin [dev : Device, perm : Perm]
                         /\ Erased \notin [dev : Device, perm : Perm]

Slots == 0..(MaxPairing - 1)
Record == [dev : Device, perm : Perm]
Identity == 0..MaxIdentity      \* 0: bytes that were never saved

Image == [magic : BOOLEAN, id : Identity, key : Identity,
          slot : [Slots -> Record \union {Blank, Erased}]]

(* What memset(ex_storage, 0xff) leaves; also what init_hap_storage hands  *)
(* to init_storage_ex when there is no file.                               *)
NoData == [magic |-> FALSE, id |-> 0, key |-> 0, slot |-> [i \in Slots |-> Blank]]
Formatted == [NoData EXCEPT !.magic = TRUE]

------------------------------------------------------------------------------
(* Looking at an image.                                                    *)

IsRecord(m, i) == m.slot[i] \in Record
RecordSlots(m) == {i \in Slots : IsRecord(m, i)}
SlotsOf(m, d) == {i \in RecordSlots(m) : m.slot[i].dev = d}
BlankSlots(m) == {i \in Slots : m.slot[i] = Blank}

HasPairing(m, d) == SlotsOf(m, d) # {}
HasAdmin(m) == \E i \in RecordSlots(m) : m.slot[i].perm = Admin

(* homekit_storage_find_pairing: the first match; pairing->id is its slot. *)
FindPairing(m, d) == Min(SlotsOf(m, d))

(* homekit_storage_can_add_pairing: some slot lacks the magic.             *)
CanAddPairing(m) == RecordSlots(m) # Slots

Put(m, i, content) == [m EXCEPT !.slot[i] = content]

------------------------------------------------------------------------------
(* Outcomes.  A call that writes nothing hands over no image.              *)

Outcome(images, code) == [images |-> images, code |-> code]
After(m, images) == IF images = <<>> THEN m ELSE Last(images)
Died == 1         \* the CPU faulted inside the call; the code's own results are <= 0

(* homekit_storage_reset copies four uninitialized bytes over the magic.   *)
(* Those bytes are whatever the stack held, the magic itself included      *)
(* (homekit_storage_init keeps a copy of it in a local of the same size).  *)
ResetImages(m) == {[m EXCEPT !.magic = FALSE], m}

(* Mutant: writes the magic but keeps what follows it.                     *)
InitKeepsData(m) == IF m.magic THEN <<>> ELSE <<[m EXCEPT !.magic = TRUE]>>

(* homekit_storage_init formats an image without the magic.                *)
InitImages(m) == IF m.magic THEN <<>> ELSE <<Formatted>>

(* compact_data.  Records that should move down are copied to              *)
(* data[PAIRINGS_ADDR + ...] instead of data[PAIRINGS_OFFSET + ...], two   *)
(* megabytes past the buffer: the CPU faults, or the write is lost and the *)
(* record stays where it was.  Then reset, init, and only the first n      *)
(* slots are written back, n being the number of records.                  *)
NeedsMove(m) ==
  LET n == Cardinality(RecordSlots(m)) IN RecordSlots(m) # 0..(n - 1)

Rewritten(m, base) ==
  LET n == Cardinality(RecordSlots(m))
  IN  [m EXCEPT !.slot = [i \in Slots |-> IF i < n THEN m.slot[i] ELSE base.slot[i]]]

CompactData(m) ==
  IF ~CanAddPairing(m)
  THEN {Outcome(<<>>, 0)}
  ELSE {LET cleared == <<r>> \o InitImages(r)
        IN  Outcome(Append(cleared, Rewritten(m, Last(cleared))), 0)
          : r \in ResetImages(m)}
       \union IF NeedsMove(m) THEN {Outcome(<<>>, Died)} ELSE {}

(* homekit_storage_add_pairing: into the first blank slot, compacting only *)
(* when there is none.                                                     *)
AddPairing(m, d, p) ==
  LET prepared == IF BlankSlots(m) # {} THEN {Outcome(<<>>, 0)} ELSE CompactData(m)
      Store(o) ==
        LET n == After(m, o.images)
        IN  IF o.code = Died THEN o
            ELSE IF BlankSlots(n) = {} THEN [o EXCEPT !.code = -2]
            ELSE Outcome(Append(o.images,
                           Put(n, Min(BlankSlots(n)), [dev |-> d, perm |-> p])), 0)
  IN  {Store(o) : o \in prepared}

(* Mutant: erases the old record before it adds the new one.               *)
UpdateErasesFirst(m, d, p) ==
  IF ~HasPairing(m, d)
  THEN {Outcome(<<>>, -1)}
  ELSE LET erased == Put(m, FindPairing(m, d), Erased)
       IN  {[o EXCEPT !.images = <<erased>> \o @] : o \in AddPairing(erased, d, p)}

(* Mutant: the old record stays.                                           *)
UpdateKeepsOld(m, d, p) ==
  IF ~HasPairing(m, d) THEN {Outcome(<<>>, -1)} ELSE AddPairing(m, d, p)

(* homekit_storage_update_pairing: the new record is added first, then the *)
(* slot in which the old one was FOUND is zeroed (compaction may have put  *)
(* something else there meanwhile).                                        *)
UpdatePairing(m, d, p) ==
  IF ~HasPairing(m, d)
  THEN {Outcome(<<>>, -1)}
  ELSE LET i == FindPairing(m, d)
           Finish(o) == IF o.code = 0
                        THEN Outcome(Append(o.images,
                                       Put(Last(o.images), i, Erased)), 0)
                        ELSE IF o.code = Died THEN o ELSE [o EXCEPT !.code = -2]
       IN  {Finish(o) : o \in AddPairing(m, d, p)}

(* Mutant: compares the magic but not the device id.                       *)
RemoveFirstRecord(m, d) ==
  IF ~HasPairing(m, d)
  THEN {Outcome(<<>>, 0)}
  ELSE {Outcome(<<Put(m, Min(RecordSlots(m)), Erased)>>, 0)}

(* homekit_storage_remove_pairing: the first match is zeroed; 0 also when  *)
(* there is none.                                                          *)
RemovePairing(m, d) ==
  IF ~HasPairing(m, d)
  THEN {Outcome(<<>>, 0)}
  ELSE {Outcome(<<Put(m, FindPairing(m, d), Erased)>>, 0)}

(* homekit_server_reset.                                                   *)
ResetStorage(m) == {Outcome(<<r>>, 0) : r \in ResetImages(m)}
==============================================================================
