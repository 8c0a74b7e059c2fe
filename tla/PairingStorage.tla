--------------------------- MODULE PairingStorage ---------------------------
(***************************************************************************)
(* The pairing storage over power cycles: the image in RAM (ex_storage),   *)
(* the SPIFFS file that hap_storage_changed rewrites on every change, the  *)
(* identity and the paired flag the server keeps, and the requests that    *)
(* change them.  Each request runs to completion (one server task or loop  *)
(* executes all of them) unless power is lost inside it.                   *)
(*                                                                         *)
(* Abstracted: the messages around the storage calls.  M1 to M4 of a pair  *)
(* setup only decide that M5 may be reached, which the paired flag guards; *)
(* a controller that ran pair verify is one admin session of `granted'     *)
(* when its pairing had the admin bit (others are refused by on_pairings). *)
(* A controller always presents the public key it was stored with.         *)
(***************************************************************************)
EXTENDS PairingTable

CONSTANTS
  Regenerates,      \* server.c replaces an identity it cannot load,
                    \* arduino_homekit_server.cpp keeps what it loaded
  BlankKeyImports,  \* wolfSSL accepts 64 bytes of 0xff as a key pair
  TornWrites        \* power may be lost inside the rewrite of the file

ASSUME FlagAssumption ==
  {Regenerates, BlankKeyImports, TornWrites} \subseteq BOOLEAN

VARIABLES
  ram,      \* ex_storage
  file,     \* the pairing file; no file reads like NoData
  up,       \* the server has been started
  server,   \* accessory_id and accessory_key of the server
  paired,   \* server->paired
  granted,  \* live sessions with admin permissions: device and pairing_id
  made,     \* the accessory identity generated last, 0 before the first
  ret       \* the last request and its result

vars == <<ram, file, up, server, paired, granted, made, ret>>

NoIdentity == [id |-> 0, key |-> 0]
Requests == {"boot", "setup", "add", "remove", "reset"}
Codes == {-2, -1, 0, Died}
Lost == 2        \* power was lost inside the request
Torn == 5        \* and the file was being rewritten
MaxPeers == 3    \* refused with TLVError_MaxPeers
Existing == 4    \* homekit_server_init kept the stored identity
NoDevice == "none"

Ret(call, d, p, code) == [call |-> call, dev |-> d, perm |-> p, code |-> code]

------------------------------------------------------------------------------
(* on_storage_change, then hap_storage_changed: after each change the file *)
(* is removed and written anew, so it follows the image.                   *)
Persist(o) ==
  /\ o.code # Died
  /\ ram' = After(ram, o.images)
  /\ file' = After(file, o.images)

(* What the file may hold when power is lost inside a request: any image   *)
(* already written, or no file, or the first slots of the one being        *)
(* written.                                                                *)
TornImages(m) ==
  {NoData} \union
  {[m EXCEPT !.slot = [i \in Slots |-> IF i < n THEN m.slot[i] ELSE Blank]] : n \in Slots}
Remains(images) ==
  [whole |-> {file} \union ToSet(images),
   torn |-> IF TornWrites THEN UNION {TornImages(m) : m \in ToSet(images)} ELSE {}]

LosePower(images, call, d, p) ==
  \/ file' \in Remains(images).whole /\ ret' = Ret(call, d, p, Lost)
  \/ file' \in Remains(images).torn /\ ret' = Ret(call, d, p, Torn)

Off ==
  /\ up' = FALSE
  /\ ram' = NoData
  /\ paired' = FALSE
  /\ granted' = {}

------------------------------------------------------------------------------
KeyLoads(m) == m.key # 0 \/ BlankKeyImports
MustGenerateAfterFormat(m) == ~m.magic    \* mutant
MustGenerate(m) == ~m.magic \/ (Regenerates /\ (m.id = 0 \/ ~KeyLoads(m)))

(* A generated identity differs from the one before (MaxIdentity bounds    *)
(* how many there are).                                                    *)
Fresh == (made % MaxIdentity) + 1

(* Start: init_hap_storage reads the file, homekit_storage_init formats    *)
(* what has no magic, then the identity is loaded or generated.            *)
BootImages ==
  LET base == After(file, InitImages(file))
  IN  InitImages(file) \o
      IF MustGenerate(file)
      THEN << [base EXCEPT !.id = Fresh], [base EXCEPT !.id = Fresh, !.key = Fresh] >>
      ELSE <<>>

(* Without an id the server dereferences NULL when it announces itself     *)
(* (homekit_mdns_init) and never comes up.                                 *)
homekit_server_init ==
  /\ ~up
  /\ made' = IF MustGenerate(file) THEN Fresh ELSE made
  /\ LET m == After(file, BootImages)
     IN  /\ file' = m
         /\ server' = [id |-> m.id, key |-> m.key]
         /\ up' = (m.id # 0)
         /\ ram' = IF m.id # 0 THEN m ELSE NoData
         /\ paired' = (m.id # 0 /\ HasAdmin(m))
  /\ ret' = Ret("boot", NoDevice, Admin, IF MustGenerate(file) THEN 0 ELSE Existing)
  /\ UNCHANGED granted

------------------------------------------------------------------------------
(* Requests.                                                               *)

(* M5 of a pair setup.  A failure after the record was stored (late) sends *)
(* an error and leaves the paired flag alone.                              *)
PairSetup(d) ==
  /\ up /\ ~paired
  /\ \E o \in AddPairing(ram, d, Admin), late \in BOOLEAN :
       /\ Persist(o)
       /\ paired' = (o.code = 0 /\ ~late)
       /\ ret' = Ret("setup", d, Admin,
                     IF o.code = 0 /\ late THEN -1 ELSE o.code)
  /\ UNCHANGED <<up, server, granted, made>>

(* Mutant: the session does not take over pairing->id.                     *)
PairVerifyWithoutId(d) ==
  /\ up
  /\ HasPairing(ram, d)
  /\ ram.slot[FindPairing(ram, d)].perm = Admin
  /\ granted' = {s \in granted : s.dev # d} \union {[dev |-> d, slot |-> -1]}
  /\ UNCHANGED <<ram, file, up, server, paired, made, ret>>

(* Pair verify of a controller whose stored pairing has the admin bit.     *)
PairVerify(d) ==
  /\ up
  /\ HasPairing(ram, d)
  /\ LET i == FindPairing(ram, d)
     IN  /\ ram.slot[i].perm = Admin
         /\ granted' = {s \in granted : s.dev # d} \union {[dev |-> d, slot |-> i]}
  /\ UNCHANGED <<ram, file, up, server, paired, made, ret>>

SessionEnds(d) ==
  /\ \E s \in granted : s.dev = d
  /\ granted' = {s \in granted : s.dev # d}
  /\ UNCHANGED <<ram, file, up, server, paired, made, ret>>

(* TLVMethod_AddPairing: a known device gets the new permissions, a new    *)
(* one is added when the table has room.                                   *)
AddOutcomes(d, p) ==
  IF HasPairing(ram, d) THEN UpdatePairing(ram, d, p)
  ELSE IF CanAddPairing(ram) THEN AddPairing(ram, d, p)
  ELSE {Outcome(<<>>, MaxPeers)}

AddController(d, p) ==
  /\ up /\ granted # {}
  /\ \E o \in AddOutcomes(d, p) : Persist(o) /\ ret' = Ret("add", d, p, o.code)
  /\ UNCHANGED <<up, server, paired, granted, made>>

(* TLVMethod_RemovePairing: sessions verified with the slot of the removed *)
(* record are marked to disconnect; removing an admin enables pair setup   *)
(* when no other admin is left.                                            *)
RemoveController(d) ==
  /\ up /\ granted # {}
  /\ IF HasPairing(ram, d)
     THEN LET i == FindPairing(ram, d)
          IN  /\ granted' = {s \in granted : s.slot # i}
              /\ \E o \in RemovePairing(ram, d) :
                   /\ Persist(o)
                   /\ ret' = Ret("remove", d, Admin, o.code)
                   /\ paired' = IF ram.slot[i].perm = Admin
                                   /\ ~HasAdmin(After(ram, o.images))
                                THEN FALSE ELSE paired
     ELSE /\ ret' = Ret("remove", d, Admin, 0)
          /\ UNCHANGED <<ram, file, granted, paired>>
  /\ UNCHANGED <<up, server, made>>

homekit_server_reset ==
  /\ up
  /\ \E o \in ResetStorage(ram) : Persist(o)
  /\ ret' = Ret("reset", NoDevice, Admin, 0)
  /\ UNCHANGED <<up, server, paired, granted, made>>

------------------------------------------------------------------------------
(* Power is lost, or the CPU faults, inside a request or between two.      *)
Interrupted(call, d, p, outcomes) ==
  /\ up
  /\ \E o \in outcomes : LosePower(o.images, call, d, p)
  /\ Off
  /\ UNCHANGED <<server, made>>

PowerLoss ==
  \/ \E d \in Device :
       \/ ~paired /\ Interrupted("setup", d, Admin, AddPairing(ram, d, Admin))
       \/ granted # {} /\ Interrupted("remove", d, Admin, RemovePairing(ram, d))
       \/ \E p \in Perm : granted # {} /\ Interrupted("add", d, p, AddOutcomes(d, p))
  \/ Interrupted("reset", NoDevice, Admin, ResetStorage(ram))

PowerLossInBoot ==
  /\ ~up
  /\ made' = IF MustGenerate(file) THEN Fresh ELSE made
  /\ LosePower(BootImages, "boot", NoDevice, Admin)
  /\ Off
  /\ UNCHANGED server

------------------------------------------------------------------------------
Init ==
  /\ ram = NoData /\ file = NoData
  /\ up = FALSE /\ paired = FALSE
  /\ server = NoIdentity
  /\ granted = {}
  /\ made = 0
  /\ ret = Ret("boot", NoDevice, Admin, Lost)

Next ==
  \/ homekit_server_init \/ homekit_server_reset
  \/ PowerLoss \/ PowerLossInBoot
  \/ \E d \in Device : PairSetup(d) \/ PairVerify(d) \/ SessionEnds(d) \/ RemoveController(d)
  \/ \E d \in Device, p \in Perm : AddController(d, p)

Spec == Init /\ [][Next]_vars

------------------------------------------------------------------------------
(* Every image the requests produce is a storage image, a session names a  *)
(* slot, and a server that is down holds nothing.                          *)
TypeOK ==
  /\ ram \in Image
  /\ file \in Image
  /\ up \in BOOLEAN
  /\ server \in [id : Identity, key : Identity]
  /\ paired \in BOOLEAN
  /\ granted \subseteq [dev : Device, slot : Slots]
  /\ made \in Identity
  /\ ret \in [call : Requests, dev : Device \union {NoDevice}, perm : Perm,
              code : Codes \union {Lost, Torn, MaxPeers, Existing}]
  /\ ~up => ram = NoData /\ ~paired /\ granted = {}

RecordsOf(m, d) == {m.slot[i] : i \in SlotsOf(m, d)}
SameIdentity(x, y) == x.id = y.id /\ x.key = y.key

(* While there is a blank slot no request, and no power loss outside the   *)
(* rewrite of the file, touches the pairing of a controller it is not      *)
(* about.                                                                  *)
OneDeviceChanges ==
  [][up /\ ret'.code # Torn /\ BlankSlots(ram) # {} =>
       \A d \in Device :
         RecordsOf(file', d) # RecordsOf(file, d) => ret'.dev = d]_vars

(* A controller never keeps a pairing with an accessory whose stored       *)
(* identity was replaced: id and key it was paired with would be gone.     *)
IdentityKeepsPairings ==
  [][<<file.id, file.key>>' # <<file.id, file.key>> => RecordSlots(file') = {}]_vars

(* Wherever power was lost before, in a first start between the saves of   *)
(* id and key too, a start that runs to its end comes up; a server that is *)
(* up has an id and a key that loads, which are those the next start       *)
(* finds; and a pairing in the file, through any power loss, was made with *)
(* the identity announced last.                                            *)
AnnouncedIsStored ==
  /\ ret.call = "boot" /\ ret.code \in {0, Existing} => up
  /\ up => server.id # 0 /\ KeyLoads(server)
  /\ up \/ RecordSlots(file) # {} => SameIdentity(server, file)

(* A request that reports success has the effect it reports, for the next  *)
(* pair verify and in the file, as long as its controller has one record   *)
(* and there is a blank slot: a removed one is gone, an added one has the  *)
(* permissions asked for, one that ran pair setup is an admin.             *)
SuccessIsEffective ==
  [][LET d == ret'.dev
     IN  /\ up /\ ram' # ram /\ ret'.code = 0
         /\ ret'.call \in {"setup", "add", "remove"}
         /\ BlankSlots(ram) # {}
         /\ Cardinality(SlotsOf(ram, d)) <= (IF ret'.call = "setup" THEN 0 ELSE 1)
         => \A m \in {ram', file'} :
              IF ret'.call = "remove" THEN ~HasPairing(m, d)
              ELSE /\ HasPairing(m, d)
                   /\ m.slot[FindPairing(m, d)].perm = ret'.perm]_vars

(* The update adds the new record before it erases the old one, so that a  *)
(* power loss between two rewrites of the file never unpairs a controller  *)
(* other than one being removed.                                           *)
LossKeepsPairings ==
  [][up /\ ~up' /\ ret'.code # Torn /\ BlankSlots(ram) # {} =>
       \A d \in Device :
         HasPairing(file, d) /\ ~(ret'.call = "remove" /\ ret'.dev = d)
           => HasPairing(file', d)]_vars

------------------------------------------------------------------------------
(* What comments and log messages claim and the code does not keep.        *)

(* "Using existing accessory ID: %s": an identity that is said to be kept  *)
(* is there.                                                               *)
ExistingIdentity ==
  ret.call = "boot" /\ ret.code = Existing => server.id # 0

(* "We are full, no compaction possible" is the only case in which the     *)
(* compaction gives up; otherwise it keeps the pairings of the others.     *)
CompactionKeepsOthers ==
  [][up /\ up' => \A d \in Device :
       HasPairing(ram, d) /\ ret'.dev # d => HasPairing(ram', d)]_vars

(* "Removed pairing with %s".                                              *)
RemovedIsGone ==
  ret.call = "remove" /\ ret.code = 0 => ~HasPairing(ram, ret.dev)
==============================================================================
