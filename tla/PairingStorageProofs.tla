------------------------ MODULE PairingStorageProofs ------------------------
(***************************************************************************)
(* Theorems about the pairing storage over power cycles, for every table   *)
(* size, every set of controllers and every choice of the constants that   *)
(* tell the two platforms apart.                                           *)
(***************************************************************************)
EXTENDS PairingStorage, PairingTableProofs

Answer == [call : Requests, dev : Device \union {NoDevice}, perm : Perm,
           code : Codes \union {Lost, Torn, MaxPeers, Existing}]

------------------------------------------------------------------------------
LEMMA Answers ==
  ASSUME NEW call \in Requests, NEW d \in Device \union {NoDevice}, NEW p \in Perm,
         NEW code \in Codes \union {Lost, Torn, MaxPeers, Existing}
  PROVE  Ret(call, d, p, code) \in Answer
BY Zenon DEF Ret, Answer

LEMMA RetParts ==
  \A call, d, p, code :
    /\ Ret(call, d, p, code).call = call /\ Ret(call, d, p, code).dev = d
    /\ Ret(call, d, p, code).perm = p /\ Ret(call, d, p, code).code = code
BY DEF Ret

LEMMA TornIsImage ==
  ASSUME NEW m \in Image, NEW x \in TornImages(m)
  PROVE  x \in Image
<1>1. CASE x = NoData  BY <1>1, EmptyImages
<1>2. ASSUME NEW n \in Slots,
             x = [m EXCEPT !.slot = [i \in Slots |-> IF i < n THEN m.slot[i] ELSE Blank]]
      PROVE  x \in Image
  <2> DEFINE s == [i \in Slots |-> IF i < n THEN m.slot[i] ELSE Blank]
  <2>1. m.slot \in [Slots -> Content] /\ Blank \in Content  BY DEF Image, Content
  <2>2. s \in [Slots -> Content]  BY <2>1
  <2>3. x = [m EXCEPT !.slot = s]  BY <1>2
  <2> HIDE DEF s
  <2> QED  BY <2>2, <2>3 DEF Image, Content
<1> QED  BY <1>1, <1>2 DEF TornImages

LEMMA Members ==
  ASSUME NEW T, NEW l \in Seq(T)
  PROVE  ToSet(l) \subseteq T
BY DEF ToSet

(* What is left of the file when power is lost inside a request.           *)
LEMMA LossLeaves ==
  ASSUME file \in Image, NEW images \in Seq(Image), NEW call \in Requests,
         NEW d \in Device \union {NoDevice}, NEW p \in Perm,
         LosePower(images, call, d, p)
  PROVE  /\ file' \in Image /\ ret' \in Answer
         /\ ret'.call = call /\ ret'.dev = d /\ ret'.code \in {Lost, Torn}
         /\ \/ ret'.code = Lost /\ file' \in {file} \union ToSet(images)
            \/ ret'.code = Torn /\ \E m \in ToSet(images) : file' \in TornImages(m)
<1>1. CASE file' \in Remains(images).whole /\ ret' = Ret(call, d, p, Lost)
  <2>1. file' \in {file} \union ToSet(images)  BY <1>1 DEF Remains
  <2>2. file' \in Image  BY <2>1, Members
  <2> QED  BY <1>1, <2>1, <2>2, RetParts, Answers
<1>2. CASE file' \in Remains(images).torn /\ ret' = Ret(call, d, p, Torn)
  <2>1. PICK m \in ToSet(images) : file' \in TornImages(m)  BY <1>2 DEF Remains
  <2>2. file' \in Image  BY <2>1, Members, TornIsImage
  <2> QED  BY <1>2, <2>1, <2>2, RetParts, Answers
<1> QED  BY <1>1, <1>2 DEF LosePower

(* Requests hand over images and end with a code of their own.             *)
LEMMA AddOrUpdate ==
  ASSUME ram \in Image, NEW d \in Device, NEW p \in Perm, NEW o \in AddOutcomes(d, p)
  PROVE  o.images \in Seq(Image) /\ o.code \in Codes \union {MaxPeers}
<1> USE DEF Codes, Died, MaxPeers
<1>1. CASE o \in UpdatePairing(ram, d, p)  BY <1>1, UpdateOutcomesOK
<1>2. CASE o \in AddPairing(ram, d, p)  BY <1>2, AddOutcomesOK
<1>3. CASE o = Outcome(<<>>, MaxPeers)
  <2>1. o.images = <<>> /\ o.code = MaxPeers  BY <1>3, OutcomeParts
  <2> QED  BY <2>1, EmptyList
<1> QED  BY <1>1, <1>2, <1>3 DEF AddOutcomes

LEMMA RemoveOutcomesOK ==
  ASSUME NEW m \in Image, NEW d \in Device, NEW o \in RemovePairing(m, d)
  PROVE  o.images \in Seq(Image) /\ o.code = 0
<1>1. CASE ~HasPairing(m, d)
  <2>1. o = Outcome(<<>>, 0)  BY <1>1 DEF RemovePairing
  <2> QED  BY <2>1, OutcomeParts, EmptyList
<1>2. CASE HasPairing(m, d)
  <2> DEFINE x == Put(m, FindPairing(m, d), Erased)
  <2>1. o = Outcome(<<x>>, 0)  BY <1>2 DEF RemovePairing
  <2>2. x \in Image
    <3>1. FindPairing(m, d) \in Slots /\ Erased \in Content
      BY <1>2, FoundInTable DEF Content
    <3> QED  BY <3>1, PutSlot
  <2> HIDE DEF x
  <2>3. <<x>> \in Seq(Image)  BY <2>2
  <2> QED  BY <2>1, <2>3, OutcomeParts
<1> QED  BY <1>1, <1>2

LEMMA ResetOutcomesOK ==
  ASSUME NEW m \in Image, NEW o \in ResetStorage(m)
  PROVE  /\ o.images \in Seq(Image) /\ o.code = 0
         /\ \E r \in ResetImages(m) : o.images = <<r>>
<1>1. PICK r \in ResetImages(m) : o = Outcome(<<r>>, 0)  BY DEF ResetStorage
<1>2. r \in Image  BY ResetIsImage
<1>3. <<r>> \in Seq(Image)  BY <1>2
<1> QED  BY <1>1, <1>3, OutcomeParts

LEMMA FreshIsIdentity ==
  ASSUME made \in Identity
  PROVE  Fresh \in Identity /\ Fresh # 0 /\ 0 \in Identity
BY MaxIdentityAssumption DEF Fresh, Identity

(* Start: what is written, and what is in the file then.                   *)
LEMMA BootWrites ==
  ASSUME file \in Image, made \in Identity
  PROVE  LET base == After(file, InitImages(file))
             named == [base EXCEPT !.id = Fresh]
             keyed == [base EXCEPT !.id = Fresh, !.key = Fresh]
         IN  /\ {base, named, keyed} \subseteq Image
             /\ BootImages \in Seq(Image)
             /\ base = IF file.magic THEN file ELSE Formatted
             /\ named.slot = base.slot /\ keyed.slot = base.slot
             /\ keyed.id = Fresh /\ keyed.key = Fresh
             /\ IF MustGenerate(file)
                THEN /\ After(file, BootImages) = keyed
                     /\ ToSet(BootImages) \subseteq {base, named, keyed}
                ELSE /\ file.magic /\ BootImages = <<>> /\ After(file, BootImages) = file
<1> DEFINE base == After(file, InitImages(file))
           named == [base EXCEPT !.id = Fresh]
           keyed == [base EXCEPT !.id = Fresh, !.key = Fresh]
<1>1. base = IF file.magic THEN file ELSE Formatted
  BY DEF After, InitImages, Last
<1>2. base \in Image  BY <1>1, EmptyImages
<1>3. InitImages(file) \in {<<>>, <<base>>}
  BY <1>1 DEF InitImages
<1> HIDE DEF base
<1>4. named \in Image /\ keyed \in Image
  BY <1>2, FreshIsIdentity DEF Image
<1>5. /\ named.slot = base.slot /\ keyed.slot = base.slot
      /\ keyed.id = Fresh /\ keyed.key = Fresh
  BY <1>2 DEF Image
<1> HIDE DEF named, keyed
<1>6. BootImages = InitImages(file) \o (IF MustGenerate(file) THEN <<named, keyed>> ELSE <<>>)
  BY Zenon DEF BootImages, named, keyed, base
<1>7. CASE MustGenerate(file)
  <2>1. BootImages = InitImages(file) \o <<named, keyed>>  BY <1>6, <1>7
  <2>2. <<named, keyed>> \in Seq(Image)  BY <1>4
  <2>3. ToSet(<<named, keyed>>) = {named, keyed} /\ Last(<<named, keyed>>) = keyed
    BY DEF ToSet, Last
  <2>4. CASE InitImages(file) = <<>>
    <3>1. BootImages = <<named, keyed>>  BY <2>1, <2>4
    <3>2. BootImages # <<>>  BY <3>1
    <3>3. After(file, BootImages) = keyed  BY <2>3, <3>1, <3>2 DEF After
    <3> QED  BY <1>1, <1>2, <1>4, <1>5, <1>7, <2>2, <2>3, <3>1, <3>3
             DEF base, named, keyed
  <2>5. CASE InitImages(file) = <<base>>
    <3>1. BootImages = <<base, named, keyed>>
      <4> DEFINE all == <<base>> \o <<named, keyed>>
      <4>1. all \in Seq(Image) /\ Len(all) = 3
        BY <1>2, <2>2, Prepended
      <4>2. all[1] = base /\ all[2] = named /\ all[3] = keyed  OBVIOUS
      <4> HIDE DEF all
      <4>3. all = [i \in 1..3 |-> all[i]]  BY <4>1
      <4>4. all = <<base, named, keyed>>  BY <4>1, <4>2, <4>3
      <4> QED  BY <2>1, <2>5, <4>4 DEF all
    <3>2. <<base, named, keyed>> \in Seq(Image)  BY <1>2, <1>4
    <3>3. ToSet(BootImages) = {base, named, keyed} /\ Last(BootImages) = keyed
      BY <3>1 DEF ToSet, Last
    <3>4. BootImages # <<>>  BY <3>1
    <3>5. After(file, BootImages) = keyed  BY <3>3, <3>4 DEF After
    <3> QED  BY <1>1, <1>2, <1>4, <1>5, <1>7, <3>1, <3>2, <3>3, <3>5
             DEF base, named, keyed
  <2> QED  BY <1>3, <2>4, <2>5
<1>8. CASE ~MustGenerate(file)
  <2>1. file.magic  BY <1>8 DEF MustGenerate
  <2>2. BootImages = <<>>  BY <1>6, <1>8, <2>1 DEF InitImages
  <2>3. After(file, BootImages) = file  BY <2>2 DEF After
  <2> QED  BY <1>1, <1>2, <1>4, <1>5, <1>8, <2>1, <2>2, <2>3, EmptyList
           DEF base, named, keyed
<1> QED  BY <1>7, <1>8

------------------------------------------------------------------------------
(* Whatever a request hands over holds no pairing or the identity of the   *)
(* image it began with, and what it ends with holds that identity.         *)
Keeps(x, m) == RecordSlots(x) = {} \/ SameIdentity(x, m)
AllKeep(l, m) == l \in Seq(Image) /\ \A x \in ToSet(l) : Keeps(x, m)
KeepIdentity(l, m) == AllKeep(l, m) /\ SameIdentity(After(m, l), m)

LEMMA NothingStored == RecordSlots(NoData) = {} /\ RecordSlots(Formatted) = {}
<1>1. Blank \notin Record  BY SlotAssumption DEF Record
<1>2. \A i \in Slots : NoData.slot[i] = Blank /\ Formatted.slot[i] = Blank
  BY DEF NoData, Formatted
<1> QED  BY <1>1, <1>2 DEF RecordSlots, IsRecord

LEMMA NoneKeeps ==
  ASSUME NEW m \in Image
  PROVE  KeepIdentity(<<>>, m)
BY EmptyList DEF KeepIdentity, AllKeep, SameIdentity, After

LEMMA AppendKeeps ==
  ASSUME NEW m, NEW l, AllKeep(l, m), NEW x \in Image, SameIdentity(x, m)
  PROVE  KeepIdentity(Append(l, x), m)
<1>1. l \in Seq(Image)  BY DEF AllKeep
<1>2. Append(l, x) \in Seq(Image) /\ ToSet(Append(l, x)) = ToSet(l) \union {x}
  BY <1>1, Appended
<1>3. After(m, Append(l, x)) = x  BY <1>1, LastAppended DEF After
<1>4. \A y \in ToSet(Append(l, x)) : Keeps(y, m)  BY <1>2 DEF AllKeep, Keeps
<1> QED  BY <1>2, <1>3, <1>4 DEF KeepIdentity, AllKeep

LEMMA OneKeeps ==
  ASSUME NEW m \in Image, NEW x \in Image, SameIdentity(x, m)
  PROVE  KeepIdentity(<<x>>, m)
<1>1. AllKeep(<<>>, m)  BY NoneKeeps DEF KeepIdentity
<1>2. KeepIdentity(Append(<<>>, x), m)  BY <1>1, AppendKeeps
<1>3. Append(<<>>, x) = <<x>>  OBVIOUS
<1> QED  BY <1>2, <1>3

LEMMA CompactKeeps ==
  ASSUME NEW m \in Image, NEW o \in CompactData(m)
  PROVE  KeepIdentity(o.images, m)
<1>1. CASE o \in {Outcome(<<>>, 0), Outcome(<<>>, Died)}
  <2>1. o.images = <<>>  BY <1>1, OutcomeParts
  <2> QED  BY <2>1, NoneKeeps
<1>2. CASE \E r \in ResetImages(m) :
             LET cleared == <<r>> \o InitImages(r)
             IN  o = Outcome(Append(cleared, Rewritten(m, Last(cleared))), 0)
  <2>1. PICK r \in ResetImages(m) :
          LET cleared == <<r>> \o InitImages(r)
          IN  o = Outcome(Append(cleared, Rewritten(m, Last(cleared))), 0)
    BY <1>2
  <2> DEFINE cleared == <<r>> \o InitImages(r)
             whole == Rewritten(m, Last(cleared))
  <2>2. cleared \in Seq(Image) /\ Len(cleared) = Len(InitImages(r)) + 1
        /\ ToSet(cleared) = ToSet(InitImages(r)) \union {r}
    BY ResetIsImage, Prepended
  <2>3. ToSet(InitImages(r)) \subseteq {Formatted}
    BY EmptyList DEF InitImages, ToSet
  <2>4. Keeps(r, m)  BY ResetIsImage DEF Keeps, SameIdentity
  <2>5. Keeps(Formatted, m)  BY NothingStored DEF Keeps
  <2>6. o.images = Append(cleared, whole)  BY <2>1, OutcomeParts
  <2>7. whole \in Image /\ SameIdentity(whole, m)
    <3> HIDE DEF cleared
    <3>1. cleared # <<>>
      <4>1. Len(InitImages(r)) \in Nat  BY ResetIsImage, LenProperties
      <4> QED  BY <2>2, <4>1, EmptyList
    <3>2. whole \in Image  BY <2>2, <3>1, LastOfSeq, RewrittenIsImage
    <3>3. whole.id = m.id /\ whole.key = m.key  BY DEF Rewritten, Image
    <3> QED  BY <3>2, <3>3 DEF SameIdentity
  <2> HIDE DEF cleared, whole
  <2>8. AllKeep(cleared, m)  BY <2>2, <2>3, <2>4, <2>5 DEF AllKeep
  <2> QED  BY <2>6, <2>7, <2>8, AppendKeeps
<1> QED  BY <1>1, <1>2 DEF CompactData

LEMMA PutKeeps ==
  ASSUME NEW m \in Image, NEW n \in Image, SameIdentity(n, m),
         NEW i \in Slots, NEW x \in Content
  PROVE  Put(n, i, x) \in Image /\ SameIdentity(Put(n, i, x), m)
BY PutSlot DEF SameIdentity

LEMMA AddKeeps ==
  ASSUME NEW m \in Image, NEW d \in Device, NEW p \in Perm, NEW o \in AddPairing(m, d, p)
  PROVE  KeepIdentity(o.images, m)
<1> DEFINE prepared == IF BlankSlots(m) # {} THEN {Outcome(<<>>, 0)} ELSE CompactData(m)
           new == [dev |-> d, perm |-> p]
<1>1. PICK q \in prepared :
        LET n == After(m, q.images)
        IN  o = IF q.code = Died THEN q
                ELSE IF BlankSlots(n) = {} THEN [q EXCEPT !.code = -2]
                ELSE Outcome(Append(q.images, Put(n, Min(BlankSlots(n)), new)), 0)
  BY DEF AddPairing
<1>2. KeepIdentity(q.images, m) /\ q = Outcome(q.images, q.code)
  <2>1. CASE q = Outcome(<<>>, 0)  BY <2>1, OutcomeParts, NoneKeeps
  <2>2. CASE q \in CompactData(m)  BY <2>2, CompactKeeps, CompactOutcomes
  <2> QED  BY <2>1, <2>2
<1> DEFINE n == After(m, q.images)
<1>3. n \in Image /\ SameIdentity(n, m) /\ q.images \in Seq(Image)
  BY <1>2, AfterImages DEF KeepIdentity, AllKeep
<1>4. CASE o = q  BY <1>2, <1>4
<1>5. CASE o = [q EXCEPT !.code = -2]
  <2>1. o = Outcome(q.images, -2)  BY <1>2, <1>5 DEF Outcome
  <2> QED  BY <1>2, <2>1, OutcomeParts
<1>6. CASE /\ BlankSlots(n) # {}
           /\ o = Outcome(Append(q.images, Put(n, Min(BlankSlots(n)), new)), 0)
  <2> HIDE DEF n
  <2>1. new \in Content /\ Min(BlankSlots(n)) \in Slots
    BY <1>6, FirstBlank DEF Content, Record
  <2> DEFINE x == Put(n, Min(BlankSlots(n)), new)
  <2>2. x \in Image /\ SameIdentity(x, m)
    <3> HIDE DEF new
    <3> QED  BY <1>3, <2>1, PutKeeps
  <2>3. o = Outcome(Append(q.images, x), 0)  BY <1>6
  <2> HIDE DEF new, x
  <2>4. o.images = Append(q.images, x)  BY <2>3, OutcomeParts
  <2> QED  BY <1>2, <2>2, <2>4, AppendKeeps DEF KeepIdentity
<1> QED  BY <1>1, <1>4, <1>5, <1>6

LEMMA UpdateKeeps ==
  ASSUME NEW m \in Image, NEW d \in Device, NEW p \in Perm, NEW o \in UpdatePairing(m, d, p)
  PROVE  KeepIdentity(o.images, m)
<1>1. CASE ~HasPairing(m, d)
  <2>1. o = Outcome(<<>>, -1)  BY <1>1 DEF UpdatePairing
  <2>2. o.images = <<>>  BY <2>1, OutcomeParts
  <2> QED  BY <2>2, NoneKeeps
<1>2. CASE HasPairing(m, d)
  <2> DEFINE i == FindPairing(m, d)
  <2>1. PICK q \in AddPairing(m, d, p) :
          o = IF q.code = 0 THEN Outcome(Append(q.images, Put(Last(q.images), i, Erased)), 0)
              ELSE IF q.code = Died THEN q ELSE [q EXCEPT !.code = -2]
    BY <1>2 DEF UpdatePairing
  <2>2. /\ q.images \in Seq(Image) /\ q = Outcome(q.images, q.code)
        /\ q.code = 0 => q.images # <<>>
        /\ KeepIdentity(q.images, m)
    BY AddOutcomesOK, AddKeeps
  <2>3. CASE q.code = 0
    <3> DEFINE y == Put(Last(q.images), i, Erased)
    <3>1. Last(q.images) \in Image  BY <2>2, <2>3, LastOfSeq
    <3>2. SameIdentity(Last(q.images), m)  BY <2>2, <2>3 DEF KeepIdentity, After
    <3>3. i \in Slots /\ Erased \in Content  BY <1>2, FoundInTable DEF Content
    <3>4. y \in Image /\ SameIdentity(y, m)
      <4> HIDE DEF i
      <4> QED  BY <3>1, <3>2, <3>3, PutKeeps
    <3>5. o = Outcome(Append(q.images, y), 0)  BY <2>1, <2>3
    <3> HIDE DEF i, y
    <3>6. o.images = Append(q.images, y)  BY <3>5, OutcomeParts
    <3> QED  BY <2>2, <3>4, <3>6, AppendKeeps DEF KeepIdentity
  <2>4. CASE q.code # 0
    <3>1. o = q \/ o = Outcome(q.images, -2)
      BY <2>1, <2>2, <2>4 DEF Outcome
    <3>2. o.images = q.images  BY <3>1, OutcomeParts
    <3> QED  BY <2>2, <3>2
  <2> QED  BY <2>3, <2>4
<1> QED  BY <1>1, <1>2

LEMMA RemoveKeeps ==
  ASSUME NEW m \in Image, NEW d \in Device, NEW o \in RemovePairing(m, d)
  PROVE  KeepIdentity(o.images, m)
<1>1. CASE ~HasPairing(m, d)
  <2>1. o = Outcome(<<>>, 0)  BY <1>1 DEF RemovePairing
  <2>2. o.images = <<>>  BY <2>1, OutcomeParts
  <2> QED  BY <2>2, NoneKeeps
<1>2. CASE HasPairing(m, d)
  <2> DEFINE x == Put(m, FindPairing(m, d), Erased)
  <2>1. o = Outcome(<<x>>, 0)  BY <1>2 DEF RemovePairing
  <2>2. x \in Image /\ SameIdentity(x, m)
    <3>1. FindPairing(m, d) \in Slots /\ Erased \in Content /\ SameIdentity(m, m)
      BY <1>2, FoundInTable DEF Content, SameIdentity
    <3> QED  BY <3>1, PutKeeps
  <2> HIDE DEF x
  <2>3. o.images = <<x>>  BY <2>1, OutcomeParts
  <2> QED  BY <2>2, <2>3, OneKeeps
<1> QED  BY <1>1, <1>2

LEMMA ResetKeeps ==
  ASSUME NEW m \in Image, NEW o \in ResetStorage(m)
  PROVE  KeepIdentity(o.images, m)
<1>1. PICK r \in ResetImages(m) : o.images = <<r>>  BY ResetOutcomesOK
<1>2. r \in Image /\ SameIdentity(r, m)  BY ResetIsImage DEF SameIdentity
<1> QED  BY <1>1, <1>2, OneKeeps

------------------------------------------------------------------------------
(* The invariant: the file follows the image in RAM, a server that         *)
(* regenerates what it cannot load keeps no pairing in a file without an   *)
(* identity it can load, and runs with such an identity; a server that is  *)
(* up, or whose file keeps a pairing, announced the identity in the file.  *)
Identified(m) == m.id # 0 /\ KeyLoads(m)
StorageInv ==
  /\ TypeOK
  /\ up => ram = file
  /\ Regenerates => RecordSlots(file) = {} \/ Identified(file)
  /\ Regenerates /\ up => Identified(ram)
  /\ up \/ RecordSlots(file) # {} => SameIdentity(server, file)

(* What a step may do to the file.                                         *)
IdentityStep == <<file.id, file.key>>' # <<file.id, file.key>> => RecordSlots(file') = {}

LEMMA TornHolds ==
  ASSUME NEW m \in Image, NEW x \in TornImages(m)
  PROVE  /\ RecordSlots(x) = {} \/ SameIdentity(x, m)
         /\ RecordSlots(x) \subseteq RecordSlots(m)
<1>1. CASE x = NoData  BY <1>1, NothingStored
<1>2. ASSUME NEW n \in Slots,
             x = [m EXCEPT !.slot = [i \in Slots |-> IF i < n THEN m.slot[i] ELSE Blank]]
      PROVE  SameIdentity(x, m) /\ RecordSlots(x) \subseteq RecordSlots(m)
  <2>1. SameIdentity(x, m)  BY <1>2 DEF SameIdentity, Image
  <2>2. \A i \in Slots : x.slot[i] = m.slot[i] \/ x.slot[i] = Blank
    BY <1>2 DEF Image
  <2>3. Blank \notin Record  BY SlotAssumption DEF Record
  <2> QED  BY <2>1, <2>2, <2>3 DEF RecordSlots, IsRecord
<1> QED  BY <1>1, <1>2 DEF TornImages

LEMMA TornKeeps ==
  ASSUME NEW m \in Image, NEW x \in TornImages(m), NEW r, Keeps(m, r)
  PROVE  Keeps(x, r)
BY TornHolds DEF Keeps, SameIdentity

(* A request that ran to its end.                                          *)
LEMMA PersistKeeps ==
  ASSUME StorageInv, up, NEW o, KeepIdentity(o.images, ram), Persist(o)
  PROVE  /\ ram' \in Image /\ file' = ram' /\ SameIdentity(file', file)
         /\ Regenerates => Identified(ram')
<1>1. ram \in Image /\ ram = file  BY DEF StorageInv, TypeOK
<1>2. ram' = After(ram, o.images) /\ file' = After(file, o.images)  BY DEF Persist
<1>3. o.images \in Seq(Image)  BY DEF KeepIdentity, AllKeep
<1>4. After(ram, o.images) \in Image  BY <1>1, <1>3, AfterImages
<1>5. SameIdentity(After(ram, o.images), ram)  BY DEF KeepIdentity
<1>6. Regenerates => Identified(ram)  BY DEF StorageInv
<1> QED  BY <1>1, <1>2, <1>4, <1>5, <1>6 DEF SameIdentity, Identified, KeyLoads

(* A request that power was lost in.                                       *)
LEMMA InterruptedKeeps ==
  ASSUME StorageInv, NEW call \in Requests, NEW d \in Device \union {NoDevice}, NEW p \in Perm,
         NEW outcomes, \A o \in outcomes : KeepIdentity(o.images, ram),
         Interrupted(call, d, p, outcomes)
  PROVE  StorageInv' /\ IdentityStep
<1>1. PICK o \in outcomes : LosePower(o.images, call, d, p)  BY DEF Interrupted
<1>2. /\ up /\ up' = FALSE /\ ram' = NoData /\ paired' = FALSE /\ granted' = {}
      /\ server' = server /\ made' = made
  BY DEF Interrupted, Off
<1>3. ram \in Image /\ ram = file  BY <1>2 DEF StorageInv, TypeOK
<1>4. o.images \in Seq(Image) /\ \A x \in ToSet(o.images) : Keeps(x, file)
  BY <1>3 DEF KeepIdentity, AllKeep
<1>5. /\ file' \in Image /\ ret' \in Answer
      /\ \/ file' \in {file} \union ToSet(o.images)
         \/ \E m \in ToSet(o.images) : file' \in TornImages(m)
  BY <1>1, <1>3, <1>4, LossLeaves
<1>6. Keeps(file', file)
  <2>1. CASE file' = file  BY <2>1 DEF Keeps, SameIdentity
  <2>2. CASE file' \in ToSet(o.images)  BY <1>4, <2>2
  <2>3. CASE \E m \in ToSet(o.images) : file' \in TornImages(m)
    <3>1. PICK m \in ToSet(o.images) : file' \in TornImages(m)  BY <2>3
    <3>2. m \in Image /\ Keeps(m, file)  BY <1>4, Members
    <3> QED  BY <3>1, <3>2, TornKeeps
  <2> QED  BY <1>5, <2>1, <2>2, <2>3
<1>7. Regenerates => RecordSlots(file') = {} \/ Identified(file')
  <2>1. Regenerates => Identified(file)  BY <1>2, <1>3 DEF StorageInv
  <2> QED  BY <1>6, <2>1 DEF Keeps, SameIdentity, Identified, KeyLoads
<1>8. TypeOK'
  BY <1>2, <1>5, EmptyImages DEF StorageInv, TypeOK, Answer
<1>9. IdentityStep  BY <1>6 DEF IdentityStep, Keeps, SameIdentity
<1>10. RecordSlots(file') # {} => SameIdentity(server', file')
  <2>1. SameIdentity(server, file)  BY <1>2 DEF StorageInv
  <2> QED  BY <1>2, <1>6, <2>1 DEF Keeps, SameIdentity
<1> QED  BY <1>2, <1>7, <1>8, <1>9, <1>10 DEF StorageInv

(* Start: what it writes replaces an identity only in a file without       *)
(* pairings.                                                               *)
LEMMA BootKeeps ==
  ASSUME StorageInv
  PROVE  /\ BootImages \in Seq(Image) /\ After(file, BootImages) \in Image
         /\ \A x \in ToSet(BootImages) : RecordSlots(x) = {}
         /\ Keeps(After(file, BootImages), file)
         /\ MustGenerate(file) => Identified(After(file, BootImages))
         /\ ~MustGenerate(file) => After(file, BootImages) = file
<1> DEFINE base == After(file, InitImages(file))
           named == [base EXCEPT !.id = Fresh]
           keyed == [base EXCEPT !.id = Fresh, !.key = Fresh]
<1>1. file \in Image /\ made \in Identity  BY DEF StorageInv, TypeOK
<1>2. /\ {base, named, keyed} \subseteq Image
      /\ BootImages \in Seq(Image)
      /\ base = IF file.magic THEN file ELSE Formatted
      /\ named.slot = base.slot /\ keyed.slot = base.slot
      /\ keyed.id = Fresh /\ keyed.key = Fresh
      /\ IF MustGenerate(file)
         THEN /\ After(file, BootImages) = keyed
              /\ ToSet(BootImages) \subseteq {base, named, keyed}
         ELSE /\ file.magic /\ BootImages = <<>> /\ After(file, BootImages) = file
  BY <1>1, BootWrites
<1> HIDE DEF base, named, keyed
<1>3. CASE MustGenerate(file)
  <2>1. RecordSlots(base) = {}
    <3>1. CASE file.magic
      <4>1. Regenerates /\ ~Identified(file)
        BY <1>3, <3>1 DEF MustGenerate, Identified
      <4> QED  BY <1>2, <3>1, <4>1 DEF StorageInv
    <3>2. CASE ~file.magic  BY <1>2, <3>2, NothingStored
    <3> QED  BY <3>1, <3>2
  <2>2. RecordSlots(named) = {} /\ RecordSlots(keyed) = {}
    BY <1>2, <2>1 DEF RecordSlots, IsRecord
  <2>3. Identified(keyed)
    BY <1>1, <1>2, FreshIsIdentity DEF Identified, KeyLoads
  <2> QED  BY <1>2, <1>3, <2>1, <2>2, <2>3 DEF Keeps
<1>4. CASE ~MustGenerate(file)
  BY <1>1, <1>2, <1>4, EmptyList DEF Keeps, SameIdentity
<1> QED  BY <1>3, <1>4

LEMMA StorageStart == Init => StorageInv
<1> SUFFICES ASSUME Init PROVE StorageInv  OBVIOUS
<1>1. /\ ram = NoData /\ file = NoData /\ up = FALSE /\ paired = FALSE
      /\ server = NoIdentity /\ granted = {} /\ made = 0
      /\ ret = Ret("boot", NoDevice, Admin, Lost)
  BY DEF Init
<1>2. 0 \in Identity  BY MaxIdentityAssumption DEF Identity
<1>3. ret \in Answer
  <2>1. "boot" \in Requests /\ NoDevice \in Device \union {NoDevice}  BY DEF Requests
  <2>2. Lost \in Codes \union {Lost, Torn, MaxPeers, Existing}  OBVIOUS
  <2> QED  BY <1>1, <2>1, <2>2, PermAssumption, Answers
<1>4. server \in [id : Identity, key : Identity]  BY <1>1, <1>2 DEF NoIdentity
<1>5. TypeOK  BY <1>1, <1>2, <1>3, <1>4, EmptyImages DEF TypeOK, Answer
<1>6. RecordSlots(file) = {}  BY <1>1, NothingStored
<1> QED  BY <1>1, <1>5, <1>6 DEF StorageInv

LEMMA BootStep ==
  ASSUME StorageInv, homekit_server_init
  PROVE  StorageInv' /\ IdentityStep
<1> DEFINE m == After(file, BootImages)
<1>1. /\ ~up /\ made' = (IF MustGenerate(file) THEN Fresh ELSE made)
      /\ file' = m /\ server' = [id |-> m.id, key |-> m.key]
      /\ up' = (m.id # 0) /\ ram' = (IF m.id # 0 THEN m ELSE NoData)
      /\ ret' = Ret("boot", NoDevice, Admin, IF MustGenerate(file) THEN 0 ELSE Existing)
      /\ granted' = granted
  BY DEF homekit_server_init
<1>2. paired' = (m.id # 0 /\ HasAdmin(m))  BY DEF homekit_server_init
<1>3. /\ m \in Image /\ Keeps(m, file)
      /\ MustGenerate(file) => Identified(m)
      /\ ~MustGenerate(file) => m = file
  BY BootKeeps
<1> HIDE DEF m
<1>4. made \in Identity /\ granted = {}  BY <1>1 DEF StorageInv, TypeOK
<1>5. ret' \in Answer
  <2>1. "boot" \in Requests /\ NoDevice \in Device \union {NoDevice}  BY DEF Requests
  <2>2. (IF MustGenerate(file) THEN 0 ELSE Existing)
           \in Codes \union {Lost, Torn, MaxPeers, Existing}
    BY DEF Codes
  <2> QED  BY <1>1, <2>1, <2>2, PermAssumption, Answers, Zenon
<1>6. /\ made' \in Identity /\ ram' \in Image /\ file' \in Image
      /\ server' \in [id : Identity, key : Identity]
  BY <1>1, <1>3, <1>4, FreshIsIdentity, EmptyImages DEF Image
<1>7. up' \in BOOLEAN /\ paired' \in BOOLEAN  BY <1>1, <1>2, Zenon
<1>8. ~up' => ram' = NoData /\ ~paired' /\ granted' = {}
  <2>1. m.id = 0 => ~paired'  BY <1>2, Zenon
  <2> QED  BY <1>1, <1>4, <2>1
<1>9. TypeOK'
  <2>1. granted' \subseteq [dev : Device, slot : Slots]  BY <1>1, <1>4
  <2> QED  BY <1>5, <1>6, <1>7, <1>8, <2>1, Zenon DEF TypeOK, Answer
<1>10. up' => ram' = file'  BY <1>1
<1>11. Regenerates => RecordSlots(file') = {} \/ Identified(file')
  BY <1>1, <1>3 DEF StorageInv
<1>12. Regenerates /\ up' => Identified(ram')
  <2>1. CASE MustGenerate(file)  BY <1>1, <1>3, <2>1
  <2>2. CASE ~MustGenerate(file)
    BY <1>1, <1>3, <2>2 DEF MustGenerate, Identified
  <2> QED  BY <2>1, <2>2
<1>13. IdentityStep  BY <1>1, <1>3 DEF IdentityStep, Keeps, SameIdentity
<1>14. SameIdentity(server', file')  BY <1>1 DEF SameIdentity
<1> QED  BY <1>9, <1>10, <1>11, <1>12, <1>13, <1>14 DEF StorageInv

(* A request that ran to its end, whatever else it changes.                *)
LEMMA RequestStep ==
  ASSUME StorageInv, up, up' = up, NEW o, KeepIdentity(o.images, ram), Persist(o),
         server' = server, made' = made, paired' \in BOOLEAN, ret' \in Answer,
         granted' \subseteq granted
  PROVE  StorageInv' /\ IdentityStep
<1>1. /\ ram' \in Image /\ file' = ram' /\ SameIdentity(file', file)
      /\ Regenerates => Identified(ram')
  BY PersistKeeps
<1>2. up' \in BOOLEAN  BY DEF StorageInv, TypeOK
<1>3. TypeOK'  BY <1>1, <1>2 DEF StorageInv, TypeOK, Answer
<1>4. IdentityStep  BY <1>1 DEF IdentityStep, SameIdentity
<1>5. SameIdentity(server', file')
  <2>1. SameIdentity(server, file)  BY DEF StorageInv
  <2> QED  BY <1>1, <2>1 DEF SameIdentity
<1> QED  BY <1>1, <1>3, <1>4, <1>5 DEF StorageInv

LEMMA StorageStep ==
  ASSUME StorageInv, [Next]_vars
  PROVE  StorageInv' /\ IdentityStep
<1>0. TypeOK /\ file \in Image  BY DEF StorageInv, TypeOK
<1>1. CASE homekit_server_init  BY <1>1, BootStep
<1>2. CASE homekit_server_reset
  <2>1. PICK o \in ResetStorage(ram) : Persist(o)  BY <1>2 DEF homekit_server_reset
  <2>2. KeepIdentity(o.images, ram)  BY <1>0, ResetKeeps DEF TypeOK
  <2>3. ret' \in Answer
    <3>1. ret' = Ret("reset", NoDevice, Admin, 0) /\ "reset" \in Requests
          /\ 0 \in Codes \union {Lost, Torn, MaxPeers, Existing}
          /\ NoDevice \in Device \union {NoDevice}
      BY <1>2 DEF homekit_server_reset, Requests, Codes
    <3> QED  BY <3>1, PermAssumption, Answers
  <2>4. /\ up /\ up' = up /\ server' = server /\ made' = made
        /\ granted' = granted /\ paired' = paired
    BY <1>2 DEF homekit_server_reset
  <2>5. paired' \in BOOLEAN  BY <1>0, <2>4 DEF TypeOK
  <2> QED  BY <2>1, <2>2, <2>3, <2>4, <2>5, RequestStep
<1>3. CASE PowerLoss
  <2>1. ASSUME NEW d \in Device, Interrupted("setup", d, Admin, AddPairing(ram, d, Admin))
        PROVE  StorageInv' /\ IdentityStep
    <3>1. \A o \in AddPairing(ram, d, Admin) : KeepIdentity(o.images, ram)
      BY <1>0, PermAssumption, AddKeeps DEF TypeOK
    <3>2. "setup" \in Requests /\ d \in Device \union {NoDevice}  BY DEF Requests
    <3> QED  BY <2>1, <3>1, <3>2, PermAssumption, InterruptedKeeps
  <2>2. ASSUME NEW d \in Device, Interrupted("remove", d, Admin, RemovePairing(ram, d))
        PROVE  StorageInv' /\ IdentityStep
    <3>1. \A o \in RemovePairing(ram, d) : KeepIdentity(o.images, ram)
      BY <1>0, RemoveKeeps DEF TypeOK
    <3>2. "remove" \in Requests /\ d \in Device \union {NoDevice}  BY DEF Requests
    <3> QED  BY <2>2, <3>1, <3>2, PermAssumption, InterruptedKeeps
  <2>3. ASSUME NEW d \in Device, NEW p \in Perm, Interrupted("add", d, p, AddOutcomes(d, p))
        PROVE  StorageInv' /\ IdentityStep
    <3>1. \A o \in AddOutcomes(d, p) : KeepIdentity(o.images, ram)
      <4> TAKE o \in AddOutcomes(d, p)
      <4>1. ram \in Image  BY <1>0 DEF TypeOK
      <4>2. CASE o \in UpdatePairing(ram, d, p)  BY <4>1, <4>2, UpdateKeeps
      <4>3. CASE o \in AddPairing(ram, d, p)  BY <4>1, <4>3, AddKeeps
      <4>4. CASE o = Outcome(<<>>, MaxPeers)
        <5>1. o.images = <<>>  BY <4>4, OutcomeParts
        <5> QED  BY <4>1, <5>1, NoneKeeps
      <4> QED  BY <4>2, <4>3, <4>4 DEF AddOutcomes
    <3>2. "add" \in Requests /\ d \in Device \union {NoDevice}  BY DEF Requests
    <3> QED  BY <2>3, <3>1, <3>2, InterruptedKeeps
  <2>4. CASE Interrupted("reset", NoDevice, Admin, ResetStorage(ram))
    <3>1. \A o \in ResetStorage(ram) : KeepIdentity(o.images, ram)
      BY <1>0, ResetKeeps DEF TypeOK
    <3>2. "reset" \in Requests /\ NoDevice \in Device \union {NoDevice}  BY DEF Requests
    <3> QED  BY <2>4, <3>1, <3>2, PermAssumption, InterruptedKeeps
  <2> QED  BY <1>3, <2>1, <2>2, <2>3, <2>4 DEF PowerLoss
<1>4. CASE PowerLossInBoot
  <2>1. /\ ~up /\ made' = (IF MustGenerate(file) THEN Fresh ELSE made)
        /\ LosePower(BootImages, "boot", NoDevice, Admin)
        /\ up' = FALSE /\ ram' = NoData /\ paired' = FALSE /\ granted' = {}
        /\ server' = server
    BY <1>4 DEF PowerLossInBoot, Off
  <2>2. BootImages \in Seq(Image) /\ \A x \in ToSet(BootImages) : RecordSlots(x) = {}
    BY BootKeeps
  <2>3. /\ file' \in Image /\ ret' \in Answer
        /\ \/ file' \in {file} \union ToSet(BootImages)
           \/ \E m \in ToSet(BootImages) : file' \in TornImages(m)
    <3>1. "boot" \in Requests /\ NoDevice \in Device \union {NoDevice}  BY DEF Requests
    <3> QED  BY <1>0, <2>1, <2>2, <3>1, PermAssumption, LossLeaves
  <2>4. file' = file \/ RecordSlots(file') = {}
    <3>1. ASSUME NEW m \in ToSet(BootImages), file' \in TornImages(m)
          PROVE  RecordSlots(file') = {}
      <4>1. m \in Image  BY <2>2, Members
      <4> QED  BY <2>2, <3>1, <4>1, TornHolds
    <3> QED  BY <2>2, <2>3, <3>1
  <2>5. made' \in Identity  BY <1>0, <2>1, FreshIsIdentity DEF TypeOK
  <2>6. TypeOK'  BY <1>0, <2>1, <2>3, <2>5, EmptyImages DEF TypeOK, Answer
  <2>7. Regenerates => RecordSlots(file') = {} \/ Identified(file')
    BY <2>4 DEF StorageInv
  <2>8. IdentityStep  BY <2>4 DEF IdentityStep
  <2>9. RecordSlots(file') # {} => SameIdentity(server', file')
    BY <2>1, <2>4 DEF StorageInv
  <2> QED  BY <2>1, <2>6, <2>7, <2>8, <2>9 DEF StorageInv
<1>5. ASSUME NEW d \in Device, PairSetup(d) PROVE StorageInv' /\ IdentityStep
  <2>1. PICK o \in AddPairing(ram, d, Admin), late \in BOOLEAN :
          /\ Persist(o)
          /\ paired' = (o.code = 0 /\ ~late)
          /\ ret' = Ret("setup", d, Admin, IF o.code = 0 /\ late THEN -1 ELSE o.code)
    BY <1>5, Zenon DEF PairSetup
  <2>2. KeepIdentity(o.images, ram)  BY <1>0, PermAssumption, AddKeeps DEF TypeOK
  <2>3. ret' \in Answer
    <3>1. o.code \in {0, -2, Died}  BY <1>0, PermAssumption, AddOutcomesOK DEF TypeOK
    <3>2. (IF o.code = 0 /\ late THEN -1 ELSE o.code)
             \in Codes \union {Lost, Torn, MaxPeers, Existing}
      BY <3>1 DEF Codes
    <3>3. "setup" \in Requests /\ d \in Device \union {NoDevice}  BY DEF Requests
    <3> QED  BY <2>1, <3>2, <3>3, PermAssumption, Answers, Zenon
  <2>4. up /\ up' = up /\ server' = server /\ made' = made /\ granted' = granted
    BY <1>5 DEF PairSetup
  <2>5. paired' \in BOOLEAN  BY <2>1, Zenon
  <2> QED  BY <2>1, <2>2, <2>3, <2>4, <2>5, RequestStep
<1>6. ASSUME NEW d \in Device, PairVerify(d) PROVE StorageInv' /\ IdentityStep
  <2> DEFINE i == FindPairing(ram, d)
  <2>1. /\ up /\ HasPairing(ram, d)
        /\ granted' = {s \in granted : s.dev # d} \union {[dev |-> d, slot |-> i]}
        /\ UNCHANGED <<ram, file, up, server, paired, made, ret>>
    BY <1>6 DEF PairVerify
  <2>2. i \in Slots  BY <2>1, FoundInTable
  <2> HIDE DEF i
  <2>3. granted' \subseteq [dev : Device, slot : Slots]
    BY <1>0, <2>1, <2>2 DEF TypeOK
  <2>4. TypeOK'  BY <1>0, <2>1, <2>3 DEF TypeOK
  <2> QED  BY <2>1, <2>4 DEF StorageInv, IdentityStep
<1>7. ASSUME NEW d \in Device, SessionEnds(d) PROVE StorageInv' /\ IdentityStep
  <2>1. /\ granted' \subseteq granted
        /\ UNCHANGED <<ram, file, up, server, paired, made, ret>>
    BY <1>7 DEF SessionEnds
  <2>2. TypeOK'  BY <1>0, <2>1 DEF TypeOK
  <2> QED  BY <2>1, <2>2 DEF StorageInv, IdentityStep
<1>8. ASSUME NEW d \in Device, RemoveController(d) PROVE StorageInv' /\ IdentityStep
  <2>1. CASE HasPairing(ram, d)
    <3>1. PICK o \in RemovePairing(ram, d) :
            /\ Persist(o)
            /\ ret' = Ret("remove", d, Admin, o.code)
            /\ paired' = IF /\ ram.slot[FindPairing(ram, d)].perm = Admin
                            /\ ~HasAdmin(After(ram, o.images))
                         THEN FALSE ELSE paired
      BY <1>8, <2>1 DEF RemoveController
    <3>2. KeepIdentity(o.images, ram)  BY <1>0, RemoveKeeps DEF TypeOK
    <3>3. ret' \in Answer
      <4>1. o.code = 0  BY <1>0, RemoveOutcomesOK DEF TypeOK
      <4>2. o.code \in Codes \union {Lost, Torn, MaxPeers, Existing}
        BY <4>1 DEF Codes
      <4>3. "remove" \in Requests /\ d \in Device \union {NoDevice}  BY DEF Requests
      <4> QED  BY <3>1, <4>2, <4>3, PermAssumption, Answers
    <3>4. /\ up /\ up' = up /\ server' = server /\ made' = made
          /\ granted' \subseteq granted
      BY <1>8, <2>1 DEF RemoveController
    <3>5. paired' \in BOOLEAN  BY <1>0, <3>1 DEF TypeOK
    <3> QED  BY <3>1, <3>2, <3>3, <3>4, <3>5, RequestStep
  <2>2. CASE ~HasPairing(ram, d)
    <3>1. /\ up /\ ret' = Ret("remove", d, Admin, 0)
          /\ UNCHANGED <<ram, file, granted, paired, up, server, made>>
      BY <1>8, <2>2 DEF RemoveController
    <3>2. ret' \in Answer
      <4>1. 0 \in Codes \union {Lost, Torn, MaxPeers, Existing}  BY DEF Codes
      <4>2. "remove" \in Requests /\ d \in Device \union {NoDevice}  BY DEF Requests
      <4> QED  BY <3>1, <4>1, <4>2, PermAssumption, Answers
    <3>3. TypeOK'  BY <1>0, <3>1, <3>2 DEF TypeOK, Answer
    <3> QED  BY <3>1, <3>3 DEF StorageInv, IdentityStep
  <2> QED  BY <2>1, <2>2
<1>9. ASSUME NEW d \in Device, NEW p \in Perm, AddController(d, p)
      PROVE  StorageInv' /\ IdentityStep
  <2>1. PICK o \in AddOutcomes(d, p) : Persist(o) /\ ret' = Ret("add", d, p, o.code)
    BY <1>9 DEF AddController
  <2>2. ram \in Image  BY <1>0 DEF TypeOK
  <2>3. KeepIdentity(o.images, ram)
    <3>1. CASE o \in UpdatePairing(ram, d, p)  BY <2>2, <3>1, UpdateKeeps
    <3>2. CASE o \in AddPairing(ram, d, p)  BY <2>2, <3>2, AddKeeps
    <3>3. CASE o = Outcome(<<>>, MaxPeers)
      <4>1. o.images = <<>>  BY <3>3, OutcomeParts
      <4> QED  BY <2>2, <4>1, NoneKeeps
    <3> QED  BY <3>1, <3>2, <3>3 DEF AddOutcomes
  <2>4. ret' \in Answer
    <3>1. o.code \in Codes \union {MaxPeers}  BY <2>2, AddOrUpdate
    <3>2. "add" \in Requests /\ d \in Device \union {NoDevice}  BY DEF Requests
    <3> QED  BY <2>1, <3>1, <3>2, Answers
  <2>5. /\ up /\ up' = up /\ server' = server /\ made' = made
        /\ granted' = granted /\ paired' = paired
    BY <1>9 DEF AddController
  <2>6. paired' \in BOOLEAN  BY <1>0, <2>5 DEF TypeOK
  <2> QED  BY <2>1, <2>3, <2>4, <2>5, <2>6, RequestStep
<1>10. CASE UNCHANGED vars
  <2>1. TypeOK'  BY <1>0, <1>10 DEF TypeOK, vars
  <2> QED  BY <1>10, <2>1 DEF vars, StorageInv, IdentityStep
<1> QED
  BY <1>1, <1>2, <1>3, <1>4, <1>5, <1>6, <1>7, <1>8, <1>9, <1>10, Zenon DEF Next

(* Every image the requests produce, also those that power loss leaves, is *)
(* a storage image; a session names a slot; a server that is down holds    *)
(* nothing.                                                                *)
THEOREM StorageTypeCorrect == Spec => []TypeOK
<1>1. StorageInv /\ [Next]_vars => StorageInv'  BY StorageStep
<1>2. StorageInv => TypeOK  BY DEF StorageInv
<1> QED  BY StorageStart, <1>1, <1>2, PTL DEF Spec

(* An accessory never replaces its identity in a file that keeps a         *)
(* pairing, neither at start nor in a request nor when power is lost.      *)
THEOREM IdentityIsKept == Spec => IdentityKeepsPairings
<1> DEFINE A == <<file.id, file.key>>' # <<file.id, file.key>> => RecordSlots(file') = {}
<1>1. StorageInv /\ [Next]_vars => StorageInv'  BY StorageStep
<1>2. StorageInv /\ [Next]_vars => [A]_vars  BY StorageStep DEF IdentityStep
<1> QED  BY StorageStart, <1>1, <1>2, PTL DEF Spec, IdentityKeepsPairings

(* A start that runs to its end comes up, when it generates what it cannot *)
(* load.                                                                   *)
EndedStart == ret.call = "boot" /\ ret.code \in {0, Existing} => up

LEMMA EndedStartStep ==
  ASSUME Regenerates, EndedStart, [Next]_vars, StorageInv
  PROVE  EndedStart'
<1>0. file \in Image  BY DEF StorageInv, TypeOK
<1> USE DEF Lost, Torn, Existing
<1>1. ASSUME NEW call, NEW d, NEW p, NEW code, ret' = Ret(call, d, p, code),
             call # "boot" \/ code \notin {0, Existing}
      PROVE  EndedStart'
  BY <1>1, RetParts DEF EndedStart
<1>2. ASSUME NEW images, NEW call, NEW d, NEW p, LosePower(images, call, d, p)
      PROVE  EndedStart'
  BY <1>1, <1>2 DEF LosePower
<1>3. CASE homekit_server_init
  <2>1. up' = (After(file, BootImages).id # 0)  BY <1>3 DEF homekit_server_init
  <2>2. CASE MustGenerate(file)
    BY <2>1, <2>2, BootKeeps DEF Identified, EndedStart
  <2>3. CASE ~MustGenerate(file)
    <3>1. After(file, BootImages) = file /\ file.id # 0
      BY <2>3, BootKeeps DEF MustGenerate
    <3> QED  BY <2>1, <3>1 DEF EndedStart
  <2> QED  BY <2>2, <2>3
<1>4. CASE homekit_server_reset
  BY <1>1, <1>4 DEF homekit_server_reset
<1>5. CASE PowerLoss
  BY <1>2, <1>5 DEF PowerLoss, Interrupted
<1>6. CASE PowerLossInBoot
  BY <1>2, <1>6 DEF PowerLossInBoot
<1>7. ASSUME NEW d \in Device, PairSetup(d) PROVE EndedStart'
  <2>1. \E code : ret' = Ret("setup", d, Admin, code)  BY <1>7, Zenon DEF PairSetup
  <2> QED  BY <1>1, <2>1
<1>8. ASSUME NEW d \in Device, PairVerify(d) \/ SessionEnds(d) PROVE EndedStart'
  <2>1. ret' = ret /\ up' = up  BY <1>8 DEF PairVerify, SessionEnds
  <2> QED  BY <2>1 DEF EndedStart
<1>9. ASSUME NEW d \in Device, RemoveController(d) PROVE EndedStart'
  <2>1. \E code : ret' = Ret("remove", d, Admin, code)
    BY <1>9, Zenon DEF RemoveController
  <2> QED  BY <1>1, <2>1
<1>10. ASSUME NEW d \in Device, NEW p \in Perm, AddController(d, p)
       PROVE  EndedStart'
  <2>1. \E code : ret' = Ret("add", d, p, code)  BY <1>10, Zenon DEF AddController
  <2> QED  BY <1>1, <2>1
<1>11. CASE UNCHANGED vars
  BY <1>11 DEF vars, EndedStart
<1> QED
  BY <1>3, <1>4, <1>5, <1>6, <1>7, <1>8, <1>9, <1>10, <1>11, Zenon DEF Next

(* Wherever power was lost before, in a first start between the saves of   *)
(* id and key too: a start that runs to its end comes up, what the server  *)
(* announces is complete and is what the next start finds, and a pairing   *)
(* that the file keeps was made with it.  For the start of server.c, which *)
(* generates what it cannot load; arduino_homekit_server.cpp does not, and *)
(* TLC shows what becomes of it.                                           *)
THEOREM AnnouncedStays ==
  ASSUME Regenerates
  PROVE  Spec => []AnnouncedIsStored
<1>1. Init => EndedStart
  BY RetParts DEF Init, EndedStart, Lost, Existing
<1>2. StorageInv /\ [Next]_vars => StorageInv'  BY StorageStep
<1>3. EndedStart /\ StorageInv /\ [Next]_vars => EndedStart'
  BY EndedStartStep
<1>4. StorageInv /\ EndedStart => AnnouncedIsStored
  BY DEF StorageInv, EndedStart, AnnouncedIsStored, Identified, KeyLoads, SameIdentity
<1> QED  BY StorageStart, <1>1, <1>2, <1>3, <1>4, PTL DEF Spec

------------------------------------------------------------------------------
(* Requests while there is a blank slot.  What is handed over differs from *)
(* the image before in the pairings of one controller only.                *)
OthersStay(x, m, d) ==
  \A e \in Device \ {d} :
    SlotsOf(x, e) = SlotsOf(m, e) /\ \A i \in SlotsOf(m, e) : x.slot[i] = m.slot[i]

LEMMA WriteOfOne ==
  ASSUME NEW m \in Image, NEW i \in Slots, NEW x \in Content, NEW d,
         m.slot[i] \in Record => m.slot[i].dev = d,
         x \in Record => x.dev = d
  PROVE  /\ OthersStay(Put(m, i, x), m, d)
         /\ SlotsOf(Put(m, i, x), d) = (SlotsOf(m, d) \ {i}) \union
                                       (IF x \in Record THEN {i} ELSE {})
<1> DEFINE n == Put(m, i, x)
<1>1. n.slot[i] = x /\ \A k \in Slots \ {i} : n.slot[k] = m.slot[k]  BY PutSlot
<1> HIDE DEF n
<1>2. \A e : SlotsOf(n, e) = {k \in Slots : n.slot[k] \in Record /\ n.slot[k].dev = e}
  BY DEF SlotsOf, RecordSlots, IsRecord
<1>3. \A e : SlotsOf(m, e) = {k \in Slots : m.slot[k] \in Record /\ m.slot[k].dev = e}
  BY DEF SlotsOf, RecordSlots, IsRecord
<1>4. ASSUME NEW e \in Device \ {d}
      PROVE  SlotsOf(n, e) = SlotsOf(m, e) /\ \A k \in SlotsOf(m, e) : n.slot[k] = m.slot[k]
  <2>1. i \notin SlotsOf(m, e) /\ i \notin SlotsOf(n, e)
    BY <1>1, <1>2, <1>3, e # d
  <2>2. \A k \in Slots \ {i} : k \in SlotsOf(n, e) <=> k \in SlotsOf(m, e)
    BY <1>1, <1>2, <1>3
  <2>3. SlotsOf(n, e) \subseteq Slots /\ SlotsOf(m, e) \subseteq Slots
    BY <1>2, <1>3
  <2> QED  BY <1>1, <2>1, <2>2, <2>3
<1>5. SlotsOf(n, d) = (SlotsOf(m, d) \ {i}) \union (IF x \in Record THEN {i} ELSE {})
  BY <1>1, <1>2, <1>3
<1> QED  BY <1>4, <1>5 DEF OthersStay, n

LEMMA OthersStayOn ==
  ASSUME NEW x, NEW y, NEW z, NEW d, OthersStay(x, y, d), OthersStay(y, z, d)
  PROVE  OthersStay(x, z, d)
BY DEF OthersStay

LEMMA AddInRoom ==
  ASSUME NEW m \in Image, BlankSlots(m) # {}, NEW d \in Device, NEW p \in Perm,
         NEW o \in AddPairing(m, d, p)
  PROVE  \E n \in Image, b \in Slots :
           /\ o = Outcome(<<n>>, 0) /\ OthersStay(n, m, d)
           /\ b \notin SlotsOf(m, d) /\ SlotsOf(n, d) = SlotsOf(m, d) \union {b}
           /\ n.slot[b].perm = p
<1> DEFINE b == Min(BlankSlots(m))
           x == [dev |-> d, perm |-> p]
<1>1. b \in BlankSlots(m) /\ b \in Slots  BY FirstBlank
<1>2. o = Outcome(<<Put(m, b, x)>>, 0)  BY AddWithRoom
<1>3. x \in Content /\ x \in Record /\ x.dev = d /\ x.perm = p
  BY DEF Content, Record
<1> HIDE DEF b, x
<1>4. b \notin SlotsOf(m, d)  BY <1>1, BlankIsNoRecord
<1>5. m.slot[b] \notin Record  BY <1>1, SlotAssumption DEF BlankSlots, Record
<1>6. /\ OthersStay(Put(m, b, x), m, d)
      /\ SlotsOf(Put(m, b, x), d) = (SlotsOf(m, d) \ {b}) \union {b}
  BY <1>1, <1>3, <1>5, WriteOfOne
<1>7. SlotsOf(Put(m, b, x), d) = SlotsOf(m, d) \union {b}  BY <1>6
<1>8. Put(m, b, x) \in Image /\ Put(m, b, x).slot[b].perm = p
  BY <1>1, <1>3, PutSlot
<1> QED  BY <1>1, <1>2, <1>4, <1>6, <1>7, <1>8

LEMMA UpdateInRoom ==
  ASSUME NEW m \in Image, BlankSlots(m) # {}, NEW d \in Device, NEW p \in Perm,
         HasPairing(m, d), NEW o \in UpdatePairing(m, d, p)
  PROVE  \E n, y \in Image, b \in Slots :
           /\ o.images = Append(<<n>>, y) /\ o.code = 0
           /\ OthersStay(n, m, d) /\ OthersStay(y, m, d)
           /\ SlotsOf(n, d) = SlotsOf(m, d) \union {b}
           /\ SlotsOf(y, d) = (SlotsOf(m, d) \ {FindPairing(m, d)}) \union {b}
           /\ y.slot[b].perm = p
<1> DEFINE i == FindPairing(m, d)
<1>1. PICK q \in AddPairing(m, d, p) :
        o = IF q.code = 0 THEN Outcome(Append(q.images, Put(Last(q.images), i, Erased)), 0)
            ELSE IF q.code = Died THEN q ELSE [q EXCEPT !.code = -2]
  BY DEF UpdatePairing
<1>2. PICK n \in Image, b \in Slots :
        /\ q = Outcome(<<n>>, 0) /\ OthersStay(n, m, d)
        /\ b \notin SlotsOf(m, d) /\ SlotsOf(n, d) = SlotsOf(m, d) \union {b}
        /\ n.slot[b].perm = p
  BY AddInRoom
<1>3. i \in SlotsOf(m, d) /\ i \in Slots  BY FoundInTable
<1> HIDE DEF i
<1> DEFINE y == Put(n, i, Erased)
<1>4. o.images = Append(<<n>>, y) /\ o.code = 0
  <2>1. q.code = 0 /\ q.images = <<n>>  BY <1>2, OutcomeParts
  <2>2. Last(<<n>>) = n  BY DEF Last
  <2>3. o = Outcome(Append(<<n>>, y), 0)  BY <1>1, <2>1, <2>2
  <2> HIDE DEF y
  <2> QED  BY <2>3, OutcomeParts
<1>5. Erased \in Content /\ Erased \notin Record
  BY SlotAssumption DEF Content, Record
<1>6. n.slot[i] \in Record => n.slot[i].dev = d
  BY <1>2, <1>3 DEF SlotsOf
<1>7. /\ OthersStay(y, n, d)
      /\ SlotsOf(y, d) = (SlotsOf(n, d) \ {i}) \union {}
  BY <1>3, <1>5, <1>6, WriteOfOne
<1>8. y \in Image /\ y.slot[b] = n.slot[b]
  <2>1. b # i  BY <1>2, <1>3
  <2> QED  BY <1>3, <1>5, <2>1, PutSlot
<1> HIDE DEF y
<1>9. SlotsOf(y, d) = (SlotsOf(m, d) \ {i}) \union {b}  BY <1>2, <1>3, <1>7
<1>10. OthersStay(y, m, d)  BY <1>2, <1>7, OthersStayOn
<1> QED  BY <1>2, <1>4, <1>8, <1>9, <1>10 DEF i

LEMMA RemoveOfOne ==
  ASSUME NEW m \in Image, NEW d \in Device, HasPairing(m, d), NEW o \in RemovePairing(m, d)
  PROVE  \E x \in Image :
           /\ o = Outcome(<<x>>, 0) /\ OthersStay(x, m, d)
           /\ SlotsOf(x, d) = SlotsOf(m, d) \ {FindPairing(m, d)}
<1> DEFINE i == FindPairing(m, d)
           x == Put(m, i, Erased)
<1>1. o = Outcome(<<x>>, 0)  BY DEF RemovePairing
<1>2. i \in SlotsOf(m, d) /\ i \in Slots  BY FoundInTable
<1> HIDE DEF i
<1>3. Erased \in Content /\ Erased \notin Record
  BY SlotAssumption DEF Content, Record
<1>4. m.slot[i] \in Record => m.slot[i].dev = d  BY <1>2 DEF SlotsOf
<1>5. /\ OthersStay(x, m, d)
      /\ SlotsOf(x, d) = (SlotsOf(m, d) \ {i}) \union {}
  BY <1>2, <1>3, <1>4, WriteOfOne
<1>6. x \in Image  BY <1>2, <1>3, PutSlot
<1> HIDE DEF x
<1> QED  BY <1>1, <1>5, <1>6 DEF i

(* What a request about controller d hands over, when nothing is removed   *)
(* and when something is.                                                  *)
About(d, images) == \A x \in ToSet(images) : OthersStay(x, ram, d)
AboutKept(d, images) ==
  About(d, images) /\ \A x \in ToSet(images) : HasPairing(x, d)

LEMMA AddEffects ==
  ASSUME ram \in Image, BlankSlots(ram) # {}, NEW d \in Device, NEW p \in Perm,
         NEW o \in AddPairing(ram, d, p)
  PROVE  AboutKept(d, o.images)
<1>1. PICK n \in Image, b \in Slots :
        /\ o = Outcome(<<n>>, 0) /\ OthersStay(n, ram, d)
        /\ SlotsOf(n, d) = SlotsOf(ram, d) \union {b}
  BY AddInRoom
<1>2. ToSet(o.images) = {n}  BY <1>1, OutcomeParts DEF ToSet
<1> QED  BY <1>1, <1>2 DEF AboutKept, About, HasPairing

LEMMA UpdateEffects ==
  ASSUME ram \in Image, BlankSlots(ram) # {}, NEW d \in Device, NEW p \in Perm,
         NEW o \in UpdatePairing(ram, d, p)
  PROVE  AboutKept(d, o.images)
<1>1. CASE ~HasPairing(ram, d)
  <2>1. o = Outcome(<<>>, -1)  BY <1>1 DEF UpdatePairing
  <2>2. ToSet(o.images) = {}  BY <2>1, OutcomeParts, EmptyList
  <2> QED  BY <2>2 DEF AboutKept, About
<1>2. CASE HasPairing(ram, d)
  <2>1. PICK n \in Image, y \in Image, b \in Slots :
          /\ o.images = Append(<<n>>, y)
          /\ OthersStay(n, ram, d) /\ OthersStay(y, ram, d)
          /\ SlotsOf(n, d) = SlotsOf(ram, d) \union {b}
          /\ SlotsOf(y, d) = (SlotsOf(ram, d) \ {FindPairing(ram, d)}) \union {b}
    BY <1>2, UpdateInRoom
  <2>2. ToSet(o.images) = {n, y}
    <3>1. <<n>> \in Seq(Image)  OBVIOUS
    <3>2. ToSet(<<n>>) = {n}  BY DEF ToSet
    <3>3. ToSet(Append(<<n>>, y)) = ToSet(<<n>>) \union {y}  BY <3>1, Appended
    <3> QED  BY <2>1, <3>2, <3>3
  <2> QED  BY <2>1, <2>2 DEF AboutKept, About, HasPairing
<1> QED  BY <1>1, <1>2

LEMMA AddControllerEffects ==
  ASSUME ram \in Image, BlankSlots(ram) # {}, NEW d \in Device, NEW p \in Perm,
         NEW o \in AddOutcomes(d, p)
  PROVE  AboutKept(d, o.images)
<1>1. CASE o \in UpdatePairing(ram, d, p)  BY <1>1, UpdateEffects
<1>2. CASE o \in AddPairing(ram, d, p)  BY <1>2, AddEffects
<1>3. CASE o = Outcome(<<>>, MaxPeers)
  <2>1. ToSet(o.images) = {}  BY <1>3, OutcomeParts, EmptyList
  <2> QED  BY <2>1 DEF AboutKept, About
<1> QED  BY <1>1, <1>2, <1>3 DEF AddOutcomes

LEMMA RemoveEffects ==
  ASSUME ram \in Image, NEW d \in Device, NEW o \in RemovePairing(ram, d)
  PROVE  About(d, o.images)
<1>1. CASE ~HasPairing(ram, d)
  <2>1. o = Outcome(<<>>, 0)  BY <1>1 DEF RemovePairing
  <2>2. ToSet(o.images) = {}  BY <2>1, OutcomeParts, EmptyList
  <2> QED  BY <2>2 DEF About
<1>2. CASE HasPairing(ram, d)
  <2>1. PICK x \in Image : o = Outcome(<<x>>, 0) /\ OthersStay(x, ram, d)
    BY <1>2, RemoveOfOne
  <2>2. ToSet(o.images) = {x}  BY <2>1, OutcomeParts DEF ToSet
  <2> QED  BY <2>1, <2>2 DEF About
<1> QED  BY <1>1, <1>2

LEMMA AfterMember ==
  ASSUME NEW m \in Image, NEW images \in Seq(Image)
  PROVE  After(m, images) \in {m} \union ToSet(images)
<1>1. CASE images = <<>>  BY <1>1 DEF After
<1>2. CASE images # <<>>
  <2>1. Len(images) \in Nat /\ Len(images) # 0 /\ DOMAIN images = 1..Len(images)
    BY <1>2
  <2>2. Len(images) \in DOMAIN images  BY <2>1
  <2> QED  BY <1>2, <2>2 DEF After, Last, ToSet
<1> QED  BY <1>1, <1>2

(* What such a step makes of the file: nothing, or a change to the         *)
(* pairings of the controller it answers, which keeps a pairing unless it  *)
(* is removed.                                                             *)
FileStep ==
  \/ file'.slot = file.slot
  \/ /\ OthersStay(file', file, ret'.dev)
     /\ ret'.call # "remove" => HasPairing(file', ret'.dev)

LEMMA HandedOver ==
  ASSUME NEW images, ram = file, file' \in {file} \union ToSet(images),
         NEW d, ret'.dev = d, About(d, images),
         ret'.call # "remove" => AboutKept(d, images)
  PROVE  FileStep
BY DEF FileStep, About, AboutKept

LEMMA LostInRequest ==
  ASSUME ram = file, file \in Image, ret'.code # Torn, NEW call \in Requests,
         NEW d \in Device, NEW p \in Perm, NEW outcomes,
         \A o \in outcomes : o.images \in Seq(Image) /\ About(d, o.images),
         call # "remove" => \A o \in outcomes : AboutKept(d, o.images),
         Interrupted(call, d, p, outcomes)
  PROVE  FileStep
<1>1. PICK o \in outcomes : LosePower(o.images, call, d, p)  BY DEF Interrupted
<1>2. /\ ret'.call = call /\ ret'.dev = d
      /\ ret'.code = Lost => file' \in {file} \union ToSet(o.images)
      /\ ret'.code \in {Lost, Torn}
  BY <1>1, LossLeaves DEF Lost, Torn
<1> QED  BY <1>2, HandedOver

LEMMA RoomStep ==
  ASSUME StorageInv, up, BlankSlots(ram) # {}, [Next]_vars, ret'.code # Torn
  PROVE  FileStep
<1>0. ram \in Image /\ file \in Image /\ ram = file  BY DEF StorageInv, TypeOK
<1>1. CASE homekit_server_init \/ PowerLossInBoot
  BY <1>1 DEF homekit_server_init, PowerLossInBoot
<1>2. CASE homekit_server_reset
  <2>1. PICK o \in ResetStorage(ram) : Persist(o)  BY <1>2 DEF homekit_server_reset
  <2>2. PICK r \in ResetImages(ram) : o.images = <<r>>  BY <1>0, ResetOutcomesOK
  <2>3. file' = r  BY <2>1, <2>2 DEF Persist, After, Last
  <2> QED  BY <1>0, <2>3, ResetIsImage DEF FileStep
<1>3. CASE PowerLoss
  <2>1. ASSUME NEW d \in Device, Interrupted("setup", d, Admin, AddPairing(ram, d, Admin))
        PROVE  FileStep
    <3>1. \A o \in AddPairing(ram, d, Admin) :
             o.images \in Seq(Image) /\ About(d, o.images) /\ AboutKept(d, o.images)
      BY <1>0, PermAssumption, AddEffects, AddOutcomesOK DEF AboutKept
    <3>2. "setup" \in Requests  BY DEF Requests
    <3> QED  BY <1>0, <2>1, <3>1, <3>2, PermAssumption, LostInRequest
  <2>2. ASSUME NEW d \in Device, Interrupted("remove", d, Admin, RemovePairing(ram, d))
        PROVE  FileStep
    <3>1. \A o \in RemovePairing(ram, d) : o.images \in Seq(Image) /\ About(d, o.images)
      BY <1>0, RemoveEffects, RemoveOutcomesOK
    <3>2. "remove" \in Requests  BY DEF Requests
    <3> QED  BY <1>0, <2>2, <3>1, <3>2, PermAssumption, LostInRequest
  <2>3. ASSUME NEW d \in Device, NEW p \in Perm, Interrupted("add", d, p, AddOutcomes(d, p))
        PROVE  FileStep
    <3>1. \A o \in AddOutcomes(d, p) :
             o.images \in Seq(Image) /\ About(d, o.images) /\ AboutKept(d, o.images)
      BY <1>0, AddControllerEffects, AddOrUpdate DEF AboutKept
    <3>2. "add" \in Requests  BY DEF Requests
    <3> QED  BY <1>0, <2>3, <3>1, <3>2, LostInRequest
  <2>4. CASE Interrupted("reset", NoDevice, Admin, ResetStorage(ram))
    <3>1. PICK o \in ResetStorage(ram) : LosePower(o.images, "reset", NoDevice, Admin)
      BY <2>4 DEF Interrupted
    <3>2. PICK r \in ResetImages(ram) : o.images = <<r>>  BY <1>0, ResetOutcomesOK
    <3>3. file' \in {file} \union ToSet(o.images)
      <4>1. o.images \in Seq(Image) /\ "reset" \in Requests
            /\ NoDevice \in Device \union {NoDevice}
        BY <1>0, ResetOutcomesOK DEF Requests
      <4> QED  BY <1>0, <3>1, <4>1, PermAssumption, LossLeaves
    <3>4. file' = file \/ file' = r  BY <3>2, <3>3 DEF ToSet
    <3> QED  BY <1>0, <3>4, ResetIsImage DEF FileStep
  <2> QED  BY <1>3, <2>1, <2>2, <2>3, <2>4 DEF PowerLoss
<1>4. ASSUME NEW o, o.images \in Seq(Image), Persist(o)
      PROVE  file' \in {file} \union ToSet(o.images)
  BY <1>0, <1>4, AfterMember DEF Persist
<1>5. ASSUME NEW d \in Device, PairSetup(d) PROVE FileStep
  <2>1. PICK o \in AddPairing(ram, d, Admin) :
          Persist(o) /\ \E code : ret' = Ret("setup", d, Admin, code)
    BY <1>5, Zenon DEF PairSetup
  <2>2. ret'.dev = d  BY <2>1, RetParts
  <2>3. AboutKept(d, o.images) /\ o.images \in Seq(Image)
    BY <1>0, PermAssumption, AddEffects, AddOutcomesOK
  <2> QED  BY <1>0, <1>4, <2>1, <2>2, <2>3, HandedOver DEF AboutKept
<1>6. ASSUME NEW d \in Device, PairVerify(d) \/ SessionEnds(d) PROVE FileStep
  BY <1>6 DEF PairVerify, SessionEnds, FileStep
<1>7. ASSUME NEW d \in Device, RemoveController(d) PROVE FileStep
  <2>1. CASE ~HasPairing(ram, d)
    BY <1>7, <2>1 DEF RemoveController, FileStep
  <2>2. CASE HasPairing(ram, d)
    <3>1. PICK o \in RemovePairing(ram, d) :
            Persist(o) /\ ret' = Ret("remove", d, Admin, o.code)
      BY <1>7, <2>2 DEF RemoveController
    <3>2. ret'.dev = d /\ ret'.call = "remove"  BY <3>1, RetParts
    <3>3. About(d, o.images) /\ o.images \in Seq(Image)
      BY <1>0, RemoveEffects, RemoveOutcomesOK
    <3> QED  BY <1>0, <1>4, <3>1, <3>2, <3>3, HandedOver
  <2> QED  BY <2>1, <2>2
<1>8. ASSUME NEW d \in Device, NEW p \in Perm, AddController(d, p) PROVE FileStep
  <2>1. PICK o \in AddOutcomes(d, p) : Persist(o) /\ ret' = Ret("add", d, p, o.code)
    BY <1>8 DEF AddController
  <2>2. ret'.dev = d  BY <2>1, RetParts
  <2>3. AboutKept(d, o.images) /\ o.images \in Seq(Image)
    BY <1>0, AddControllerEffects, AddOrUpdate
  <2> QED  BY <1>0, <1>4, <2>1, <2>2, <2>3, HandedOver DEF AboutKept
<1>9. CASE UNCHANGED vars
  BY <1>9 DEF vars, FileStep
<1> QED
  BY <1>1, <1>2, <1>3, <1>5, <1>6, <1>7, <1>8, <1>9, Zenon DEF Next

(* While there is a blank slot, no request and no power loss outside the   *)
(* rewrite of the file touches the pairing of a controller it is not about.*)
THEOREM OthersUntouched == Spec => OneDeviceChanges
<1> DEFINE A == up /\ ret'.code # Torn /\ BlankSlots(ram) # {} =>
                  \A d \in Device : RecordsOf(file', d) # RecordsOf(file, d) => ret'.dev = d
<1>1. StorageInv /\ [Next]_vars => StorageInv'  BY StorageStep
<1>2. StorageInv /\ [Next]_vars => [A]_vars
  <2> SUFFICES ASSUME StorageInv, [Next]_vars, up, ret'.code # Torn,
                      BlankSlots(ram) # {}, NEW d \in Device, ret'.dev # d
               PROVE  RecordsOf(file', d) = RecordsOf(file, d)
    OBVIOUS
  <2>1. FileStep  BY RoomStep
  <2>2. CASE file'.slot = file.slot
    BY <2>2 DEF RecordsOf, SlotsOf, RecordSlots, IsRecord
  <2>3. CASE OthersStay(file', file, ret'.dev)
    <3>1. SlotsOf(file', d) = SlotsOf(file, d)
          /\ \A i \in SlotsOf(file, d) : file'.slot[i] = file.slot[i]
      BY <2>3 DEF OthersStay
    <3> QED  BY <3>1 DEF RecordsOf
  <2> QED  BY <2>1, <2>2, <2>3 DEF FileStep
<1> QED  BY StorageStart, <1>1, <1>2, PTL DEF Spec, OneDeviceChanges

(* While there is a blank slot, power lost between two rewrites of the     *)
(* file unpairs no controller but one that is being removed.               *)
THEOREM PowerLossUnpairsNone == Spec => LossKeepsPairings
<1> DEFINE A == up /\ ~up' /\ ret'.code # Torn /\ BlankSlots(ram) # {} =>
                  \A d \in Device :
                    HasPairing(file, d) /\ ~(ret'.call = "remove" /\ ret'.dev = d)
                      => HasPairing(file', d)
<1>1. StorageInv /\ [Next]_vars => StorageInv'  BY StorageStep
<1>2. StorageInv /\ [Next]_vars => [A]_vars
  <2> SUFFICES ASSUME StorageInv, [Next]_vars, up, ret'.code # Torn,
                      BlankSlots(ram) # {}, NEW d \in Device, HasPairing(file, d),
                      ~(ret'.call = "remove" /\ ret'.dev = d)
               PROVE  HasPairing(file', d)
    OBVIOUS
  <2>1. FileStep  BY RoomStep
  <2>2. CASE file'.slot = file.slot
    BY <2>2 DEF HasPairing, SlotsOf, RecordSlots, IsRecord
  <2>3. CASE OthersStay(file', file, ret'.dev) /\ ret'.dev # d
    BY <2>3 DEF OthersStay, HasPairing
  <2>4. CASE ret'.call # "remove" /\ HasPairing(file', ret'.dev) /\ ret'.dev = d
    BY <2>4
  <2> QED  BY <2>1, <2>2, <2>3, <2>4 DEF FileStep
<1> QED  BY StorageStart, <1>1, <1>2, PTL DEF Spec, LossKeepsPairings

------------------------------------------------------------------------------
(* What success means for the controller the request is about.             *)
LEMMA FewSlots ==
  ASSUME NEW m, NEW d
  PROVE  /\ Cardinality(SlotsOf(m, d)) <= 0 => SlotsOf(m, d) = {}
         /\ Cardinality(SlotsOf(m, d)) <= 1 =>
              \A i \in SlotsOf(m, d) : SlotsOf(m, d) = {i}
<1> DEFINE S == SlotsOf(m, d)
<1>1. IsFiniteSet(S) /\ Cardinality(S) \in Nat
  <2>1. S \in SUBSET Slots  BY DEF SlotsOf, RecordSlots
  <2>2. IsFiniteSet(Slots)  BY MaxPairingAssumption, FS_Interval DEF Slots
  <2> HIDE DEF S
  <2>3. IsFiniteSet(S)  BY <2>1, <2>2, FS_Subset
  <2> QED  BY <2>3, FS_CardinalityType
<1> HIDE DEF S
<1>2. ASSUME Cardinality(S) <= 0 PROVE S = {}
  <2>1. Cardinality(S) = 0  BY <1>1, <1>2
  <2> QED  BY <1>1, <2>1, FS_EmptySet
<1>3. ASSUME Cardinality(S) <= 1, NEW i \in S PROVE S = {i}
  <2>1. Cardinality(S) # 0  BY <1>1, FS_EmptySet
  <2>2. Cardinality(S) = 1  BY <1>1, <1>3, <2>1
  <2> QED  BY <1>1, <2>2, FS_Singleton
<1> QED  BY <1>2, <1>3 DEF S

LEMMA FoundAlone ==
  ASSUME NEW m, NEW d, NEW b \in Slots, SlotsOf(m, d) = {b}
  PROVE  HasPairing(m, d) /\ FindPairing(m, d) = b
<1>1. HasPairing(m, d)  BY DEF HasPairing
<1> QED  BY <1>1, FoundInTable

(* The answer is success and the image has changed.                        *)
Succeeds(d) ==
  /\ up /\ ram' # ram /\ ret'.code = 0 /\ ret'.dev = d
  /\ ret'.call \in {"setup", "add", "remove"}
  /\ BlankSlots(ram) # {}
  /\ Cardinality(SlotsOf(ram, d)) <= (IF ret'.call = "setup" THEN 0 ELSE 1)

Effective(d) ==
  \A m \in {ram', file'} :
     IF ret'.call = "remove" THEN ~HasPairing(m, d)
     ELSE HasPairing(m, d) /\ m.slot[FindPairing(m, d)].perm = ret'.perm

LEMMA SuccessStep ==
  ASSUME StorageInv, [Next]_vars, NEW d, Succeeds(d)
  PROVE  Effective(d)
<1>0. ram \in Image /\ file \in Image /\ ram = file /\ up /\ ram' # ram
      /\ BlankSlots(ram) # {} /\ ret'.dev = d /\ ret'.code = 0
  BY DEF StorageInv, TypeOK, Succeeds
<1>1. ASSUME NEW b \in Slots, NEW n, SlotsOf(n, d) = {b}, n.slot[b].perm = ret'.perm,
             ret'.call # "remove", ram' = n, file' = n
      PROVE  Effective(d)
  BY <1>1, FoundAlone DEF Effective
<1>2. ASSUME NEW c \in Device, NEW p \in Perm, p = ret'.perm,
             NEW o \in AddPairing(ram, c, p), Persist(o), ret'.dev = c, ret'.call # "remove", SlotsOf(ram, c) = {}
      PROVE  Effective(d)
  <2>1. PICK n \in Image, b \in Slots :
          /\ o = Outcome(<<n>>, 0) /\ OthersStay(n, ram, c)
          /\ b \notin SlotsOf(ram, c) /\ SlotsOf(n, c) = SlotsOf(ram, c) \union {b}
          /\ n.slot[b].perm = p
    BY <1>0, AddInRoom
  <2>2. o.images = <<n>> /\ Last(<<n>>) = n  BY <2>1, OutcomeParts DEF Last
  <2>3. ram' = n /\ file' = n  BY <1>2, <2>2 DEF Persist, After
  <2> QED  BY <1>0, <1>1, <1>2, <2>1, <2>3
<1>3. ASSUME NEW c \in Device, PairSetup(c) PROVE Effective(d)
  <2>1. PICK o \in AddPairing(ram, c, Admin) :
          Persist(o) /\ \E code : ret' = Ret("setup", c, Admin, code)
    BY <1>3, Zenon DEF PairSetup
  <2>2. ret'.dev = c /\ ret'.call = "setup" /\ ret'.perm = Admin  BY <2>1, RetParts
  <2>3. SlotsOf(ram, c) = {}  BY <1>0, <2>2, FewSlots DEF Succeeds
  <2> QED  BY <1>2, <2>1, <2>2, <2>3, PermAssumption
<1>4. ASSUME NEW c \in Device, NEW p \in Perm, AddController(c, p) PROVE Effective(d)
  <2>1. PICK o \in AddOutcomes(c, p) : Persist(o) /\ ret' = Ret("add", c, p, o.code)
    BY <1>4 DEF AddController
  <2>2. ret'.dev = c /\ ret'.call = "add" /\ ret'.perm = p  BY <2>1, RetParts
  <2>3. CASE HasPairing(ram, c)
    <3>1. o \in UpdatePairing(ram, c, p)  BY <2>3 DEF AddOutcomes
    <3>2. PICK n \in Image, y \in Image, b \in Slots :
            /\ o.images = Append(<<n>>, y) /\ o.code = 0
            /\ OthersStay(n, ram, c) /\ OthersStay(y, ram, c)
            /\ SlotsOf(n, c) = SlotsOf(ram, c) \union {b}
            /\ SlotsOf(y, c) = (SlotsOf(ram, c) \ {FindPairing(ram, c)}) \union {b}
            /\ y.slot[b].perm = p
      BY <1>0, <2>3, <3>1, UpdateInRoom
    <3>3. SlotsOf(ram, c) = {FindPairing(ram, c)}
      BY <1>0, <2>2, <2>3, FewSlots, FoundInTable DEF Succeeds
    <3>4. SlotsOf(y, c) = {b}  BY <3>2, <3>3
    <3>5. ram' = y /\ file' = y
      <4>1. <<n>> \in Seq(Image)  OBVIOUS
      <4>2. o.images # <<>> /\ Last(o.images) = y  BY <3>2, <4>1, LastAppended
      <4> QED  BY <2>1, <4>2 DEF Persist, After
    <3> QED  BY <1>0, <1>1, <2>2, <3>2, <3>4, <3>5
  <2>4. CASE ~HasPairing(ram, c) /\ o \in AddPairing(ram, c, p)
    BY <1>2, <2>1, <2>2, <2>4 DEF HasPairing
  <2>5. CASE o = Outcome(<<>>, MaxPeers)
    <3>1. o.images = <<>>  BY <2>5, OutcomeParts
    <3>2. ram' = ram  BY <2>1, <3>1 DEF Persist, After
    <3> QED  BY <1>0, <3>2
  <2> QED  BY <2>3, <2>4, <2>5 DEF AddOutcomes
<1>5. ASSUME NEW c \in Device, RemoveController(c) PROVE Effective(d)
  <2>1. CASE ~HasPairing(ram, c)
    BY <1>0, <1>5, <2>1 DEF RemoveController
  <2>2. CASE HasPairing(ram, c)
    <3>1. PICK o \in RemovePairing(ram, c) :
            Persist(o) /\ ret' = Ret("remove", c, Admin, o.code)
      BY <1>5, <2>2 DEF RemoveController
    <3>2. ret'.dev = c /\ ret'.call = "remove"  BY <3>1, RetParts
    <3>3. PICK x \in Image :
            /\ o = Outcome(<<x>>, 0)
            /\ SlotsOf(x, c) = SlotsOf(ram, c) \ {FindPairing(ram, c)}
      BY <1>0, <2>2, RemoveOfOne
    <3>4. SlotsOf(ram, c) = {FindPairing(ram, c)}
      BY <1>0, <2>2, <3>2, FewSlots, FoundInTable DEF Succeeds
    <3>5. SlotsOf(x, c) = {}  BY <3>3, <3>4
    <3>6. ram' = x /\ file' = x
      <4>1. o.images = <<x>> /\ Last(<<x>>) = x  BY <3>3, OutcomeParts DEF Last
      <4> QED  BY <3>1, <4>1 DEF Persist, After
    <3> QED  BY <1>0, <3>2, <3>5, <3>6 DEF Effective, HasPairing
  <2> QED  BY <2>1, <2>2
<1>6. CASE homekit_server_reset
  <2>1. ret'.call = "reset"  BY <1>6, RetParts DEF homekit_server_reset
  <2> QED  BY <2>1 DEF Succeeds
<1>7. ASSUME NEW images, NEW call, NEW e, NEW p, LosePower(images, call, e, p)
      PROVE  FALSE
  <2>1. ret'.code \in {Lost, Torn}  BY <1>7, RetParts DEF LosePower
  <2> QED  BY <1>0, <2>1 DEF Lost, Torn
<1>8. ASSUME PowerLoss PROVE FALSE
  BY <1>7, <1>8 DEF PowerLoss, Interrupted
<1>9. CASE homekit_server_init \/ PowerLossInBoot
  BY <1>0, <1>9 DEF homekit_server_init, PowerLossInBoot
<1>10. ASSUME NEW c \in Device, PairVerify(c) \/ SessionEnds(c) PROVE Effective(d)
  <2>1. ram' = ram  BY <1>10 DEF PairVerify, SessionEnds
  <2> QED  BY <1>0, <2>1
<1>11. CASE UNCHANGED vars
  BY <1>0, <1>11 DEF vars
<1> QED
  BY <1>3, <1>4, <1>5, <1>6, <1>8, <1>9, <1>10, <1>11, Zenon DEF Next

(* A request that reports success has the effect it reports, in RAM and in *)
(* the file, as long as its controller has one record and a slot is blank. *)
THEOREM SuccessHasEffect == Spec => SuccessIsEffective
<1> DEFINE A == LET d == ret'.dev
                IN  /\ up /\ ram' # ram /\ ret'.code = 0
                    /\ ret'.call \in {"setup", "add", "remove"}
                    /\ BlankSlots(ram) # {}
                    /\ Cardinality(SlotsOf(ram, d)) <= (IF ret'.call = "setup" THEN 0 ELSE 1)
                    => \A m \in {ram', file'} :
                         IF ret'.call = "remove" THEN ~HasPairing(m, d)
                         ELSE /\ HasPairing(m, d)
                              /\ m.slot[FindPairing(m, d)].perm = ret'.perm
<1>1. StorageInv /\ [Next]_vars => StorageInv'  BY StorageStep
<1>2. StorageInv /\ [Next]_vars => [A]_vars
  <2> SUFFICES ASSUME StorageInv, [Next]_vars PROVE A  OBVIOUS
  <2>1. \A d : Succeeds(d) => Effective(d)  BY SuccessStep
  <2> QED  BY <2>1 DEF Succeeds, Effective
<1> QED  BY StorageStart, <1>1, <1>2, PTL DEF Spec, SuccessIsEffective
=============================================================================
