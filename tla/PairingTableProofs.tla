------------------------- MODULE PairingTableProofs -------------------------
(***************************************************************************)
(* Lemmas about the pairing table: what a call of storage.c makes of an    *)
(* image is an image, and what a call leaves alone.                        *)
(***************************************************************************)
EXTENDS PairingTable, ListsProofs

Content == Record \union {Blank, Erased}

------------------------------------------------------------------------------
(* A pairing that is there is found, in the first slot that holds one.     *)
LEMMA SlotNumbers == Slots \subseteq Nat
BY MaxPairingAssumption DEF Slots

LEMMA FoundInTable ==
  ASSUME NEW m, NEW d, HasPairing(m, d)
  PROVE  /\ FindPairing(m, d) \in SlotsOf(m, d)
         /\ FindPairing(m, d) \in Slots
         /\ \A i \in SlotsOf(m, d) : FindPairing(m, d) =< i
<1>1. SlotsOf(m, d) \in SUBSET Nat /\ SlotsOf(m, d) # {} /\ SlotsOf(m, d) \subseteq Slots
  BY SlotNumbers DEF SlotsOf, RecordSlots, HasPairing
<1> QED  BY <1>1, MinIsLeast DEF FindPairing

LEMMA FirstBlank ==
  ASSUME NEW m, BlankSlots(m) # {}
  PROVE  Min(BlankSlots(m)) \in BlankSlots(m) /\ Min(BlankSlots(m)) \in Slots
<1>1. BlankSlots(m) \in SUBSET Nat  BY SlotNumbers DEF BlankSlots
<1> QED  BY <1>1, MinIsLeast DEF BlankSlots

------------------------------------------------------------------------------
(* Writing one slot.                                                       *)
LEMMA PutSlot ==
  ASSUME NEW m \in Image, NEW i \in Slots, NEW x \in Content
  PROVE  /\ Put(m, i, x) \in Image
         /\ Put(m, i, x).slot[i] = x
         /\ \A k \in Slots \ {i} : Put(m, i, x).slot[k] = m.slot[k]
         /\ Put(m, i, x).magic = m.magic
         /\ Put(m, i, x).id = m.id /\ Put(m, i, x).key = m.key
<1>1. m.slot \in [Slots -> Content]  BY DEF Image, Content
<1>2. [m.slot EXCEPT ![i] = x] \in [Slots -> Content]  BY <1>1
<1>3. Put(m, i, x).slot = [m.slot EXCEPT ![i] = x]  BY DEF Put, Image
<1>4. /\ Put(m, i, x).magic = m.magic
      /\ Put(m, i, x).id = m.id /\ Put(m, i, x).key = m.key
  BY DEF Put, Image
<1>5. Put(m, i, x) \in Image  BY <1>2 DEF Put, Image, Content
<1> QED  BY <1>1, <1>3, <1>4, <1>5

LEMMA EmptyImages == NoData \in Image /\ Formatted \in Image
<1>1. 0 \in Identity  BY MaxIdentityAssumption DEF Identity
<1>2. NoData \in Image  BY <1>1 DEF NoData, Image
<1> QED  BY <1>2 DEF Formatted, Image

LEMMA ResetIsImage ==
  ASSUME NEW m \in Image, NEW r \in ResetImages(m)
  PROVE  /\ r \in Image /\ r.slot = m.slot /\ r.id = m.id /\ r.key = m.key
         /\ InitImages(r) \in Seq(Image)
         /\ InitImages(r) = <<>> \/ InitImages(r) = <<Formatted>>
<1>1. r \in {[m EXCEPT !.magic = FALSE], m}  BY DEF ResetImages
<1>2. InitImages(r) = <<>> \/ InitImages(r) = <<Formatted>>  BY DEF InitImages
<1>3. r \in Image /\ r.slot = m.slot /\ r.id = m.id /\ r.key = m.key
  BY <1>1 DEF Image
<1>4. <<>> \in Seq(Image)  BY EmptyList
<1>5. <<Formatted>> \in Seq(Image)
  <2>1. Formatted \in Image  BY EmptyImages
  <2> QED  BY <2>1
<1> QED  BY <1>2, <1>3, <1>4, <1>5

LEMMA RewrittenIsImage ==
  ASSUME NEW m \in Image, NEW base \in Image
  PROVE  Rewritten(m, base) \in Image
<1> DEFINE n == Cardinality(RecordSlots(m))
           s == [i \in Slots |-> IF i < n THEN m.slot[i] ELSE base.slot[i]]
<1>1. m.slot \in [Slots -> Content] /\ base.slot \in [Slots -> Content]
  BY DEF Image, Content
<1>2. s \in [Slots -> Content]
  <2> HIDE DEF n
  <2> QED  BY <1>1
<1>3. Rewritten(m, base) = [m EXCEPT !.slot = s]  BY DEF Rewritten
<1> HIDE DEF s
<1> QED  BY <1>2, <1>3 DEF Image, Content

------------------------------------------------------------------------------
LEMMA LastOfSeq ==
  ASSUME NEW T, NEW s \in Seq(T), s # <<>>
  PROVE  Last(s) \in T
<1>1. Len(s) \in Nat /\ Len(s) # 0  OBVIOUS
<1>2. Len(s) \in 1..Len(s)  BY <1>1
<1> QED  BY <1>2, ElementOfSeq DEF Last

LEMMA LastAppended ==
  ASSUME NEW T, NEW s \in Seq(T), NEW x \in T
  PROVE  Last(Append(s, x)) = x /\ Append(s, x) # <<>>
<1>1. /\ Append(s, x) \in Seq(T) /\ Len(Append(s, x)) = Len(s) + 1
      /\ Append(s, x)[Len(s) + 1] = x /\ Len(s) \in Nat
  OBVIOUS
<1> QED  BY <1>1 DEF Last

LEMMA AfterImages ==
  ASSUME NEW m \in Image, NEW s \in Seq(Image)
  PROVE  After(m, s) \in Image
BY LastOfSeq DEF After

LEMMA OutcomeParts ==
  \A images, code : /\ Outcome(images, code).images = images
                    /\ Outcome(images, code).code = code
BY DEF Outcome

(* The calls hand images over and end in one of three ways.                *)
LEMMA CompactOutcomes ==
  ASSUME NEW m \in Image, NEW o \in CompactData(m)
  PROVE  /\ o.images \in Seq(Image) /\ o.code \in {0, Died}
         /\ o = Outcome(o.images, o.code)
<1>1. CASE o \in {Outcome(<<>>, 0), Outcome(<<>>, Died)}
  <2>1. <<>> \in Seq(Image)  BY EmptyList
  <2> QED  BY <1>1, <2>1, OutcomeParts
<1>2. CASE \E r \in ResetImages(m) :
             LET cleared == <<r>> \o InitImages(r)
             IN  o = Outcome(Append(cleared, Rewritten(m, Last(cleared))), 0)
  <2>1. PICK r \in ResetImages(m) :
          LET cleared == <<r>> \o InitImages(r)
          IN  o = Outcome(Append(cleared, Rewritten(m, Last(cleared))), 0)
    BY <1>2
  <2> DEFINE cleared == <<r>> \o InitImages(r)
  <2>2. cleared \in Seq(Image) /\ Last(cleared) \in Image
    <3>1. cleared \in Seq(Image) /\ Len(cleared) = Len(InitImages(r)) + 1
      BY ResetIsImage, Prepended
    <3> HIDE DEF cleared
    <3>2. Len(cleared) \in Nat /\ Len(cleared) # 0
      BY <3>1, ResetIsImage, LenProperties
    <3>3. cleared # <<>>  BY <3>2, EmptyList
    <3> QED  BY <3>1, <3>3, LastOfSeq
  <2>3. o = Outcome(Append(cleared, Rewritten(m, Last(cleared))), 0)  BY <2>1
  <2> HIDE DEF cleared
  <2>4. Append(cleared, Rewritten(m, Last(cleared))) \in Seq(Image)
    BY <2>2, RewrittenIsImage, Appended
  <2> DEFINE images == Append(cleared, Rewritten(m, Last(cleared)))
  <2> HIDE DEF images
  <2>5. o = [images |-> images, code |-> 0] /\ images \in Seq(Image)
    BY <2>3, <2>4 DEF images, Outcome
  <2> QED  BY <2>5 DEF Outcome
<1> QED  BY <1>1, <1>2 DEF CompactData

LEMMA AddOutcomesOK ==
  ASSUME NEW m \in Image, NEW d \in Device, NEW p \in Perm, NEW o \in AddPairing(m, d, p)
  PROVE  /\ o.images \in Seq(Image) /\ o.code \in {0, -2, Died}
         /\ o.code = 0 => o.images # <<>>
         /\ o = Outcome(o.images, o.code)
<1> DEFINE prepared == IF BlankSlots(m) # {} THEN {Outcome(<<>>, 0)} ELSE CompactData(m)
           new == [dev |-> d, perm |-> p]
<1>1. PICK q \in prepared :
        LET n == After(m, q.images)
        IN  o = IF q.code = Died THEN q
                ELSE IF BlankSlots(n) = {} THEN [q EXCEPT !.code = -2]
                ELSE Outcome(Append(q.images, Put(n, Min(BlankSlots(n)), new)), 0)
  BY DEF AddPairing
<1>2. q.images \in Seq(Image) /\ q.code \in {0, Died} /\ q = Outcome(q.images, q.code)
  <2>1. CASE q = Outcome(<<>>, 0)  BY <2>1, OutcomeParts, EmptyList
  <2>2. CASE q \in CompactData(m)  BY <2>2, CompactOutcomes
  <2> QED  BY <2>1, <2>2
<1> DEFINE n == After(m, q.images)
<1>3. n \in Image  BY <1>2, AfterImages
<1>4. CASE o = q /\ q.code = Died  BY <1>2, <1>4 DEF Died
<1>5. CASE o = [q EXCEPT !.code = -2]
  <2>1. o = Outcome(q.images, -2)  BY <1>2, <1>5 DEF Outcome
  <2> QED  BY <1>2, <2>1, OutcomeParts
<1>6. CASE /\ BlankSlots(n) # {}
           /\ o = Outcome(Append(q.images, Put(n, Min(BlankSlots(n)), new)), 0)
  <2> HIDE DEF n
  <2>1. new \in Content /\ Min(BlankSlots(n)) \in Slots
    BY <1>6, FirstBlank DEF Content, Record
  <2>2. Put(n, Min(BlankSlots(n)), new) \in Image
    <3> HIDE DEF new
    <3> QED  BY <1>3, <2>1, PutSlot
  <2> DEFINE images == Append(q.images, Put(n, Min(BlankSlots(n)), new))
  <2>3. images \in Seq(Image) /\ images # <<>>
    <3> HIDE DEF new
    <3> QED  BY <1>2, <2>2, Appended, LastAppended
  <2> HIDE DEF images
  <2>4. o = Outcome(images, 0)  BY <1>6 DEF images
  <2> QED  BY <2>3, <2>4, OutcomeParts
<1> QED  BY <1>1, <1>4, <1>5, <1>6

LEMMA UpdateOutcomesOK ==
  ASSUME NEW m \in Image, NEW d \in Device, NEW p \in Perm, NEW o \in UpdatePairing(m, d, p)
  PROVE  /\ o.images \in Seq(Image) /\ o.code \in {0, -1, -2, Died}
         /\ o = Outcome(o.images, o.code)
<1>1. CASE ~HasPairing(m, d)
  <2>1. o = Outcome(<<>>, -1)  BY <1>1 DEF UpdatePairing
  <2> QED  BY <2>1, OutcomeParts, EmptyList
<1>2. CASE HasPairing(m, d)
  <2> DEFINE i == FindPairing(m, d)
  <2>1. PICK q \in AddPairing(m, d, p) :
          o = IF q.code = 0 THEN Outcome(Append(q.images, Put(Last(q.images), i, Erased)), 0)
              ELSE IF q.code = Died THEN q ELSE [q EXCEPT !.code = -2]
    BY <1>2 DEF UpdatePairing
  <2>2. /\ q.images \in Seq(Image) /\ q.code \in {0, -2, Died}
        /\ q.code = 0 => q.images # <<>>
        /\ q = Outcome(q.images, q.code)
    BY AddOutcomesOK
  <2>3. CASE q.code = 0
    <3>1. Last(q.images) \in Image  BY <2>2, <2>3, LastOfSeq
    <3>2. i \in Slots /\ Erased \in Content  BY <1>2, FoundInTable DEF Content
    <3>3. Put(Last(q.images), i, Erased) \in Image
      <4> HIDE DEF i
      <4> QED  BY <3>1, <3>2, PutSlot
    <3> DEFINE images == Append(q.images, Put(Last(q.images), i, Erased))
    <3>4. images \in Seq(Image)
      <4> HIDE DEF i
      <4> QED  BY <2>2, <3>3, Appended
    <3> HIDE DEF images
    <3>5. o = Outcome(images, 0)  BY <2>1, <2>3 DEF images
    <3> QED  BY <3>4, <3>5, OutcomeParts
  <2>4. CASE q.code # 0
    <3>1. o = Outcome(q.images, q.code) \/ o = Outcome(q.images, -2)
      BY <2>1, <2>2, <2>4 DEF Outcome
    <3> QED  BY <2>2, <3>1, OutcomeParts
  <2> QED  BY <2>3, <2>4
<1> QED  BY <1>1, <1>2

(* While some slot is blank nothing is compacted: the pairing is written   *)
(* into the first of them.                                                 *)
LEMMA AddWithRoom ==
  ASSUME NEW m, NEW d, NEW p, BlankSlots(m) # {}
  PROVE  AddPairing(m, d, p)
           = {Outcome(<<Put(m, Min(BlankSlots(m)), [dev |-> d, perm |-> p])>>, 0)}
<1> DEFINE x == Put(m, Min(BlankSlots(m)), [dev |-> d, perm |-> p])
           Store(o) ==
             LET n == After(m, o.images)
             IN  IF o.code = Died THEN o
                 ELSE IF BlankSlots(n) = {} THEN [o EXCEPT !.code = -2]
                 ELSE Outcome(Append(o.images,
                                Put(n, Min(BlankSlots(n)), [dev |-> d, perm |-> p])), 0)
<1>1. After(m, Outcome(<<>>, 0).images) = m  BY OutcomeParts DEF After
<1>2. Store(Outcome(<<>>, 0)) = Outcome(<<x>>, 0)
  <2>1. Outcome(<<>>, 0).code # Died  BY OutcomeParts DEF Died
  <2>2. Append(<<>>, x) = <<x>>  OBVIOUS
  <2>3. Outcome(<<>>, 0).images = <<>>  BY OutcomeParts
  <2> HIDE DEF x
  <2>4. Store(Outcome(<<>>, 0)) = Outcome(Append(<<>>, x), 0)
    BY <1>1, <2>1, <2>3, Zenon DEF x
  <2> QED  BY <2>2, <2>4
<1> QED  BY <1>2, Zenon DEF AddPairing

------------------------------------------------------------------------------
(* Records that a call does not write over stay.                           *)
LEMMA RecordStays ==
  ASSUME NEW m \in Image, NEW i \in Slots, NEW x \in Content, NEW d,
         NEW k \in SlotsOf(m, d), k # i
  PROVE  k \in SlotsOf(Put(m, i, x), d)
<1>1. k \in Slots  BY DEF SlotsOf, RecordSlots
<1>2. Put(m, i, x).slot[k] = m.slot[k]  BY <1>1, PutSlot
<1> QED  BY <1>1, <1>2 DEF SlotsOf, RecordSlots, IsRecord

LEMMA RecordWritten ==
  ASSUME NEW m \in Image, NEW i \in Slots, NEW d \in Device, NEW p \in Perm
  PROVE  i \in SlotsOf(Put(m, i, [dev |-> d, perm |-> p]), d)
<1> DEFINE x == [dev |-> d, perm |-> p]
<1>1. x \in Content /\ x \in Record /\ x.dev = d  BY DEF Content, Record
<1> HIDE DEF x
<1>2. Put(m, i, x).slot[i] = x  BY <1>1, PutSlot
<1>3. i \in SlotsOf(Put(m, i, x), d)  BY <1>1, <1>2 DEF SlotsOf, RecordSlots, IsRecord
<1> QED  BY <1>3 DEF x

LEMMA BlankIsNoRecord ==
  ASSUME NEW m, NEW d, NEW i \in BlankSlots(m)
  PROVE  i \notin SlotsOf(m, d)
BY SlotAssumption DEF BlankSlots, SlotsOf, RecordSlots, IsRecord, Record

LEMMA ErasedIsNoRecord ==
  ASSUME NEW m \in Image, NEW i \in Slots, NEW d
  PROVE  i \notin SlotsOf(Put(m, i, Erased), d)
<1>1. Put(m, i, Erased).slot[i] = Erased  BY PutSlot DEF Content
<1> QED  BY <1>1, SlotAssumption DEF SlotsOf, RecordSlots, IsRecord, Record

(* With a blank slot left, adding a pairing and giving a pairing other     *)
(* permissions take the pairing from no controller.                        *)
LEMMA AddKeepsPairings ==
  ASSUME NEW m \in Image, BlankSlots(m) # {}, NEW d \in Device, NEW p \in Perm,
         NEW o \in AddPairing(m, d, p), NEW e, HasPairing(m, e)
  PROVE  HasPairing(Last(o.images), e) /\ HasPairing(After(m, o.images), e)
<1> DEFINE b == Min(BlankSlots(m))
           x == [dev |-> d, perm |-> p]
<1>1. b \in BlankSlots(m) /\ b \in Slots  BY FirstBlank
<1>2. o = Outcome(<<Put(m, b, x)>>, 0)  BY AddWithRoom
<1>3. x \in Content  BY DEF Content, Record
<1> HIDE DEF b, x
<1>4. PICK k : k \in SlotsOf(m, e)  BY DEF HasPairing
<1>5. k \in SlotsOf(Put(m, b, x), e)  BY <1>1, <1>3, <1>4, BlankIsNoRecord, RecordStays
<1>6. Last(o.images) = Put(m, b, x) /\ After(m, o.images) = Put(m, b, x)
  <2>1. o.images = <<Put(m, b, x)>>  BY <1>2, OutcomeParts
  <2> QED  BY <2>1 DEF Last, After
<1> QED  BY <1>5, <1>6 DEF HasPairing

LEMMA UpdateKeepsPairings ==
  ASSUME NEW m \in Image, BlankSlots(m) # {}, NEW d \in Device, NEW p \in Perm,
         NEW o \in UpdatePairing(m, d, p), NEW e, HasPairing(m, e)
  PROVE  HasPairing(After(m, o.images), e)
<1>1. CASE ~HasPairing(m, d)
  <2>1. o = Outcome(<<>>, -1)  BY <1>1 DEF UpdatePairing
  <2>2. After(m, o.images) = m  BY <2>1, OutcomeParts DEF After
  <2> QED  BY <2>2
<1>2. CASE HasPairing(m, d)
  <2> DEFINE b == Min(BlankSlots(m))
             x == [dev |-> d, perm |-> p]
             n == Put(m, b, x)
             i == FindPairing(m, d)
  <2>1. b \in BlankSlots(m) /\ b \in Slots  BY FirstBlank
  <2>2. AddPairing(m, d, p) = {Outcome(<<n>>, 0)}  BY AddWithRoom
  <2>3. i \in SlotsOf(m, d) /\ i \in Slots  BY <1>2, FoundInTable
  <2>4. x \in Content /\ Erased \in Content  BY DEF Content, Record
  <2>5. n \in Image /\ b \in SlotsOf(n, d)
    <3>1. b \in SlotsOf(n, d)
      <4> HIDE DEF b
      <4> QED  BY <2>1, RecordWritten
    <3> HIDE DEF b, x
    <3> QED  BY <2>1, <2>4, <3>1, PutSlot
  <2>6. b # i  BY <2>1, <2>3, BlankIsNoRecord
  <2> HIDE DEF b, x, n, i
  <2>7. After(m, o.images) = Put(n, i, Erased)
    <3>1. o = Outcome(Append(<<n>>, Put(Last(<<n>>), i, Erased)), 0)
      <4>1. Outcome(<<n>>, 0).code = 0 /\ Outcome(<<n>>, 0).images = <<n>>
        BY OutcomeParts
      <4> QED  BY <1>2, <2>2, <4>1 DEF UpdatePairing, i
    <3>2. Last(<<n>>) = n  BY DEF Last
    <3> DEFINE y == Put(n, i, Erased)
    <3>3. o.images = Append(<<n>>, y)  BY <3>1, <3>2, OutcomeParts
    <3> HIDE DEF y
    <3>4. <<n>> \in Seq({n, y})  OBVIOUS
    <3>5. Last(Append(<<n>>, y)) = y /\ Append(<<n>>, y) # <<>>
      BY <3>4, LastAppended
    <3> QED  BY <3>3, <3>5 DEF After, y
  <2>8. CASE e = d
    <3>1. b \in SlotsOf(Put(n, i, Erased), e)
      BY <2>3, <2>4, <2>5, <2>6, <2>8, RecordStays
    <3> QED  BY <2>7, <3>1 DEF HasPairing
  <2>9. CASE e # d
    <3>1. PICK k : k \in SlotsOf(m, e)  BY DEF HasPairing
    <3>2. k # b  BY <2>1, <3>1, BlankIsNoRecord
    <3>3. k # i  BY <2>3, <2>9, <3>1 DEF SlotsOf
    <3>4. k \in SlotsOf(n, e)
      <4>1. k \in SlotsOf(Put(m, b, x), e)  BY <2>1, <2>4, <3>1, <3>2, RecordStays
      <4> QED  BY <4>1 DEF n
    <3>5. k \in SlotsOf(Put(n, i, Erased), e)
      BY <2>3, <2>4, <2>5, <3>3, <3>4, RecordStays
    <3> QED  BY <2>7, <3>5 DEF HasPairing
  <2> QED  BY <2>8, <2>9
<1> QED  BY <1>1, <1>2
=============================================================================
