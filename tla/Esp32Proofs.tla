---------------------------- MODULE Esp32Proofs ----------------------------
(***************************************************************************)
(* Proofs about the ESP32 server.  Its connections, for every number of    *)
(* clients, of cached contexts, of controllers and of slots: the list, the *)
(* count and the contexts agree, and who is in the middle of a pair setup  *)
(* owns the pairing context.  Its events, for every set of clients and     *)
(* every length of the queues: closed clients hear nothing, and which      *)
(* subscribers know the value, whatever the sketch's task and the server's *)
(* do in between.                                                          *)
(***************************************************************************)
EXTENDS Esp32Sessions, Esp32Events, PairingTableProofs

ContextRecord ==
  [used : BOOLEAN, dev : Device \union {None}, gone : BOOLEAN, exchange : Exchange,
   verify : BOOLEAN, encrypted : BOOLEAN, pairing_id : Int, admin : BOOLEAN,
   disconnect : BOOLEAN]

ContextsOK == ctx \in [Context -> ContextRecord]

(* Nobody is left to be served outside of the serving part of a pass.      *)
ListInv ==
  /\ clients \in Seq(Context) /\ todo \in Seq(Context)
  /\ phase = "serve" \/ todo = <<>>
  /\ Esp32ListOK

Inv == ContextsOK /\ ListInv /\ SetupOwned

------------------------------------------------------------------------------
LEMMA UnusedRecord == Unused \in ContextRecord
BY DEF Unused, ContextRecord, Exchange

LEMMA FreedRecord ==
  ASSUME NEW r \in ContextRecord
  PROVE  /\ Freed(r) \in ContextRecord /\ Freed(Freed(r)) = Freed(r)
         /\ ~Freed(r).used /\ Freed(r).exchange = "none"
<1>1. Freed(r) \in ContextRecord  BY UnusedRecord DEF Freed, ContextRecord
<1>2. Freed(r).admin = r.admin /\ ~Freed(r).used /\ Freed(r).exchange = "none"
  BY DEF Freed, Unused
<1>3. Freed(Freed(r)) = Freed(r)  BY <1>2 DEF Freed
<1> QED  BY <1>1, <1>2, <1>3

LEMMA InitInv == Esp32Init => Inv
<1> SUFFICES ASSUME Esp32Init PROVE Inv  OBVIOUS
<1> USE DEF Esp32Init
<1>1. ContextsOK  BY UnusedRecord DEF ContextsOK
<1>2. \A c \in Context : ctx[c] = Unused  OBVIOUS
<1>3. ~Unused.used /\ Unused.exchange = "none" /\ Unused = [Unused EXCEPT !.admin = Unused.admin]
  BY DEF Unused
<1>4. Linked = {}  BY EmptyList DEF Linked
<1>5. ListInv  BY <1>2, <1>3, <1>4, EmptyList DEF ListInv, Esp32ListOK, Freed
<1>6. SetupOwned  BY <1>2, <1>3 DEF SetupOwned
<1> QED  BY <1>1, <1>5, <1>6 DEF Inv

------------------------------------------------------------------------------
(* Closing unlinks, frees and counts down every marked client.             *)
LEMMA CloseKeeps ==
  ASSUME Inv, homekit_server_close_clients
  PROVE  Inv'
<1> USE DEF homekit_server_close_clients
<1>0. /\ ctx \in [Context -> ContextRecord] /\ clients \in Seq(Context)
      /\ IsInjective(clients) /\ nfds = 1 + Len(clients) /\ todo = <<>>
      /\ Linked = {c \in Context : ctx[c].used}
  BY DEF Inv, ContextsOK, ListInv, Esp32ListOK
<1>1. Closing \subseteq Linked  BY DEF Closing
<1>2. ASSUME NEW c \in Context
      PROVE  ctx'[c] = IF c \in Closing THEN Freed(ctx[c]) ELSE ctx[c]
  OBVIOUS
<1>3. ContextsOK'
  <2>1. \A c \in Context : ctx'[c] \in ContextRecord  BY <1>0, <1>2, FreedRecord
  <2>2. ctx' = [c \in Context |-> ctx'[c]]  OBVIOUS
  <2> QED  BY <2>1, <2>2 DEF ContextsOK
<1>4. /\ clients' \in Seq(Context) /\ IsInjective(clients') /\ Linked' = Linked \ Closing
  <2>1. clients' = Without(clients, Closing)  OBVIOUS
  <2> QED  BY <1>0, <2>1, WithoutFacts DEF Linked
<1>5. nfds' = 1 + Len(clients')
  <2>1. IsFiniteSet(Linked) /\ Cardinality(Linked) = Len(clients)
    BY <1>0, InjectiveLength DEF Linked
  <2>2. Cardinality(Linked') = Len(clients')
    BY <1>4, InjectiveLength DEF Linked
  <2>3. /\ Cardinality(Linked \ Closing) = Cardinality(Linked) - Cardinality(Linked \cap Closing)
        /\ Linked \cap Closing = Closing
    BY <1>1, <2>1, FS_Difference
  <2>4. nfds' = nfds - Cardinality(Closing)  OBVIOUS
  <2>5. Len(clients) \in Nat /\ Len(clients') \in Nat  BY <1>0, <1>4, LenProperties
  <2>6. Cardinality(Closing) \in Nat  BY <1>1, <2>1, FS_Subset, FS_CardinalityType
  <2>7. nfds = 1 + Len(clients)  BY <1>0
  <2> HIDE DEF homekit_server_close_clients
  <2>8. Len(clients') = Len(clients) - Cardinality(Closing)
    BY <1>4, <2>1, <2>2, <2>3
  <2> QED  BY <2>4, <2>5, <2>6, <2>7, <2>8
<1>6. Linked' = {c \in Context : ctx'[c].used}
  BY <1>0, <1>1, <1>2, <1>4, FreedRecord
<1>7. \A c \in Context \ Linked' : ctx'[c] = Freed(ctx'[c])
  <2> TAKE c \in Context \ Linked'
  <2>1. CASE c \in Closing  BY <1>0, <1>2, <2>1, FreedRecord
  <2>2. CASE c \notin Linked
    <3>1. ctx[c] = Freed(ctx[c])  BY <2>2 DEF Inv, ListInv, Esp32ListOK
    <3> QED  BY <1>1, <1>2, <2>2, <3>1
  <2> QED  BY <1>4, <2>1, <2>2
<1>8. \A c \in Linked' : ~ctx'[c].disconnect
  BY <1>0, <1>2, <1>4 DEF Closing
<1>9. todo' = <<>>  BY <1>0
<1>10. ListInv'
  BY <1>4, <1>5, <1>6, <1>7, <1>8, <1>9, EmptyList DEF ListInv, Esp32ListOK
<1>11. SetupOwned'
  <2>1. owner' = IF owner \in Closing THEN None ELSE owner  BY DEF ReleaseSetup
  <2>2. ASSUME NEW c \in Context, ctx'[c].exchange # "none" PROVE owner' = c
    <3>1. c \notin Closing /\ ctx[c].exchange # "none"
      BY <1>0, <1>2, <2>2, FreedRecord
    <3> QED  BY <2>1, <3>1 DEF Inv, SetupOwned
  <2>3. owner' # None => owner' \in Linked'  BY <1>4, <2>1 DEF Inv, SetupOwned
  <2>4. paired' => owner' = None  BY <2>1 DEF Inv, SetupOwned
  <2> QED  BY <2>2, <2>3, <2>4 DEF SetupOwned
<1> QED  BY <1>3, <1>10, <1>11 DEF Inv

(* A client that is let in finds a context that is not in the list.        *)
LEMMA RoomForClient ==
  ASSUME Inv, ~NoRoom
  PROVE  FreeContext \in Context /\ FreeContext \notin Linked
<1>1. IsFiniteSet(Context) /\ Cardinality(Context) = MaxClients
  <2>1. MaxClients \in Int /\ 1 \in Int /\ MaxClients - 1 + 1 = MaxClients /\ ~(1 > MaxClients)
    BY Esp32Assumption
  <2> QED  BY <2>1, FS_Interval DEF Context
<1>2. /\ Linked \subseteq Context /\ Cardinality(Linked) = Len(clients)
      /\ Len(clients) \in Nat /\ nfds = 1 + Len(clients)
      /\ Linked = {c \in Context : ctx[c].used}
  BY InjectiveLength, LenProperties DEF Inv, ListInv, Esp32ListOK, Linked
<1>3. Linked # Context
  <2>1. ~(nfds > MaxClients)  BY DEF NoRoom
  <2>2. Len(clients) # MaxClients  BY <1>2, <2>1, Esp32Assumption
  <2> QED  BY <1>1, <1>2, <2>2
<1> DEFINE free == {c \in Context : ~ctx[c].used}
<1>4. free \in SUBSET Nat /\ free # {}  BY <1>2, <1>3, Esp32Assumption DEF Context
<1>5. Min(free) \in free
  <2> HIDE DEF free
  <2> QED  BY <1>4, MinIsLeast
<1> QED  BY <1>2, <1>5 DEF FreeContext

LEMMA AcceptKeeps ==
  ASSUME Inv, NEW d \in Device, homekit_server_accept_client(d)
  PROVE  Inv'
<1> DEFINE new == FreeContext
<1>0. /\ ctx \in [Context -> ContextRecord] /\ clients \in Seq(Context)
      /\ IsInjective(clients) /\ nfds = 1 + Len(clients) /\ Len(clients) \in Nat
      /\ Linked = {c \in Context : ctx[c].used} /\ Linked = ToSet(clients)
  BY LenProperties DEF Inv, ContextsOK, ListInv, Esp32ListOK, Linked
<1>1. new \in Context /\ new \notin Linked
  BY RoomForClient DEF homekit_server_accept_client
<1>2. PICK admin \in Permissions(new) :
        ctx' = [ctx EXCEPT ![new] = [Unused EXCEPT !.used = TRUE, !.dev = d, !.admin = admin]]
  BY DEF homekit_server_accept_client
<1>3. /\ clients' = <<new>> \o clients /\ nfds' = nfds + 1
      /\ phase' = "serve" /\ todo' = clients' /\ UNCHANGED <<owner, paired>>
  BY DEF homekit_server_accept_client, StartPass, server32
<1> HIDE DEF new
<1>4. admin \in BOOLEAN
  BY <1>0, <1>1, <1>2 DEF Permissions, ContextRecord
<1> DEFINE r == [Unused EXCEPT !.used = TRUE, !.dev = d, !.admin = admin]
<1>5. r \in ContextRecord /\ r.used /\ r.exchange = "none"
  BY <1>4, UnusedRecord DEF Unused, ContextRecord
<1>6. ctx' = [ctx EXCEPT ![new] = r]  BY <1>2
<1> HIDE DEF r
<1>7. /\ ctx' \in [Context -> ContextRecord] /\ ctx'[new] = r
      /\ \A c \in Context \ {new} : ctx'[c] = ctx[c]
  BY <1>0, <1>1, <1>5, <1>6
<1>8. /\ clients' \in Seq(Context) /\ Len(clients') = Len(clients) + 1
      /\ ToSet(clients') = Linked \union {new} /\ IsInjective(clients')
  BY <1>0, <1>1, <1>3, Prepended
<1>9. Linked' = Linked \union {new}  BY <1>8 DEF Linked
<1>10. Linked' = {c \in Context : ctx'[c].used}
  BY <1>0, <1>1, <1>5, <1>7, <1>9
<1>11. \A c \in Context \ Linked' : ctx'[c] = Freed(ctx'[c])
  BY <1>7, <1>9 DEF Inv, ListInv, Esp32ListOK
<1>12. ListInv'
  BY <1>0, <1>3, <1>8, <1>9, <1>10, <1>11 DEF ListInv, Esp32ListOK
<1>13. SetupOwned'
  BY <1>1, <1>3, <1>5, <1>7, <1>9 DEF Inv, SetupOwned
<1> QED  BY <1>7, <1>12, <1>13 DEF Inv, ContextsOK

------------------------------------------------------------------------------
(* A step that leaves the list, the count and the use of contexts alone.   *)
LEMMA SameList ==
  ASSUME Inv, ctx' \in [Context -> ContextRecord],
         \A c \in Context : ctx'[c].used = ctx[c].used,
         \A c \in Context \ Linked : ctx'[c] = ctx[c],
         UNCHANGED <<clients, nfds>>,
         todo' \in Seq(Context), ToSet(todo') \subseteq Linked,
         phase' = "serve" \/ todo' = <<>>,
         phase' = "accept" =>
           phase = "accept" /\ \A c \in Linked : ctx'[c].disconnect = ctx[c].disconnect
  PROVE  ContextsOK' /\ ListInv'
<1>1. Linked' = Linked  BY DEF Linked
<1>2. \A c \in Context \ Linked' : ctx'[c] = Freed(ctx'[c])
  BY <1>1 DEF Inv, ListInv, Esp32ListOK
<1>3. Linked' = {c \in Context : ctx'[c].used}
  BY <1>1 DEF Inv, ListInv, Esp32ListOK
<1>4. phase' = "accept" => \A c \in Linked' : ~ctx'[c].disconnect
  <2> SUFFICES ASSUME phase' = "accept", NEW c \in Linked PROVE ~ctx'[c].disconnect
    BY <1>1
  <2> QED  BY DEF Inv, ListInv, Esp32ListOK
<1> QED  BY <1>1, <1>2, <1>3, <1>4 DEF Inv, ContextsOK, ListInv, Esp32ListOK

(* Who serves is the next of those that are left, and is in the list.      *)
LEMMA ServedInOrder ==
  ASSUME Inv, NEW c \in Context, Serve(c)
  PROVE  /\ phase = "serve" /\ phase' = "serve" /\ c \in Linked
         /\ todo' \in Seq(Context) /\ ToSet(todo') \subseteq Linked
         /\ UNCHANGED <<clients, nfds>>
<1>1. Serving(c)
  BY DEF Serve, Idle, Disconnected, PairSetupM1, PairSetupM3, PairSetupM5, PairVerifyV1,
         PairVerifyV3, PairingsRemove, PairingsAdd, AsAdmin, Requesting
<1>2. todo # <<>> /\ c = Head(todo) /\ todo' = Tail(todo)  BY <1>1 DEF Serving
<1>3. todo \in Seq(Context) /\ ToSet(todo) \subseteq Linked
  BY DEF Inv, ListInv, Esp32ListOK
<1> QED  BY <1>1, <1>2, <1>3, TailMembers DEF Serving

(* What a request, or its controller's going away, makes of a context.     *)
LEMMA OneContext ==
  ASSUME Inv, NEW c \in Context,
         \/ Idle(c) \/ Disconnected(c) \/ PairSetupM1(c) \/ PairSetupM3(c) \/ PairSetupM5(c)
         \/ PairVerifyV1(c) \/ PairVerifyV3(c) \/ Leave(c)
         \/ \E d \in Device, p \in Perm : PairingsAdd(c, d, p)
  PROVE  /\ ctx' \in [Context -> ContextRecord]
         /\ \A e \in Context \ {c} : ctx'[e] = ctx[e]
         /\ ctx'[c].used = ctx[c].used
         /\ Leave(c) => ctx'[c].disconnect = ctx[c].disconnect
         /\ ~(PairSetupM1(c) \/ PairSetupM3(c) \/ PairSetupM5(c))
              => ctx'[c].exchange = ctx[c].exchange
<1>0. ctx \in [Context -> ContextRecord] /\ ctx[c] \in ContextRecord
  BY DEF Inv, ContextsOK
<1> USE DEF ContextRecord
<1>1. CASE Idle(c) \/ \E d \in Device, p \in Perm : PairingsAdd(c, d, p)
  <2>1. ctx' = ctx  BY <1>1 DEF Idle, PairingsAdd
  <2> QED  BY <1>0, <2>1
<1>2. CASE Disconnected(c)
  <2>1. ctx' = [ctx EXCEPT ![c].disconnect = TRUE] /\ phase = "serve" /\ todo' = Tail(todo)
    BY <1>2 DEF Disconnected, Serving
  <2>2. todo # Tail(todo)
    <3>1. todo \in Seq(Context) /\ todo # <<>>
      BY <1>2 DEF Disconnected, Serving, Inv, ListInv
    <3>2. Len(todo) \in Nat /\ Len(Tail(todo)) = Len(todo) - 1
      BY <3>1, HeadTailProperties, LenProperties
    <3> QED  BY <3>2
  <2>3. ~Leave(c)  BY <2>1, <2>2 DEF Leave
  <2> QED  BY <1>0, <2>1, <2>3
<1>3. CASE Leave(c)  BY <1>0, <1>3 DEF Leave
<1>4. CASE PairSetupM1(c) \/ PairSetupM3(c) \/ PairSetupM5(c)
  <2>1. PICK x \in Exchange : ctx' = [ctx EXCEPT ![c].exchange = x]
    <3> USE DEF Exchange
    <3>1. CASE PairSetupM1(c)  BY <3>1 DEF PairSetupM1
    <3>2. CASE PairSetupM3(c)  BY <3>2 DEF PairSetupM3
    <3>3. CASE PairSetupM5(c)  BY <3>3 DEF PairSetupM5
    <3> QED  BY <1>4, <3>1, <3>2, <3>3
  <2> QED  BY <1>0, <1>4, <2>1
<1>5. CASE PairVerifyV1(c)
  <2>1. PICK ok \in BOOLEAN : ctx' = [ctx EXCEPT ![c].verify = ok \/ @]
    BY <1>5 DEF PairVerifyV1
  <2>2. (ok \/ ctx[c].verify) \in BOOLEAN  BY Zenon
  <2>3. PICK v \in BOOLEAN : ctx' = [ctx EXCEPT ![c].verify = v]
    BY <2>1, <2>2, Zenon
  <2> HIDE <2>1
  <2> DEFINE r == [ctx[c] EXCEPT !.verify = v]
  <2>4. /\ r \in ContextRecord /\ r.used = ctx[c].used
        /\ r.disconnect = ctx[c].disconnect /\ r.exchange = ctx[c].exchange
    BY <1>0
  <2>5. ctx' = [ctx EXCEPT ![c] = r]  BY <2>3
  <2> HIDE DEF r
  <2> QED  BY <1>0, <2>4, <2>5
<1>6. CASE PairVerifyV3(c)
  <2>1. HasPairing(ram, ctx[c].dev) => FindPairing(ram, ctx[c].dev) \in Slots
    BY FoundInTable
  <2> DEFINE i == FindPairing(ram, ctx[c].dev)
             a == ram.slot[i].perm = Admin
  <2>2. \/ ctx' = [ctx EXCEPT ![c].verify = FALSE]
        \/ /\ HasPairing(ram, ctx[c].dev)
           /\ ctx' = [ctx EXCEPT ![c].verify = FALSE, ![c].encrypted = TRUE,
                                 ![c].pairing_id = i, ![c].admin = a]
    BY <1>6, Zenon DEF PairVerifyV3
  <2>3. CASE ctx' = [ctx EXCEPT ![c].verify = FALSE]  BY <1>0, <2>3
  <2>4. CASE /\ HasPairing(ram, ctx[c].dev)
             /\ ctx' = [ctx EXCEPT ![c].verify = FALSE, ![c].encrypted = TRUE,
                                   ![c].pairing_id = i, ![c].admin = a]
    <3>1. i \in Int  BY <2>1, <2>4, SlotNumbers
    <3>2. a \in BOOLEAN  OBVIOUS
    <3> HIDE DEF i, a
    <3> QED  BY <1>0, <2>4, <3>1, <3>2
  <2> QED  BY <2>2, <2>3, <2>4
<1> QED  BY <1>1, <1>2, <1>3, <1>4, <1>5, <1>6

(* A removal only marks connected clients, and may unpair the accessory.   *)
LEMMA RemovalMarks ==
  ASSUME Inv, NEW c \in Context, NEW d \in Device, PairingsRemove(c, d)
  PROVE  /\ ctx' \in [Context -> ContextRecord]
         /\ \A e \in Context : /\ ctx'[e].used = ctx[e].used
                               /\ ctx'[e].exchange = ctx[e].exchange
         /\ \A e \in Context \ Linked : ctx'[e] = ctx[e]
         /\ owner' = owner /\ (paired' => paired)
<1>1. PICK id \in IdAfterFree(FindPairing(ram, d)) :
        ctx' = [k \in Context |->
                  IF k \in Linked /\ ctx[k].pairing_id = id
                  THEN [ctx[k] EXCEPT !.disconnect = TRUE] ELSE ctx[k]]
  BY DEF PairingsRemove
<1>2. ASSUME NEW e \in Context
      PROVE  /\ ctx'[e] \in ContextRecord
             /\ ctx'[e].used = ctx[e].used /\ ctx'[e].exchange = ctx[e].exchange
             /\ e \notin Linked => ctx'[e] = ctx[e]
  <2>1. ctx[e] \in ContextRecord  BY DEF Inv, ContextsOK
  <2>2. \/ e \in Linked /\ ctx'[e] = [ctx[e] EXCEPT !.disconnect = TRUE]
        \/ ctx'[e] = ctx[e]
    BY <1>1
  <2> QED  BY <2>1, <2>2 DEF ContextRecord
<1>3. ctx' = [k \in Context |-> ctx'[k]]  BY <1>1
<1>4. paired' = (paired /\ (ram.slot[FindPairing(ram, d)].perm = Admin
                             => HasAdmin(Put(ram, FindPairing(ram, d), Erased))))
  BY Zenon DEF PairingsRemove
<1>5. paired' => paired  BY <1>4, Zenon
<1>6. owner' = owner  BY DEF PairingsRemove
<1> QED  BY <1>2, <1>3, <1>5, <1>6

(* Only M1 takes the pairing context, M1 and M5 let go of it, and nothing  *)
(* but M5 pairs the accessory.                                             *)
LEMMA SetupKeeps ==
  ASSUME Inv, NEW c \in Linked,
         PairSetupM1(c) \/ PairSetupM3(c) \/ PairSetupM5(c),
         Linked' = Linked
  PROVE  SetupOwned'
<1>0. ctx \in [Context -> ContextRecord] /\ c \in Context /\ None \notin Context
  <2>1. c \in Context  BY DEF Inv, ListInv, Esp32ListOK
  <2>2. None \notin Context  BY Esp32Assumption DEF Context
  <2> QED  BY <2>1, <2>2 DEF Inv, ContextsOK
<1>1. ASSUME NEW x, ctx' = [ctx EXCEPT ![c].exchange = x]
      PROVE  ctx'[c].exchange = x /\ \A e \in Context \ {c} : ctx'[e] = ctx[e]
  BY <1>0, <1>1 DEF ContextRecord
<1>2. CASE PairSetupM1(c)
  <2>1. CASE ctx' = [ctx EXCEPT ![c].exchange = "none"] /\ UNCHANGED <<owner, paired>>
    BY <1>1, <2>1 DEF Inv, SetupOwned
  <2>2. CASE /\ ~paired /\ UNCHANGED paired /\ owner \in {None, c}
             /\ owner' = c /\ ctx' = [ctx EXCEPT ![c].exchange = "setup1"]
    <3>1. \A e \in Context \ {c} : ctx[e].exchange = "none"
      BY <1>0, <2>2 DEF Inv, SetupOwned
    <3> QED  BY <1>1, <2>2, <3>1 DEF Inv, SetupOwned
  <2>3. CASE /\ ~paired /\ UNCHANGED paired /\ owner \in {None, c}
             /\ owner' = None /\ ctx' = [ctx EXCEPT ![c].exchange = "none"]
    <3>1. \A e \in Context \ {c} : ctx[e].exchange = "none"
      BY <1>0, <2>3 DEF Inv, SetupOwned
    <3> QED  BY <1>1, <2>3, <3>1 DEF Inv, SetupOwned
  <2> QED  BY <1>2, <2>1, <2>2, <2>3 DEF PairSetupM1
<1>3. CASE PairSetupM3(c)
  <2>1. owner = c  BY <1>0, <1>3 DEF PairSetupM3, Inv, SetupOwned
  <2>2. UNCHANGED <<owner, paired>>  BY <1>3 DEF PairSetupM3, server32
  <2>3. PICK x : ctx' = [ctx EXCEPT ![c].exchange = x]  BY <1>3 DEF PairSetupM3
  <2>4. \A e \in Context \ {c} : ctx'[e].exchange = ctx[e].exchange  BY <1>1, <2>3
  <2> QED  BY <1>0, <2>1, <2>2, <2>4 DEF Inv, SetupOwned
<1>4. CASE PairSetupM5(c)
  <2>1. owner = c  BY <1>0, <1>4 DEF PairSetupM5, Inv, SetupOwned
  <2>2. ctx' = [ctx EXCEPT ![c].exchange = "none"]  BY <1>4 DEF PairSetupM5
  <2>3. UNCHANGED <<owner, paired>> \/ owner' = None
    BY <1>4 DEF PairSetupM5, server32
  <2>4. \A e \in Context : ctx'[e].exchange # "none" => ctx[e].exchange # "none" /\ e # c
    BY <1>1, <2>2
  <2>5. \A e \in Context : ctx'[e].exchange = "none"
    BY <1>0, <2>1, <2>4 DEF Inv, SetupOwned
  <2> QED  BY <2>3, <2>5 DEF Inv, SetupOwned
<1> QED  BY <1>2, <1>3, <1>4

(* A request, and a controller's going away.                               *)
LEMMA ContextKeeps ==
  ASSUME Inv, NEW c \in Context, Serve(c) \/ Leave(c)
  PROVE  Inv'
<1>1. CASE Leave(c)
  <2>1. /\ c \in Linked /\ UNCHANGED <<clients, nfds, owner, paired, phase, todo>>
    BY <1>1 DEF Leave, server32
  <2>2. /\ ctx' \in [Context -> ContextRecord]
        /\ \A e \in Context \ {c} : ctx'[e] = ctx[e]
        /\ ctx'[c].used = ctx[c].used /\ ctx'[c].disconnect = ctx[c].disconnect
    BY <1>1, OneContext
  <2>3. ctx'[c].exchange = ctx[c].exchange
    BY <1>1 DEF Leave, Inv, ContextsOK, ContextRecord
  <2>4. todo' \in Seq(Context) /\ ToSet(todo') \subseteq Linked /\ (phase' = "serve" \/ todo' = <<>>)
    BY <2>1 DEF Inv, ListInv, Esp32ListOK
  <2>5. /\ \A e \in Context : /\ ctx'[e].used = ctx[e].used
                              /\ ctx'[e].disconnect = ctx[e].disconnect
        /\ \A e \in Context \ Linked : ctx'[e] = ctx[e]
    BY <2>1, <2>2
  <2>6. phase' = "accept" =>
          phase = "accept" /\ \A e \in Linked : ctx'[e].disconnect = ctx[e].disconnect
    BY <2>1, <2>5 DEF Inv, ListInv, Esp32ListOK
  <2>7. ContextsOK' /\ ListInv'  BY <2>1, <2>2, <2>4, <2>5, <2>6, SameList
  <2>8. SetupOwned'
    <3>1. Linked' = Linked  BY <2>1 DEF Linked
    <3>2. \A e \in Context : ctx'[e].exchange = ctx[e].exchange  BY <2>2, <2>3
    <3> QED  BY <2>1, <3>1, <3>2 DEF Inv, SetupOwned
  <2> QED  BY <2>7, <2>8 DEF Inv
<1>2. CASE Serve(c)
  <2>1. /\ phase = "serve" /\ phase' = "serve" /\ c \in Linked
        /\ todo' \in Seq(Context) /\ ToSet(todo') \subseteq Linked
        /\ UNCHANGED <<clients, nfds>>
    BY <1>2, ServedInOrder
  <2>2. Linked' = Linked  BY <2>1 DEF Linked
  <2>3. CASE \E d \in Device : PairingsRemove(c, d)
    <3>1. PICK d \in Device : PairingsRemove(c, d)  BY <2>3
    <3>2. /\ ctx' \in [Context -> ContextRecord]
          /\ \A e \in Context : /\ ctx'[e].used = ctx[e].used
                                /\ ctx'[e].exchange = ctx[e].exchange
          /\ \A e \in Context \ Linked : ctx'[e] = ctx[e]
          /\ owner' = owner /\ (paired' => paired)
      BY <3>1, RemovalMarks
    <3>3. ContextsOK' /\ ListInv'  BY <2>1, <3>2, SameList
    <3>4. SetupOwned'  BY <2>2, <3>2 DEF Inv, SetupOwned
    <3> QED  BY <3>3, <3>4 DEF Inv
  <2>4. CASE ~\E d \in Device : PairingsRemove(c, d)
    <3>1. \/ Idle(c) \/ Disconnected(c) \/ PairSetupM1(c) \/ PairSetupM3(c) \/ PairSetupM5(c)
          \/ PairVerifyV1(c) \/ PairVerifyV3(c) \/ Leave(c)
          \/ \E d \in Device, p \in Perm : PairingsAdd(c, d, p)
      BY <1>2, <2>4 DEF Serve
    <3>2. /\ ctx' \in [Context -> ContextRecord]
          /\ \A e \in Context \ {c} : ctx'[e] = ctx[e]
          /\ ctx'[c].used = ctx[c].used
          /\ ~(PairSetupM1(c) \/ PairSetupM3(c) \/ PairSetupM5(c))
               => ctx'[c].exchange = ctx[c].exchange
      BY <3>1, OneContext
    <3>3. ContextsOK' /\ ListInv'  BY <2>1, <3>2, SameList
    <3>4. CASE PairSetupM1(c) \/ PairSetupM3(c) \/ PairSetupM5(c)
      BY <2>1, <2>2, <3>3, <3>4, SetupKeeps DEF Inv
    <3>5. CASE ~(PairSetupM1(c) \/ PairSetupM3(c) \/ PairSetupM5(c))
      <4>1. UNCHANGED <<owner, paired>>
        <5>1. CASE Idle(c) \/ Disconnected(c)  BY <5>1 DEF Idle, Disconnected, server32
        <5>2. CASE PairVerifyV1(c) \/ PairVerifyV3(c)
          BY <5>2 DEF PairVerifyV1, PairVerifyV3, server32
        <5>3. CASE Leave(c)  BY <5>3 DEF Leave, server32
        <5>4. CASE \E d \in Device, p \in Perm : PairingsAdd(c, d, p)
          BY <5>4 DEF PairingsAdd
        <5> QED  BY <3>1, <3>5, <5>1, <5>2, <5>3, <5>4
      <4>2. \A e \in Context : ctx'[e].exchange = ctx[e].exchange  BY <3>2, <3>5
      <4>3. SetupOwned'  BY <2>2, <4>1, <4>2 DEF Inv, SetupOwned
      <4> QED  BY <3>3, <4>3 DEF Inv
    <3> QED  BY <3>4, <3>5
  <2> QED  BY <2>3, <2>4
<1> QED  BY <1>1, <1>2

LEMMA NextInv == Inv /\ [Esp32Next]_vars32 => Inv'
<1> SUFFICES ASSUME Inv, [Esp32Next]_vars32 PROVE Inv'  OBVIOUS
<1>1. CASE NoNewClient \/ RefuseClient
  <2>1. /\ phase' = "serve" /\ todo' = clients
        /\ UNCHANGED <<ctx, clients, nfds, owner, paired>>
    BY <1>1 DEF NoNewClient, RefuseClient, StartPass, server32
  <2>2. Linked' = Linked /\ Linked = ToSet(clients)  BY <2>1 DEF Linked
  <2> QED
    BY <2>1, <2>2 DEF Inv, ContextsOK, ListInv, Esp32ListOK, SetupOwned
<1>2. CASE \E d \in Device : homekit_server_accept_client(d)  BY <1>2, AcceptKeeps
<1>3. CASE \E c \in Context : Serve(c) \/ Leave(c)  BY <1>3, ContextKeeps
<1>4. CASE EndOfServing
  <2>1. /\ phase' = "close" /\ todo = <<>> /\ todo' = todo
        /\ UNCHANGED <<ctx, clients, nfds, owner, paired>>
    BY <1>4 DEF EndOfServing, server32
  <2>2. Linked' = Linked  BY <2>1 DEF Linked
  <2> QED
    BY <2>1, <2>2 DEF Inv, ContextsOK, ListInv, Esp32ListOK, SetupOwned
<1>5. CASE homekit_server_close_clients  BY <1>5, CloseKeeps
<1>6. CASE UNCHANGED vars32
  <2>1. UNCHANGED <<ctx, clients, nfds, owner, paired, phase, todo>>
    BY <1>6 DEF vars32, server32
  <2>2. Linked' = Linked  BY <2>1 DEF Linked
  <2> QED
    BY <2>1, <2>2 DEF Inv, ContextsOK, ListInv, Esp32ListOK, SetupOwned
<1> QED
  BY <1>1, <1>2, <1>3, <1>4, <1>5, <1>6 DEF Esp32Next, homekit_run_server

(* The list, the contexts and the count agree; a client that is let in     *)
(* finds a context, and no marked client is left when a pass begins.       *)
THEOREM Esp32ListsAgree == Esp32Spec => []Esp32ListOK
<1>1. Inv => Esp32ListOK  BY DEF Inv, ListInv
<1> QED  BY InitInv, NextInv, <1>1, PTL DEF Esp32Spec

(* Who is in the middle of a pair setup owns the pairing context, which    *)
(* M3 and M5 use without a test.                                           *)
THEOREM Esp32SetupOwned == Esp32Spec => []SetupOwned
<1>1. Inv => SetupOwned  BY DEF Inv
<1> QED  BY InitInv, NextInv, <1>1, PTL DEF Esp32Spec

------------------------------------------------------------------------------
(* The events of the ESP32: the list of callbacks.  Links n from each      *)
(* client's callback, and the clients a walk from x comes to.              *)
Links == [Client -> Client \union {Nil}]
Start == Client \union {Nil}
LeadsTo(n, x, S) == x \in S \union {Nil} /\ \A c \in S : n[c] \in S \union {Nil}
Reached(n, x) == {c \in Client : \A S \in SUBSET Client : LeadsTo(n, x, S) => c \in S}

LEMMA AheadReached == \A x : Ahead(x) = Reached(next, x)
BY DEF Ahead, Follows, Reached, LeadsTo

(* What is reached is closed under the links, and the least such set.      *)
LEMMA ReachedCloses ==
  \A n \in Links, x \in Start :
    /\ Reached(n, x) \subseteq Client
    /\ x \in Reached(n, x) \union {Nil}
    /\ \A k \in Reached(n, x) : n[k] \in Reached(n, x) \union {Nil}
<1> TAKE n \in Links, x \in Start
<1>1. Reached(n, x) \subseteq Client  BY DEF Reached
<1>2. x \in Reached(n, x) \union {Nil}  BY DEF Reached, LeadsTo, Start
<1>3. ASSUME NEW k \in Reached(n, x) PROVE n[k] \in Reached(n, x) \union {Nil}
  <2>1. k \in Client /\ n[k] \in Start  BY <1>1 DEF Links, Start
  <2>2. ASSUME NEW S \in SUBSET Client, LeadsTo(n, x, S), n[k] # Nil PROVE n[k] \in S
    <3>1. k \in S  BY <1>3, <2>2 DEF Reached
    <3> QED  BY <3>1, <2>2 DEF LeadsTo
  <2> QED  BY <2>1, <2>2 DEF Reached, Start
<1> QED  BY <1>1, <1>2, <1>3

LEMMA ReachedLeast ==
  \A n, x, S : S \subseteq Client /\ LeadsTo(n, x, S) => Reached(n, x) \subseteq S
BY DEF Reached

LEMMA ReachedFromNil == \A n : Reached(n, Nil) = {}
<1> TAKE n
<1>1. LeadsTo(n, Nil, {})  BY DEF LeadsTo
<1> QED  BY <1>1, ReachedLeast

(* A walk comes to where it begins, and to what the next one comes to.     *)
LEMMA ReachedStep ==
  \A n \in Links, x \in Client :
    /\ n[x] \in Start
    /\ Reached(n, x) = {x} \union Reached(n, n[x])
<1> TAKE n \in Links, x \in Client
<1>1. n[x] \in Start /\ x \in Start  BY DEF Links, Start
<1>2. Reached(n, x) \subseteq {x} \union Reached(n, n[x])
  <2>1. LeadsTo(n, x, {x} \union Reached(n, n[x]))
    BY <1>1, ReachedCloses DEF LeadsTo
  <2>2. {x} \union Reached(n, n[x]) \subseteq Client  BY <1>1, ReachedCloses
  <2> QED  BY <2>1, <2>2, ReachedLeast
<1>3. x \in Reached(n, x)
  BY <1>1, ReachedCloses, Esp32EventsAssumption
<1>4. Reached(n, n[x]) \subseteq Reached(n, x)
  <2>1. LeadsTo(n, n[x], Reached(n, x))  BY <1>1, <1>3, ReachedCloses DEF LeadsTo
  <2> QED  BY <1>1, <2>1, ReachedCloses, ReachedLeast
<1> QED  BY <1>1, <1>2, <1>3, <1>4

(* Who is reached and is not the first comes after another.                *)
LEMMA ReachedBefore ==
  \A n \in Links, x \in Start : \A y \in Reached(n, x) \ {x} :
    \E k \in Reached(n, x) \ {y} : n[k] = y
<1> TAKE n \in Links, x \in Start
<1> TAKE y \in Reached(n, x) \ {x}
<1> DEFINE S == Reached(n, x) \ {y}
<1>1. S \subseteq Client /\ x \in S \union {Nil}  BY ReachedCloses
<1>2. ~LeadsTo(n, x, S)  BY <1>1, ReachedLeast
<1>3. PICK k \in S : n[k] \notin S \union {Nil}  BY <1>1, <1>2 DEF LeadsTo
<1>4. n[k] \in Reached(n, x) \union {Nil}  BY <1>3, ReachedCloses
<1> QED  BY <1>3, <1>4

(* A list that begins at x: nobody comes before x, and no two come before  *)
(* the same one.                                                           *)
Ordered(n, x) ==
  /\ \A k \in Reached(n, x) : n[k] # x
  /\ \A j, k \in Reached(n, x) : n[j] = n[k] /\ n[j] # Nil => j = k

(* It has a last one.                                                      *)
LEMMA LastExists ==
  \A n \in Links, x \in Client : Ordered(n, x) => \E k \in Reached(n, x) : n[k] = Nil
<1> SUFFICES ASSUME NEW n \in Links, NEW x \in Client, Ordered(n, x),
                    \A k \in Reached(n, x) : n[k] # Nil
             PROVE  FALSE
  OBVIOUS
<1> DEFINE R == Reached(n, x)
           f == [k \in R |-> n[k]]
<1>1. R \subseteq Client /\ x \in R
  BY ReachedCloses, Esp32EventsAssumption DEF Start
<1>2. \A k \in R : n[k] \in R \ {x}
  BY ReachedCloses DEF Ordered, Start
<1>3. IsFiniteSet(R) /\ IsFiniteSet(R \ {x}) /\ Cardinality(R) \in Nat
  BY <1>1, Esp32EventsAssumption, FS_Subset, FS_CardinalityType
<1>4. Cardinality(R \ {x}) = Cardinality(R) - 1
  BY <1>1, <1>3, FS_RemoveElement
<1>5. \A j, k \in R : n[j] = n[k] => j = k  BY DEF Ordered
<1> HIDE DEF R
<1>6. f \in [R -> R \ {x}]  BY <1>2
<1>7. Cardinality(R) > Cardinality(R \ {x})  BY <1>3, <1>4
<1>8. \E j, k \in R : j # k /\ f[j] = f[k]
  <2> HIDE DEF f
  <2> QED  BY <1>3, <1>6, <1>7, FS_PigeonHole
<1> QED  BY <1>5, <1>8

(* A callback put after the last one: it comes to the list, once.          *)
LEMMA AppendedToList ==
  \A n, m, x, last, c :
    (/\ n \in Links /\ m \in Links /\ x \in Client /\ Ordered(n, x)
     /\ last \in Reached(n, x) /\ c \in Client \ Reached(n, x)
     /\ n[last] = Nil /\ m[last] = c /\ m[c] = Nil
     /\ \A k \in Reached(n, x) \ {last} : m[k] = n[k])
    => Ordered(m, x) /\ Reached(m, x) = Reached(n, x) \union {c}
<1> TAKE n, m, x, last, c
<1> HAVE /\ n \in Links /\ m \in Links /\ x \in Client /\ Ordered(n, x)
         /\ last \in Reached(n, x) /\ c \in Client \ Reached(n, x)
         /\ n[last] = Nil /\ m[last] = c /\ m[c] = Nil
         /\ \A k \in Reached(n, x) \ {last} : m[k] = n[k]
<1> DEFINE R == Reached(n, x)
           S == Reached(m, x)
<1>1. /\ R \subseteq Client /\ x \in R /\ last \in R /\ c \notin R
      /\ \A k \in R : n[k] \in R \union {Nil}
  BY ReachedCloses, Esp32EventsAssumption DEF Start
<1>2. m[last] = c /\ m[c] = Nil /\ \A k \in R \ {last} : m[k] = n[k]
  OBVIOUS
<1>3. /\ S \subseteq Client /\ x \in S
      /\ \A k \in S : m[k] \in S \union {Nil}
  BY ReachedCloses, Esp32EventsAssumption DEF Start
<1>4. S \subseteq R \union {c}
  <2>1. LeadsTo(m, x, R \union {c})  BY <1>1, <1>2 DEF LeadsTo
  <2> QED  BY <1>1, <2>1, ReachedLeast
<1>5. R \subseteq S
  <2>1. LeadsTo(n, x, S \intersect R)  BY <1>1, <1>2, <1>3 DEF LeadsTo
  <2>2. R \subseteq S \intersect R
    BY <1>1, <2>1, ReachedLeast
  <2> QED  BY <2>2
<1>6. c \in S
  <2>1. last \in S  BY <1>1, <1>5
  <2>2. m[last] \in S \union {Nil}  BY <1>3, <2>1
  <2> QED  BY <1>2, <2>2, Esp32EventsAssumption
<1>7. S = R \union {c}  BY <1>4, <1>5, <1>6
<1>8. \A k \in S : m[k] # x
  BY <1>1, <1>2, <1>7, Esp32EventsAssumption DEF Ordered
<1>9. \A j, k \in S : m[j] = m[k] /\ m[j] # Nil => j = k
  <2>1. \A k \in R \ {last} : m[k] # c  BY <1>1, <1>2, Esp32EventsAssumption
  <2>2. \A j, k \in R \ {last} : m[j] = m[k] /\ m[j] # Nil => j = k
    BY <1>2 DEF Ordered
  <2> TAKE j, k \in S
  <2> HAVE m[j] = m[k] /\ m[j] # Nil
  <2>3. j \in R /\ k \in R  BY <1>2, <1>7
  <2>4. CASE j = last  BY <1>2, <2>1, <2>3, <2>4
  <2>5. CASE k = last  BY <1>2, <2>1, <2>3, <2>5
  <2>6. CASE j # last /\ k # last  BY <2>2, <2>3, <2>6
  <2> QED  BY <2>4, <2>5, <2>6
<1> QED  BY <1>7, <1>8, <1>9 DEF Ordered

(* The first callback taken off: the list begins at the next.              *)
LEMMA FirstUnlinked ==
  \A n \in Links, c \in Client :
    Ordered(n, c) =>
      Ordered(n, n[c]) /\ Reached(n, n[c]) = Reached(n, c) \ {c}
<1> SUFFICES ASSUME NEW n \in Links, NEW c \in Client, Ordered(n, c)
             PROVE  Ordered(n, n[c]) /\ Reached(n, n[c]) = Reached(n, c) \ {c}
  OBVIOUS
<1>1. n[c] \in Start /\ Reached(n, c) = {c} \union Reached(n, n[c])  BY ReachedStep
<1>2. Reached(n, c) \subseteq Client
      /\ \A k \in Reached(n, c) : n[k] \in Reached(n, c) \union {Nil}
  BY ReachedCloses DEF Start
<1>3. c \in Reached(n, c) /\ \A k \in Reached(n, c) : n[k] # c  BY <1>1 DEF Ordered
<1>4. Reached(n, n[c]) \subseteq Reached(n, c) \ {c}
  <2>1. LeadsTo(n, n[c], Reached(n, c) \ {c})  BY <1>2, <1>3 DEF LeadsTo
  <2> QED  BY <1>2, <2>1, ReachedLeast
<1>5. Reached(n, n[c]) = Reached(n, c) \ {c}  BY <1>1, <1>4
<1>6. Ordered(n, n[c])
  <2>1. CASE n[c] = Nil
    <3>1. Reached(n, n[c]) = {}  BY <2>1, ReachedFromNil
    <3> QED  BY <3>1 DEF Ordered
  <2>2. CASE n[c] # Nil  BY <1>3, <1>5, <2>2 DEF Ordered
  <2> QED  BY <2>1, <2>2
<1> QED  BY <1>5, <1>6

(* Another callback taken off: who came before it now comes before the     *)
(* next one.                                                               *)
LEMMA OtherUnlinked ==
  \A n \in Links, m \in Links, x \in Client : \A c \in Reached(n, x) \ {x} :
    Ordered(n, x) /\ (\A k \in Client : m[k] = IF k \in Reached(n, x) /\ n[k] = c
                                                THEN n[c] ELSE n[k])
      => Ordered(m, x) /\ Reached(m, x) = Reached(n, x) \ {c}
<1> TAKE n \in Links, m \in Links, x \in Client
<1> TAKE c \in Reached(n, x) \ {x}
<1> HAVE /\ Ordered(n, x)
         /\ \A k \in Client : m[k] = IF k \in Reached(n, x) /\ n[k] = c
                                      THEN n[c] ELSE n[k]
<1> DEFINE R == Reached(n, x)
           S == Reached(m, x)
<1>1. /\ R \subseteq Client /\ x \in R /\ c \in R /\ x # c
      /\ \A k \in R : n[k] \in R \union {Nil}
  BY ReachedCloses, Esp32EventsAssumption DEF Start
<1>2. PICK p \in R \ {c} : n[p] = c  BY ReachedBefore DEF Start
<1>3. n[c] # c /\ \A k \in R : n[k] = c => k = p
  <2>1. c # Nil  BY <1>1, Esp32EventsAssumption
  <2> QED  BY <1>1, <1>2, <2>1 DEF Ordered
<1>4. m[p] = n[c] /\ \A k \in R \ {p} : m[k] = n[k]  BY <1>1, <1>2, <1>3
<1>5. /\ S \subseteq Client /\ x \in S
      /\ \A k \in S : m[k] \in S \union {Nil}
  BY ReachedCloses, Esp32EventsAssumption DEF Start
<1>6. S \subseteq R \ {c}
  <2>1. LeadsTo(m, x, R \ {c})  BY <1>1, <1>2, <1>3, <1>4 DEF LeadsTo
  <2> QED  BY <1>1, <2>1, ReachedLeast
<1>7. p \in S
  <2> SUFFICES ASSUME p \notin S PROVE FALSE  OBVIOUS
  <2>1. LeadsTo(n, x, S)
    <3>1. \A k \in S : n[k] = m[k]  BY <1>4, <1>6
    <3> QED  BY <1>5, <3>1 DEF LeadsTo
  <2>2. R \subseteq S  BY <1>5, <2>1, ReachedLeast
  <2> QED  BY <1>2, <2>2
<1>8. R \ {c} \subseteq S
  <2>1. n[c] \in S \union {Nil}  BY <1>4, <1>5, <1>7
  <2>2. LeadsTo(n, x, S \union {c})
    <3>1. \A k \in S \ {p} : n[k] = m[k]  BY <1>4, <1>6
    <3> QED  BY <1>2, <1>5, <2>1, <3>1 DEF LeadsTo
  <2>3. S \union {c} \subseteq Client  BY <1>1, <1>5
  <2>4. R \subseteq S \union {c}  BY <2>2, <2>3, ReachedLeast
  <2> QED  BY <2>4
<1>9. S = R \ {c}  BY <1>6, <1>8
<1>10. \A k \in S : m[k] # x  BY <1>1, <1>4, <1>9 DEF Ordered
<1>11. \A j, k \in S : m[j] = m[k] /\ m[j] # Nil => j = k
  <2>1. \A k \in S \ {p} : m[k] # m[p] \/ m[k] = Nil
    BY <1>1, <1>4, <1>9 DEF Ordered
  <2>2. \A j, k \in S \ {p} : m[j] = m[k] /\ m[j] # Nil => j = k
    BY <1>4, <1>9 DEF Ordered
  <2> QED  BY <2>1, <2>2
<1> QED  BY <1>9, <1>10, <1>11 DEF Ordered

------------------------------------------------------------------------------
(* The events of the ESP32: the invariant.                                 *)
ChangesTypeOK ==
  /\ value \in Nat /\ head \in Start /\ next \in Links
  /\ session \in [Client -> {"open", "closed"}]
  /\ queue \in [Client -> Seq(Nat)] /\ view \in [Client -> Nat]
  /\ sketch \in [step : {"rest", "stored", "call", "walk"}, at : Start, value : Nat]
  /\ server \in [by : Start, at : Start, value : Nat]
  /\ excused \in [Client -> BOOLEAN] /\ raced \in BOOLEAN

(* Nobody hears of a value that was not stored yet.                        *)
BoundOK ==
  /\ sketch.value <= value /\ server.value <= value
  /\ \A c \in Client : Newest(c) \in Nat /\ Newest(c) <= value

ListenersOK ==
  /\ Ordered(next, head)
  /\ \A c \in Client \ Subscribed : view[c] = 0
  /\ \A c \in Subscribed : session[c] = "open"
  /\ server.at \in Subscribed \union {Nil} /\ (~Updating => server.at = Nil)
  /\ sketch.step = "walk" <=> sketch.at # Nil

(* Whom the notification of each task has still to come to.                *)
SketchAhead == IF sketch.step \in {"stored", "call"} THEN Reached(next, head)
               ELSE Reached(next, sketch.at)
ServerAhead == Reached(next, server.at) \union {server.by}

Unheard(c) == queue[c] = <<>> /\ view[c] = 0
Current(c) == Unheard(c) \/ Newest(c) = value

(* Whom both have been to knows the value; whom one of them has been to    *)
(* knows it already if what the other one carries is older.                *)
Told(c) ==
  /\ c \notin SketchAhead /\ c \notin ServerAhead => Current(c)
  /\ c \in SketchAhead /\ c \notin ServerAhead /\ Notifying /\ sketch.value # value
       => Newest(c) = value
  /\ c \notin SketchAhead /\ c \in ServerAhead /\ server.value # value
       => queue[c] # <<>> /\ Newest(c) = value

WalkOK ==
  /\ sketch.at \in Subscribed \union {Nil}
  /\ Notifying /\ Updating => sketch.value = value \/ server.value = value
  /\ \A c \in Client \ Subscribed :
        session[c] = "closed" \/ c \notin served => queue[c] = <<>>
  /\ \A c \in Subscribed : ~excused[c] => Told(c)

ChangesInv == ChangesTypeOK /\ BoundOK /\ ListenersOK /\ (~raced => WalkOK)

LEMMA SubscribedReached ==
  /\ Subscribed = Reached(next, head)
  /\ Subscribed' = Reached(next', head')
BY DEF Subscribed, Ahead, Follows, Reached, LeadsTo

LEMMA SubscribedClients == Subscribed \subseteq Client
BY DEF Subscribed, Ahead

LEMMA SubscribeList ==
  ASSUME ChangesTypeOK, ListenersOK, NEW c \in Client, Subscribe(c)
  PROVE  /\ head' \in Start /\ next' \in Links /\ Ordered(next', head')
         /\ Subscribed' = Subscribed \union {c}
<1>0. head \in Start /\ next \in Links /\ Ordered(next, head) /\ c \notin Subscribed
      /\ Subscribed = Reached(next, head) /\ Subscribed' = Reached(next', head')
  BY SubscribedReached DEF ChangesTypeOK, ListenersOK, Subscribe
<1>1. CASE head = Nil
  <2>1. head' = c /\ next' = [next EXCEPT ![c] = Nil]  BY <1>1 DEF Subscribe
  <2>2. next' \in Links /\ head' \in Start /\ next'[c] = Nil
    BY <1>0, <2>1 DEF Links, Start
  <2>3. Subscribed = {}  BY <1>0, <1>1, ReachedFromNil
  <2>4. Reached(next', c) = {c}
    <3>1. Reached(next', c) = {c} \union Reached(next', Nil)  BY <2>2, ReachedStep
    <3> QED  BY <3>1, ReachedFromNil
  <2>5. Ordered(next', head')
    BY <2>1, <2>2, <2>4, Esp32EventsAssumption DEF Ordered
  <2>6. Subscribed' = {c}  BY <1>0, <2>1, <2>4
  <2>7. Subscribed' = Subscribed \union {c}  BY <2>3, <2>6
  <2> QED  BY <2>2, <2>5, <2>7
<1>2. CASE head # Nil
  <2>1. head \in Client /\ head' = head  BY <1>0, <1>2 DEF Subscribe, Start
  <2>2. PICK last \in Reached(next, head) :
          next[last] = Nil /\ next' = [next EXCEPT ![last] = c, ![c] = Nil]
    <3> DEFINE last == CHOOSE k \in Subscribed : next[k] = Nil
    <3>1. \E k \in Subscribed : next[k] = Nil  BY <1>0, <2>1, LastExists
    <3>2. last \in Subscribed /\ next[last] = Nil  BY <3>1
    <3>3. next' = [next EXCEPT ![last] = c, ![c] = Nil]  BY <1>2 DEF Subscribe
    <3> HIDE DEF last
    <3> QED  BY <1>0, <3>2, <3>3
  <2>3. next' \in Links  BY <1>0, <2>2 DEF Links
  <2>4. c \in Client \ Reached(next, head)  BY <1>0
  <2>5. Reached(next, head) \subseteq Client  BY <1>0, SubscribedClients
  <2>6. /\ next'[last] = c /\ next'[c] = Nil
        /\ \A k \in Reached(next, head) \ {last} : next'[k] = next[k]
    BY <1>0, <2>2, <2>4, <2>5 DEF Links
  <2>7. Ordered(next', head) /\ Reached(next', head) = Reached(next, head) \union {c}
    <3>1. next \in Links /\ Ordered(next, head)  BY <1>0
    <3>2. next[last] = Nil  BY <2>2
    <3>3. PICK m : m = next'  OBVIOUS
    <3>4. \A k \in Reached(next, head) \ {last} : m[k] = next[k]  BY <2>6, <3>3
    <3>5. m \in Links /\ m[last] = c /\ m[c] = Nil  BY <2>3, <2>6, <3>3
    <3>6. head \in Client /\ last \in Reached(next, head)  BY <2>1
    <3>7. Ordered(m, head) /\ Reached(m, head) = Reached(next, head) \union {c}
      BY <2>4, <3>1, <3>2, <3>4, <3>5, <3>6, AppendedToList
    <3> QED  BY <3>3, <3>7
  <2>8. head' \in Start /\ Ordered(next', head')  BY <1>0, <2>1, <2>7
  <2>9. Subscribed' = Subscribed \union {c}  BY <1>0, <2>1, <2>7
  <2> QED  BY <2>3, <2>8, <2>9
<1> QED  BY <1>1, <1>2

LEMMA UnlinkList ==
  ASSUME ChangesTypeOK, ListenersOK, NEW c \in Subscribed, Unlink(c)
  PROVE  /\ head' \in Start /\ next' \in Links /\ Ordered(next', head')
         /\ Subscribed' = Subscribed \ {c}
<1>0. head \in Start /\ next \in Links /\ Ordered(next, head)
      /\ Subscribed = Reached(next, head) /\ Subscribed' = Reached(next', head')
      /\ c \in Client /\ next[c] \in Start
  BY SubscribedReached, SubscribedClients DEF ChangesTypeOK, ListenersOK, Links, Start
<1>1. CASE head = c
  <2>1. head' = next[c] /\ next' = next  BY <1>1 DEF Unlink
  <2>2. Ordered(next, next[c]) /\ Reached(next, next[c]) = Reached(next, c) \ {c}
    BY <1>0, <1>1, FirstUnlinked
  <2> QED  BY <1>0, <1>1, <2>1, <2>2
<1>2. CASE head # c
  <2>1. /\ head' = head
        /\ next' = [k \in Client |-> IF k \in Subscribed /\ next[k] = c
                                     THEN next[c] ELSE next[k]]
    BY <1>2 DEF Unlink
  <2>2. next' \in Links
    <3>1. \A k \in Client : next[k] \in Client \union {Nil}  BY <1>0 DEF Links
    <3> QED  BY <1>0, <2>1, <3>1 DEF Links, Start
  <2>3. head \in Client
    <3>1. head # Nil  BY <1>0, ReachedFromNil
    <3> QED  BY <1>0, <3>1 DEF Start
  <2>4. \A k \in Client : next'[k] = IF k \in Reached(next, head) /\ next[k] = c
                                     THEN next[c] ELSE next[k]
    BY <1>0, <2>1
  <2>5. c \in Reached(next, head) \ {head}  BY <1>0, <1>2
  <2>6. Ordered(next', head) /\ Reached(next', head) = Reached(next, head) \ {c}
    BY <1>0, <2>2, <2>3, <2>4, <2>5, OtherUnlinked
  <2> QED  BY <1>0, <2>1, <2>2, <2>6
<1> QED  BY <1>1, <1>2

LEMMA PushedFacts ==
  \A q \in Seq(Nat), v \in Nat :
    /\ Pushed(q, v) \in Seq(Nat)
    /\ ~Drops(q) => Pushed(q, v) # <<>> /\ Coalesced(Pushed(q, v)) = v
<1> TAKE q \in Seq(Nat), v \in Nat
<1>1. /\ Append(q, v) \in Seq(Nat) /\ Len(q) \in Nat
      /\ Len(Append(q, v)) = Len(q) + 1 /\ Append(q, v)[Len(q) + 1] = v
  BY AppendProperties, LenProperties
<1>2. Append(q, v) # <<>> /\ Coalesced(Append(q, v)) = v  BY <1>1 DEF Coalesced
<1> QED  BY <1>1, <1>2, Esp32EventsAssumption DEF Pushed, Drops

LEMMA CoalescedFacts ==
  \A q \in Seq(Nat) : q # <<>> => Coalesced(q) \in Nat
<1> TAKE q \in Seq(Nat)
<1> HAVE q # <<>>
<1>1. Len(q) \in Nat /\ Len(q) # 0  OBVIOUS
<1>2. Len(q) \in 1..Len(q)  BY <1>1
<1> QED  BY <1>2, ElementOfSeq DEF Coalesced

(* What Newest() says before and after a step, queue by queue.             *)
LEMMA NewestFacts ==
  \A c : /\ Newest(c) = IF queue[c] = <<>> THEN view[c] ELSE Coalesced(queue[c])
        /\ Newest(c)' = IF queue'[c] = <<>> THEN view'[c] ELSE Coalesced(queue'[c])
BY DEF Newest, Coalesced

LEMMA ChangesInit == Esp32EventsInit => ChangesInv
<1> SUFFICES ASSUME Esp32EventsInit PROVE ChangesInv  OBVIOUS
<1> USE DEF Esp32EventsInit
<1>1. ChangesTypeOK
  <2>1. <<>> \in Seq(Nat)  OBVIOUS
  <2>2. \A c \in Client : <<>> \in Seq(Nat)  BY <2>1
  <2>3. queue \in [Client -> Seq(Nat)]  BY <2>2
  <2>4. head \in Start /\ next \in Links  BY DEF Start, Links
  <2>5. session \in [Client -> {"open", "closed"}]  OBVIOUS
  <2>6. /\ sketch \in [step : {"rest", "stored", "call", "walk"}, at : Start, value : Nat]
        /\ server \in [by : Start, at : Start, value : Nat]
    BY DEF Start
  <2>7. view \in [Client -> Nat] /\ value \in Nat  OBVIOUS
  <2>8. excused \in [Client -> BOOLEAN] /\ raced \in BOOLEAN  OBVIOUS
  <2> QED  BY <2>3, <2>4, <2>5, <2>6, <2>7, <2>8 DEF ChangesTypeOK
<1>2. Subscribed = {}  BY SubscribedReached, ReachedFromNil
<1>3. ListenersOK
  <2>1. Ordered(next, head)  BY <1>2, SubscribedReached DEF Ordered
  <2> QED  BY <1>2, <2>1 DEF ListenersOK
<1>4. BoundOK  BY DEF BoundOK, Newest
<1>5. WalkOK  BY <1>2 DEF WalkOK, Notifying
<1> QED  BY <1>1, <1>3, <1>4, <1>5 DEF ChangesInv

(* A step that leaves the list alone.                                      *)
LEMMA SameCallbacks ==
  UNCHANGED <<head, next>> =>
    /\ Subscribed' = Subscribed
    /\ ChangesTypeOK => head' \in Start /\ next' \in Links
    /\ Ordered(next, head) => Ordered(next', head')
<1> SUFFICES ASSUME UNCHANGED <<head, next>>
             PROVE  /\ Subscribed' = Subscribed
                    /\ ChangesTypeOK => head' \in Start /\ next' \in Links
                    /\ Ordered(next, head) => Ordered(next', head')
  OBVIOUS
<1>1. Subscribed' = Subscribed  BY SubscribedReached
<1> QED  BY <1>1 DEF ChangesTypeOK

(* What a push does to the queue of k and to everybody else.               *)
LEMMA PushKeeps ==
  ASSUME ChangesTypeOK, BoundOK, NEW k \in Client, NEW v \in Nat, v <= value,
         Push(k, v), UNCHANGED <<value, view>>
  PROVE  /\ queue' \in [Client -> Seq(Nat)] /\ excused' \in [Client -> BOOLEAN]
         /\ \A c \in Client : Newest(c)' \in Nat /\ Newest(c)' <= value
         /\ \A c \in Client \ {k} : /\ queue'[c] = queue[c] /\ view'[c] = view[c]
                                     /\ excused'[c] = excused[c]
                                     /\ Newest(c)' = Newest(c)
         /\ ~excused'[k] => /\ queue'[k] # <<>> /\ Newest(k)' = v /\ Newest(k) <= v
                            /\ excused[k] => v = value
<1>1. /\ queue \in [Client -> Seq(Nat)] /\ excused \in [Client -> BOOLEAN]
      /\ value \in Nat /\ Newest(k) \in Nat /\ Newest(k) <= value
  BY DEF ChangesTypeOK, BoundOK
<1>2. /\ queue' = [queue EXCEPT ![k] = Pushed(queue[k], v)]
      /\ excused' = [excused EXCEPT ![k] = \/ Drops(queue[k]) \/ v < Newest(k)
                                           \/ (excused[k] /\ v # value)]
  BY DEF Push
<1>3. Pushed(queue[k], v) \in Seq(Nat)
      /\ (~Drops(queue[k]) => /\ Pushed(queue[k], v) # <<>>
                              /\ Coalesced(Pushed(queue[k], v)) = v)
  BY <1>1, PushedFacts
<1>4. queue' \in [Client -> Seq(Nat)] /\ queue'[k] = Pushed(queue[k], v)
  BY <1>1, <1>2, <1>3
<1>5. excused' \in [Client -> BOOLEAN]
      /\ (excused'[k] <=> \/ Drops(queue[k]) \/ v < Newest(k) \/ (excused[k] /\ v # value))
  <2> DEFINE e == Drops(queue[k]) \/ v < Newest(k) \/ (excused[k] /\ v # value)
  <2>1. e \in BOOLEAN  OBVIOUS
  <2>2. excused' = [excused EXCEPT ![k] = e]  BY <1>2
  <2> HIDE DEF e
  <2>3. excused' \in [Client -> BOOLEAN] /\ excused'[k] = e  BY <1>1, <2>1, <2>2
  <2>4. excused'[k] <=> e  BY <2>3
  <2> QED  BY <2>3, <2>4 DEF e
<1>6. ASSUME NEW c \in Client \ {k}
      PROVE  /\ queue'[c] = queue[c] /\ view'[c] = view[c]
             /\ excused'[c] = excused[c] /\ Newest(c)' = Newest(c)
  <2>1. queue'[c] = queue[c] /\ view'[c] = view[c]  BY <1>1, <1>2
  <2>2. excused'[c] = excused[c]  BY <1>1, <1>2
  <2> QED  BY <2>1, <2>2, NewestFacts
<1>7. CASE Drops(queue[k])
  <2>1. Len(queue[k]) \in Nat /\ QueueSize \in Nat
    BY <1>1, LenProperties, Esp32EventsAssumption
  <2>2. Pushed(queue[k], v) = queue[k]  BY <1>7, <2>1 DEF Pushed, Drops
  <2>3. queue'[k] = queue[k]  BY <1>4, <2>2
  <2>4. Newest(k)' = Newest(k)  BY <2>3, NewestFacts
  <2>5. \A c \in Client : Newest(c)' \in Nat /\ Newest(c)' <= value
    BY <1>6, <2>4 DEF BoundOK
  <2> QED  BY <1>4, <1>5, <1>6, <1>7, <2>5
<1>8. CASE ~Drops(queue[k])
  <2>1. queue'[k] # <<>> /\ Newest(k)' = v  BY <1>3, <1>4, <1>8, NewestFacts
  <2>2. \A c \in Client : Newest(c)' \in Nat /\ Newest(c)' <= value
    BY <1>6, <2>1 DEF BoundOK
  <2>3. ~(v < Newest(k)) => Newest(k) <= v  BY <1>1
  <2> QED  BY <1>4, <1>5, <1>6, <2>1, <2>2, <2>3
<1> QED  BY <1>7, <1>8
(* Of whom each task is ahead, before a step and after it.                 *)
LEMMA AheadFacts ==
  /\ SketchAhead = IF sketch.step \in {"stored", "call"} THEN Subscribed
                   ELSE Reached(next, sketch.at)
  /\ SketchAhead' = IF sketch'.step \in {"stored", "call"} THEN Subscribed'
                    ELSE Reached(next', sketch'.at)
  /\ ServerAhead = Reached(next, server.at) \union {server.by}
  /\ ServerAhead' = Reached(next', server'.at) \union {server'.by}
<1>1. SketchAhead' = IF sketch'.step \in {"stored", "call"} THEN Reached(next', head')
                     ELSE Reached(next', sketch'.at)
  BY DEF SketchAhead, Reached, LeadsTo
<1>2. ServerAhead' = Reached(next', server'.at) \union {server'.by}
  BY DEF ServerAhead, Reached, LeadsTo
<1> QED  BY <1>1, <1>2, SubscribedReached DEF SketchAhead, ServerAhead

(* The step takes the sketch's task to one of its next steps; the list     *)
(* stays, and the server's task does what it did.                          *)
LEMMA SketchSteps ==
  ASSUME ChangesInv, UNCHANGED <<session, head, next, view, server, served, raced>>,
         sketch' \in [step : {"rest", "stored", "call", "walk"}, at : Start, value : Nat]
  PROVE  /\ Subscribed' = Subscribed /\ ServerAhead' = ServerAhead
         /\ head' \in Start /\ next' \in Links
         /\ (sketch'.step = "walk" <=> sketch'.at # Nil) => ListenersOK'
<1>1. Subscribed' = Subscribed /\ head' \in Start /\ next' \in Links
      /\ Ordered(next', head')
  BY SameCallbacks DEF ChangesInv, ListenersOK
<1>2. ServerAhead' = ServerAhead  BY AheadFacts
<1> QED  BY <1>1, <1>2 DEF ChangesInv, ListenersOK, Updating

LEMMA SketchStoresKeeps == ASSUME ChangesInv, SketchStores PROVE ChangesInv'
<1>0. /\ sketch.step = "rest" /\ value' = value + 1
      /\ sketch' = [sketch EXCEPT !.step = "stored"]
      /\ UNCHANGED <<session, head, next, queue, view, server, served, excused, raced>>
  BY DEF SketchStores
<1>1. /\ sketch' \in [step : {"rest", "stored", "call", "walk"}, at : Start, value : Nat]
      /\ sketch'.step = "stored" /\ sketch'.at = sketch.at /\ sketch'.value = sketch.value
      /\ sketch.at = Nil /\ value \in Nat /\ value' \in Nat /\ sketch.value \in Nat
      /\ server.value \in Nat
  <2>1. /\ sketch \in [step : {"rest", "stored", "call", "walk"}, at : Start, value : Nat]
        /\ server \in [by : Start, at : Start, value : Nat] /\ value \in Nat
    BY DEF ChangesInv, ChangesTypeOK
  <2>2. sketch.at = Nil  BY <1>0 DEF ChangesInv, ListenersOK
  <2> QED  BY <1>0, <2>1, <2>2
<1>2. /\ Subscribed' = Subscribed /\ head' \in Start /\ next' \in Links
      /\ ListenersOK'
  BY <1>0, <1>1, SketchSteps
<1>3. ChangesTypeOK'  BY <1>0, <1>1, <1>2 DEF ChangesInv, ChangesTypeOK
<1>4. BoundOK'
  <2>1. \A c \in Client : Newest(c)' = Newest(c)  BY <1>0 DEF Newest
  <2> QED  BY <1>0, <1>1, <2>1 DEF ChangesInv, BoundOK
<1>5. ASSUME ~raced' PROVE WalkOK'
  <2>0. WalkOK  BY <1>0, <1>5 DEF ChangesInv
  <2>1. SketchAhead' = Subscribed' /\ ~Notifying'
    BY <1>1, AheadFacts DEF Notifying
  <2>2. \A c \in Subscribed' : Told(c)'  BY <2>1 DEF Told
  <2>3. \A c \in Client \ Subscribed' :
           session'[c] = "closed" \/ c \notin served' => queue'[c] = <<>>
    BY <1>0, <1>2, <2>0 DEF WalkOK
  <2> QED  BY <1>1, <2>1, <2>2, <2>3 DEF WalkOK
<1> QED  BY <1>2, <1>3, <1>4, <1>5 DEF ChangesInv

LEMMA SketchCallsKeeps == ASSUME ChangesInv, SketchCalls PROVE ChangesInv'
<1>0. /\ sketch.step = "stored" /\ sketch' = [sketch EXCEPT !.step = "call", !.value = value]
      /\ UNCHANGED <<value, session, head, next, queue, view, server, served, excused, raced>>
  BY DEF SketchCalls
<1>1. /\ sketch' \in [step : {"rest", "stored", "call", "walk"}, at : Start, value : Nat]
      /\ sketch'.step = "call" /\ sketch'.at = sketch.at /\ sketch'.value = value
      /\ sketch.at = Nil /\ value \in Nat
  BY <1>0 DEF ChangesInv, ChangesTypeOK, ListenersOK
<1>2. /\ Subscribed' = Subscribed /\ head' \in Start /\ next' \in Links
      /\ ListenersOK'
  BY <1>0, <1>1, SketchSteps
<1>3. ChangesTypeOK'  BY <1>0, <1>1, <1>2 DEF ChangesInv, ChangesTypeOK
<1>4. BoundOK'
  <2>1. \A c \in Client : Newest(c)' = Newest(c)  BY <1>0 DEF Newest
  <2> QED  BY <1>0, <1>1, <2>1 DEF ChangesInv, BoundOK
<1>5. ASSUME ~raced' PROVE WalkOK'
  <2>0. WalkOK  BY <1>0, <1>5 DEF ChangesInv
  <2>1. SketchAhead' = Subscribed' /\ sketch'.value = value'
    BY <1>0, <1>1, AheadFacts
  <2>2. \A c \in Subscribed' : Told(c)'  BY <2>1 DEF Told
  <2>3. \A c \in Client \ Subscribed' :
           session'[c] = "closed" \/ c \notin served' => queue'[c] = <<>>
    BY <1>0, <1>2, <2>0 DEF WalkOK
  <2> QED  BY <1>1, <2>1, <2>2, <2>3 DEF WalkOK
<1> QED  BY <1>2, <1>3, <1>4, <1>5 DEF ChangesInv

(* Where the walk goes from a link.                                        *)
LEMMA WalksToFacts ==
  ASSUME ChangesTypeOK, NEW x \in Start, sketch' = WalksTo(x)
  PROVE  /\ sketch' \in [step : {"rest", "stored", "call", "walk"}, at : Start, value : Nat]
         /\ sketch'.step = IF x = Nil THEN "rest" ELSE "walk"
         /\ sketch'.at = x /\ sketch'.value = sketch.value
BY DEF WalksTo, ChangesTypeOK

LEMMA SketchStartsKeeps == ASSUME ChangesInv, SketchStarts PROVE ChangesInv'
<1>0. /\ sketch.step = "call" /\ sketch' = WalksTo(head)
      /\ UNCHANGED <<value, session, head, next, queue, view, server, served, excused, raced>>
  BY DEF SketchStarts
<1>1. /\ sketch' \in [step : {"rest", "stored", "call", "walk"}, at : Start, value : Nat]
      /\ sketch'.step = (IF head = Nil THEN "rest" ELSE "walk")
      /\ sketch'.at = head /\ sketch'.value = sketch.value
  BY <1>0, WalksToFacts DEF ChangesInv, ChangesTypeOK
<1>2. /\ Subscribed' = Subscribed /\ ServerAhead' = ServerAhead
      /\ head' \in Start /\ next' \in Links /\ ListenersOK'
  BY <1>0, <1>1, SketchSteps
<1>3. ChangesTypeOK'  BY <1>0, <1>1, <1>2 DEF ChangesInv, ChangesTypeOK
<1>4. BoundOK'
  <2>1. \A c \in Client : Newest(c)' = Newest(c)  BY <1>0 DEF Newest
  <2> QED  BY <1>0, <1>1, <2>1 DEF ChangesInv, BoundOK
<1>5. ASSUME ~raced' PROVE WalkOK'
  <2>0. WalkOK  BY <1>0, <1>5 DEF ChangesInv
  <2>1. SketchAhead' = Subscribed' /\ SketchAhead = Subscribed
    BY <1>0, <1>1, AheadFacts, SubscribedReached
  <2>2. Notifying /\ (Notifying' => Notifying)  BY <1>0 DEF Notifying
  <2>3. ASSUME NEW c \in Subscribed', ~excused'[c] PROVE Told(c)'
    <3>1. c \in Subscribed /\ Told(c)  BY <1>0, <1>2, <2>0, <2>3 DEF WalkOK
    <3>2. c \in SketchAhead' /\ c \in SketchAhead  BY <2>1, <2>3, <3>1
    <3>3. Newest(c)' = Newest(c)  BY <1>0 DEF Newest
    <3> QED  BY <1>0, <1>1, <1>2, <2>2, <3>1, <3>2, <3>3 DEF Told
  <2>4. sketch'.at \in Subscribed' \union {Nil}
    <3>1. head \in Start /\ next \in Links  BY DEF ChangesInv, ChangesTypeOK
    <3> QED  BY <1>1, <1>2, <3>1, ReachedCloses, SubscribedReached
  <2>5. \A c \in Client \ Subscribed' :
           session'[c] = "closed" \/ c \notin served' => queue'[c] = <<>>
    BY <1>0, <1>2, <2>0 DEF WalkOK
  <2>6. Notifying' /\ Updating' => sketch'.value = value' \/ server'.value = value'
    BY <1>0, <1>1, <2>0, <2>2 DEF WalkOK, Updating
  <2> QED  BY <2>3, <2>4, <2>5, <2>6 DEF WalkOK
<1> QED  BY <1>2, <1>3, <1>4, <1>5 DEF ChangesInv
(* Nobody is ahead of a server's task that processes no update.            *)
LEMMA NobodyToTell ==
  ASSUME ChangesInv, ~Updating PROVE \A c \in Client : c \notin ServerAhead
<1>1. server.at = Nil /\ server.by = Nil
  BY DEF ChangesInv, ListenersOK, Updating
<1>2. ServerAhead = {Nil}  BY <1>1, ReachedFromNil DEF ServerAhead
<1> QED  BY <1>2, Esp32EventsAssumption

LEMMA SketchNotifiesKeeps == ASSUME ChangesInv, SketchNotifies PROVE ChangesInv'
<1>p. PICK s, v : s = sketch.at /\ v = sketch.value  OBVIOUS
<1>0. /\ sketch.step = "walk" /\ Push(s, v) /\ sketch' = WalksTo(next[s])
      /\ UNCHANGED <<value, session, head, next, view, server, served, raced>>
  BY <1>p DEF SketchNotifies
<1>1. /\ s \in Start /\ v \in Nat /\ v <= value /\ value \in Nat /\ next \in Links
      /\ head \in Start /\ server.value \in Nat
  BY <1>p DEF ChangesInv, ChangesTypeOK, BoundOK
<1>2. s # Nil /\ s \in Client  BY <1>p, <1>0, <1>1 DEF ChangesInv, ListenersOK, Start
<1>3. next[s] \in Start  BY <1>1, <1>2 DEF Links, Start
<1>4. /\ sketch' \in [step : {"rest", "stored", "call", "walk"}, at : Start, value : Nat]
      /\ sketch'.step = (IF next[s] = Nil THEN "rest" ELSE "walk")
      /\ sketch'.at = next[s] /\ sketch'.value = v
  BY <1>p, <1>0, <1>3, WalksToFacts DEF ChangesInv
<1>5. /\ Subscribed' = Subscribed /\ ServerAhead' = ServerAhead
      /\ head' \in Start /\ next' \in Links /\ ListenersOK'
  BY <1>0, <1>4, SketchSteps
<1>6. /\ queue' \in [Client -> Seq(Nat)] /\ excused' \in [Client -> BOOLEAN]
      /\ \A c \in Client : Newest(c)' \in Nat /\ Newest(c)' <= value
      /\ \A c \in Client \ {s} : /\ queue'[c] = queue[c] /\ view'[c] = view[c]
                                 /\ excused'[c] = excused[c]
                                 /\ Newest(c)' = Newest(c)
      /\ ~excused'[s] => /\ queue'[s] # <<>> /\ Newest(s)' = v /\ Newest(s) <= v
                         /\ excused[s] => v = value
  BY <1>0, <1>1, <1>2, PushKeeps DEF ChangesInv
<1>7. ChangesTypeOK'  BY <1>0, <1>4, <1>5, <1>6 DEF ChangesInv, ChangesTypeOK
<1>8. BoundOK'  BY <1>p, <1>0, <1>4, <1>6 DEF ChangesInv, BoundOK
<1>9. ASSUME ~raced' PROVE WalkOK'
  <2>0. WalkOK /\ s \in Subscribed
    BY <1>p, <1>2, <1>9, <1>0 DEF ChangesInv, WalkOK
  <2>1. Notifying /\ (Notifying' => Notifying)  BY <1>0 DEF Notifying
  <2>2. SketchAhead = {s} \union SketchAhead'
    <3>1. SketchAhead = Reached(next, s)  BY <1>p, <1>0, AheadFacts
    <3>2. SketchAhead' = Reached(next, next[s])
      BY <1>0, <1>4, AheadFacts, ReachedFromNil
    <3> QED  BY <1>1, <1>2, <3>1, <3>2, ReachedStep
  <2>3. sketch'.at \in Subscribed' \union {Nil}
    <3>1. Subscribed = Reached(next, head)  BY SubscribedReached
    <3>2. next[s] \in Reached(next, head) \union {Nil}
      BY <1>1, <2>0, <3>1, ReachedCloses
    <3> QED  BY <1>4, <1>5, <3>1, <3>2
  <2>4. \A c \in Client \ Subscribed' :
           session'[c] = "closed" \/ c \notin served' => queue'[c] = <<>>
    BY <1>0, <1>5, <1>6, <2>0 DEF WalkOK
  <2>5. Notifying' /\ Updating' => sketch'.value = value' \/ server'.value = value'
    BY <1>p, <1>0, <1>4, <2>0, <2>1 DEF WalkOK, Updating
  <2>6. ASSUME NEW c \in Subscribed', ~excused'[c], c # s PROVE Told(c)'
    <3>1. c \in Subscribed /\ c \in Client \ {s}
      BY <1>5, <2>6, SubscribedClients
    <3>2. queue'[c] = queue[c] /\ view'[c] = view[c] /\ Newest(c)' = Newest(c)
          /\ ~excused[c]
      BY <1>6, <2>6, <3>1
    <3>3. Told(c)  BY <2>0, <3>1, <3>2 DEF WalkOK
    <3>4. c \in SketchAhead <=> c \in SketchAhead'  BY <2>2, <2>6
    <3> QED  BY <1>p, <1>0, <1>4, <1>5, <2>1, <3>2, <3>3, <3>4
              DEF Told, Current, Unheard
  <2>7. ASSUME ~excused'[s] PROVE Told(s)'
    <3>1. queue'[s] # <<>> /\ Newest(s)' = v /\ Newest(s) <= v
          /\ (excused[s] => v = value)
      BY <1>6, <2>7
    <3>2. s \in SketchAhead  BY <2>2
    <3>3. ~excused[s] => Told(s)  BY <2>0 DEF WalkOK
    <3>4. s \notin ServerAhead => Newest(s)' = value
      <4>1. CASE v = value  BY <3>1, <4>1
      <4>2. CASE v # value /\ s \notin ServerAhead
        <5>1. Newest(s) = value  BY <1>p, <2>1, <3>1, <3>2, <3>3, <4>2 DEF Told
        <5> QED  BY <1>1, <3>1, <4>2, <5>1
      <4> QED  BY <4>1, <4>2
    <3>5. s \in ServerAhead /\ server.value # value => Newest(s)' = value
      <4>1. s \in ServerAhead => Updating  BY <1>2, NobodyToTell
      <4>2. Updating /\ server.value # value => v = value
        BY <1>p, <2>0, <2>1 DEF WalkOK
      <4> QED  BY <3>1, <4>1, <4>2
    <3> QED  BY <1>0, <1>4, <1>5, <3>1, <3>4, <3>5 DEF Told, Current
  <2> QED  BY <2>3, <2>4, <2>5, <2>6, <2>7 DEF WalkOK
<1> QED  BY <1>5, <1>7, <1>8, <1>9 DEF ChangesInv

(* Steps of the server's task on an update: the sketch's task stays.       *)
LEMMA ServerSteps ==
  ASSUME ChangesInv, UNCHANGED <<session, head, next, sketch, raced>>
  PROVE  /\ Subscribed' = Subscribed /\ SketchAhead' = SketchAhead
         /\ head' \in Start /\ next' \in Links /\ Ordered(next', head')
         /\ Notifying' = Notifying
<1>1. Subscribed' = Subscribed /\ head' \in Start /\ next' \in Links
      /\ Ordered(next', head')
  BY SameCallbacks DEF ChangesInv, ListenersOK
<1>2. SketchAhead' = SketchAhead  BY <1>1, AheadFacts
<1> QED  BY <1>1, <1>2 DEF Notifying

LEMMA UpdateStoresKeeps ==
  ASSUME ChangesInv, NEW c \in Client, UpdateStores(c) PROVE ChangesInv'
<1>0. /\ value' = value + 1 /\ server' = [by |-> c, at |-> head, value |-> value + 1]
      /\ served' = served \union {c}
      /\ UNCHANGED <<session, head, next, queue, view, sketch, excused, raced>>
  BY DEF UpdateStores, Request
<1>1. /\ Subscribed' = Subscribed /\ SketchAhead' = SketchAhead
      /\ head' \in Start /\ next' \in Links /\ Ordered(next', head')
      /\ Notifying' = Notifying
  BY <1>0, ServerSteps
<1>2. /\ value \in Nat /\ value' \in Nat /\ sketch.value \in Nat /\ head \in Start
      /\ next \in Links
  BY <1>0 DEF ChangesInv, ChangesTypeOK
<1>3. ChangesTypeOK'
  <2>1. server' \in [by : Start, at : Start, value : Nat]
    BY <1>0, <1>2 DEF Start
  <2> QED  BY <1>0, <1>1, <1>2, <2>1 DEF ChangesInv, ChangesTypeOK
<1>4. BoundOK'
  <2>1. \A k \in Client : Newest(k)' = Newest(k)  BY <1>0 DEF Newest
  <2> QED  BY <1>0, <1>2, <2>1 DEF ChangesInv, BoundOK
<1>5. ListenersOK'
  <2>1. head \in Subscribed \union {Nil}
    BY <1>2, ReachedCloses, SubscribedReached
  <2>2. Updating'  BY <1>0, Esp32EventsAssumption DEF Updating
  <2> QED  BY <1>0, <1>1, <2>1, <2>2 DEF ChangesInv, ListenersOK
<1>6. ASSUME ~raced' PROVE WalkOK'
  <2>0. WalkOK  BY <1>0, <1>6 DEF ChangesInv
  <2>1. Subscribed' \subseteq ServerAhead' /\ server'.value = value'
    BY <1>0, AheadFacts, SubscribedReached
  <2>2. \A k \in Subscribed' : Told(k)'  BY <2>1 DEF Told
  <2>3. \A k \in Client \ Subscribed' :
           session'[k] = "closed" \/ k \notin served' => queue'[k] = <<>>
    BY <1>0, <1>1, <2>0 DEF WalkOK
  <2> QED  BY <1>0, <1>1, <2>0, <2>1, <2>2, <2>3 DEF WalkOK
<1> QED  BY <1>3, <1>4, <1>5, <1>6 DEF ChangesInv
(* The walk of the server's task leaves the callback it stands on.         *)
LEMMA ServerWalks ==
  ASSUME ChangesInv, UNCHANGED <<session, head, next, sketch, raced>>, NEW s \in Client,
         s = server.at, server' = [server EXCEPT !.at = next[s]]
  PROVE  /\ server' \in [by : Start, at : Start, value : Nat]
         /\ server'.by = server.by /\ server'.value = server.value
         /\ server'.at = next[s] /\ s \in Subscribed
         /\ ServerAhead = {s} \union ServerAhead'
         /\ server'.at \in Subscribed \union {Nil}
<1>1. /\ next \in Links /\ head \in Start /\ next[s] \in Start
      /\ server \in [by : Start, at : Start, value : Nat]
  BY DEF ChangesInv, ChangesTypeOK, Links, Start
<1>2. /\ server' \in [by : Start, at : Start, value : Nat]
      /\ server'.by = server.by /\ server'.value = server.value /\ server'.at = next[s]
  BY <1>1
<1>3. s \in Subscribed
  BY Esp32EventsAssumption DEF ChangesInv, ListenersOK
<1>4. ServerAhead = {s} \union ServerAhead'
  <2>1. ServerAhead = Reached(next, s) \union {server.by}  BY AheadFacts
  <2>2. ServerAhead' = Reached(next, next[s]) \union {server.by}  BY <1>2, AheadFacts
  <2> QED  BY <1>1, <2>1, <2>2, ReachedStep
<1>5. server'.at \in Subscribed \union {Nil}
  <2>1. Subscribed = Reached(next, head)  BY SubscribedReached
  <2>2. next[s] \in Reached(next, head) \union {Nil}
    BY <1>1, <1>3, <2>1, ReachedCloses
  <2> QED  BY <1>2, <2>1, <2>2
<1> QED  BY <1>2, <1>3, <1>4, <1>5

LEMMA UpdateNotifiesKeeps == ASSUME ChangesInv, UpdateNotifies PROVE ChangesInv'
<1>p. PICK s, v : s = server.at /\ v = server.value  OBVIOUS
<1>0. /\ Updating /\ s # Nil /\ server' = [server EXCEPT !.at = next[s]]
      /\ (s # server.by => Push(s, v)) /\ (s = server.by => UNCHANGED <<queue, excused>>)
      /\ UNCHANGED <<value, session, head, next, view, sketch, served, raced>>
  BY <1>p DEF UpdateNotifies
<1>1. /\ s \in Client /\ v \in Nat /\ v <= value /\ value \in Nat /\ sketch.value \in Nat
  BY <1>p, <1>0 DEF ChangesInv, ChangesTypeOK, BoundOK, Start
<1>2. /\ server' \in [by : Start, at : Start, value : Nat]
      /\ server'.by = server.by /\ server'.value = v
      /\ server'.at = next[s] /\ s \in Subscribed
      /\ ServerAhead = {s} \union ServerAhead'
      /\ server'.at \in Subscribed \union {Nil}
  BY <1>p, <1>0, <1>1, ServerWalks
<1>3. /\ Subscribed' = Subscribed /\ SketchAhead' = SketchAhead
      /\ head' \in Start /\ next' \in Links /\ Ordered(next', head')
      /\ Notifying' = Notifying
  BY <1>0, ServerSteps
<1>4. /\ queue' \in [Client -> Seq(Nat)] /\ excused' \in [Client -> BOOLEAN]
      /\ \A c \in Client : Newest(c)' \in Nat /\ Newest(c)' <= value
      /\ \A c \in Client \ {s} : /\ queue'[c] = queue[c] /\ view'[c] = view[c]
                                 /\ excused'[c] = excused[c]
                                 /\ Newest(c)' = Newest(c)
      /\ s # server.by /\ ~excused'[s] =>
            /\ queue'[s] # <<>> /\ Newest(s)' = v /\ Newest(s) <= v
            /\ excused[s] => v = value
  <2>1. CASE s # server.by  BY <1>0, <1>1, <2>1, PushKeeps DEF ChangesInv
  <2>2. CASE s = server.by
    <3>1. queue' = queue /\ excused' = excused /\ view' = view  BY <1>0, <2>2
    <3>2. \A c \in Client : Newest(c)' = Newest(c)  BY <3>1, NewestFacts
    <3> QED  BY <2>2, <3>1, <3>2 DEF ChangesInv, ChangesTypeOK, BoundOK
  <2> QED  BY <2>1, <2>2
<1>5. ChangesTypeOK'  BY <1>0, <1>2, <1>3, <1>4 DEF ChangesInv, ChangesTypeOK
<1>6. BoundOK'  BY <1>p, <1>0, <1>2, <1>4 DEF ChangesInv, BoundOK
<1>7. ListenersOK'
  <2>1. Updating'  BY <1>0, <1>2 DEF Updating
  <2> QED  BY <1>0, <1>2, <1>3, <2>1 DEF ChangesInv, ListenersOK
<1>8. ASSUME ~raced' PROVE WalkOK'
  <2>0. WalkOK  BY <1>0, <1>8 DEF ChangesInv
  <2>1. Notifying => sketch.value = value \/ v = value
    BY <1>p, <1>0, <2>0 DEF WalkOK
  <2>2. \A c \in Client \ Subscribed' :
           session'[c] = "closed" \/ c \notin served' => queue'[c] = <<>>
    BY <1>0, <1>2, <1>3, <1>4, <2>0 DEF WalkOK
  <2>3. ASSUME NEW c \in Subscribed', ~excused'[c], c # s PROVE Told(c)'
    <3>1. c \in Subscribed /\ c \in Client \ {s}
      BY <1>3, <2>3, SubscribedClients
    <3>2. queue'[c] = queue[c] /\ view'[c] = view[c] /\ Newest(c)' = Newest(c)
          /\ ~excused[c]
      BY <1>4, <2>3, <3>1
    <3>3. Told(c)  BY <2>0, <3>1, <3>2 DEF WalkOK
    <3>4. c \in ServerAhead <=> c \in ServerAhead'  BY <1>2, <2>3
    <3> QED  BY <1>p, <1>0, <1>2, <1>3, <3>2, <3>3, <3>4 DEF Told, Current, Unheard
  <2>4. ASSUME ~excused'[s], s = server.by PROVE Told(s)'
    <3>1. s \in ServerAhead /\ s \in ServerAhead'
      BY <1>2, <2>4, AheadFacts
    <3>2. queue' = queue /\ view' = view /\ ~excused[s]  BY <1>0, <2>4
    <3>3. Newest(s)' = Newest(s)  BY <3>2, NewestFacts
    <3>4. Told(s)  BY <1>2, <2>0, <3>2 DEF WalkOK
    <3> QED  BY <1>p, <1>0, <1>2, <1>3, <3>1, <3>2, <3>3, <3>4 DEF Told
  <2>5. ASSUME ~excused'[s], s # server.by PROVE Told(s)'
    <3>1. queue'[s] # <<>> /\ Newest(s)' = v /\ Newest(s) <= v
          /\ (excused[s] => v = value)
      BY <1>4, <2>5
    <3>2. s \in ServerAhead  BY <1>2
    <3>3. ~excused[s] => Told(s)  BY <1>2, <2>0 DEF WalkOK
    <3>4. s \notin SketchAhead => Newest(s)' = value
      <4>1. CASE v = value  BY <3>1, <4>1
      <4>2. CASE v # value /\ s \notin SketchAhead
        <5>1. Newest(s) = value  BY <1>p, <3>1, <3>2, <3>3, <4>2 DEF Told
        <5> QED  BY <1>1, <3>1, <4>2, <5>1
      <4> QED  BY <4>1, <4>2
    <3>5. Notifying /\ sketch.value # value => Newest(s)' = value
      BY <2>1, <3>1
    <3> QED  BY <1>0, <1>3, <3>1, <3>4, <3>5 DEF Told, Current
  <2> QED  BY <1>p, <1>0, <1>2, <1>3, <2>0, <2>1, <2>2, <2>3, <2>4, <2>5 DEF WalkOK
<1> QED  BY <1>5, <1>6, <1>7, <1>8 DEF ChangesInv

LEMMA UpdateRespondsKeeps == ASSUME ChangesInv, UpdateResponds PROVE ChangesInv'
<1>p. PICK c, v : c = server.by /\ v = server.value  OBVIOUS
<1>0. /\ c # Nil /\ server.at = Nil /\ server' = [server EXCEPT !.by = Nil]
      /\ view' = [view EXCEPT ![c] = IF c \in Subscribed THEN v ELSE view[c]]
      /\ excused' = [excused EXCEPT ![c] = excused[c] \/ (queue[c] # <<>> /\ Newest(c) < v)]
      /\ UNCHANGED <<value, session, head, next, queue, sketch, served, raced>>
  BY <1>p DEF UpdateResponds, Updating
<1>1. /\ c \in Client /\ v \in Nat /\ v <= value /\ value \in Nat
      /\ server' \in [by : Start, at : Start, value : Nat]
      /\ server'.by = Nil /\ server'.at = Nil /\ server'.value = v
      /\ view \in [Client -> Nat] /\ excused \in [Client -> BOOLEAN]
  BY <1>p, <1>0 DEF ChangesInv, ChangesTypeOK, BoundOK, Start
<1>2. /\ Subscribed' = Subscribed /\ SketchAhead' = SketchAhead
      /\ head' \in Start /\ next' \in Links /\ Ordered(next', head')
      /\ Notifying' = Notifying
  BY <1>0, ServerSteps
<1>3. /\ view' \in [Client -> Nat]
      /\ view'[c] = IF c \in Subscribed THEN v ELSE view[c]
      /\ \A k \in Client \ {c} : view'[k] = view[k]
  BY <1>0, <1>1
<1>4. /\ excused' \in [Client -> BOOLEAN]
      /\ ~excused'[c] => ~excused[c] /\ (queue[c] # <<>> => ~(Newest(c) < v))
      /\ \A k \in Client \ {c} : excused'[k] = excused[k]
  <2> DEFINE e == excused[c] \/ (queue[c] # <<>> /\ Newest(c) < v)
  <2>1. e \in BOOLEAN /\ excused' = [excused EXCEPT ![c] = e]  BY <1>0, <1>1
  <2>2. ~e => ~excused[c] /\ (queue[c] # <<>> => ~(Newest(c) < v))  OBVIOUS
  <2> HIDE DEF e
  <2> QED  BY <1>1, <2>1, <2>2
<1>5. /\ \A k \in Client \ {c} : Newest(k)' = Newest(k)
      /\ queue[c] # <<>> => Newest(c)' = Newest(c)
      /\ queue[c] = <<>> => Newest(c)' = view'[c] /\ Newest(c) = view[c]
  BY <1>0, <1>3, NewestFacts
<1>6. ChangesTypeOK'
  BY <1>0, <1>1, <1>2, <1>3, <1>4 DEF ChangesInv, ChangesTypeOK
<1>7. BoundOK'
  BY <1>0, <1>1, <1>3, <1>5 DEF ChangesInv, BoundOK
<1>8. ListenersOK'
  <2>1. \A k \in Client \ Subscribed : view'[k] = 0
    BY <1>1, <1>3 DEF ChangesInv, ListenersOK
  <2> QED  BY <1>0, <1>1, <1>2, <2>1 DEF ChangesInv, ListenersOK
<1>9. ASSUME ~raced' PROVE WalkOK'
  <2>0. WalkOK  BY <1>0, <1>9 DEF ChangesInv
  <2>1. \A k \in Client : k \notin ServerAhead' /\ (k \in ServerAhead <=> k = c)
    <3>1. ServerAhead = {c}  BY <1>p, <1>0, AheadFacts, ReachedFromNil
    <3>2. ServerAhead' = {Nil}  BY <1>1, AheadFacts, ReachedFromNil
    <3> QED  BY <3>1, <3>2, Esp32EventsAssumption
  <2>2. ~Updating'  BY <1>1 DEF Updating
  <2>3. \A k \in Client \ Subscribed' :
           session'[k] = "closed" \/ k \notin served' => queue'[k] = <<>>
    BY <1>0, <1>2, <2>0 DEF WalkOK
  <2>4. ASSUME NEW k \in Subscribed', ~excused'[k], k # c PROVE Told(k)'
    <3>1. k \in Subscribed /\ k \in Client \ {c}
      BY <1>2, <2>4, SubscribedClients
    <3>2. Told(k)  BY <1>4, <2>0, <2>4, <3>1 DEF WalkOK
    <3> QED  BY <1>0, <1>2, <1>3, <1>5, <2>1, <3>1, <3>2 DEF Told, Current, Unheard
  <2>5. ASSUME c \in Subscribed, ~excused'[c] PROVE Told(c)'
    <3>1. Told(c) /\ c \in ServerAhead  BY <1>1, <1>4, <2>0, <2>1, <2>5 DEF WalkOK
    <3>2. c \notin SketchAhead => Newest(c)' = value
      <4> SUFFICES ASSUME c \notin SketchAhead PROVE Newest(c)' = value  OBVIOUS
      <4>1. CASE v = value
        <5>1. CASE queue[c] = <<>>  BY <1>3, <1>5, <2>5, <4>1, <5>1
        <5>2. CASE queue[c] # <<>>
          <6>1. Newest(c) \in Nat /\ Newest(c) <= value  BY <1>1 DEF ChangesInv, BoundOK
          <6>2. ~(Newest(c) < v)  BY <1>4, <2>5, <5>2
          <6> QED  BY <1>1, <1>5, <4>1, <5>2, <6>1, <6>2
        <5> QED  BY <5>1, <5>2
      <4>2. CASE v # value
        <5>1. queue[c] # <<>> /\ Newest(c) = value  BY <1>p, <3>1, <4>2 DEF Told
        <5> QED  BY <1>5, <5>1
      <4> QED  BY <4>1, <4>2
    <3>3. Notifying /\ sketch.value # value => Newest(c)' = value
      <4> SUFFICES ASSUME Notifying, sketch.value # value PROVE Newest(c)' = value
        OBVIOUS
      <4>1. v = value  BY <1>p, <1>0, <2>0 DEF WalkOK, Updating
      <4>2. CASE queue[c] = <<>>  BY <1>3, <1>5, <2>5, <4>1, <4>2
      <4>3. CASE queue[c] # <<>>
        <5>1. Newest(c) \in Nat /\ Newest(c) <= value  BY <1>1 DEF ChangesInv, BoundOK
        <5>2. ~(Newest(c) < v)  BY <1>4, <2>5, <4>3
        <5> QED  BY <1>1, <1>5, <4>1, <4>3, <5>1, <5>2
      <4> QED  BY <4>2, <4>3
    <3> QED  BY <1>0, <1>1, <1>2, <2>1, <3>2, <3>3 DEF Told, Current
  <2> QED  BY <1>0, <1>2, <2>0, <2>2, <2>3, <2>4, <2>5 DEF WalkOK
<1> QED  BY <1>6, <1>7, <1>8, <1>9 DEF ChangesInv
(* A step of the server's task that changes the list while no notification *)
(* is under way: the sketch's is none, or has still to come to everybody.  *)
LEMMA OffTheWalk ==
  ASSUME ChangesInv, Overlaps, ~raced', ~Updating,
         UNCHANGED <<value, sketch, server>>, NEW c \in Client
  PROVE  /\ WalkOK /\ sketch.at = Nil /\ ~Notifying'
         /\ Told(c) => (sketch.step = "rest" => Current(c))
         /\ c \in Subscribed' /\ (sketch.step = "rest" => Current(c)') => Told(c)'
<1>1. ~raced /\ ~Notifying  BY DEF Overlaps, ChangesInv, ChangesTypeOK
<1>2. WalkOK /\ ~Notifying'  BY <1>1 DEF ChangesInv, Notifying
<1>3. sketch.step \in {"rest", "stored"} /\ sketch.at = Nil
  BY <1>1 DEF Notifying, ChangesInv, ChangesTypeOK, ListenersOK
<1>4. c \notin ServerAhead  BY NobodyToTell
<1>5. c \notin ServerAhead'
  <2>1. server'.at = Nil /\ server'.by = Nil
    BY DEF ChangesInv, ListenersOK, Updating
  <2>2. ServerAhead' = {Nil}  BY <2>1, AheadFacts, ReachedFromNil
  <2> QED  BY <2>2, Esp32EventsAssumption
<1>6. sketch.step = "rest" => SketchAhead = {} /\ SketchAhead' = {}
  BY <1>3, AheadFacts, ReachedFromNil
<1>7. sketch.step = "stored" => SketchAhead' = Subscribed'
  BY AheadFacts
<1>8. Told(c) => (sketch.step = "rest" => Current(c))  BY <1>4, <1>6 DEF Told
<1>9. c \in Subscribed' /\ (sketch.step = "rest" => Current(c)') => Told(c)'
  BY <1>2, <1>3, <1>5, <1>6, <1>7 DEF Told
<1> QED  BY <1>2, <1>3, <1>8, <1>9

(* What else of the invariant such a step leaves.                          *)
LEMMA ListChanges ==
  ASSUME ChangesInv, ~Updating, UNCHANGED <<sketch, server>>,
         Ordered(next', head'),
         \A c \in Client \ Subscribed' : view'[c] = 0,
         \A c \in Subscribed' : session'[c] = "open"
  PROVE  ListenersOK' /\ ~Updating'
<1>1. server'.at = Nil /\ ~Updating'  BY DEF ChangesInv, ListenersOK, Updating
<1> QED  BY <1>1 DEF ChangesInv, ListenersOK

LEMMA SubscribeKeeps ==
  ASSUME ChangesInv, NEW c \in Client, Subscribe(c) PROVE ChangesInv'
<1>0. /\ ~Updating /\ session[c] = "open" /\ c \notin served /\ c \notin Subscribed
      /\ Overlaps /\ served' = served \union {c}
      /\ UNCHANGED <<value, session, queue, view, sketch, server, excused>>
  BY DEF Subscribe, Request
<1>1. /\ head' \in Start /\ next' \in Links /\ Ordered(next', head')
      /\ Subscribed' = Subscribed \union {c}
  BY SubscribeList DEF ChangesInv
<1>2. ChangesTypeOK'
  <2>1. raced' \in BOOLEAN  BY <1>0 DEF Overlaps, ChangesInv, ChangesTypeOK
  <2> QED  BY <1>0, <1>1, <2>1 DEF ChangesInv, ChangesTypeOK
<1>3. BoundOK' /\ \A k \in Client : Newest(k)' = Newest(k)
  <2>1. \A k \in Client : Newest(k)' = Newest(k)  BY <1>0 DEF Newest
  <2> QED  BY <1>0, <2>1 DEF ChangesInv, BoundOK
<1>4. ListenersOK' /\ ~Updating'
  <2>1. \A k \in Client \ Subscribed' : view'[k] = 0
    BY <1>0, <1>1 DEF ChangesInv, ListenersOK
  <2>2. \A k \in Subscribed' : session'[k] = "open"
    BY <1>0, <1>1 DEF ChangesInv, ListenersOK
  <2> QED  BY <1>0, <1>1, <2>1, <2>2, ListChanges
<1>5. ASSUME ~raced' PROVE WalkOK'
  <2>0. WalkOK /\ sketch.at = Nil /\ ~Notifying'  BY <1>0, <1>5, OffTheWalk
  <2>1. \A k \in Client \ Subscribed' :
           session'[k] = "closed" \/ k \notin served' => queue'[k] = <<>>
    BY <1>0, <1>1, <2>0 DEF WalkOK
  <2>2. ASSUME NEW k \in Subscribed', ~excused'[k] PROVE Told(k)'
    <3>0. k \in Client  BY <1>1, <2>2, SubscribedClients
    <3>1. CASE k = c
      <4>1. queue[c] = <<>> /\ view[c] = 0
        BY <1>0, <2>0 DEF WalkOK, ChangesInv, ListenersOK
      <4>2. Current(k)'  BY <1>0, <3>1, <4>1 DEF Current, Unheard
      <4> QED  BY <1>0, <1>5, <2>2, <3>0, <4>2, OffTheWalk
    <3>2. CASE k # c
      <4>1. Told(k)  BY <1>0, <1>1, <2>0, <2>2, <3>2 DEF WalkOK
      <4>2. sketch.step = "rest" => Current(k)  BY <1>0, <1>5, <3>0, <4>1, OffTheWalk
      <4>3. sketch.step = "rest" => Current(k)'
        BY <1>0, <1>3, <3>0, <4>2 DEF Current, Unheard
      <4> QED  BY <1>0, <1>5, <2>2, <3>0, <4>3, OffTheWalk
    <3> QED  BY <3>1, <3>2
  <2> QED  BY <1>0, <1>4, <2>0, <2>1, <2>2 DEF WalkOK
<1> QED  BY <1>2, <1>3, <1>4, <1>5 DEF ChangesInv

(* Who leaves the list is told nothing any more.                           *)
LEMMA UnsubscribeKeeps ==
  ASSUME ChangesInv, NEW c \in Client, Unsubscribe(c) PROVE ChangesInv'
<1>0. /\ ~Updating /\ session[c] = "open" /\ c \in Subscribed /\ Unlink(c)
      /\ Overlaps /\ served' = served \union {c} /\ view' = [view EXCEPT ![c] = 0]
      /\ UNCHANGED <<value, session, queue, sketch, server, excused>>
  BY DEF Unsubscribe, Request
<1>1. /\ head' \in Start /\ next' \in Links /\ Ordered(next', head')
      /\ Subscribed' = Subscribed \ {c}
  BY <1>0, UnlinkList DEF ChangesInv
<1>2. view \in [Client -> Nat] /\ raced' \in BOOLEAN /\ value \in Nat
  BY <1>0 DEF Overlaps, ChangesInv, ChangesTypeOK
<1>3. /\ view' \in [Client -> Nat] /\ view'[c] = 0
      /\ \A k \in Client \ {c} : view'[k] = view[k]
  BY <1>0, <1>2
<1>4. ChangesTypeOK'
  BY <1>0, <1>1, <1>2, <1>3 DEF ChangesInv, ChangesTypeOK
<1>5. BoundOK' /\ \A k \in Client \ {c} : Newest(k)' = Newest(k)
  <2>1. \A k \in Client \ {c} : Newest(k)' = Newest(k)
    BY <1>0, <1>3 DEF Newest
  <2>2. Newest(c)' = Newest(c) \/ Newest(c)' = 0
    BY <1>0, <1>3 DEF Newest
  <2> QED  BY <1>0, <1>2, <2>1, <2>2 DEF ChangesInv, BoundOK
<1>6. ListenersOK' /\ ~Updating'
  <2>1. \A k \in Client \ Subscribed' : view'[k] = 0
    BY <1>1, <1>3 DEF ChangesInv, ListenersOK
  <2>2. \A k \in Subscribed' : session'[k] = "open"
    BY <1>0, <1>1 DEF ChangesInv, ListenersOK
  <2> QED  BY <1>0, <1>1, <2>1, <2>2, ListChanges
<1>7. ASSUME ~raced' PROVE WalkOK'
  <2>0. WalkOK /\ sketch.at = Nil /\ ~Notifying'  BY <1>0, <1>7, OffTheWalk
  <2>1. \A k \in Client \ Subscribed' :
           session'[k] = "closed" \/ k \notin served' => queue'[k] = <<>>
    BY <1>0, <1>1, <2>0 DEF WalkOK
  <2>2. ASSUME NEW k \in Subscribed', ~excused'[k] PROVE Told(k)'
    <3>1. k \in Client \ {c} /\ k \in Subscribed
      BY <1>1, <2>2, SubscribedClients
    <3>2. Told(k)  BY <1>0, <2>0, <2>2, <3>1 DEF WalkOK
    <3>3. sketch.step = "rest" => Current(k)  BY <1>0, <1>7, <3>1, <3>2, OffTheWalk
    <3>4. sketch.step = "rest" => Current(k)'
      BY <1>0, <1>3, <1>5, <3>1, <3>3 DEF Current, Unheard
    <3> QED  BY <1>0, <1>7, <2>2, <3>1, <3>4, OffTheWalk
  <2> QED  BY <1>0, <1>6, <2>0, <2>1, <2>2 DEF WalkOK
<1> QED  BY <1>4, <1>5, <1>6, <1>7 DEF ChangesInv

(* The context that is freed has left the list, and its queue is reset.    *)
LEMMA CloseClientKeeps ==
  ASSUME ChangesInv, NEW c \in Client, homekit_server_close_client(c) PROVE ChangesInv'
<1>0. /\ ~Updating /\ session' = [session EXCEPT ![c] = "closed"]
      /\ IF c \in Subscribed THEN Unlink(c) ELSE UNCHANGED <<head, next>>
      /\ queue' = [queue EXCEPT ![c] = <<>>]
      /\ view' = [view EXCEPT ![c] = 0] /\ excused' = [excused EXCEPT ![c] = FALSE]
      /\ Overlaps /\ UNCHANGED <<value, sketch, server, served>>
  BY DEF homekit_server_close_client, ResetQueue
<1>1. /\ head' \in Start /\ next' \in Links /\ Ordered(next', head')
      /\ Subscribed' = Subscribed \ {c}
  <2>1. CASE c \in Subscribed  BY <1>0, <2>1, UnlinkList DEF ChangesInv
  <2>2. CASE c \notin Subscribed
    BY <1>0, <2>2, SameCallbacks DEF ChangesInv, ListenersOK
  <2> QED  BY <2>1, <2>2
<1>2. /\ session \in [Client -> {"open", "closed"}] /\ view \in [Client -> Nat]
      /\ queue \in [Client -> Seq(Nat)] /\ excused \in [Client -> BOOLEAN]
      /\ raced' \in BOOLEAN /\ value \in Nat
  BY <1>0 DEF Overlaps, ChangesInv, ChangesTypeOK
<1>3. ChangesTypeOK'
  <2>1. <<>> \in Seq(Nat)  OBVIOUS
  <2>2. queue' \in [Client -> Seq(Nat)]  BY <1>0, <1>2, <2>1
  <2>3. /\ session' \in [Client -> {"open", "closed"}] /\ view' \in [Client -> Nat]
        /\ excused' \in [Client -> BOOLEAN]
    BY <1>0, <1>2
  <2> QED  BY <1>0, <1>1, <1>2, <2>2, <2>3 DEF ChangesInv, ChangesTypeOK
<1>4. \A k \in Client \ {c} : /\ session'[k] = session[k] /\ view'[k] = view[k]
                              /\ queue'[k] = queue[k] /\ excused'[k] = excused[k]
  BY <1>0, <1>2
<1>5. view'[c] = 0 /\ queue'[c] = <<>>  BY <1>0, <1>2
<1>6. BoundOK' /\ \A k \in Client \ {c} : Newest(k)' = Newest(k)
  <2>1. \A k \in Client \ {c} : Newest(k)' = Newest(k)  BY <1>4, NewestFacts
  <2>2. Newest(c)' = 0  BY <1>5, NewestFacts
  <2>3. \A k \in Client : Newest(k)' \in Nat /\ Newest(k)' <= value
    <3>1. \A k \in Client : Newest(k) \in Nat /\ Newest(k) <= value
      BY DEF ChangesInv, BoundOK
    <3> QED  BY <1>2, <2>1, <2>2, <3>1
  <2>4. BoundOK'  BY <1>0, <2>3 DEF ChangesInv, BoundOK
  <2> QED  BY <2>1, <2>4
<1>7. ListenersOK' /\ ~Updating'
  <2>1. \A k \in Client \ Subscribed' : view'[k] = 0
    BY <1>1, <1>4, <1>5 DEF ChangesInv, ListenersOK
  <2>2. \A k \in Subscribed' : session'[k] = "open"
    BY <1>1, <1>4, SubscribedClients DEF ChangesInv, ListenersOK
  <2> QED  BY <1>0, <1>1, <2>1, <2>2, ListChanges
<1>8. ASSUME ~raced' PROVE WalkOK'
  <2>0. WalkOK /\ sketch.at = Nil /\ ~Notifying'  BY <1>0, <1>8, OffTheWalk
  <2>1. \A k \in Client \ Subscribed' :
           session'[k] = "closed" \/ k \notin served' => queue'[k] = <<>>
    BY <1>0, <1>1, <1>4, <1>5, <2>0 DEF WalkOK
  <2>2. ASSUME NEW k \in Subscribed', ~excused'[k] PROVE Told(k)'
    <3>1. k \in Client \ {c} /\ k \in Subscribed
      BY <1>1, <2>2, SubscribedClients
    <3>2. Told(k)  BY <1>4, <2>0, <2>2, <3>1 DEF WalkOK
    <3>3. sketch.step = "rest" => Current(k)  BY <1>0, <1>8, <3>1, <3>2, OffTheWalk
    <3>4. sketch.step = "rest" => Current(k)'
      BY <1>0, <1>4, <1>6, <3>1, <3>3 DEF Current, Unheard
    <3> QED  BY <1>0, <1>8, <2>2, <3>1, <3>4, OffTheWalk
  <2> QED  BY <1>0, <1>7, <2>0, <2>1, <2>2 DEF WalkOK
<1> QED  BY <1>3, <1>6, <1>7, <1>8 DEF ChangesInv
(* A step of the server's task between two updates that leaves the list    *)
(* and the value: who was told remains told.                               *)
LEMMA BetweenUpdates ==
  ASSUME ChangesInv, ~Updating, UNCHANGED <<value, head, next, sketch, server>>
  PROVE  /\ Subscribed' = Subscribed /\ head' \in Start /\ next' \in Links
         /\ Ordered(next', head') /\ ~Updating' /\ Notifying' = Notifying
         /\ \A c \in Client : /\ Newest(c)' = value => Told(c)'
                              /\ Told(c) /\ Newest(c)' = Newest(c)
                                   /\ (Unheard(c) => Unheard(c)') => Told(c)'
<1>1. Subscribed' = Subscribed /\ head' \in Start /\ next' \in Links
      /\ Ordered(next', head')
  BY SameCallbacks DEF ChangesInv, ListenersOK
<1>2. SketchAhead' = SketchAhead /\ ServerAhead' = ServerAhead
      /\ Notifying' = Notifying /\ ~Updating'
  BY <1>1, AheadFacts DEF Notifying, Updating
<1>3. ASSUME NEW c \in Client
      PROVE  /\ Newest(c)' = value => Told(c)'
             /\ Told(c) /\ Newest(c)' = Newest(c)
                  /\ (Unheard(c) => Unheard(c)') => Told(c)'
  <2>1. c \notin ServerAhead /\ c \notin ServerAhead'  BY <1>2, NobodyToTell
  <2>2. Newest(c)' = value => Told(c)'  BY <2>1 DEF Told, Current
  <2>3. ASSUME Told(c), Newest(c)' = Newest(c), Unheard(c) => Unheard(c)'
        PROVE  Told(c)'
    <3>1. c \notin SketchAhead' => Current(c)'
      BY <1>2, <2>1, <2>3 DEF Told, Current
    <3>2. c \in SketchAhead' /\ Notifying' /\ sketch'.value # value' => Newest(c)' = value'
      BY <1>2, <2>1, <2>3 DEF Told
    <3> QED  BY <2>1, <3>1, <3>2 DEF Told
  <2> QED  BY <2>2, <2>3
<1> QED  BY <1>1, <1>2, <1>3

LEMMA GetKeeps ==
  ASSUME ChangesInv, NEW c \in Client, GetCharacteristic(c) PROVE ChangesInv'
<1>0. /\ ~Updating /\ c \in Subscribed /\ view' = [view EXCEPT ![c] = value]
      /\ excused' = [excused EXCEPT ![c] = excused[c] /\ queue[c] # <<>>]
      /\ served' = served \union {c}
      /\ UNCHANGED <<value, session, head, next, queue, sketch, server, raced>>
  BY DEF GetCharacteristic, Request
<1>1. /\ Subscribed' = Subscribed /\ head' \in Start /\ next' \in Links
      /\ Ordered(next', head') /\ ~Updating' /\ Notifying' = Notifying
      /\ \A k \in Client : /\ Newest(k)' = value => Told(k)'
                           /\ Told(k) /\ Newest(k)' = Newest(k)
                                /\ (Unheard(k) => Unheard(k)') => Told(k)'
  BY <1>0, BetweenUpdates
<1>2. view \in [Client -> Nat] /\ value \in Nat /\ excused \in [Client -> BOOLEAN]
  BY DEF ChangesInv, ChangesTypeOK
<1>3. /\ view' \in [Client -> Nat] /\ view'[c] = value
      /\ \A k \in Client \ {c} : view'[k] = view[k]
  BY <1>0, <1>2
<1>4. /\ excused' \in [Client -> BOOLEAN]
      /\ queue[c] # <<>> /\ ~excused'[c] => ~excused[c]
      /\ \A k \in Client \ {c} : excused'[k] = excused[k]
  BY <1>0, <1>2
<1>5. ChangesTypeOK'  BY <1>0, <1>1, <1>3, <1>4 DEF ChangesInv, ChangesTypeOK
<1>6. /\ \A k \in Client \ {c} : Newest(k)' = Newest(k)
      /\ queue[c] # <<>> => Newest(c)' = Newest(c)
      /\ queue[c] = <<>> => Newest(c)' = value
  BY <1>0, <1>3, NewestFacts
<1>7. BoundOK'  BY <1>0, <1>2, <1>6 DEF ChangesInv, BoundOK
<1>8. ListenersOK'
  <2>1. \A k \in Client \ Subscribed : view'[k] = 0
    BY <1>0, <1>3 DEF ChangesInv, ListenersOK
  <2> QED  BY <1>0, <1>1, <2>1, ListChanges DEF ChangesInv, ListenersOK
<1>9. ASSUME ~raced' PROVE WalkOK'
  <2>0. WalkOK  BY <1>0, <1>9 DEF ChangesInv
  <2>1. \A k \in Client \ Subscribed' :
           session'[k] = "closed" \/ k \notin served' => queue'[k] = <<>>
    BY <1>0, <1>1, <2>0 DEF WalkOK
  <2>2. ASSUME NEW k \in Subscribed', ~excused'[k] PROVE Told(k)'
    <3>0. k \in Client /\ k \in Subscribed  BY <1>1, <2>2, SubscribedClients
    <3>1. CASE k = c /\ queue[c] = <<>>  BY <1>1, <1>6, <3>1
    <3>2. CASE k = c /\ queue[c] # <<>>
      <4>1. Told(c) /\ ~Unheard(c)  BY <1>0, <1>4, <2>0, <2>2, <3>2 DEF WalkOK, Unheard
      <4> QED  BY <1>1, <1>6, <3>2, <4>1
    <3>3. CASE k # c
      <4>1. Told(k) /\ Newest(k)' = Newest(k)
        BY <1>4, <1>6, <2>0, <2>2, <3>0, <3>3 DEF WalkOK
      <4>2. Unheard(k) => Unheard(k)'  BY <1>0, <1>3, <3>0, <3>3 DEF Unheard
      <4> QED  BY <1>1, <3>0, <4>1, <4>2
    <3> QED  BY <3>1, <3>2, <3>3
  <2> QED  BY <1>0, <1>1, <2>0, <2>1, <2>2 DEF WalkOK
<1> QED  BY <1>5, <1>7, <1>8, <1>9 DEF ChangesInv

LEMMA NotificationsKeep ==
  ASSUME ChangesInv, homekit_server_process_notifications PROVE ChangesInv'
<1>0. /\ ~Updating
      /\ view' = [c \in Client |->
                   IF queue[c] # <<>> /\ session[c] = "open" /\ c \in Subscribed
                   THEN Coalesced(queue[c]) ELSE view[c]]
      /\ queue' = [c \in Client |-> <<>>] /\ served' = {}
      /\ UNCHANGED <<value, session, head, next, sketch, server, excused, raced>>
  BY DEF homekit_server_process_notifications
<1>1. /\ Subscribed' = Subscribed /\ head' \in Start /\ next' \in Links
      /\ Ordered(next', head') /\ ~Updating' /\ Notifying' = Notifying
      /\ \A k \in Client : /\ Newest(k)' = value => Told(k)'
                           /\ Told(k) /\ Newest(k)' = Newest(k)
                                /\ (Unheard(k) => Unheard(k)') => Told(k)'
  BY <1>0, BetweenUpdates
<1>2. view \in [Client -> Nat] /\ queue \in [Client -> Seq(Nat)] /\ value \in Nat
  BY DEF ChangesInv, ChangesTypeOK
<1>3. view' \in [Client -> Nat]
  <2>1. \A c \in Client : queue[c] # <<>> => Coalesced(queue[c]) \in Nat
    BY <1>2, CoalescedFacts
  <2> QED  BY <1>0, <1>2, <2>1
<1>4. ChangesTypeOK'
  <2>1. <<>> \in Seq(Nat)  OBVIOUS
  <2>2. queue' \in [Client -> Seq(Nat)]  BY <1>0, <2>1
  <2> QED  BY <1>0, <1>1, <1>3, <2>2 DEF ChangesInv, ChangesTypeOK
<1>5. \A c \in Client : queue'[c] = <<>> /\ Newest(c)' = view'[c]
  BY <1>0, NewestFacts
<1>6. ASSUME NEW c \in Subscribed
      PROVE  /\ Newest(c)' = Newest(c) /\ (Unheard(c) => Unheard(c)')
  <2>1. c \in Client /\ session[c] = "open"
    BY SubscribedClients DEF ChangesInv, ListenersOK
  <2>2. view'[c] = IF queue[c] # <<>> THEN Coalesced(queue[c]) ELSE view[c]
    BY <1>0, <1>6, <2>1
  <2>3. Newest(c)' = Newest(c)  BY <1>5, <2>1, <2>2, NewestFacts
  <2>4. Unheard(c) => Unheard(c)'  BY <1>5, <2>1, <2>2 DEF Unheard
  <2> QED  BY <2>3, <2>4
<1>7. ASSUME NEW c \in Client \ Subscribed PROVE view'[c] = 0 /\ Newest(c)' = 0
  <2>1. view'[c] = view[c] /\ view[c] = 0  BY <1>0 DEF ChangesInv, ListenersOK
  <2> QED  BY <1>5, <2>1
<1>8. BoundOK'
  <2>1. \A c \in Client : Newest(c)' = Newest(c) \/ Newest(c)' = 0  BY <1>6, <1>7
  <2>2. \A c \in Client : Newest(c)' \in Nat /\ Newest(c)' <= value
    BY <1>2, <2>1 DEF ChangesInv, BoundOK
  <2> QED  BY <1>0, <2>2 DEF ChangesInv, BoundOK
<1>9. ListenersOK'
  BY <1>0, <1>1, <1>7, ListChanges DEF ChangesInv, ListenersOK
<1>10. ASSUME ~raced' PROVE WalkOK'
  <2>0. WalkOK  BY <1>0, <1>10 DEF ChangesInv
  <2>1. ASSUME NEW k \in Subscribed', ~excused'[k] PROVE Told(k)'
    <3>1. k \in Client /\ k \in Subscribed /\ Told(k)
      BY <1>0, <1>1, <2>0, <2>1, SubscribedClients DEF WalkOK
    <3> QED  BY <1>1, <1>6, <3>1
  <2> QED  BY <1>0, <1>1, <1>5, <2>0, <2>1 DEF WalkOK
<1> QED  BY <1>4, <1>8, <1>9, <1>10 DEF ChangesInv

LEMMA VerifiedKeeps ==
  ASSUME ChangesInv, NEW c \in Client, Verified(c) PROVE ChangesInv'
<1>0. /\ ~Updating /\ session' = [session EXCEPT ![c] = "open"]
      /\ served' = served \union {c} /\ session[c] = "closed"
      /\ UNCHANGED <<value, head, next, queue, view, sketch, server, excused, raced>>
  BY DEF Verified
<1>1. /\ Subscribed' = Subscribed /\ head' \in Start /\ next' \in Links
      /\ Ordered(next', head') /\ ~Updating' /\ Notifying' = Notifying
      /\ \A k \in Client : /\ Newest(k)' = value => Told(k)'
                           /\ Told(k) /\ Newest(k)' = Newest(k)
                                /\ (Unheard(k) => Unheard(k)') => Told(k)'
  BY <1>0, BetweenUpdates
<1>2. /\ session' \in [Client -> {"open", "closed"}]
      /\ \A k \in Client : session'[k] = IF k = c THEN "open" ELSE session[k]
  BY <1>0 DEF ChangesInv, ChangesTypeOK
<1>3. ChangesTypeOK'  BY <1>0, <1>1, <1>2 DEF ChangesInv, ChangesTypeOK
<1>4. BoundOK' /\ \A k \in Client : Newest(k)' = Newest(k) /\ (Unheard(k) => Unheard(k)')
  <2>1. \A k \in Client : Newest(k)' = Newest(k)  BY <1>0 DEF Newest
  <2> QED  BY <1>0, <2>1 DEF ChangesInv, BoundOK, Unheard
<1>5. ListenersOK'
  <2>1. \A k \in Subscribed : session'[k] = "open"
    BY <1>2, SubscribedClients DEF ChangesInv, ListenersOK
  <2>2. \A k \in Client \ Subscribed : view'[k] = 0
    BY <1>0 DEF ChangesInv, ListenersOK
  <2> QED  BY <1>0, <1>1, <2>1, <2>2, ListChanges
<1>6. ASSUME ~raced' PROVE WalkOK'
  <2>0. WalkOK  BY <1>0, <1>6 DEF ChangesInv
  <2>1. \A k \in Client \ Subscribed' :
           session'[k] = "closed" \/ k \notin served' => queue'[k] = <<>>
    BY <1>0, <1>1, <1>2, <2>0 DEF WalkOK
  <2>2. ASSUME NEW k \in Subscribed', ~excused'[k] PROVE Told(k)'
    <3>1. k \in Client /\ Told(k)
      BY <1>0, <1>1, <2>0, <2>2, SubscribedClients DEF WalkOK
    <3> QED  BY <1>1, <1>4, <3>1
  <2> QED  BY <1>0, <1>1, <2>0, <2>1, <2>2 DEF WalkOK
<1> QED  BY <1>3, <1>4, <1>5, <1>6 DEF ChangesInv

LEMMA ChangesStutter == ASSUME ChangesInv, UNCHANGED vars32e PROVE ChangesInv'
<1>0. UNCHANGED <<value, session, head, next, queue, view, sketch, server, served,
                  excused, raced>>
  BY DEF vars32e
<1>1. /\ Subscribed' = Subscribed /\ SketchAhead' = SketchAhead
      /\ head' \in Start /\ next' \in Links /\ Ordered(next', head')
      /\ Notifying' = Notifying
  BY <1>0, ServerSteps
<1>2. ServerAhead' = ServerAhead  BY <1>0, AheadFacts
<1>3. \A c \in Client : Newest(c)' = Newest(c)  BY <1>0 DEF Newest
<1>4. ChangesTypeOK' /\ BoundOK' /\ ListenersOK'
  BY <1>0, <1>1, <1>3 DEF ChangesInv, ChangesTypeOK, BoundOK, ListenersOK, Updating
<1>5. ASSUME ~raced' PROVE WalkOK'
  <2>1. WalkOK  BY <1>0, <1>5 DEF ChangesInv
  <2>2. \A c \in Subscribed : Told(c) => Told(c)'
    BY <1>0, <1>1, <1>2, <1>3, SubscribedClients DEF Told, Current, Unheard
  <2> QED  BY <1>0, <1>1, <2>1, <2>2 DEF WalkOK, Updating
<1> QED  BY <1>4, <1>5 DEF ChangesInv

LEMMA ChangesNext == ChangesInv /\ [Esp32EventsNext]_vars32e => ChangesInv'
<1> SUFFICES ASSUME ChangesInv, [Esp32EventsNext]_vars32e PROVE ChangesInv'
  OBVIOUS
<1>1. CASE SketchStores \/ SketchCalls \/ SketchStarts \/ SketchNotifies
  BY <1>1, SketchStoresKeeps, SketchCallsKeeps, SketchStartsKeeps, SketchNotifiesKeeps
<1>2. CASE UpdateNotifies \/ UpdateResponds
  BY <1>2, UpdateNotifiesKeeps, UpdateRespondsKeeps
<1>3. CASE homekit_server_process_notifications  BY <1>3, NotificationsKeep
<1>4. ASSUME NEW c \in Client,
             \/ UpdateStores(c) \/ Subscribe(c) \/ Unsubscribe(c) \/ GetCharacteristic(c)
             \/ Verified(c) \/ homekit_server_close_client(c)
      PROVE  ChangesInv'
  BY <1>4, UpdateStoresKeeps, SubscribeKeeps, UnsubscribeKeeps, GetKeeps, VerifiedKeeps,
     CloseClientKeeps
<1>5. CASE UNCHANGED vars32e  BY <1>5, ChangesStutter
<1> QED  BY <1>1, <1>2, <1>3, <1>4, <1>5, Zenon DEF Esp32EventsNext

(* While no change of the list came into a notification of the sketch, a   *)
(* closed context is on no list of callbacks, nothing waits in its queue   *)
(* and neither task's walk stands on it, for any number of clients and any *)
(* length of the queues (homekit_server_close_client()).                   *)
THEOREM Esp32ClosedIsQuiet == Esp32EventsSpec => []ClosedIsQuiet
<1>1. ChangesInv => ClosedIsQuiet
  <2> SUFFICES ASSUME ChangesInv, ~raced, NEW c \in Client, session[c] = "closed"
               PROVE  /\ c \notin Subscribed /\ queue[c] = <<>>
                      /\ sketch.at # c /\ server.at # c
    BY DEF ClosedIsQuiet
  <2>1. c \notin Subscribed  BY DEF ChangesInv, ListenersOK
  <2>2. queue[c] = <<>> /\ sketch.at # c /\ server.at # c
    BY <2>1, Esp32EventsAssumption DEF ChangesInv, WalkOK, ListenersOK
  <2> QED  BY <2>1, <2>2
<1> QED  BY ChangesInit, ChangesNext, <1>1, PTL DEF Esp32EventsSpec

(* On the same condition, once both tasks are through with their stores    *)
(* and notifications and the queue of a subscribed controller is empty,    *)
(* what it was told is the value, in whatever order the two tasks stored   *)
(* and pushed, unless what was dropped or overtaken was not made good      *)
(* (process_characteristics_update(), homekit_characteristic_notify()).    *)
THEOREM Esp32InformedOtherwise == Esp32EventsSpec => []InformedOtherwise
<1>1. ChangesInv => InformedOtherwise
  <2> SUFFICES ASSUME ChangesInv, ~raced, ~Updating, sketch.step = "rest",
                      NEW c \in Subscribed, queue[c] = <<>>, view[c] # 0, ~excused[c]
               PROVE  view[c] = value
    BY DEF InformedOtherwise
  <2>1. c \in Client  BY SubscribedClients
  <2>2. c \notin ServerAhead  BY <2>1, NobodyToTell
  <2>3. c \notin SketchAhead
    <3>1. sketch.at = Nil  BY DEF ChangesInv, ListenersOK
    <3> QED  BY <3>1, AheadFacts, ReachedFromNil
  <2>4. Told(c)  BY DEF ChangesInv, WalkOK
  <2>5. Newest(c) = value  BY <2>2, <2>3, <2>4 DEF Told, Current, Unheard
  <2> QED  BY <2>5 DEF Newest
<1> QED  BY ChangesInit, ChangesNext, <1>1, PTL DEF Esp32EventsSpec
=============================================================================
