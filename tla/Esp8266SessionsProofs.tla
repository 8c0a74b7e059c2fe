----------------------- MODULE Esp8266SessionsProofs -----------------------
(***************************************************************************)
(* Proofs about the connections of the ESP8266 server, for every number of *)
(* contexts, controllers and slots: at most one pair setup runs at a time, *)
(* and none once the accessory is paired; the list, its count and the      *)
(* contexts agree; every variable keeps its type; and the removal of a     *)
(* pairing ends the sessions that were opened with it.                     *)
(***************************************************************************)
EXTENDS Esp8266Sessions, PairingTableProofs

(* The context records keep their types.  SetupExclusive needs them to     *)
(* know that changing one field leaves the step alone.                     *)
ContextsOK == ctx \in [Context -> ContextRecord]

IInv == ContextsOK /\ SetupExclusive

------------------------------------------------------------------------------
(* Records stay records, and nothing but Reset changes a step.             *)

LEMMA SetStepRecord ==
  ASSUME ContextsOK, NEW c \in Context, NEW s \in Steps, SetStep(c, s)
  PROVE  /\ ContextsOK'
         /\ ctx'[c].step = s
         /\ \A e \in Context \ {c} : ctx'[e] = ctx[e]
BY DEF ContextsOK, ContextRecord, SetStep

LEMMA MarkedRecords ==
  ASSUME ContextsOK, NEW cs
  PROVE  /\ Marked(cs) \in [Context -> ContextRecord]
         /\ \A c \in Context : Marked(cs)[c].step = ctx[c].step
BY DEF ContextsOK, ContextRecord, Marked

LEMMA AfterCloseRecords ==
  ASSUME NEW r \in [Context -> ContextRecord], NEW l
  PROVE  /\ AfterClose(r, l) \in [Context -> ContextRecord]
         /\ \A c \in Context :
              AfterClose(r, l)[c].step
                = IF c \in Closing(r, l) THEN "none" ELSE r[c].step
<1> SUFFICES ASSUME NEW c \in Context
             PROVE  /\ AfterClose(r, l)[c] \in ContextRecord
                    /\ AfterClose(r, l)[c].step
                         = IF c \in Closing(r, l) THEN "none" ELSE r[c].step
  BY DEF AfterClose
<1>1. CASE c \in Closing(r, l)
  <2>1. AfterClose(r, l)[c] = Reset(r[c])  BY <1>1 DEF AfterClose
  <2>2. r[c] \in ContextRecord  OBVIOUS
  <2> QED  BY <1>1, <2>1, <2>2 DEF Reset, Unused, ContextRecord, Steps, NotMarked
<1>2. CASE c \notin Closing(r, l)
  <2>1. AfterClose(r, l)[c] \in {r[c], [r[c] EXCEPT !.timer = Waiting]}
    BY <1>2 DEF AfterClose
  <2>2. r[c] \in ContextRecord  OBVIOUS
  <2> QED  BY <1>2, <2>1, <2>2 DEF ContextRecord, Waiting
<1> QED  BY <1>1, <1>2

(* A step keeps setup exclusive when it takes no client into a pair setup, *)
(* leaves the owner and pairs nothing.                                     *)
LEMMA NothingStarted ==
  ASSUME IInv, ContextsOK', owner' = owner,
         owner # None => preinit' # "absent",
         paired' => paired,
         \A c \in Context : ctx'[c].step \in {ctx[c].step, "none"}
  PROVE  IInv'
BY DEF IInv, SetupExclusive

(* So does one that closes clients and frees the pairing context with its  *)
(* owner.                                                                  *)
LEMMA OwnerClosed ==
  ASSUME IInv, ContextsOK', NEW closed,
         \A c \in Context : ctx'[c].step = IF c \in closed THEN "none" ELSE ctx[c].step,
         paired' = paired,
         IF owner \in closed THEN owner' = None
         ELSE owner' = owner /\ (preinit # "absent" => preinit' # "absent")
  PROVE  IInv'
<1>1. CASE owner \in closed  BY <1>1 DEF IInv, SetupExclusive
<1>2. CASE owner \notin closed  BY <1>2 DEF IInv, SetupExclusive
<1> QED  BY <1>1, <1>2

------------------------------------------------------------------------------
LEMMA InitIInv == Init => IInv
BY NoneAssumption
   DEF Init, IInv, ContextsOK, SetupExclusive, ContextRecord, Unused, Steps, NotMarked

LEMMA AcceptKeeps ==
  ASSUME IInv, NEW d \in Device, AcceptClient(d)
  PROVE  IInv'
<1> DEFINE marked == Marked(Duplicates(d))
           closed == IF Duplicates(d) = {} THEN {} ELSE Closing(marked, clients)
           r == IF Duplicates(d) = {} THEN ctx ELSE AfterClose(marked, clients)
<1>1. /\ r \in [Context -> ContextRecord]
      /\ \A c \in Context : r[c].step = IF c \in closed THEN "none" ELSE ctx[c].step
  <2>1. CASE Duplicates(d) = {}  BY <2>1 DEF IInv, ContextsOK
  <2>2. CASE Duplicates(d) # {}
    <3>1. /\ marked \in [Context -> ContextRecord]
          /\ \A c \in Context : marked[c].step = ctx[c].step
      BY MarkedRecords DEF IInv
    <3> HIDE DEF marked
    <3> QED  BY <2>2, <3>1, AfterCloseRecords
  <2> QED  BY <2>1, <2>2
<1>2. PICK new : \/ ctx' = r
                 \/ ctx' = [r EXCEPT ![new] = [@ EXCEPT !.used = TRUE, !.dev = d]]
  BY DEF AcceptClient
<1>3. /\ ContextsOK'
      /\ \A c \in Context : ctx'[c].step = r[c].step
  <2> HIDE DEF r
  <2>1. ctx' = [c \in Context |-> ctx'[c]]  BY <1>1, <1>2
  <2>2. ASSUME NEW c \in Context
        PROVE  ctx'[c] \in ContextRecord /\ ctx'[c].step = r[c].step
    <3>1. ctx'[c] \in {r[c], [r[c] EXCEPT !.used = TRUE, !.dev = d]}
      BY <1>1, <1>2
    <3>2. r[c] \in ContextRecord  BY <1>1
    <3> QED  BY <3>1, <3>2 DEF ContextRecord
  <2> QED  BY <2>1, <2>2 DEF ContextsOK
<1>4. /\ paired' = paired
      /\ IF owner \in closed THEN owner' = None /\ preinit' = "absent"
         ELSE preinit' = Prepared /\ UNCHANGED owner
  BY DEF AcceptClient
<1>5. preinit # "absent" => Prepared # "absent"  BY DEF Prepared
<1> HIDE DEF closed, r
<1> QED  BY <1>1, <1>3, <1>4, <1>5, OwnerClosed

LEMMA CloseKeeps ==
  ASSUME IInv, homekit_server_close_clients
  PROVE  IInv'
<1> DEFINE closed == Closing(ctx, clients)
<1>1. /\ ContextsOK'
      /\ \A c \in Context : ctx'[c].step = IF c \in closed THEN "none" ELSE ctx[c].step
  BY AfterCloseRecords DEF homekit_server_close_clients, IInv, ContextsOK
<1>2. /\ paired' = paired
      /\ IF owner \in closed THEN owner' = None ELSE UNCHANGED <<owner, preinit>>
  BY DEF homekit_server_close_clients, ReleaseSetup
<1> HIDE DEF closed
<1> QED  BY <1>1, <1>2, OwnerClosed

(* The exchanges that take a client into a pair setup or out of it.        *)
LEMMA SetupKeeps ==
  ASSUME IInv, NEW c \in Context,
         PairSetupM1(c) \/ PairSetupM3(c) \/ PairSetupM5(c)
  PROVE  IInv'
<1> USE DEF Steps
<1>1. CASE PairSetupM1(c)
  <2>1. CASE SetStep(c, "none") /\ UNCHANGED <<owner, preinit, paired>>
    BY <2>1, SetStepRecord, NothingStarted DEF IInv, SetupExclusive
  <2>2. CASE /\ ~paired /\ owner \in {None, c} /\ owner' = c /\ paired' = paired
             /\ preinit' = IF owner = None THEN Prepared ELSE preinit
             /\ SetStep(c, "setup1")
    <3>1. c # None  BY NoneAssumption
    <3>2. preinit' # "absent"  BY <2>2, <3>1 DEF Prepared, IInv, SetupExclusive
    <3>3. \A e \in Context \ {c} : ctx[e].step \notin {"setup1", "setup2"}
      BY <2>2, NoneAssumption DEF IInv, SetupExclusive
    <3> QED  BY <2>2, <3>2, <3>3, SetStepRecord DEF IInv, SetupExclusive
  <2> QED  BY <1>1, <2>1, <2>2 DEF PairSetupM1
<1>2. CASE PairSetupM3(c)
  <2>1. owner = c /\ owner' = owner /\ paired' = paired /\ preinit' # "absent"
    BY <1>2 DEF PairSetupM3, IInv, SetupExclusive
  <2>2. SetStep(c, "none") \/ SetStep(c, "setup2")  BY <1>2 DEF PairSetupM3
  <2> QED  BY <2>1, <2>2, SetStepRecord DEF IInv, SetupExclusive
<1>3. CASE PairSetupM5(c)
  <2>1. SetStep(c, "none") /\ owner = c  BY <1>3 DEF PairSetupM5, IInv, SetupExclusive
  <2>2. CASE UNCHANGED <<paired, owner, preinit>>
    BY <2>1, <2>2, SetStepRecord, NothingStarted DEF IInv, SetupExclusive
  <2>3. CASE owner' = None
    BY <2>1, <2>3, SetStepRecord, NoneAssumption DEF IInv, SetupExclusive
  <2> QED  BY <1>3, <2>2, <2>3 DEF PairSetupM5, server
<1> QED  BY <1>1, <1>2, <1>3

(* The other requests, and what a client or the clock does on its own.     *)
LEMMA RestKeeps ==
  ASSUME IInv, NEW c \in Context,
         \/ Idle(c) \/ Disconnected(c) \/ WrongEndpoint(c)
         \/ PairVerifyV1(c) \/ PairVerifyV3(c)
         \/ \E d \in Device : PairingsRemove(c, d) \/ \E p \in Perm : PairingsAdd(c, d, p)
         \/ Leave(c) \/ DelayPasses(c)
  PROVE  IInv'
<1> USE DEF server
<1>0. owner # None => preinit # "absent"  BY DEF IInv, SetupExclusive
<1>1. /\ UNCHANGED <<owner, preinit>> /\ (paired' => paired)
  <2>1. CASE Idle(c) \/ Disconnected(c) \/ WrongEndpoint(c)
    BY <2>1 DEF Idle, Disconnected, WrongEndpoint
  <2>2. CASE PairVerifyV1(c)  BY <2>2 DEF PairVerifyV1
  <2>3. CASE PairVerifyV3(c)  BY <2>3 DEF PairVerifyV3
  <2>4. CASE Leave(c) \/ DelayPasses(c)  BY <2>4 DEF Leave, DelayPasses
  <2>5. CASE \E d \in Device : \E p \in Perm : PairingsAdd(c, d, p)
    BY <2>5 DEF PairingsAdd
  <2>6. CASE \E d \in Device : PairingsRemove(c, d)
    <3>1. PICK d \in Device : PairingsRemove(c, d)  BY <2>6
    <3>2. paired' = (paired /\ (ram.slot[FindPairing(ram, d)].perm = Admin
                                 => HasAdmin(Put(ram, FindPairing(ram, d), Erased))))
      BY <3>1, Zenon DEF PairingsRemove
    <3>3. paired' => paired  BY <3>2, Zenon
    <3> QED  BY <3>1, <3>3 DEF PairingsRemove
  <2> QED  BY <2>1, <2>2, <2>3, <2>4, <2>5, <2>6
<1>2. /\ ContextsOK'
      /\ \A e \in Context : ctx'[e].step \in {ctx[e].step, "none", "verified"}
  <2> USE DEF ContextsOK, ContextRecord
  <2>0. ContextsOK  BY DEF IInv
  <2>1. CASE UNCHANGED ctx  BY <2>0, <2>1
  <2>2. CASE Disconnected(c) \/ WrongEndpoint(c) \/ Leave(c) \/ DelayPasses(c)
    <3>1. CASE Disconnected(c)  BY <2>0, <3>1, ZenonT(40) DEF Disconnected
    <3>2. CASE WrongEndpoint(c)  BY <2>0, <3>2, ZenonT(40) DEF WrongEndpoint
    <3>3. CASE Leave(c)  BY <2>0, <3>3, ZenonT(40) DEF Leave
    <3>4. CASE DelayPasses(c)  BY <2>0, <3>4 DEF DelayPasses, Due
    <3> QED  BY <2>2, <3>1, <3>2, <3>3, <3>4
  <2>3. CASE PairVerifyV1(c)
    <3>1. PICK ok \in BOOLEAN :
            ctx' = [ctx EXCEPT ![c].step = "none", ![c].verify = ok \/ @]
      BY <2>3 DEF PairVerifyV1
    <3>2. PICK v : v = (ok \/ ctx[c].verify)  OBVIOUS
    <3>3. v \in BOOLEAN  BY <3>2, Zenon
    <3>4. ctx' = [ctx EXCEPT ![c].step = "none", ![c].verify = v]
      BY <3>1, <3>2, Zenon
    <3>5. [ctx[c] EXCEPT !.step = "none", !.verify = v] \in ContextRecord
      BY <2>0, <3>3 DEF Steps
    <3>6. ctx' = [ctx EXCEPT ![c] = [ctx[c] EXCEPT !.step = "none", !.verify = v]]
      <4> HIDE DEF ContextRecord
      <4>1. ctx = [e \in Context |-> ctx[e]]  BY <2>0
      <4> QED  BY <3>4, <4>1
    <3>7. ctx'[c].step = "none"  BY <2>0, <3>6
    <3> HIDE DEF ContextRecord
    <3> QED  BY <2>0, <3>5, <3>6, <3>7
  <2>4. CASE PairVerifyV3(c)
    <3>1. HasPairing(ram, ctx[c].dev) => FindPairing(ram, ctx[c].dev) \in Slots
      BY FoundInTable
    <3> QED  BY <2>0, <2>4, <3>1 DEF PairVerifyV3, Steps
  <2>5. CASE \E d \in Device : PairingsRemove(c, d)
    <3> HIDE DEF ContextsOK, ContextRecord
    <3>1. PICK cs : ctx' = Marked(cs)  BY <2>5 DEF PairingsRemove
    <3> QED  BY <2>0, <3>1, MarkedRecords DEF ContextsOK
  <2> QED  BY <2>1, <2>2, <2>3, <2>4, <2>5 DEF Idle, PairingsAdd
<1> QED  BY <1>0, <1>1, <1>2 DEF IInv, SetupExclusive

LEMMA NextIInv == IInv /\ [Next]_vars => IInv'
<1> SUFFICES ASSUME IInv, [Next]_vars PROVE IInv'  OBVIOUS
<1>0. owner # None => preinit # "absent"  BY DEF IInv, SetupExclusive
<1>1. CASE NoNewClient \/ \E d \in Device : RefuseClient(d)
  BY <1>0, <1>1 DEF NoNewClient, RefuseClient, Prepared, IInv, ContextsOK, SetupExclusive
<1>2. CASE \E d \in Device : AcceptClient(d)  BY <1>2, AcceptKeeps
<1>3. CASE EndOfServing
  BY <1>3 DEF EndOfServing, server, IInv, ContextsOK, SetupExclusive
<1>4. CASE homekit_server_close_clients  BY <1>4, CloseKeeps
<1>5. CASE \E c \in Context : Serve(c) \/ Leave(c) \/ DelayPasses(c)
  BY <1>5, SetupKeeps, RestKeeps DEF Serve
<1>6. CASE UNCHANGED vars
  BY <1>6 DEF vars, server, IInv, ContextsOK, SetupExclusive
<1> QED  BY <1>1, <1>2, <1>3, <1>4, <1>5, <1>6 DEF Next, Loop

(* Only the client that holds the pairing context is in the middle of a    *)
(* pair setup, a held pairing context was not freed, and nobody holds one  *)
(* once the accessory is paired.                                           *)
THEOREM ExclusiveSetup == Spec => []SetupExclusive
<1>1. IInv => SetupExclusive  BY DEF IInv
<1> QED  BY InitIInv, NextIInv, <1>1, PTL DEF Spec

------------------------------------------------------------------------------
(* The list of clients, the cache and the count.  Outside of the serving   *)
(* part of a pass nobody is left to be served: that makes ListOK           *)
(* inductive.                                                              *)
ListInv ==
  /\ clients \in Seq(Context) /\ todo \in Seq(Context)
  /\ phase = "serve" \/ todo = <<>>
  /\ ListOK

(* What AfterClose leaves of a context.                                    *)
LEMMA AfterCloseUse ==
  ASSUME NEW r \in [Context -> ContextRecord], NEW l, NEW c \in Context
  PROVE  /\ c \notin ToSet(l) => AfterClose(r, l)[c] = r[c]
         /\ c \in Closing(r, l) =>
              /\ AfterClose(r, l)[c] = [Unused EXCEPT !.admin = r[c].admin]
              /\ ~AfterClose(r, l)[c].used
         /\ c \notin Closing(r, l) => /\ AfterClose(r, l)[c].used = r[c].used
                                      /\ AfterClose(r, l)[c].dev = r[c].dev
<1>1. CASE c \in Closing(r, l)
  <2>1. AfterClose(r, l)[c] = Reset(r[c])  BY <1>1 DEF AfterClose
  <2>2. c \in ToSet(l)  BY <1>1 DEF Closing
  <2>3. ~[Unused EXCEPT !.admin = r[c].admin].used  BY DEF Unused
  <2> QED  BY <1>1, <2>1, <2>2, <2>3 DEF Reset
<1>2. CASE c \notin Closing(r, l) /\ c \in ToSet(l)
  <2>1. AfterClose(r, l)[c] \in {r[c], [r[c] EXCEPT !.timer = Waiting]}
    BY <1>2 DEF AfterClose
  <2>2. r[c] \in ContextRecord  OBVIOUS
  <2> QED  BY <1>2, <2>1, <2>2 DEF ContextRecord
<1>3. CASE c \notin ToSet(l)
  <2>1. AfterClose(r, l)[c] = r[c]  BY <1>3 DEF AfterClose, Closing
  <2> QED  BY <1>3, <2>1 DEF Closing
<1> QED  BY <1>1, <1>2, <1>3

(* Closing takes as many off the list as it takes off the count.           *)
LEMMA CountAfterClose ==
  ASSUME ListInv, NEW closed \in SUBSET Linked
  PROVE  /\ Without(clients, closed) \in Seq(Context)
         /\ IsInjective(Without(clients, closed))
         /\ ToSet(Without(clients, closed)) = Linked \ closed
         /\ Len(Without(clients, closed)) = nfds - Cardinality(closed)
<1>1. clients \in Seq(Context) /\ IsInjective(clients) /\ nfds = Len(clients)
  BY DEF ListInv, ListOK
<1>2. /\ Without(clients, closed) \in Seq(Context)
      /\ IsInjective(Without(clients, closed))
      /\ ToSet(Without(clients, closed)) = Linked \ closed
  BY <1>1, WithoutFacts DEF Linked
<1>3. Len(Without(clients, closed)) = Cardinality(Linked \ closed)
  BY <1>2, InjectiveLength
<1>4. IsFiniteSet(Linked) /\ Cardinality(Linked) = Len(clients)
  BY <1>1, InjectiveLength DEF Linked
<1>5. /\ Cardinality(Linked \ closed) = Cardinality(Linked) - Cardinality(Linked \cap closed)
      /\ Linked \cap closed = closed
  BY <1>4, FS_Difference
<1> QED  BY <1>1, <1>2, <1>3, <1>4, <1>5

(* A step that leaves the list, the count and the use of the contexts      *)
(* alone.                                                                  *)
LEMMA SameList ==
  ASSUME ListInv, NEW C \in SUBSET Linked,
         \A c \in Context : ctx'[c].used = ctx[c].used,
         \A c \in Context \ C : ctx'[c] = ctx[c],
         UNCHANGED <<clients, nfds>>,
         todo' \in Seq(Context), ToSet(todo') \subseteq Linked,
         phase' = "serve" \/ todo' = <<>>,
         owner' \in {owner, None} \union Linked
  PROVE  ListInv'
<1>1. Linked' = Linked  BY DEF Linked
<1>2. \A c \in Context \ Linked' : ctx'[c] = [Unused EXCEPT !.admin = ctx'[c].admin]
  BY <1>1 DEF ListInv, ListOK
<1>3. Linked' = {c \in Context : ctx'[c].used}  BY <1>1 DEF ListInv, ListOK
<1> QED  BY <1>1, <1>2, <1>3 DEF ListInv, ListOK

LEMMA CloseKeepsList ==
  ASSUME IInv, ListInv, homekit_server_close_clients
  PROVE  ListInv'
<1> DEFINE closed == Closing(ctx, clients)
<1>1. closed \in SUBSET Linked  BY DEF Closing, Linked
<1>2. /\ clients' = Without(clients, closed) /\ nfds' = nfds - Cardinality(closed)
      /\ ctx' = AfterClose(ctx, clients)
      /\ IF owner \in closed THEN owner' = None ELSE owner' = owner
      /\ todo' = todo /\ phase = "close"
  BY DEF homekit_server_close_clients, ReleaseSetup
<1>3. todo' = <<>>  BY <1>2 DEF ListInv
<1>4. /\ clients' \in Seq(Context) /\ IsInjective(clients') /\ nfds' = Len(clients')
      /\ Linked' = Linked \ closed
  <2> HIDE DEF closed
  <2> QED  BY <1>1, <1>2, CountAfterClose DEF Linked
<1>5. ctx \in [Context -> ContextRecord]  BY DEF IInv, ContextsOK
<1>6. ASSUME NEW c \in Context
      PROVE  /\ c \notin Linked => ctx'[c] = ctx[c]
             /\ c \in closed => /\ ctx'[c] = [Unused EXCEPT !.admin = ctx[c].admin]
                                /\ ~ctx'[c].used
             /\ c \notin closed => ctx'[c].used = ctx[c].used
  BY <1>2, <1>5, AfterCloseUse DEF Linked
<1> HIDE DEF closed
<1>7. ASSUME NEW c \in Context \ Linked'
      PROVE  ctx'[c] = [Unused EXCEPT !.admin = ctx'[c].admin]
  <2>1. CASE c \in closed
    <3>1. [Unused EXCEPT !.admin = ctx[c].admin].admin = ctx[c].admin  BY DEF Unused
    <3> QED  BY <1>6, <2>1, <3>1
  <2>2. CASE c \notin Linked  BY <1>6, <2>2 DEF ListInv, ListOK
  <2> QED  BY <1>4, <2>1, <2>2
<1>8. Linked' = {c \in Context : ctx'[c].used}
  <2>1. Linked = {c \in Context : ctx[c].used}  BY DEF ListInv, ListOK
  <2> QED  BY <1>1, <1>4, <1>6, <2>1
<1>9. owner' # None => owner' \in Linked'
  BY <1>2, <1>4 DEF ListInv, ListOK
<1> QED  BY <1>3, <1>4, <1>7, <1>8, <1>9, EmptyList DEF ListInv, ListOK

LEMMA ContextCount == IsFiniteSet(Context) /\ Cardinality(Context) = MaxClients
<1>1. /\ MaxClients \in Nat /\ 0 \in Int /\ MaxClients - 1 \in Int
      /\ (MaxClients - 1) - 0 + 1 = MaxClients /\ ~(0 > MaxClients - 1)
  BY ContextAssumption
<1>2. /\ IsFiniteSet(0..(MaxClients - 1))
      /\ Cardinality(0..(MaxClients - 1)) = MaxClients
  BY <1>1, FS_Interval
<1> QED  BY <1>2, ContextAssumption

(* A client that is let in finds a context that is not in the list.        *)
LEMMA RoomForClient ==
  ASSUME IInv, ListInv, nfds < MaxClients, NEW r,
         \A c \in Context \ Linked : r[c] = ctx[c]
  PROVE  LET new == Min({c \in Context : ~r[c].used})
         IN  new \in Context /\ ~r[new].used
<1>1. IsFiniteSet(Context) /\ Cardinality(Context) = MaxClients  BY ContextCount
<1>2. Cardinality(Linked) = nfds
  BY InjectiveLength DEF ListInv, ListOK, Linked
<1>3. PICK c \in Context : c \notin Linked
  <2>1. Linked \subseteq Context  BY DEF ListInv, ListOK
  <2>2. nfds < MaxClients /\ nfds \in Nat /\ MaxClients \in Nat
    BY ContextAssumption DEF ListInv, ListOK
  <2>3. Linked # Context  BY <1>1, <1>2, <2>2
  <2> QED  BY <2>1, <2>3
<1>4. ~r[c].used  BY <1>3 DEF ListInv, ListOK
<1> DEFINE free == {e \in Context : ~r[e].used}
<1>5. free \in SUBSET Nat /\ free # {}  BY <1>4, ContextAssumption
<1>6. Min(free) \in free
  <2> HIDE DEF free
  <2> QED  BY <1>5, MinIsLeast
<1> QED  BY <1>6

LEMMA AcceptKeepsList ==
  ASSUME IInv, ListInv, NEW d \in Device, AcceptClient(d)
  PROVE  ListInv'
<1> DEFINE marked == Marked(Duplicates(d))
           closed == IF Duplicates(d) = {} THEN {} ELSE Closing(marked, clients)
           r == IF Duplicates(d) = {} THEN ctx ELSE AfterClose(marked, clients)
           kept == Without(clients, closed)
           new == Min({c \in Context : ~r[c].used})
<1>1. closed \in SUBSET Linked  BY DEF Closing, Linked
<1>2. /\ nfds < MaxClients
      /\ IF WrongBefore(d) # {}
         THEN ctx' = r /\ clients' = kept /\ nfds' = nfds - Cardinality(closed)
         ELSE /\ ctx' = [r EXCEPT ![new] = [@ EXCEPT !.used = TRUE, !.dev = d]]
              /\ clients' = <<new>> \o kept
              /\ nfds' = nfds - Cardinality(closed) + 1
      /\ IF owner \in closed THEN owner' = None ELSE owner' = owner
      /\ phase' = "serve" /\ todo' = clients'
  BY DEF AcceptClient, StartPass
<1>3. /\ kept \in Seq(Context) /\ IsInjective(kept) /\ Len(kept) = nfds - Cardinality(closed)
      /\ ToSet(kept) = Linked \ closed
  <2> HIDE DEF closed
  <2> QED  BY <1>1, CountAfterClose
<1>4. r \in [Context -> ContextRecord]
  <2>1. ctx \in [Context -> ContextRecord]  BY DEF IInv, ContextsOK
  <2>2. marked \in [Context -> ContextRecord]  BY MarkedRecords DEF IInv
  <2> HIDE DEF marked
  <2> QED  BY <2>1, <2>2, AfterCloseRecords
<1>5. ASSUME NEW c \in Context
      PROVE  /\ c \notin Linked => r[c] = ctx[c]
             /\ c \in closed => r[c] = [Unused EXCEPT !.admin = r[c].admin] /\ ~r[c].used
             /\ c \notin closed => r[c].used = ctx[c].used
  <2>1. CASE Duplicates(d) = {}  BY <2>1
  <2>2. CASE Duplicates(d) # {}
    <3>1. marked \in [Context -> ContextRecord]  BY MarkedRecords DEF IInv
    <3>2. /\ c \notin Linked => marked[c] = ctx[c]
          /\ marked[c].used = ctx[c].used
      <4>1. marked[c] \in {ctx[c], [ctx[c] EXCEPT !.disconnect = TRUE]}
        BY DEF Marked
      <4>2. c \in Duplicates(d) => c \in Linked
        BY DEF Duplicates, SameAddress, ListInv, ListOK
      <4>3. ctx[c] \in ContextRecord  BY DEF IInv, ContextsOK
      <4> QED  BY <4>1, <4>2, <4>3 DEF Marked, ContextRecord
    <3>3. [Unused EXCEPT !.admin = marked[c].admin].admin = marked[c].admin  BY DEF Unused
    <3>4. r = AfterClose(marked, clients) /\ closed = Closing(marked, clients)  BY <2>2
    <3> HIDE DEF marked, r, closed
    <3>5. /\ c \notin Linked => r[c] = marked[c]
          /\ c \in closed => /\ r[c] = [Unused EXCEPT !.admin = marked[c].admin]
                             /\ ~r[c].used
          /\ c \notin closed => r[c].used = marked[c].used
      BY <3>1, <3>4, AfterCloseUse DEF Linked
    <3>6. c \in closed => r[c] = [Unused EXCEPT !.admin = r[c].admin]
      BY <3>3, <3>5
    <3> QED  BY <3>2, <3>5, <3>6
  <2> QED  BY <2>1, <2>2
<1> HIDE DEF closed, r, kept
<1>6. new \in Context /\ ~r[new].used  BY <1>2, <1>5, RoomForClient
<1> HIDE DEF new
<1>7. Linked = {c \in Context : ctx[c].used}  BY DEF ListInv, ListOK
<1>8. /\ clients' \in Seq(Context) /\ IsInjective(clients') /\ nfds' = Len(clients')
      /\ Linked' = {c \in Context : ctx'[c].used}
      /\ Linked \ closed \subseteq Linked'
      /\ \A c \in Context \ Linked' : ctx'[c] = r[c]
  <2>1. CASE WrongBefore(d) # {}
    <3>1. ToSet(clients') = Linked \ closed  BY <1>2, <1>3, <2>1
    <3> QED  BY <1>1, <1>2, <1>3, <1>5, <1>7, <2>1, <3>1 DEF Linked
  <2>2. CASE WrongBefore(d) = {}
    <3>1. new \notin ToSet(kept)  BY <1>1, <1>3, <1>5, <1>6, <1>7
    <3>2. /\ clients' \in Seq(Context) /\ Len(clients') = Len(kept) + 1
          /\ ToSet(clients') = (Linked \ closed) \union {new} /\ IsInjective(clients')
      <4>1. clients' = <<new>> \o kept  BY <1>2, <2>2
      <4> QED  BY <1>3, <1>6, <3>1, <4>1, Prepended
    <3>3. ctx'[new].used
      <4>1. r[new] \in ContextRecord  BY <1>4, <1>6
      <4> QED  BY <1>2, <1>4, <1>6, <2>2, <4>1 DEF ContextRecord
    <3>4. \A c \in Context \ {new} : ctx'[c] = r[c]  BY <1>2, <1>4, <2>2
    <3>5. Linked' = (Linked \ closed) \union {new}  BY <3>2 DEF Linked
    <3>6. Linked' = {c \in Context : ctx'[c].used}
      <4>1. ASSUME NEW c \in Context PROVE c \in Linked' <=> ctx'[c].used
        <5>1. CASE c = new  BY <3>3, <3>5, <5>1
        <5>2. CASE c # new  BY <1>5, <1>7, <3>4, <3>5, <5>2
        <5> QED  BY <5>1, <5>2
      <4>2. Linked' \subseteq Context  BY <1>6, <1>7, <3>5
      <4> QED  BY <4>1, <4>2
    <3> QED  BY <1>2, <1>3, <2>2, <3>2, <3>4, <3>5, <3>6
  <2> QED  BY <2>1, <2>2
<1>9. ASSUME NEW c \in Context \ Linked'
      PROVE  ctx'[c] = [Unused EXCEPT !.admin = ctx'[c].admin]
  <2>1. CASE c \in closed  BY <1>5, <1>8, <2>1
  <2>2. CASE c \notin Linked
    <3>1. ctx[c] = [Unused EXCEPT !.admin = ctx[c].admin]
      BY <2>2 DEF ListInv, ListOK
    <3> QED  BY <1>5, <1>8, <2>2, <3>1
  <2> QED  BY <1>8, <2>1, <2>2
<1>10. owner' # None => owner' \in Linked'
  BY <1>2, <1>8 DEF ListInv, ListOK
<1>11. todo' \in Seq(Context) /\ ToSet(todo') \subseteq Linked' /\ phase' = "serve"
  BY <1>2, <1>8 DEF Linked
<1> QED  BY <1>8, <1>9, <1>10, <1>11 DEF ListInv, ListOK

(* A request, a client that goes and the clock change a context that is    *)
(* in the list, or mark some of them.                                      *)
LEMMA OneContext ==
  ASSUME IInv, NEW c \in Context, Serve(c) \/ Leave(c) \/ DelayPasses(c)
  PROVE  \/ \E C \in SUBSET Linked : ctx' = Marked(C)
         \/ /\ \A e \in Context \ {c} : ctx'[e] = ctx[e]
            /\ ctx'[c].used = ctx[c].used /\ ctx'[c].dev = ctx[c].dev
<1>0. ctx \in [Context -> ContextRecord] /\ ctx[c] \in ContextRecord
  BY DEF IInv, ContextsOK
<1> USE DEF SetStep, ContextRecord
<1>1. CASE Idle(c) \/ Disconnected(c) \/ WrongEndpoint(c) \/ Leave(c) \/ DelayPasses(c)
  BY <1>0, <1>1 DEF Idle, Disconnected, WrongEndpoint, Leave, DelayPasses
<1>2. CASE PairSetupM1(c) \/ PairSetupM3(c) \/ PairSetupM5(c)
  <2>1. \E s : ctx' = [ctx EXCEPT ![c].step = s]
    <3>1. CASE PairSetupM1(c)  BY <3>1 DEF PairSetupM1
    <3>2. CASE PairSetupM3(c)  BY <3>2 DEF PairSetupM3
    <3>3. CASE PairSetupM5(c)  BY <3>3 DEF PairSetupM5
    <3> QED  BY <1>2, <3>1, <3>2, <3>3
  <2> QED  BY <1>0, <2>1
<1>3. CASE PairVerifyV1(c)
  <2>1. PICK v : ctx' = [ctx EXCEPT ![c].step = "none", ![c].verify = v]
    BY <1>3 DEF PairVerifyV1
  <2> QED  BY <1>0, <2>1
<1>4. CASE PairVerifyV3(c)
  BY <1>0, <1>4 DEF PairVerifyV3
<1>5. CASE \E d \in Device, p \in Perm : PairingsAdd(c, d, p)
  BY <1>0, <1>5 DEF PairingsAdd
<1>6. CASE \E d \in Device : PairingsRemove(c, d)
  <2>1. PICK d \in Device : ctx' = Marked(WithSlot(FindPairing(ram, d)))
    BY <1>6 DEF PairingsRemove
  <2>2. WithSlot(FindPairing(ram, d)) \in SUBSET Linked  BY DEF WithSlot
  <2> QED  BY <2>1, <2>2
<1> QED  BY <1>1, <1>2, <1>3, <1>4, <1>5, <1>6 DEF Serve

(* Who serves is the next of those that are left.                          *)
LEMMA ServedInOrder ==
  ASSUME ListInv, NEW c \in Context, Serve(c)
  PROVE  /\ phase = "serve" /\ phase' = phase /\ todo # <<>>
         /\ c = Head(todo) /\ todo' = Tail(todo)
         /\ UNCHANGED <<clients, nfds>>
         /\ owner' \in {owner, None, c}
<1>1. Serving(c)
  BY DEF Serve, Idle, Disconnected, WrongEndpoint, PairSetupM1, PairSetupM3,
         PairSetupM5, PairVerifyV1, PairVerifyV3, PairingsRemove, PairingsAdd, Requesting
<1>2. owner' \in {owner, None, c}
  <2> USE DEF server
  <2>1. CASE PairSetupM1(c)  BY <2>1 DEF PairSetupM1
  <2>2. CASE PairSetupM3(c)  BY <2>2 DEF PairSetupM3
  <2>3. CASE PairSetupM5(c)  BY <2>3 DEF PairSetupM5
  <2>4. CASE PairVerifyV1(c) \/ PairVerifyV3(c)  BY <2>4 DEF PairVerifyV1, PairVerifyV3
  <2>5. CASE \E d \in Device : PairingsRemove(c, d) \/ \E p \in Perm : PairingsAdd(c, d, p)
    BY <2>5 DEF PairingsRemove, PairingsAdd
  <2>6. CASE Idle(c) \/ Disconnected(c) \/ WrongEndpoint(c)
    BY <2>6 DEF Idle, Disconnected, WrongEndpoint
  <2> QED  BY <2>1, <2>2, <2>3, <2>4, <2>5, <2>6 DEF Serve
<1> QED  BY <1>1, <1>2 DEF Serving

LEMMA ClientKeepsList ==
  ASSUME IInv, ListInv, NEW c \in Context, Serve(c) \/ Leave(c) \/ DelayPasses(c)
  PROVE  ListInv'
<1>0. ctx \in [Context -> ContextRecord]  BY DEF IInv, ContextsOK
<1>1. c \in Linked
  <2>1. CASE Serve(c)
    <3>1. c \in ToSet(todo)  BY <2>1, ServedInOrder, TailMembers DEF ListInv
    <3> QED  BY <3>1 DEF ListInv, ListOK
  <2>2. CASE Leave(c)  BY <2>2 DEF Leave
  <2>3. CASE DelayPasses(c)
    <3>1. c \notin Linked => ctx[c].timer = NotMarked
      BY DEF ListInv, ListOK, Unused
    <3> QED  BY <2>3, <3>1 DEF DelayPasses, Waiting, NotMarked
  <2> QED  BY <2>1, <2>2, <2>3
<1>2. /\ UNCHANGED <<clients, nfds>>
      /\ todo' \in Seq(Context) /\ ToSet(todo') \subseteq Linked
      /\ phase' = "serve" \/ todo' = <<>>
      /\ owner' \in {owner, None, c}
  <2>1. CASE Serve(c)
    <3>1. Tail(todo) \in Seq(Context) /\ ToSet(Tail(todo)) \subseteq ToSet(todo)
      BY <2>1, ServedInOrder, TailMembers DEF ListInv
    <3> QED  BY <2>1, <3>1, ServedInOrder DEF ListInv, ListOK
  <2>2. CASE Leave(c) \/ DelayPasses(c)
    BY <2>2 DEF Leave, DelayPasses, server, ListInv, ListOK
  <2> QED  BY <2>1, <2>2
<1>3. CASE \E C \in SUBSET Linked : ctx' = Marked(C)
  <2>1. PICK C \in SUBSET Linked : ctx' = Marked(C)  BY <1>3
  <2>2. ASSUME NEW e \in Context
        PROVE  ctx'[e].used = ctx[e].used /\ (e \notin C => ctx'[e] = ctx[e])
    <3>1. ctx[e] \in ContextRecord  BY <1>0
    <3>2. ctx'[e] = IF e \in C THEN [ctx[e] EXCEPT !.disconnect = TRUE] ELSE ctx[e]
      BY <2>1 DEF Marked
    <3> QED  BY <3>1, <3>2 DEF ContextRecord
  <2> QED  BY <1>1, <1>2, <2>2, SameList
<1>4. CASE /\ \A e \in Context \ {c} : ctx'[e] = ctx[e]
           /\ ctx'[c].used = ctx[c].used
  BY <1>1, <1>2, <1>4, SameList
<1> QED  BY <1>3, <1>4, OneContext

LEMMA InitList == Init => ListInv
<1> SUFFICES ASSUME Init PROVE ListInv  OBVIOUS
<1>1. clients = <<>> /\ todo = <<>> /\ nfds = 0 /\ owner = None  BY DEF Init
<1>2. \A c \in Context : ctx[c] = Unused  BY DEF Init
<1>3. ~Unused.used /\ Unused = [Unused EXCEPT !.admin = Unused.admin]  BY DEF Unused
<1> QED  BY <1>1, <1>2, <1>3, EmptyList DEF ListInv, ListOK, Linked

LEMMA NextList == IInv /\ ListInv /\ [Next]_vars => ListInv'
<1> SUFFICES ASSUME IInv, ListInv, [Next]_vars PROVE ListInv'  OBVIOUS
<1>1. CASE NoNewClient \/ \E d \in Device : RefuseClient(d)
  <2>1. /\ UNCHANGED <<ctx, clients, nfds, owner>>
        /\ phase' = "serve" /\ todo' = clients
    BY <1>1 DEF NoNewClient, RefuseClient, StartPass
  <2>2. clients \in Seq(Context) /\ Linked = ToSet(clients)  BY DEF ListInv, Linked
  <2> QED  BY <2>1, <2>2, SameList
<1>2. CASE \E d \in Device : AcceptClient(d)  BY <1>2, AcceptKeepsList
<1>3. CASE EndOfServing
  BY <1>3 DEF EndOfServing, server, ListInv, ListOK, Linked
<1>4. CASE homekit_server_close_clients  BY <1>4, CloseKeepsList
<1>5. CASE \E c \in Context : Serve(c) \/ Leave(c) \/ DelayPasses(c)
  BY <1>5, ClientKeepsList
<1>6. CASE UNCHANGED vars
  BY <1>6 DEF vars, server, ListInv, ListOK, Linked
<1> QED  BY <1>1, <1>2, <1>3, <1>4, <1>5, <1>6 DEF Next, Loop

(* The count that refuses clients, the linked list and the cache agree; a  *)
(* context that is given back is fit for the next client; the pairing      *)
(* context does not outlive its client.                                    *)
THEOREM ListsAgree == Spec => []ListOK
<1>1. ListInv => ListOK  BY DEF ListInv
<1> QED  BY InitIInv, NextIInv, InitList, NextList, <1>1, PTL DEF Spec

------------------------------------------------------------------------------
(* Types.  A client in use is a controller's, so what pair setup stores is *)
(* a pairing record.                                                       *)
Typed ==
  /\ ram \in Image
  /\ paired \in BOOLEAN
  /\ preinit \in {"absent", "ready", "spent"}
  /\ phase \in {"accept", "serve", "close"}
  /\ \A c \in Context : ctx[c].used => ctx[c].dev \in Device

LEMMA AddedRam ==
  ASSUME ram \in Image, NEW d \in Device, NEW p \in Perm, NEW o \in AddOutcomes(d, p)
  PROVE  After(ram, o.images) \in Image
<1>1. CASE o = Outcome(<<>>, -2)
  BY <1>1, OutcomeParts DEF After
<1>2. CASE o \in UpdatePairing(ram, d, p)  BY <1>2, UpdateOutcomesOK, AfterImages
<1>3. CASE o \in AddPairing(ram, d, p)  BY <1>3, AddOutcomesOK, AfterImages
<1> QED  BY <1>1, <1>2, <1>3 DEF AddOutcomes

LEMMA RamTyped ==
  ASSUME ListInv, Typed, NEW c \in Context, Serve(c)
  PROVE  ram' \in Image /\ paired' \in BOOLEAN
<1> USE DEF server
<1>0. ctx[c].dev \in Device
  <2>1. c \in ToSet(todo)  BY ServedInOrder, TailMembers DEF ListInv
  <2> QED  BY <2>1 DEF ListInv, ListOK, Typed
<1>1. CASE PairSetupM1(c)  BY <1>1 DEF PairSetupM1, Typed
<1>2. CASE PairSetupM3(c)  BY <1>2 DEF PairSetupM3, Typed
<1>3. CASE PairSetupM5(c)
  <2>1. CASE UNCHANGED server  BY <2>1 DEF Typed
  <2>2. CASE \E o \in AddPairing(ram, ctx[c].dev, Admin) :
                o.code = 0 /\ ram' = Last(o.images) /\ paired' \in {paired, TRUE}
    <3>1. PICK o \in AddPairing(ram, ctx[c].dev, Admin) :
                 o.code = 0 /\ ram' = Last(o.images) /\ paired' \in {paired, TRUE}
      BY <2>2
    <3>2. o.images \in Seq(Image) /\ o.images # <<>>
      BY <1>0, <3>1, AddOutcomesOK, PermAssumption DEF Typed
    <3> QED  BY <3>1, <3>2, LastOfSeq DEF Typed
  <2> QED  BY <1>3, <2>1, <2>2 DEF PairSetupM5
<1>4. CASE PairVerifyV1(c) \/ PairVerifyV3(c)  BY <1>4 DEF PairVerifyV1, PairVerifyV3, Typed
<1>5. CASE \E d \in Device, p \in Perm : PairingsAdd(c, d, p)
  BY <1>5, AddedRam DEF PairingsAdd, Typed
<1>6. CASE \E d \in Device : PairingsRemove(c, d)
  <2>1. PICK d \in Device : PairingsRemove(c, d)  BY <1>6
  <2> DEFINE i == FindPairing(ram, d)
             m == Put(ram, i, Erased)
  <2>2. /\ HasPairing(ram, d) /\ ram' = m
        /\ paired' = (paired /\ (ram.slot[i].perm = Admin => HasAdmin(m)))
    BY <2>1, Zenon DEF PairingsRemove
  <2>3. i \in Slots /\ Erased \in Content  BY <2>2, FoundInTable DEF Content
  <2> HIDE DEF i
  <2>4. m \in Image  BY <2>3, PutSlot DEF Typed
  <2>5. paired' \in BOOLEAN  BY <2>2, Zenon
  <2> QED  BY <2>2, <2>4, <2>5
<1>7. CASE Idle(c) \/ Disconnected(c) \/ WrongEndpoint(c)
  BY <1>7 DEF Idle, Disconnected, WrongEndpoint, Typed
<1> QED  BY <1>1, <1>2, <1>3, <1>4, <1>5, <1>6, <1>7 DEF Serve

LEMMA MarkedDevice ==
  ASSUME IInv, NEW cs, NEW c \in Context
  PROVE  Marked(cs)[c].used = ctx[c].used /\ Marked(cs)[c].dev = ctx[c].dev
<1>1. ctx[c] \in ContextRecord  BY DEF IInv, ContextsOK
<1>2. Marked(cs)[c] = IF c \in cs THEN [ctx[c] EXCEPT !.disconnect = TRUE] ELSE ctx[c]
  BY DEF Marked
<1> QED  BY <1>1, <1>2 DEF ContextRecord

LEMMA DevicesKept ==
  ASSUME IInv, Typed, [Next]_vars, NEW c \in Context, ctx'[c].used
  PROVE  ctx'[c].dev \in Device
<1>0. ctx \in [Context -> ContextRecord]  BY DEF IInv, ContextsOK
<1>1. CASE UNCHANGED ctx  BY <1>1 DEF Typed
<1>2. CASE \E d \in Device : AcceptClient(d)
  <2>1. PICK d \in Device : AcceptClient(d)  BY <1>2
  <2> DEFINE marked == Marked(Duplicates(d))
             r == IF Duplicates(d) = {} THEN ctx ELSE AfterClose(marked, clients)
  <2>2. PICK new : \/ ctx' = r
                   \/ ctx' = [r EXCEPT ![new] = [@ EXCEPT !.used = TRUE, !.dev = d]]
    BY <2>1 DEF AcceptClient
  <2>3. r \in [Context -> ContextRecord] /\ (r[c].used => r[c].dev \in Device)
    <3>1. CASE Duplicates(d) = {}  BY <1>0, <3>1 DEF Typed
    <3>2. CASE Duplicates(d) # {}
      <4>1. /\ marked \in [Context -> ContextRecord]
            /\ marked[c].used = ctx[c].used /\ marked[c].dev = ctx[c].dev
        BY MarkedRecords, MarkedDevice DEF IInv
      <4>2. r = AfterClose(marked, clients)  BY <3>2
      <4> HIDE DEF marked, r
      <4>3. r \in [Context -> ContextRecord]  BY <4>1, <4>2, AfterCloseRecords
      <4>4. r[c].used => r[c].used = marked[c].used /\ r[c].dev = marked[c].dev
        BY <4>1, <4>2, AfterCloseUse
      <4> QED  BY <4>1, <4>3, <4>4 DEF Typed
    <3> QED  BY <3>1, <3>2
  <2> HIDE DEF r
  <2>4. ctx'[c] \in {r[c], [r[c] EXCEPT !.used = TRUE, !.dev = d]}  BY <2>2, <2>3
  <2>5. r[c] \in ContextRecord  BY <2>3
  <2> QED  BY <2>3, <2>4, <2>5 DEF ContextRecord
<1>3. CASE homekit_server_close_clients
  <2>1. ctx' = AfterClose(ctx, clients)  BY <1>3 DEF homekit_server_close_clients
  <2> QED  BY <1>0, <2>1, AfterCloseUse DEF Typed
<1>4. CASE \E e \in Context : Serve(e) \/ Leave(e) \/ DelayPasses(e)
  <2>1. PICK e \in Context : Serve(e) \/ Leave(e) \/ DelayPasses(e)  BY <1>4
  <2>2. CASE \E C \in SUBSET Linked : ctx' = Marked(C)
    BY <2>2, MarkedDevice DEF Typed
  <2>3. CASE /\ \A k \in Context \ {e} : ctx'[k] = ctx[k]
             /\ ctx'[e].used = ctx[e].used /\ ctx'[e].dev = ctx[e].dev
    BY <2>3 DEF Typed
  <2> QED  BY <2>1, <2>2, <2>3, OneContext
<1> QED  BY <1>1, <1>2, <1>3, <1>4
      DEF Next, Loop, NoNewClient, RefuseClient, EndOfServing, vars

LEMMA NextTyped == IInv /\ ListInv /\ Typed /\ [Next]_vars => Typed'
<1> SUFFICES ASSUME IInv, ListInv, Typed, [Next]_vars PROVE Typed'  OBVIOUS
<1>1. ram' \in Image /\ paired' \in BOOLEAN
  <2>1. CASE UNCHANGED <<ram, paired>>  BY <2>1 DEF Typed
  <2>2. CASE \E c \in Context : Serve(c)  BY <2>2, RamTyped
  <2> QED  BY <2>1, <2>2
        DEF Next, Loop, NoNewClient, RefuseClient, AcceptClient, EndOfServing,
            homekit_server_close_clients, Leave, DelayPasses, vars, server
<1>2. preinit' \in {"absent", "ready", "spent"} /\ phase' \in {"accept", "serve", "close"}
  <2> USE DEF Typed, Prepared, server, StartPass
  <2>1. CASE NoNewClient \/ EndOfServing \/ homekit_server_close_clients \/ UNCHANGED vars
    BY <2>1 DEF NoNewClient, EndOfServing, homekit_server_close_clients, ReleaseSetup, vars
  <2>2. CASE \E d \in Device : RefuseClient(d) \/ AcceptClient(d)
    BY <2>2 DEF RefuseClient, AcceptClient
  <2>3. CASE \E c \in Context : Leave(c) \/ DelayPasses(c)
    BY <2>3 DEF Leave, DelayPasses
  <2>4. CASE \E c \in Context : Serve(c)
    <3>1. PICK c \in Context : Serve(c)  BY <2>4
    <3>2. phase' = phase  BY <3>1, ServedInOrder
    <3>3. CASE PairSetupM1(c) \/ PairSetupM3(c) \/ PairSetupM5(c)
      BY <3>2, <3>3 DEF PairSetupM1, PairSetupM3, PairSetupM5
    <3>4. CASE UNCHANGED preinit  BY <3>2, <3>4
    <3> QED  BY <3>1, <3>3, <3>4
          DEF Serve, Idle, Disconnected, WrongEndpoint, PairVerifyV1, PairVerifyV3,
              PairingsAdd, PairingsRemove
  <2> QED  BY <2>1, <2>2, <2>3, <2>4 DEF Next, Loop
<1>3. \A c \in Context : ctx'[c].used => ctx'[c].dev \in Device  BY DevicesKept
<1> QED  BY <1>1, <1>2, <1>3 DEF Typed

LEMMA InitTyped == Init => Typed
<1> SUFFICES ASSUME Init PROVE Typed  OBVIOUS
<1>1. ram \in Image
  <2>1. 1 \in Identity  BY MaxIdentityAssumption DEF Identity
  <2>2. ram = [Formatted EXCEPT !.id = 1, !.key = 1]  BY DEF Init
  <2> QED  BY <2>1, <2>2, EmptyImages DEF Image
<1>2. \A c \in Context : ~ctx[c].used  BY DEF Init, Unused
<1> QED  BY <1>1, <1>2 DEF Init, Typed

LEMMA TypesFollow == IInv /\ ListInv /\ Typed => TypeOK
<1> SUFFICES ASSUME IInv, ListInv, Typed PROVE TypeOK  OBVIOUS
<1>1. nfds \in 0..MaxClients
  <2>1. IsFiniteSet(Linked) /\ Cardinality(Linked) = nfds /\ Linked \subseteq Context
    BY InjectiveLength DEF ListInv, ListOK, Linked
  <2>2. IsFiniteSet(Context) /\ Cardinality(Context) = MaxClients  BY ContextCount
  <2>3. nfds =< MaxClients  BY <2>1, <2>2, FS_Subset
  <2>4. nfds \in Nat  BY DEF ListInv, ListOK
  <2> QED  BY <2>3, <2>4, ContextAssumption
<1>2. owner \in Context \union {None}  BY DEF ListInv, ListOK
<1> QED  BY <1>1, <1>2 DEF IInv, ContextsOK, ListInv, Typed, TypeOK

(* Every variable keeps its type: the count of clients never exceeds their *)
(* limit nor falls below zero, and no call of the storage leaves anything  *)
(* but pairing records, blank and erased slots in the image.               *)
THEOREM TypeCorrect == Spec => []TypeOK
BY InitIInv, NextIInv, InitList, NextList, InitTyped, NextTyped, TypesFollow, PTL DEF Spec

------------------------------------------------------------------------------
(* With a blank slot left, only the removal of its pairing takes the last  *)
(* record from a controller.                                               *)
LEMMA OnlyRemoved ==
  ASSUME ListInv, Typed, [Next]_vars, NEW d,
         BlankSlots(ram) # {}, HasPairing(ram, d), ~HasPairing(ram', d)
  PROVE  \E e \in Context, k \in Device : PairingsRemove(e, k)
<1>1. CASE UNCHANGED ram  BY <1>1
<1>2. CASE \E e \in Context : PairSetupM5(e)
  <2>1. PICK e \in Context : PairSetupM5(e)  BY <1>2
  <2>2. ctx[e].dev \in Device
    <3>1. Serve(e)  BY <2>1 DEF Serve
    <3>2. e \in ToSet(todo)  BY <3>1, ServedInOrder, TailMembers DEF ListInv
    <3> QED  BY <3>2 DEF ListInv, ListOK, Typed
  <2>3. \/ UNCHANGED ram
        \/ \E o \in AddPairing(ram, ctx[e].dev, Admin) : ram' = Last(o.images)
    BY <2>1 DEF PairSetupM5, server
  <2> QED  BY <2>2, <2>3, AddKeepsPairings, PermAssumption DEF Typed
<1>3. CASE \E e \in Context, k \in Device, p \in Perm : PairingsAdd(e, k, p)
  <2>1. PICK k \in Device, p \in Perm :
          \E o \in AddOutcomes(k, p) : ram' = After(ram, o.images)
    BY <1>3 DEF PairingsAdd
  <2>0. PICK o \in AddOutcomes(k, p) : ram' = After(ram, o.images)  BY <2>1
  <2>2. CASE o = Outcome(<<>>, -2)
    <3>1. ram' = ram  BY <2>0, <2>2, OutcomeParts DEF After
    <3> QED  BY <3>1
  <2>3. CASE o \in UpdatePairing(ram, k, p)
    BY <2>0, <2>3, UpdateKeepsPairings DEF Typed
  <2>4. CASE o \in AddPairing(ram, k, p)
    BY <2>0, <2>4, AddKeepsPairings DEF Typed
  <2> QED  BY <2>2, <2>3, <2>4 DEF AddOutcomes
<1> QED
  BY <1>1, <1>2, <1>3
  DEF Next, Loop, Serve, NoNewClient, RefuseClient, AcceptClient, EndOfServing,
      homekit_server_close_clients, Idle, Disconnected, WrongEndpoint, PairSetupM1,
      PairSetupM3, PairVerifyV1, PairVerifyV3, Leave, DelayPasses, vars, server

LEMMA RemovalStep ==
  ASSUME IInv, ListInv, Typed, [Next]_vars, NEW c \in Linked,
         BlankSlots(ram) # {},
         SlotsOf(ram, ctx[c].dev) = {ctx[c].pairing_id},
         ~HasPairing(ram', ctx[c].dev)
  PROVE  ctx[c].disconnect'
<1> DEFINE d == ctx[c].dev
<1>1. HasPairing(ram, d)  BY DEF HasPairing
<1>2. PICK e \in Context, k \in Device : PairingsRemove(e, k)
  BY <1>1, OnlyRemoved
<1> DEFINE i == FindPairing(ram, k)
<1>3. HasPairing(ram, k) /\ ram' = Put(ram, i, Erased) /\ ctx' = Marked(WithSlot(i))
  BY <1>2 DEF PairingsRemove
<1>4. i \in Slots /\ i \in SlotsOf(ram, k)  BY <1>3, FoundInTable
<1>5. i = ctx[c].pairing_id
  <2> SUFFICES ASSUME i # ctx[c].pairing_id PROVE FALSE  OBVIOUS
  <2>1. ctx[c].pairing_id \in SlotsOf(ram, d)  OBVIOUS
  <2> HIDE DEF i, d
  <2>2. ctx[c].pairing_id \in SlotsOf(Put(ram, i, Erased), d)
    BY <1>4, <2>1, RecordStays DEF Typed, Content
  <2> QED  BY <1>3, <2>2 DEF HasPairing, d
<1>6. c \in WithSlot(i) /\ c \in Context
  BY <1>5 DEF WithSlot, ListInv, ListOK
<1> HIDE DEF i
<1>7. ctx'[c] = [ctx[c] EXCEPT !.disconnect = TRUE]  BY <1>3, <1>6 DEF Marked
<1>8. ctx[c] \in ContextRecord  BY <1>6 DEF IInv, ContextsOK
<1> QED  BY <1>7, <1>8 DEF ContextRecord

(* A session ends with the pairing it was verified with: the step that     *)
(* takes the last record from its controller marks it to disconnect.       *)
THEOREM RemovedSessionsEnd == Spec => RemovalEndsSession
<1>1. IInv /\ ListInv /\ Typed /\ [Next]_vars
        => [\A c \in Linked :
              LET d == ctx[c].dev
              IN  /\ ctx[c].encrypted
                  /\ BlankSlots(ram) # {}
                  /\ SlotsOf(ram, d) = {ctx[c].pairing_id}
                  /\ ~HasPairing(ram', d)
                  => ctx[c].disconnect' ]_vars
  BY RemovalStep
<1> QED
  BY <1>1, InitIInv, NextIInv, InitList, NextList, InitTyped, NextTyped, PTL
  DEF Spec, RemovalEndsSession
==============================================================================
