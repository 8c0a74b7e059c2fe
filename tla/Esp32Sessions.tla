--------------------------- MODULE Esp32Sessions ---------------------------
(***************************************************************************)
(* server.c: the connections of the ESP32 server, the pair setup and pair  *)
(* verify exchanges on them, and requests on the pairings.                 *)
(*                                                                         *)
(* The server has a task of its own.  A pass of homekit_run_server()       *)
(* accepts at most one client, serves the clients that select() reported   *)
(* and closes the marked ones at once.  The first clients get a context    *)
(* of cache_client_contexts, the others one from the heap.                 *)
(*                                                                         *)
(* A controller follows the exchanges: it sends M3 after M2, M5 after M4,  *)
(* and requests on the pairings on a verified session; the server, which   *)
(* dispatches by path and method alone, does not test that last point      *)
(* (homekit_server_on_message_complete).  A request arrives whole; a call  *)
(* of the cryptography may fail where the code returns an error.  Power    *)
(* losses and the faults of the storage are in PairingStorage.             *)
(***************************************************************************)
EXTENDS PairingTable, Lists

CONSTANTS
  Cached,      \* CLIENT_CONTEXT_CACHE_SIZE
  MaxClients,  \* HOMEKIT_MAX_CLIENTS
  None         \* no context, no controller

ASSUME Esp32Assumption ==
  /\ MaxClients \in Nat \ {0} /\ Cached \in 0..MaxClients
  /\ None \notin Nat \union Device

VARIABLES
  ctx,      \* cache_client_contexts, then those from the heap
  clients,  \* server->clients, from the head on
  nfds,     \* server->nfds, which counts the listening socket
  paired,   \* server->paired
  owner,    \* server->pairing_context->client, None when there is no context
  ram,      \* ex_storage
  phase, todo

server32 == <<paired, owner, ram>>
vars32 == <<ctx, clients, nfds, server32, phase, todo>>

Context == 1..MaxClients
Linked == ToSet(clients)

(* The exchange of the controller: after M2 it may send M3, after M4 M5.   *)
Exchange == {"none", "setup1", "setup2"}
Unused == [used |-> FALSE, dev |-> None, gone |-> FALSE, exchange |-> "none",
           verify |-> FALSE, encrypted |-> FALSE, pairing_id |-> -1,
           admin |-> FALSE, disconnect |-> FALSE]

(* client_context_free() leaves the permissions as they are.               *)
Freed(r) == [Unused EXCEPT !.admin = r.admin]

-----------------------------------------------------------------------------
(* homekit_server_close_clients(): a marked client is unlinked and freed   *)
(* in the same pass, and takes the pairing context along.                  *)

(* Mutant: the head of the list is passed over.                            *)
ClosingBehind == {c \in Linked : ctx[c].disconnect /\ c # clients[1]}
Closing == {c \in Linked : ctx[c].disconnect}

(* Mutant: the pairing context stays.                                      *)
SetupKept(closed) == UNCHANGED owner
ReleaseSetup(closed) == owner' = IF owner \in closed THEN None ELSE owner

homekit_server_close_clients ==
  /\ phase = "close"
  /\ ctx' = [c \in Context |-> IF c \in Closing THEN Freed(ctx[c]) ELSE ctx[c]]
  /\ clients' = Without(clients, Closing)
  /\ nfds' = nfds - Cardinality(Closing)
  /\ ReleaseSetup(Closing)
  /\ phase' = "accept"
  /\ UNCHANGED <<paired, ram, todo>>

-----------------------------------------------------------------------------
(* client_context_new(): the first unused static context, or the heap.     *)
StartPass(l) == phase' = "serve" /\ todo' = l

FreeContext == Min({c \in Context : ~ctx[c].used})

(* Memory of the heap holds anything until V3 writes the permissions.      *)
Permissions(c) == IF c <= Cached THEN {ctx[c].admin} ELSE BOOLEAN

NoNewClient ==
  /\ phase = "accept"
  /\ StartPass(clients)
  /\ UNCHANGED <<ctx, clients, nfds, server32>>

NoRoom == nfds > MaxClients

RefuseClient ==
  /\ phase = "accept" /\ NoRoom
  /\ StartPass(clients)
  /\ UNCHANGED <<ctx, clients, nfds, server32>>

homekit_server_accept_client(d) ==
  /\ phase = "accept" /\ ~NoRoom
  /\ \E admin \in Permissions(FreeContext) :
       ctx' = [ctx EXCEPT ![FreeContext] =
                 [Unused EXCEPT !.used = TRUE, !.dev = d, !.admin = admin]]
  /\ clients' = <<FreeContext>> \o clients
  /\ nfds' = nfds + 1
  /\ StartPass(clients')
  /\ UNCHANGED server32

-----------------------------------------------------------------------------
(* homekit_client_process() for the clients of the pass.                   *)
Serving(c) ==
  /\ phase = "serve" /\ todo # <<>> /\ c = Head(todo)
  /\ todo' = Tail(todo)
  /\ UNCHANGED <<clients, nfds, phase>>

Requesting(c) == Serving(c) /\ ~ctx[c].gone

EndOfServing ==
  /\ phase = "serve" /\ todo = <<>>
  /\ phase' = "close"
  /\ UNCHANGED <<ctx, clients, nfds, server32, todo>>

(* select() did not report it, or the request changes nothing here.        *)
Idle(c) == Serving(c) /\ ~ctx[c].gone /\ UNCHANGED <<ctx, server32>>

(* The end of the connection, or a request that asks for it.               *)
Disconnected(c) ==
  /\ Serving(c)
  /\ ctx' = [ctx EXCEPT ![c].disconnect = TRUE]
  /\ UNCHANGED server32

(* Mutant: Busy is not answered.                                           *)
PairSetupM1Anyone(c) ==
  /\ Requesting(c) /\ ~ctx[c].encrypted /\ ~paired
  /\ owner' = IF owner = None THEN c ELSE owner
  /\ ctx' = [ctx EXCEPT ![c].exchange = "setup1"]
  /\ UNCHANGED <<paired, ram>>

(* M1: refused when paired or Busy; the pairing context is new or the      *)
(* client's own, and freed again when the cryptography fails.              *)
PairSetupM1(c) ==
  /\ Requesting(c) /\ ~ctx[c].encrypted
  /\ \/ /\ paired \/ owner \notin {None, c}
        /\ ctx' = [ctx EXCEPT ![c].exchange = "none"]
        /\ UNCHANGED owner
     \/ /\ ~paired /\ owner \in {None, c}
        /\ \/ owner' = c /\ ctx' = [ctx EXCEPT ![c].exchange = "setup1"]
           \/ owner' = None /\ ctx' = [ctx EXCEPT ![c].exchange = "none"]
  /\ UNCHANGED <<paired, ram>>

(* M3 uses the pairing context without looking at its owner; after an      *)
(* error it stays.                                                         *)
PairSetupM3(c) ==
  /\ Requesting(c) /\ ctx[c].exchange = "setup1"
  /\ \E x \in {"none", "setup2"} : ctx' = [ctx EXCEPT ![c].exchange = x]
  /\ UNCHANGED server32

(* M5: an error before or after the pairing is stored, or success.         *)
PairSetupM5(c) ==
  /\ Requesting(c) /\ ctx[c].exchange = "setup2"
  /\ ctx' = [ctx EXCEPT ![c].exchange = "none"]
  /\ \/ UNCHANGED server32
     \/ \E o \in AddPairing(ram, ctx[c].dev, Admin) :
          /\ o.code = 0
          /\ ram' = After(ram, o.images)
          /\ \/ UNCHANGED <<paired, owner>>
             \/ paired' = TRUE /\ owner' = None

PairVerifyV1(c) ==
  /\ Requesting(c) /\ ~ctx[c].encrypted
  /\ \E ok \in BOOLEAN : ctx' = [ctx EXCEPT ![c].verify = ok \/ @]
  /\ UNCHANGED server32

PairVerifyV3(c) ==
  /\ Requesting(c) /\ ctx[c].verify
  /\ \/ ctx' = [ctx EXCEPT ![c].verify = FALSE]
     \/ /\ HasPairing(ram, ctx[c].dev)
        /\ LET i == FindPairing(ram, ctx[c].dev) IN
           ctx' = [ctx EXCEPT ![c].verify = FALSE, ![c].encrypted = TRUE,
                              ![c].pairing_id = i,
                              ![c].admin = (ram.slot[i].perm = Admin)]
  /\ UNCHANGED server32

-----------------------------------------------------------------------------
(* homekit_server_on_pairings(), for a session verified as an admin's; the *)
(* others are refused.                                                     *)
AsAdmin(c) == Requesting(c) /\ ctx[c].encrypted /\ ctx[c].admin

AddOutcomes(d, p) ==
  IF HasPairing(ram, d) THEN UpdatePairing(ram, d, p)
  ELSE IF CanAddPairing(ram) THEN AddPairing(ram, d, p)
  ELSE {Outcome(<<>>, -2)}

PairingsAdd(c, d, p) ==
  /\ AsAdmin(c)
  /\ \E o \in AddOutcomes(d, p) : o.code # Died /\ ram' = After(ram, o.images)
  /\ UNCHANGED <<ctx, paired, owner>>

(* pairing->id is read after pairing_free(): it is still there, it is the  *)
(* NULL that ends the allocator's free list, or a pointer, no session's.   *)
IdAfterFree(i) == {i, 0, -2}

PairingsRemove(c, d) ==
  /\ AsAdmin(c) /\ HasPairing(ram, d)
  /\ LET i == FindPairing(ram, d)
         m == Put(ram, i, Erased)
     IN  /\ ram' = m
         /\ \E id \in IdAfterFree(i) :
              ctx' = [k \in Context |->
                        IF k \in Linked /\ ctx[k].pairing_id = id
                        THEN [ctx[k] EXCEPT !.disconnect = TRUE] ELSE ctx[k]]
         /\ paired' = (paired /\ (ram.slot[i].perm = Admin => HasAdmin(m)))
  /\ UNCHANGED owner

Leave(c) ==
  /\ c \in Linked /\ ~ctx[c].gone
  /\ ctx' = [ctx EXCEPT ![c].gone = TRUE]
  /\ UNCHANGED <<clients, nfds, server32, phase, todo>>

-----------------------------------------------------------------------------
Esp32Init ==
  /\ ctx = [c \in Context |-> Unused]
  /\ clients = <<>> /\ todo = <<>>
  /\ nfds = 1
  /\ paired = FALSE /\ owner = None
  /\ ram = [Formatted EXCEPT !.id = 1, !.key = 1]
  /\ phase = "accept"

Serve(c) ==
  \/ Idle(c) \/ Disconnected(c)
  \/ PairSetupM1(c) \/ PairSetupM3(c) \/ PairSetupM5(c)
  \/ PairVerifyV1(c) \/ PairVerifyV3(c)
  \/ \E d \in Device : PairingsRemove(c, d) \/ \E p \in Perm : PairingsAdd(c, d, p)

homekit_run_server ==
  \/ NoNewClient \/ RefuseClient
  \/ \E d \in Device : homekit_server_accept_client(d)
  \/ \E c \in Context : Serve(c)
  \/ EndOfServing
  \/ homekit_server_close_clients

Esp32Next == homekit_run_server \/ \E c \in Context : Leave(c)

Esp32Spec == Esp32Init /\ [][Esp32Next]_vars32

(* select() returns after a second at the latest, and the task goes on.    *)
Esp32FairSpec == Esp32Spec /\ WF_vars32(homekit_run_server)

-----------------------------------------------------------------------------
(* The linked list, the contexts and the count that refuses clients agree: *)
(* a client that is let in finds a context, and none is marked or left     *)
(* over when the next pass begins.                                         *)
Esp32ListOK ==
  /\ IsInjective(clients)
  /\ nfds = 1 + Len(clients)
  /\ Linked = {c \in Context : ctx[c].used}
  /\ \A c \in Context \ Linked : ctx[c] = Freed(ctx[c])
  /\ ToSet(todo) \subseteq Linked
  /\ phase = "accept" => \A c \in Linked : ~ctx[c].disconnect

(* M3 and M5 use server->pairing_context without a test: a controller that *)
(* follows the exchange always finds the one it was given, and never one   *)
(* after the accessory was paired.                                         *)
SetupOwned ==
  /\ \A c \in Context : ctx[c].exchange # "none" => owner = c
  /\ owner # None => owner \in Linked
  /\ paired => owner = None

(* A controller that goes away in the middle of a pair setup makes room    *)
(* for the next one ("another pairing in progress").                       *)
SetupFreed ==
  \A c \in Context : (owner = c /\ ctx[c].gone) ~> owner # c

(* "Removed pairing with %s": no session of a controller without a pairing *)
(* goes on.                                                                *)
RemovedLeaves ==
  \A c \in Linked : ctx[c].encrypted /\ ~ctx[c].disconnect
                     => HasPairing(ram, ctx[c].dev)
=============================================================================
