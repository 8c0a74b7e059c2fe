-------------------------- MODULE Esp8266Sessions --------------------------
(***************************************************************************)
(* arduino_homekit_server.cpp: the connections of the ESP8266 server, the  *)
(* pair setup and pair verify exchanges on them, and what changing the     *)
(* pairings does to open sessions.                                         *)
(*                                                                         *)
(* One Arduino loop runs everything: a pass accepts at most one client,    *)
(* serves each linked client once and then closes the clients marked to    *)
(* disconnect, each of them five seconds after its mark was first seen.    *)
(* Controllers and the clock act between any two steps of a pass.          *)
(*                                                                         *)
(* Abstracted: a controller has one IP address and one device id, follows  *)
(* the protocol and answers only what it was sent; a request arrives whole *)
(* (one read, one request); responses and the encryption of a session are  *)
(* left out; a crypto call may fail where the code returns an error.  A    *)
(* request that asks to close the connection is a controller that leaves   *)
(* right after it.  The storage is the image in RAM; its faults and power  *)
(* losses are in PairingStorage.                                           *)
(***************************************************************************)
EXTENDS PairingTable, Lists

CONSTANTS
  Context,     \* indices of cache_client_contexts
  MaxClients,  \* HOMEKIT_MAX_CLIENTS
  None         \* no context, no controller

ASSUME ContextAssumption == Context = 0..(MaxClients - 1) /\ MaxClients \in Nat \ {0}
ASSUME NoneAssumption == None \notin Context \union Device

VARIABLES
  ctx,      \* cache_client_contexts
  clients,  \* server->clients, the linked contexts from the head on
  nfds,     \* server->nfds
  paired,   \* server->paired
  owner,    \* server->pairing_context->client, None when there is no context
  preinit,  \* saved_preinit_pairing_context and its public key
  ram,      \* ex_storage
  phase,    \* where the loop is
  todo      \* clients still to be served in this pass

server == <<paired, owner, preinit, ram>>
vars == <<ctx, clients, nfds, server, phase, todo>>

Steps == {"none", "setup1", "setup2", "verified"}
NotMarked == "off"       \* disconnect_ms = 0
Waiting == "waiting"     \* disconnect_ms in the future
Due == "due"             \* disconnect_ms passed

(* A static context after server_static_init.                              *)
Unused == [used |-> FALSE, dev |-> None, gone |-> FALSE,
           step |-> "none", encrypted |-> FALSE, pairing_id |-> -1,
           admin |-> FALSE, wrong |-> FALSE, disconnect |-> FALSE,
           timer |-> NotMarked, verify |-> FALSE]

(* What client_context_free resets: all but the permissions.  A            *)
(* context that is not used has no socket, and so no controller.           *)
ResetKeepsTimer(r) == [Unused EXCEPT !.admin = r.admin, !.timer = r.timer]    \* mutant
Reset(r) == [Unused EXCEPT !.admin = r.admin]

Linked == ToSet(clients)
Admins(c) == ctx[c].encrypted /\ ctx[c].admin

------------------------------------------------------------------------------
(* homekit_server_close_clients over the records r: a marked client starts *)
(* its delay, waits, or is freed when the delay has passed.                *)
Closing(r, l) == {c \in ToSet(l) : r[c].disconnect /\ r[c].timer = Due}

(* Mutant: the delay is never started.                                     *)
AfterCloseNoDelay(r, l) ==
  [c \in Context |-> IF c \in Closing(r, l) THEN Reset(r[c]) ELSE r[c]]

AfterClose(r, l) ==
  [c \in Context |->
     IF c \in Closing(r, l) THEN Reset(r[c])
     ELSE IF c \in ToSet(l) /\ r[c].disconnect /\ r[c].timer = NotMarked
     THEN [r[c] EXCEPT !.timer = Waiting]
     ELSE r[c]]

(* A client that owns the pairing context takes it along.                  *)
ReleaseSetup(closed) ==
  IF owner \in closed THEN owner' = None /\ preinit' = "absent"
  ELSE UNCHANGED <<owner, preinit>>

(* Mutant: the count goes down at every call, not only when a client is    *)
(* closed.                                                                 *)
CloseCountsCalls ==
  /\ phase = "close"
  /\ LET closed == Closing(ctx, clients)
     IN  /\ ctx' = AfterClose(ctx, clients)
         /\ clients' = Without(clients, closed)
         /\ nfds' = nfds - Cardinality({c \in Linked : ctx[c].disconnect})
         /\ ReleaseSetup(closed)
  /\ phase' = "accept"
  /\ UNCHANGED <<paired, ram, todo>>

homekit_server_close_clients ==
  /\ phase = "close"
  /\ LET closed == Closing(ctx, clients)
     IN  /\ ctx' = AfterClose(ctx, clients)
         /\ clients' = Without(clients, closed)
         /\ nfds' = nfds - Cardinality(closed)
         /\ ReleaseSetup(closed)
  /\ phase' = "accept"
  /\ UNCHANGED <<paired, ram, todo>>

------------------------------------------------------------------------------
(* The top of a pass: arduino_homekit_loop prepares a pairing context when *)
(* none is there, then homekit_server_accept_client looks for a client.    *)

Prepared == IF ~paired /\ preinit = "absent" THEN "ready" ELSE preinit

StartPass(l) == phase' = "serve" /\ todo' = l

NoNewClient ==
  /\ phase = "accept"
  /\ preinit' = Prepared
  /\ StartPass(clients)
  /\ UNCHANGED <<ctx, clients, nfds, paired, owner, ram>>

RefuseClient(d) ==
  /\ phase = "accept"
  /\ nfds >= MaxClients
  /\ preinit' = Prepared
  /\ StartPass(clients)
  /\ UNCHANGED <<ctx, clients, nfds, paired, owner, ram>>

(* Connections from the same address are marked in the order of the cache, *)
(* up to one that asked for a wrong endpoint: then the new one is refused. *)
(* Marking closes the clients whose delay has passed.                      *)
SameAddress(d) == {c \in Context : ctx[c].used /\ ctx[c].dev = d}
WrongBefore(d) == {c \in SameAddress(d) : ctx[c].wrong}
Duplicates(d) == {c \in SameAddress(d) : \A w \in WrongBefore(d) : c < w}
Marked(cs) == [c \in Context |->
                 IF c \in cs THEN [ctx[c] EXCEPT !.disconnect = TRUE] ELSE ctx[c]]

AcceptClient(d) ==
  /\ phase = "accept"
  /\ nfds < MaxClients
  /\ LET marked == Marked(Duplicates(d))
         closed == IF Duplicates(d) = {} THEN {} ELSE Closing(marked, clients)
         r == IF Duplicates(d) = {} THEN ctx ELSE AfterClose(marked, clients)
         kept == Without(clients, closed)
         new == Min({c \in Context : ~r[c].used})
     IN  /\ IF WrongBefore(d) # {}
            THEN /\ ctx' = r
                 /\ clients' = kept
                 /\ nfds' = nfds - Cardinality(closed)
            ELSE /\ ctx' = [r EXCEPT ![new] = [@ EXCEPT !.used = TRUE, !.dev = d]]
                 /\ clients' = <<new>> \o kept
                 /\ nfds' = nfds - Cardinality(closed) + 1
         /\ IF owner \in closed
            THEN owner' = None /\ preinit' = "absent"
            ELSE preinit' = Prepared /\ UNCHANGED owner
         /\ StartPass(clients')
  /\ UNCHANGED <<paired, ram>>

------------------------------------------------------------------------------
(* homekit_client_process for the next client of the pass.                 *)

Serving(c) ==
  /\ phase = "serve"
  /\ todo # <<>>
  /\ c = Head(todo)
  /\ todo' = Tail(todo)
  /\ UNCHANGED <<clients, nfds, phase>>

Requesting(c) == Serving(c) /\ ~ctx[c].disconnect /\ ~ctx[c].gone
SetStep(c, s) == ctx' = [ctx EXCEPT ![c].step = s]

EndOfServing ==
  /\ phase = "serve" /\ todo = <<>>
  /\ phase' = "close"
  /\ UNCHANGED <<ctx, clients, nfds, server, todo>>

(* Nothing to read, or the client is already marked.                       *)
Idle(c) ==
  /\ Serving(c)
  /\ ctx[c].disconnect \/ ~ctx[c].gone
  /\ UNCHANGED <<ctx, server>>

DisconnectedUnnoticed(c) ==    \* mutant
  /\ Serving(c)
  /\ ~ctx[c].disconnect /\ ctx[c].gone
  /\ UNCHANGED <<ctx, server>>

(* The socket is no longer connected.                                      *)
Disconnected(c) ==
  /\ Serving(c)
  /\ ~ctx[c].disconnect /\ ctx[c].gone
  /\ ctx' = [ctx EXCEPT ![c].disconnect = TRUE]
  /\ UNCHANGED server

WrongEndpoint(c) ==
  /\ Requesting(c)
  /\ ctx' = [ctx EXCEPT ![c].wrong = TRUE, ![c].disconnect = TRUE]
  /\ UNCHANGED server

------------------------------------------------------------------------------
(* Mutant: a new M1 takes the pairing context over.                        *)
SetupM1TakesOver(c) ==
  /\ Requesting(c) /\ ~ctx[c].encrypted
  /\ ~paired
  /\ owner' = c
  /\ preinit' = Prepared
  /\ SetStep(c, "setup1")
  /\ UNCHANGED <<paired, ram>>

(* Pair setup, on a connection that is not encrypted.  Every message first *)
(* sets the step back.  M1 refuses when the accessory is paired or another *)
(* client holds the pairing context.                                       *)
PairSetupM1(c) ==
  /\ Requesting(c) /\ ~ctx[c].encrypted
  /\ \/ /\ paired \/ owner \notin {None, c}
        /\ SetStep(c, "none")
        /\ UNCHANGED <<owner, preinit>>
     \/ /\ ~paired /\ owner \in {None, c}
        /\ owner' = c
        /\ preinit' = IF owner = None THEN Prepared ELSE preinit
        /\ SetStep(c, "setup1")
  /\ UNCHANGED <<paired, ram>>

(* M3: the shared secret cannot be computed, or the proof is wrong (the    *)
(* user mistyped the code), or it is right.  The accessory's public key is *)
(* freed before the proof is looked at.                                    *)
PairSetupM3(c) ==
  /\ Requesting(c) /\ ~ctx[c].encrypted
  /\ ctx[c].step = "setup1" /\ preinit = "ready"
  /\ \/ SetStep(c, "none") /\ UNCHANGED preinit
     \/ SetStep(c, "none") /\ preinit' = "spent"
     \/ SetStep(c, "setup2") /\ preinit' = "spent"
  /\ UNCHANGED <<paired, owner, ram>>

(* M5: an error before the pairing is stored, an error after it, or        *)
(* success, which frees the pairing context.                               *)
PairSetupM5(c) ==
  /\ Requesting(c) /\ ~ctx[c].encrypted
  /\ ctx[c].step = "setup2"
  /\ SetStep(c, "none")
  /\ \/ UNCHANGED server
     \/ \E o \in AddPairing(ram, ctx[c].dev, Admin) :
          /\ o.code = 0
          /\ ram' = Last(o.images)
          /\ \/ UNCHANGED <<paired, owner, preinit>>
             \/ paired' = TRUE /\ owner' = None /\ preinit' = "absent"

------------------------------------------------------------------------------
(* Pair verify: V1 stores the shared secret, or fails before it does.      *)
PairVerifyV1(c) ==
  /\ Requesting(c) /\ ~ctx[c].encrypted
  /\ \E ok \in BOOLEAN :
       ctx' = [ctx EXCEPT ![c].step = "none", ![c].verify = ok \/ @]
  /\ UNCHANGED server

(* V3: the session takes slot and permissions of the pairing it finds; it  *)
(* keeps them whatever happens to the pairing later.                       *)
PairVerifyV3(c) ==
  /\ Requesting(c) /\ ~ctx[c].encrypted /\ ctx[c].verify
  /\ \/ ctx' = [ctx EXCEPT ![c].step = "none", ![c].verify = FALSE]
     \/ /\ HasPairing(ram, ctx[c].dev)
        /\ LET i == FindPairing(ram, ctx[c].dev)
           IN  ctx' = [ctx EXCEPT ![c].step = "verified", ![c].verify = FALSE,
                                  ![c].encrypted = TRUE, ![c].pairing_id = i,
                                  ![c].admin = (ram.slot[i].perm = Admin)]
  /\ UNCHANGED server

------------------------------------------------------------------------------
(* on_pairings, for controllers with the admin bit (others are refused).   *)
AddOutcomes(d, p) ==
  IF HasPairing(ram, d) THEN UpdatePairing(ram, d, p)
  ELSE IF CanAddPairing(ram) THEN AddPairing(ram, d, p)
  ELSE {Outcome(<<>>, -2)}

PairingsAdd(c, d, p) ==
  /\ Requesting(c) /\ Admins(c)
  /\ \E o \in AddOutcomes(d, p) : o.code # Died /\ ram' = After(ram, o.images)
  /\ UNCHANGED <<ctx, paired, owner, preinit>>

(* Sessions that carry the slot of the removed pairing are marked, the one *)
(* that asked for it included.                                             *)
OthersWithSlot(i) == {c \in Linked : ctx[c].pairing_id = i /\ c # Head(todo)}    \* mutant
WithSlot(i) == {c \in Linked : ctx[c].pairing_id = i}

PairingsRemove(c, d) ==
  /\ Requesting(c) /\ Admins(c)
  /\ HasPairing(ram, d)
  /\ LET i == FindPairing(ram, d)
         m == Put(ram, i, Erased)
     IN  /\ ram' = m
         /\ ctx' = Marked(WithSlot(i))
         /\ paired' = (paired /\ (ram.slot[i].perm = Admin => HasAdmin(m)))
  /\ UNCHANGED <<owner, preinit>>

------------------------------------------------------------------------------
(* The controllers and the clock.                                          *)
Leave(c) ==
  /\ c \in Linked /\ ~ctx[c].gone
  /\ ctx' = [ctx EXCEPT ![c].gone = TRUE]
  /\ UNCHANGED <<clients, nfds, server, phase, todo>>

DelayPasses(c) ==
  /\ ctx[c].timer = Waiting
  /\ ctx' = [ctx EXCEPT ![c].timer = Due]
  /\ UNCHANGED <<clients, nfds, server, phase, todo>>

------------------------------------------------------------------------------
(* homekit_server_init on a formatted storage: no admin pairing, so the    *)
(* pairing context is prepared.                                            *)
Init ==
  /\ ctx = [c \in Context |-> Unused]
  /\ clients = <<>> /\ todo = <<>>
  /\ nfds = 0
  /\ paired = FALSE
  /\ owner = None
  /\ preinit = "ready"
  /\ ram = [Formatted EXCEPT !.id = 1, !.key = 1]
  /\ phase = "accept"

Serve(c) ==
  \/ Idle(c) \/ Disconnected(c) \/ WrongEndpoint(c)
  \/ PairSetupM1(c) \/ PairSetupM3(c) \/ PairSetupM5(c)
  \/ PairVerifyV1(c) \/ PairVerifyV3(c)
  \/ \E d \in Device : PairingsRemove(c, d) \/ \E p \in Perm : PairingsAdd(c, d, p)

Loop ==
  \/ NoNewClient
  \/ \E d \in Device : RefuseClient(d) \/ AcceptClient(d)
  \/ \E c \in Context : Serve(c)
  \/ EndOfServing
  \/ homekit_server_close_clients

Next ==
  \/ Loop
  \/ \E c \in Context : Leave(c) \/ DelayPasses(c)

Spec == Init /\ [][Next]_vars

(* The sketch calls arduino_homekit_loop for ever, and time passes.        *)
FairSpec ==
  Spec /\ WF_vars(Loop) /\ \A c \in Context : WF_vars(DelayPasses(c))

------------------------------------------------------------------------------
ContextRecord ==
  [used : BOOLEAN, dev : Device \union {None}, gone : BOOLEAN, step : Steps,
   encrypted : BOOLEAN, pairing_id : Slots \union {-1}, admin : BOOLEAN,
   wrong : BOOLEAN, disconnect : BOOLEAN, timer : {NotMarked, Waiting, Due},
   verify : BOOLEAN]

(* Fields keep their types and the loop its phases.                        *)
TypeOK ==
  /\ ctx \in [Context -> ContextRecord]
  /\ clients \in Seq(Context)
  /\ nfds \in 0..MaxClients
  /\ paired \in BOOLEAN
  /\ owner \in Context \union {None}
  /\ preinit \in {"absent", "ready", "spent"}
  /\ ram \in Image
  /\ phase \in {"accept", "serve", "close"}
  /\ todo \in Seq(Context)

(* The count that decides whether a client is refused, the linked list and *)
(* the cache agree, so a client that is let in always finds a context;     *)
(* what close_client leaves behind is fit for the next client, and the     *)
(* pairing context does not outlive its client.                            *)
ListOK ==
  /\ IsInjective(clients)
  /\ nfds = Len(clients)
  /\ Linked = {c \in Context : ctx[c].used}
  /\ \A c \in Context \ Linked : ctx[c] = [Unused EXCEPT !.admin = ctx[c].admin]
  /\ ToSet(todo) \subseteq Linked
  /\ owner # None => owner \in Linked

(* One pair setup at a time, and none once the accessory is paired: only   *)
(* the client that holds the pairing context is between M1 and M5, and a   *)
(* pairing context that is held was not freed.                             *)
SetupExclusive ==
  /\ \A c \in Context : ctx[c].step \in {"setup1", "setup2"} => owner = c
  /\ owner # None => preinit # "absent"
  /\ paired => owner = None

(* A session ends with the pairing it was verified with: when a controller *)
(* loses its last record, the sessions that carry the slot of that record  *)
(* are marked to disconnect in the same step.                              *)
RemovalEndsSession ==
  [][\A c \in Linked :
       LET d == ctx[c].dev
       IN  /\ ctx[c].encrypted
           /\ BlankSlots(ram) # {}
           /\ SlotsOf(ram, d) = {ctx[c].pairing_id}
           /\ ~HasPairing(ram', d)
           => ctx[c].disconnect' ]_vars

(* A client marked to disconnect is closed in the end, even when it keeps  *)
(* its connection open and others connect all the time.                    *)
MarkedIsClosed ==
  \A c \in Context : ctx[c].disconnect ~> ~ctx[c].disconnect

(* A controller that goes away in the middle of a pair setup does not      *)
(* block pair setup for ever ("another pairing in progress").              *)
SetupReleased ==
  \A c \in Context : (owner = c /\ ctx[c].gone) ~> owner # c

------------------------------------------------------------------------------
(* What comments and log messages claim and the code does not keep.        *)

(* "Removed pairing with %s": no session of a controller without a pairing *)
(* goes on.                                                                *)
RemovedHasNoSession ==
  \A c \in Linked : ctx[c].encrypted /\ ~ctx[c].disconnect
                     => HasPairing(ram, ctx[c].dev)

(* "if pair-setup ok then set step=1or2or3 (if pair-step error, the step   *)
(* is NONE)": after M1 the accessory's public key was sent.                *)
SetupStepMeansKey ==
  \A c \in Linked : ctx[c].step = "setup1" => preinit = "ready"
==============================================================================
