--------------------------- MODULE Esp8266Events ---------------------------
(***************************************************************************)
(* arduino_homekit_server.cpp and accessories.c: how controllers that      *)
(* subscribed to a characteristic hear of its changes on the ESP8266.      *)
(*                                                                         *)
(* A change calls the callbacks of the characteristic; each pushes an      *)
(* event into the queue of its client, unless this client just wrote the   *)
(* value itself.  At the end of a loop pass each queue is popped empty,    *)
(* its events are coalesced to one per characteristic and sent.            *)
(*                                                                         *)
(* Abstracted: the queue is the bounded buffer that EventQueue implements  *)
(* with the discipline LIFO and overwriting; a client is a connection that *)
(* passed pair verify (others have no subscription and their queues are    *)
(* not popped); every value can be written and sent.                       *)
(***************************************************************************)
EXTENDS Integers, SequencesExt

CONSTANTS
  Client,          \* contexts of clients
  Characteristic,
  Value,
  QueueSize,       \* HOMEKIT_EVENT_QUEUE_SIZE
  Unknown          \* the controller has no value to go by

ASSUME QueueSizeAssumption == QueueSize \in Nat \ {0}
ASSUME UnknownAssumption == Unknown \notin Value

VARIABLES
  value,     \* ch->value
  session,   \* a verified session, open, marked to disconnect or closed
  callback,  \* ch->callback: the clients subscribed to each characteristic
  queue,     \* event_queue of each client, oldest event first
  served,    \* clients served in this pass of the loop
  view       \* what a subscribed controller was told last of each value

eventVars == <<value, session, callback, queue, served, view>>

Event == [characteristic : Characteristic, value : Value]
Events(q, ch) == {i \in DOMAIN q : q[i].characteristic = ch}
Newest(q, ch) == q[Max(Events(q, ch))].value
NotOpen == [ch \in Characteristic |-> Unknown]

------------------------------------------------------------------------------
PushedIfRoom(q, e) == IF Len(q) < QueueSize THEN Append(q, e) ELSE q   \* mutant

(* q_push with overwriting: a full queue loses its oldest event.           *)
Pushed(q, e) == IF Len(q) < QueueSize THEN Append(q, e) ELSE Append(Tail(q), e)

(* The order in which q_pop hands out the events of q.                     *)
Popped(q) == Reverse(q)

(* The coalescing loop: a later event replaces the value of an earlier one *)
(* of the same characteristic.                                             *)
Coalesced(popped) ==
  [ch \in {popped[i].characteristic : i \in DOMAIN popped} |->
     Newest(popped, ch)]

(* homekit_characteristic_notify: client_notify_characteristic runs for    *)
(* each subscribed client and skips the writers of this very value.        *)
homekit_characteristic_notify(ch, v, writers) ==
  queue' = [c \in Client |->
              IF c \in callback[ch] \ writers
              THEN Pushed(queue[c], [characteristic |-> ch, value |-> v])
              ELSE queue[c]]

------------------------------------------------------------------------------
(* The sketch sets a characteristic and notifies (only when it changes).   *)
SketchSets(ch, v) ==
  /\ value[ch] # v
  /\ value' = [value EXCEPT ![ch] = v]
  /\ homekit_characteristic_notify(ch, v, {})
  /\ UNCHANGED <<session, callback, served, view>>

(* A request of client c; each client is served once in a pass.            *)
Request(c) ==
  /\ session[c] = "open" /\ c \notin served
  /\ served' = served \union {c}
  /\ UNCHANGED session

Tell(c, ch, v) ==
  view' = IF c \in callback[ch] THEN [view EXCEPT ![c][ch] = v] ELSE view

(* process_characteristics_update: "value", then "ev".                     *)
UpdateValue(c, ch, v) ==
  /\ Request(c)
  /\ value' = [value EXCEPT ![ch] = v]
  /\ homekit_characteristic_notify(ch, v, {c})
  /\ Tell(c, ch, v)
  /\ UNCHANGED callback

Subscribe(c, ch) ==
  /\ Request(c)
  /\ callback' = [callback EXCEPT ![ch] = @ \union {c}]
  /\ UNCHANGED <<value, queue, view>>

Unsubscribe(c, ch) ==
  /\ Request(c)
  /\ callback' = [callback EXCEPT ![ch] = @ \ {c}]
  /\ view' = [view EXCEPT ![c][ch] = Unknown]
  /\ UNCHANGED <<value, queue>>

GetCharacteristic(c, ch) ==
  /\ Request(c)
  /\ Tell(c, ch, value[ch])
  /\ UNCHANGED <<value, callback, queue>>

(* The end of a pass: every queue is emptied; a client that is marked to   *)
(* disconnect is sent nothing (write returns early).                       *)
homekit_server_process_notifications ==
  /\ queue' = [c \in Client |-> <<>>]
  /\ view' = [c \in Client |->
       LET news == Coalesced(Popped(queue[c]))
       IN  [ch \in Characteristic |->
              IF session[c] = "open" /\ ch \in DOMAIN news /\ c \in callback[ch]
              THEN news[ch] ELSE view[c][ch]]]
  /\ served' = {}
  /\ UNCHANGED <<value, session, callback>>

------------------------------------------------------------------------------
(* Sessions come and go: pair verify, the mark, close_client.              *)
Verified(c) ==
  /\ session[c] = "closed"
  /\ session' = [session EXCEPT ![c] = "open"]
  /\ UNCHANGED <<value, callback, queue, served, view>>

MarkDisconnect(c) ==
  /\ session[c] = "open"
  /\ session' = [session EXCEPT ![c] = "marked"]
  /\ view' = [view EXCEPT ![c] = NotOpen]
  /\ UNCHANGED <<value, callback, queue, served>>

CloseKeepsCallbacks(c) ==    \* mutant
  /\ session[c] = "marked"
  /\ session' = [session EXCEPT ![c] = "closed"]
  /\ queue' = [queue EXCEPT ![c] = <<>>]
  /\ UNCHANGED <<value, callback, served, view>>

homekit_server_close_client(c) ==
  /\ session[c] = "marked"
  /\ session' = [session EXCEPT ![c] = "closed"]
  /\ callback' = [ch \in Characteristic |-> callback[ch] \ {c}]
  /\ queue' = [queue EXCEPT ![c] = <<>>]
  /\ UNCHANGED <<value, served, view>>

------------------------------------------------------------------------------
EventsInit ==
  /\ value \in [Characteristic -> Value]
  /\ session = [c \in Client |-> "closed"]
  /\ callback = [ch \in Characteristic |-> {}]
  /\ queue = [c \in Client |-> <<>>]
  /\ served = {}
  /\ view = [c \in Client |-> NotOpen]

EventsNext ==
  \/ homekit_server_process_notifications
  \/ \E ch \in Characteristic, v \in Value : SketchSets(ch, v)
  \/ \E c \in Client :
       \/ Verified(c) \/ MarkDisconnect(c) \/ homekit_server_close_client(c)
       \/ \E ch \in Characteristic :
            \/ Subscribe(c, ch) \/ Unsubscribe(c, ch) \/ GetCharacteristic(c, ch)
            \/ \E v \in Value : UpdateValue(c, ch, v)

EventsSpec == EventsInit /\ [][EventsNext]_eventVars

------------------------------------------------------------------------------
(* A context that is closed hears nothing: no callback names it and its    *)
(* queue is empty, so its next owner gets no event it did not ask for.     *)
ClosedHearsNothing ==
  \A c \in Client : session[c] = "closed" =>
    queue[c] = <<>> /\ \A ch \in Characteristic : c \notin callback[ch]

(* While a subscribed controller has an event of a characteristic pending, *)
(* the newest one carries the current value, unless the controller knows   *)
(* this value because it wrote or read it.                                 *)
NewestIsCurrent ==
  \A c \in Client, ch \in Characteristic :
    c \in callback[ch] /\ session[c] = "open" /\ Events(queue[c], ch) # {}
      => \/ Newest(queue[c], ch) = value[ch]
         \/ view[c][ch] = value[ch]

(* "it will automatically inform Apple about state changes": once nothing  *)
(* is pending, a subscribed controller was told the current value.         *)
InformedOfChanges ==
  \A c \in Client, ch \in Characteristic :
    c \in callback[ch] /\ queue[c] = <<>> /\ view[c][ch] # Unknown
      => view[c][ch] = value[ch]
==============================================================================
