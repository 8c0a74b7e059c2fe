---------------------------- MODULE Esp32Events ----------------------------
(***************************************************************************)
(* server.c and accessories.c: how controllers hear of the changes of one  *)
(* characteristic on the ESP32, where the sketch and the server are two    *)
(* tasks.  Each of them stores a value and notifies afterwards: it walks   *)
(* the list of callbacks and pushes an event into the queue of each        *)
(* subscribed client, one callback at a time, while the other task goes    *)
(* on.  So one task may store and notify a newer value between the store   *)
(* and the notification of the other, or between two of its pushes.        *)
(*                                                                         *)
(* A change gets a new number, so a greater value is a later one.  The     *)
(* characteristic has no setter that notifies of its own accord (the       *)
(* module CharacteristicUpdates has those).  A callback that was freed     *)
(* keeps its content until its client subscribes again: one of the         *)
(* outcomes of its use, and the mildest.                                   *)
(***************************************************************************)
EXTENDS Naturals, Sequences, FiniteSets

CONSTANTS Client, Nil,
          QueueSize,     \* length of an event queue, 20 in the code
          MaxChanges     \* bound: changes of the value

ASSUME Esp32EventsAssumption ==
    /\ IsFiniteSet(Client) /\ Nil \notin Client
    /\ QueueSize \in Nat \ {0} /\ MaxChanges \in Nat

VARIABLES value,      \* ch->value
          session,    \* per context: open or closed
          head, next, \* ch->callback and the links from each client's callback
          queue,      \* event_queue of each context, oldest first
          view,       \* what a subscribed controller was told last, 0 if nothing
          sketch,     \* the sketch's task: its step, its walk and the walk's value
          server,     \* the update being processed: its client, walk and value
          served,     \* clients whose request this pass has served
          excused,    \* the client's news was dropped, or overtook newer news
          raced       \* the server's task changed what the sketch was walking over

vars32e == <<value, session, head, next, queue, view, sketch, server, served,
            excused, raced>>

(* The callbacks a walk from x comes to, and the clients on the list.      *)
Follows(x, S) == x \in S \cup {Nil} /\ \A c \in S : next[c] \in S \cup {Nil}
Ahead(x) == {c \in Client : \A S \in SUBSET Client : Follows(x, S) => c \in S}
Subscribed == Ahead(head)

(* The server's task processes an update.                                  *)
Updating == server.by # Nil

(* A notification of the sketch is under way, from the call on.            *)
Notifying == sketch.step \in {"call", "walk"}
Overlaps == raced' = (raced \/ Notifying)

-----------------------------------------------------------------------------
(* xQueueSendToBack() with ten ticks: a full queue drops the new event.    *)
Pushed(q, v) == IF Len(q) < QueueSize THEN Append(q, v) ELSE q
Drops(q) == Len(q) >= QueueSize

(* Mutant: as the ESP8266 does, the event received last is the oldest.     *)
CoalescedFirst(q) == q[1]

(* Events are received oldest first, and the later value replaces the      *)
(* earlier one.                                                            *)
Coalesced(q) == q[Len(q)]

-----------------------------------------------------------------------------
(* What k will have been told last when its queue is delivered.            *)
Newest(k) == IF queue[k] = <<>> THEN view[k] ELSE queue[k][Len(queue[k])]

(* client_notify_characteristic(): k misses a newer value if its queue is  *)
(* full or the event comes behind a newer one; the current value makes     *)
(* good what it missed before.                                             *)
Push(k, v) ==
    /\ queue' = [queue EXCEPT ![k] = Pushed(@, v)]
    /\ excused' = [excused EXCEPT ![k] = \/ Drops(queue[k]) \/ v < Newest(k)
                                         \/ (@ /\ v # value)]

-----------------------------------------------------------------------------
(* The sketch's task: it stores a value,                                   *)
SketchStores ==
    /\ sketch.step = "rest" /\ value < MaxChanges
    /\ value' = value + 1
    /\ sketch' = [sketch EXCEPT !.step = "stored"]
    /\ UNCHANGED <<session, head, next, queue, view, server, served, excused, raced>>

(* reads ch->value again to call homekit_characteristic_notify(),          *)
SketchCalls ==
    /\ sketch.step = "stored"
    /\ sketch' = [sketch EXCEPT !.step = "call", !.value = value]
    /\ UNCHANGED <<value, session, head, next, queue, view, server, served, excused, raced>>

(* which reads the head of the list                                        *)
WalksTo(x) == [sketch EXCEPT !.step = IF x = Nil THEN "rest" ELSE "walk", !.at = x]

SketchStarts ==
    /\ sketch.step = "call"
    /\ sketch' = WalksTo(head)
    /\ UNCHANGED <<value, session, head, next, queue, view, server, served, excused, raced>>

(* and calls client_notify_characteristic() for one callback, then for     *)
(* callback->next.                                                         *)
SketchNotifies ==
    /\ sketch.step = "walk"
    /\ Push(sketch.at, sketch.value)
    /\ sketch' = WalksTo(next[sketch.at])
    /\ UNCHANGED <<value, session, head, next, view, server, served, raced>>

-----------------------------------------------------------------------------
(* The server's task serves each client once in a pass, one at a time.     *)
Request(c) == /\ ~Updating /\ session[c] = "open" /\ c \notin served
              /\ served' = served \cup {c}

(* process_characteristics_update(): the value of a client is stored,      *)
UpdateStores(c) ==
    /\ Request(c) /\ value < MaxChanges
    /\ value' = value + 1
    /\ server' = [by |-> c, at |-> head, value |-> value + 1]
    /\ UNCHANGED <<session, head, next, queue, view, sketch, excused, raced>>

(* later the others are told, one callback at a time, and this one is not, *)
UpdateNotifies ==
    /\ Updating /\ server.at # Nil
    /\ IF server.at = server.by THEN UNCHANGED <<queue, excused>>
       ELSE Push(server.at, server.value)
    /\ server' = [server EXCEPT !.at = next[@]]
    /\ UNCHANGED <<value, session, head, next, view, sketch, served, raced>>

(* and then the answer tells it that its value was taken.  What its queue  *)
(* still holds comes after that.                                           *)
UpdateResponds ==
    /\ Updating /\ server.at = Nil
    /\ LET c == server.by IN
       /\ view' = [view EXCEPT ![c] = IF c \in Subscribed THEN server.value ELSE @]
       /\ excused' = [excused EXCEPT ![c] =
                      @ \/ (queue[c] # <<>> /\ Newest(c) < server.value)]
    /\ server' = [server EXCEPT !.by = Nil]
    /\ UNCHANGED <<value, session, head, next, queue, sketch, served, raced>>

(* homekit_characteristic_add_notify_callback(): at the end, once.         *)
Subscribe(c) ==
    /\ Request(c) /\ c \notin Subscribed
    /\ IF head = Nil
       THEN head' = c /\ next' = [next EXCEPT ![c] = Nil]
       ELSE /\ LET last == CHOOSE k \in Subscribed : next[k] = Nil
               IN  next' = [next EXCEPT ![last] = c, ![c] = Nil]
            /\ UNCHANGED head
    /\ Overlaps
    /\ UNCHANGED <<value, session, queue, view, sketch, server, excused>>

(* homekit_characteristic_remove_notify_callback().                        *)
Unlink(c) ==
    IF head = c THEN head' = next[c] /\ UNCHANGED next
    ELSE /\ next' = [k \in Client |-> IF k \in Subscribed /\ next[k] = c
                                      THEN next[c] ELSE next[k]]
         /\ UNCHANGED head

Unsubscribe(c) ==
    /\ Request(c) /\ c \in Subscribed
    /\ Unlink(c)
    /\ view' = [view EXCEPT ![c] = 0]
    /\ Overlaps
    /\ UNCHANGED <<value, session, queue, sketch, server, excused>>

(* GET /characteristics.                                                   *)
GetCharacteristic(c) ==
    /\ Request(c) /\ c \in Subscribed
    /\ view' = [view EXCEPT ![c] = value]
    /\ excused' = [excused EXCEPT ![c] = @ /\ queue[c] # <<>>]
    /\ UNCHANGED <<value, session, head, next, queue, sketch, server, raced>>

(* homekit_server_process_notifications(): all that is queued, coalesced.  *)
homekit_server_process_notifications ==
    /\ ~Updating /\ (served # {} \/ \E c \in Client : queue[c] # <<>>)
    /\ served' = {}
    /\ view' = [c \in Client |-> IF queue[c] # <<>> /\ session[c] = "open" /\ c \in Subscribed
                                 THEN Coalesced(queue[c]) ELSE view[c]]
    /\ queue' = [c \in Client |-> <<>>]
    /\ UNCHANGED <<value, session, head, next, sketch, server, excused, raced>>

Verified(c) ==
    /\ ~Updating /\ session[c] = "closed" /\ c \notin served
    /\ served' = served \cup {c}
    /\ session' = [session EXCEPT ![c] = "open"]
    /\ UNCHANGED <<value, head, next, queue, view, sketch, server, excused, raced>>

(* Mutant: the queue of a cached context is not reset.                     *)
LeavesQueue(c) == UNCHANGED queue
ResetQueue(c) == queue' = [queue EXCEPT ![c] = <<>>]

(* homekit_server_close_client(): the callbacks are cleared, the context   *)
(* is freed.                                                               *)
homekit_server_close_client(c) ==
    /\ ~Updating /\ session[c] = "open"
    /\ session' = [session EXCEPT ![c] = "closed"]
    /\ IF c \in Subscribed THEN Unlink(c) ELSE UNCHANGED <<head, next>>
    /\ ResetQueue(c)
    /\ view' = [view EXCEPT ![c] = 0]
    /\ excused' = [excused EXCEPT ![c] = FALSE]
    /\ Overlaps
    /\ UNCHANGED <<value, sketch, server, served>>

-----------------------------------------------------------------------------
Esp32EventsInit ==
    /\ value = 1
    /\ session = [c \in Client |-> "closed"]
    /\ head = Nil /\ next = [c \in Client |-> Nil]
    /\ queue = [c \in Client |-> <<>>]
    /\ view = [c \in Client |-> 0]
    /\ sketch = [step |-> "rest", at |-> Nil, value |-> 0]
    /\ server = [by |-> Nil, at |-> Nil, value |-> 0]
    /\ served = {}
    /\ excused = [c \in Client |-> FALSE]
    /\ raced = FALSE

Esp32EventsNext ==
    \/ SketchStores \/ SketchCalls \/ SketchStarts \/ SketchNotifies
    \/ UpdateNotifies \/ UpdateResponds
    \/ homekit_server_process_notifications
    \/ \E c \in Client :
          \/ UpdateStores(c) \/ Subscribe(c) \/ Unsubscribe(c) \/ GetCharacteristic(c)
          \/ Verified(c) \/ homekit_server_close_client(c)

Esp32EventsSpec == Esp32EventsInit /\ [][Esp32EventsNext]_vars32e

-----------------------------------------------------------------------------
(* Unless the server's task changed the list under the sketch's walk, a    *)
(* closed context is on no list and has no event waiting: its next owner   *)
(* hears nothing it did not ask for (close_client, client_context_free).   *)
ClosedIsQuiet ==
    ~raced => \A c \in Client : session[c] = "closed" =>
                  c \notin Subscribed /\ queue[c] = <<>> /\ sketch.at # c /\ server.at # c

(* Both tasks may store and notify at a time, and deliveries and reads may *)
(* come in between: when both are through and nothing is queued, a         *)
(* subscribed controller knows the current value, unless an event for it   *)
(* was dropped, or an older value came to it behind a newer one, be it an  *)
(* event or its own write, and neither an event with the current value nor *)
(* a read made up for it (process_characteristics_update,                  *)
(* client_notify_characteristic).                                          *)
InformedOtherwise ==
    ~raced /\ ~Updating /\ sketch.step = "rest" =>
        \A c \in Subscribed :
            queue[c] = <<>> /\ view[c] # 0 /\ ~excused[c] => view[c] = value

(* "it will automatically inform Apple about state changes": once nothing  *)
(* is pending, a subscribed controller was told the current value.         *)
InformedOfChanges32 ==
    ~Updating /\ sketch.step = "rest" =>
        \A c \in Subscribed : queue[c] = <<>> /\ view[c] # 0 => view[c] = value
=============================================================================
