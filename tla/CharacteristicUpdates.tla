----------------------- MODULE CharacteristicUpdates -----------------------
(***************************************************************************)
(* PUT /characteristics: a request with several items, each of which may   *)
(* write a value, subscribe or unsubscribe, and is answered with a status  *)
(* of its own.  The sketch's setters run inside an item and may notify.    *)
(*                                                                         *)
(* This is the ESP8266's code.  server.c differs where the ESP32's reads a *)
(* boolean for an integer, which is 1 there; in a value of format data,    *)
(* for which it calls no setter and stores nothing, but notifies; and in   *)
(* the list of statuses, which lacks its beginning.                        *)
(*                                                                         *)
(* Abstracted: a value is a number, of a characteristic of format bool or  *)
(* int; other formats differ in their checks only.  Ids that name no       *)
(* characteristic are one item target, missing ids another.  An event is   *)
(* heard when it is pushed; what happens to it later is in Esp8266Events   *)
(* and Esp32Events.                                                        *)
(***************************************************************************)
EXTENDS Integers, SequencesExt, Functions, Lists

CONSTANTS
  Client,
  Characteristic,
  IntFormat,     \* those of format int, the others are of format bool
  Writable,      \* those with homekit_permissions_paired_write
  Notifying,     \* those with homekit_permissions_notify
  Setter,        \* what the sketch's setter does with a value, if there is one
  MaxValue,      \* *ch->max_value of the int characteristics
  Asked,         \* the items that controllers send
  MaxItems       \* bound: items in a request

ASSUME SetterAssumption ==
  Setter \in [Characteristic -> {"none", "stores", "notifies", "refuses"}]

VARIABLES
  value,      \* ch->value
  callback,   \* ch->callback, the clients from the head of the list on
  writer,     \* the client whose request is processed
  items,      \* the items of its request
  statuses,   \* one for each item that was processed
  heard,      \* events pushed to each client by the current step or request
  answer,     \* the response to the last request
  before      \* history: values and subscribers when the request began

updVars == <<value, callback, writer, items, statuses, heard, answer, before>>

Nobody == "nobody"
NoSuch == "no such characteristic"
NoIds == "aid or iid missing"
Targets == Characteristic \union {NoSuch, NoIds}
Absent == "absent"

(* Values as cJSON reads them: true has valueint 1, but no valuedouble,    *)
(* which is the field that this server reads.                              *)
Number(n) == [type |-> "Number", valueint |-> n, valuedouble |-> n]
True == [type |-> "True", valueint |-> 1, valuedouble |-> 0]
False == [type |-> "False", valueint |-> 0, valuedouble |-> 0]
String == [type |-> "String", valueint |-> 0, valuedouble |-> 0]
Json == {True, False, String} \union {Number(n) : n \in 0..(MaxValue + 1)}
Items == [target : Targets, value : Json \union {[type |-> Absent]},
          ev : {Absent, "True", "False", "other"}]
ASSUME AskedAssumption == Asked \subseteq Items

NoRequest == [value |-> <<>>, subscribers |-> <<>>]
Silence == [c \in Client |-> <<>>]

Success == 0
NoResource == -70409
ReadOnly == -70404
InvalidValue == -70410

------------------------------------------------------------------------------
(* The value a JSON value stands for in a characteristic's format; -1 when *)
(* the item is answered with InvalidValue.                                 *)
AsBool(j) ==
  CASE j.type = "True" -> 1
    [] j.type = "False" -> 0
    [] j.type = "Number" /\ j.valueint \in {0, 1} -> j.valueint
    [] OTHER -> -1

AsInt(j) ==
  IF j.type \in {"Number", "True", "False"} /\ j.valuedouble \in 0..MaxValue
  THEN j.valuedouble ELSE -1

Converted(ch, j) == IF ch \in IntFormat THEN AsInt(j) ELSE AsBool(j)

(* homekit_characteristic_notify walks the list; the callback of a client  *)
(* pushes the event.                                                       *)
Told(h, l, event) ==
  LET told[n \in 0..Len(l)] ==
        IF n = 0 THEN h ELSE [told[n - 1] EXCEPT ![l[n]] = Append(@, event)]
  IN  told[Len(l)]

(* It ignores the client's own write.  own is that client, or Nobody.      *)
TellAll(h, ch, v, own) == Told(h, callback[ch], <<ch, v>>)    \* mutant
Notify(h, ch, v, own) == Told(h, Without(callback[ch], {own}), <<ch, v>>)

(* add_notify_callback appends a callback that is not in the list,         *)
(* remove_notify_callback removes every occurrence.                        *)
AddsAgain(l, c) == Append(l, c)    \* mutant
Added(l, c) == IF c \in ToSet(l) THEN l ELSE Append(l, c)
Removed(l, c) == Without(l, {c})

------------------------------------------------------------------------------
(* process_characteristics_update for one item.                            *)
Status(item) ==
  IF item.target \notin Characteristic THEN NoResource
  ELSE IF item.value.type = Absent THEN Success
  ELSE IF item.target \notin Writable THEN ReadOnly
  ELSE IF Converted(item.target, item.value) = -1 THEN InvalidValue
  ELSE Success

WriteValue(ch, v) ==
  /\ value' = IF Setter[ch] = "refuses" THEN value ELSE [value EXCEPT ![ch] = v]
  /\ heard' = Notify(IF Setter[ch] = "notifies" THEN Notify(heard, ch, v, Nobody) ELSE heard,
                     ch, v, writer)

(* The check of the notify permission is a logical and of two constants    *)
(* that are not zero: it never fails.  A state that is neither true nor    *)
(* false is logged and unsubscribes.                                       *)
SetEvents(ch, ev) ==
  callback' = CASE ev = Absent -> callback
                [] ev = "True" -> [callback EXCEPT ![ch] = Added(@, writer)]
                [] OTHER -> [callback EXCEPT ![ch] = Removed(@, writer)]

(* Mutant: the subscription is made before the value is looked at.         *)
SubscribesFirst ==
  /\ writer # Nobody /\ Len(statuses) < Len(items)
  /\ LET item == items[Len(statuses) + 1]
     IN  /\ statuses' = Append(statuses, Status(item))
         /\ IF item.target \in Characteristic THEN SetEvents(item.target, item.ev)
            ELSE UNCHANGED callback
         /\ IF Status(item) = Success /\ item.value.type # Absent
            THEN WriteValue(item.target, Converted(item.target, item.value))
            ELSE UNCHANGED <<value, heard>>
  /\ UNCHANGED <<writer, items, answer, before>>

ProcessItem ==
  /\ writer # Nobody /\ Len(statuses) < Len(items)
  /\ LET item == items[Len(statuses) + 1]
     IN  /\ statuses' = Append(statuses, Status(item))
         /\ IF Status(item) # Success
            THEN UNCHANGED <<value, callback, heard>>
            ELSE /\ IF item.value.type = Absent THEN UNCHANGED <<value, heard>>
                    ELSE WriteValue(item.target, Converted(item.target, item.value))
                 /\ SetEvents(item.target, item.ev)
  /\ UNCHANGED <<writer, items, answer, before>>

------------------------------------------------------------------------------
StartRequest(c, request) ==
  /\ writer = Nobody
  /\ writer' = c /\ items' = request
  /\ statuses' = <<>> /\ answer' = Absent
  /\ heard' = Silence
  /\ before' = [value |-> value,
                subscribers |-> [ch \in Characteristic |-> ToSet(callback[ch])]]
  /\ UNCHANGED <<value, callback>>

(* 204 when all went well, else a list of the statuses; that list reads    *)
(* the ids of every item, and faults on one that has none.                 *)
Respond ==
  /\ writer # Nobody /\ Len(statuses) = Len(items)
  /\ answer' = IF ToSet(statuses) \subseteq {Success} THEN "204"
               ELSE IF \E n \in 1..Len(items) : items[n].target = NoIds THEN "fault"
               ELSE "207"
  /\ writer' = Nobody
  /\ items' = <<>> /\ statuses' = <<>>
  /\ heard' = Silence /\ before' = NoRequest
  /\ UNCHANGED <<value, callback>>

(* Between two requests a client goes.  What the sketch changes in between *)
(* is in Esp8266Events.                                                    *)
ClientCloses(c) ==
  /\ writer = Nobody
  /\ callback' = [ch \in Characteristic |-> Removed(callback[ch], c)]
  /\ heard' = Silence
  /\ UNCHANGED <<value, writer, items, statuses, answer, before>>

UpdInit ==
  /\ value = [ch \in Characteristic |-> 0]
  /\ callback = [ch \in Characteristic |-> <<>>]
  /\ writer = Nobody
  /\ items = <<>> /\ statuses = <<>>
  /\ heard = Silence
  /\ answer = Absent /\ before = NoRequest

UpdNext ==
  \/ \E c \in Client, n \in 1..MaxItems : \E request \in [1..n -> Asked] : StartRequest(c, request)
  \/ ProcessItem \/ Respond
  \/ \E c \in Client : ClientCloses(c)

UpdSpec == UpdInit /\ [][UpdNext]_updVars

------------------------------------------------------------------------------
Subscribed(c, ch) == c \in ToSet(callback[ch])

(* The items of the request that went well so far and wrote ch, or changed *)
(* the subscription to it.                                                 *)
Written(ch) ==
  {n \in DOMAIN statuses : /\ statuses[n] = Success /\ items[n].target = ch
                           /\ items[n].value.type # Absent /\ Setter[ch] # "refuses"}
Switched(ch) ==
  {n \in DOMAIN statuses : /\ statuses[n] = Success /\ items[n].target = ch
                           /\ items[n].ev # Absent}
LastItem(ns) == CHOOSE n \in ns : \A k \in ns : k <= n

(* The statuses of a request tell what became of it, whatever the mixture  *)
(* of items: each value is that of the last item for it that went well, or *)
(* what it was before; the writer's subscription is what the last item     *)
(* that went well asked for, or what it was; nobody else's changed.  What  *)
(* was refused left nothing behind, and nothing that went well was undone. *)
StatusesTell ==
  writer # Nobody =>
    \A ch \in Characteristic :
      /\ value[ch] = IF Written(ch) = {} THEN before.value[ch]
                     ELSE Converted(ch, items[LastItem(Written(ch))].value)
      /\ \A c \in Client :
           Subscribed(c, ch) <=> IF c = writer /\ Switched(ch) # {}
                                 THEN items[LastItem(Switched(ch))].ev = "True"
                                 ELSE c \in before.subscribers[ch]

(* A write that went well is what every other subscriber heard last, and   *)
(* it is the value now, unless the sketch's setter refused it.  Only a     *)
(* setter that notifies lets the writer hear its own write.                *)
WritersInform ==
  [][\A ch \in Characteristic, c \in Client :
       /\ ProcessItem
       /\ items[Len(statuses) + 1].target = ch
       /\ items[Len(statuses) + 1].value.type # Absent
       /\ Last(statuses') = Success
       /\ Subscribed(c, ch)
       => IF c # writer
          THEN /\ heard'[c] # heard[c]
               /\ Setter[ch] # "refuses" => Last(heard'[c]) = <<ch, value'[ch]>>
          ELSE (heard'[c] = heard[c]) <=> (Setter[ch] # "notifies")]_updVars

(* No client hears of one change twice because it subscribed twice, in one *)
(* request or in several.                                                  *)
SubscribedOnce == \A ch \in Characteristic : IsInjective(callback[ch])

------------------------------------------------------------------------------
(* What comments claim and the code does not keep.                         *)

(* "HomeKit sometimes sends a boolean instead of an integer of value 0 or  *)
(* 1": a true that is accepted stands for 1.                               *)
TrueIsOne ==
  [][\A ch \in IntFormat :
       /\ ProcessItem
       /\ items[Len(statuses) + 1] = [target |-> ch, value |-> True, ev |-> Absent]
       /\ Last(statuses') = Success /\ Setter[ch] # "refuses"
       => value'[ch] = 1]_updVars

(* "Notification is not supported for characteristic".                     *)
OnlyNotifyingSubscribed ==
  \A ch \in Characteristic : callback[ch] # <<>> => ch \in Notifying
==============================================================================
