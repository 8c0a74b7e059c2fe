-------------------------- MODULE MCEsp8266Events --------------------------
(* The event queue and the events kept in it: a behaviour is about one of  *)
(* them, the other stands still.  The ring has three cells and three       *)
(* distinct records; two controllers, two characteristics, three values    *)
(* and a queue of three events let queues overflow and hold several events *)
(* of one characteristic.                                                  *)
EXTENDS EventQueue, Esp8266Events, TLC

CONSTANTS r1, r2, r3, phone, tablet, lamp, fan, on, off, dim

MCRecord == {r1, r2, r3}
Clients == {phone, tablet}
Characteristics == {lamp, fan}
Values == {on, off, dim}
Symmetry == Permutations(Clients) \union Permutations(Characteristics)
              \union Permutations(Values)

VARIABLE subject

Variables == <<vars, eventVars, subject>>

MCInit ==
  /\ subject \in {"queue", "events"} /\ Init /\ EventsInit
  /\ IF subject = "queue" THEN value[lamp] = value[fan] ELSE impl = "LIFO" /\ ovw

MCNext ==
  /\ UNCHANGED subject
  /\ \/ subject = "queue" /\ Next /\ UNCHANGED eventVars
     \/ subject = "events" /\ EventsNext /\ UNCHANGED vars

MCSpec == MCInit /\ [][MCNext]_Variables
==============================================================================
