------------------------------ MODULE MCEsp32 ------------------------------
(* The two halves of the ESP32 server: a behaviour is about its sessions   *)
(* or about its events, the other half stands still.                       *)
EXTENDS Esp32Sessions, Esp32Events

CONSTANTS phone, tablet, admin

Controllers == {phone, tablet}
OnlyAdmins == {admin}

VARIABLE subject

vars == <<vars32, vars32e, subject>>

Init == subject \in {"sessions", "events"} /\ Esp32Init /\ Esp32EventsInit

Next ==
  /\ UNCHANGED subject
  /\ \/ subject = "sessions" /\ Esp32Next /\ UNCHANGED vars32e
     \/ subject = "events" /\ Esp32EventsNext /\ UNCHANGED vars32

Spec == Init /\ [][Next]_vars

FairSpec == Spec /\ WF_vars(subject = "sessions" /\ homekit_run_server
                            /\ UNCHANGED <<vars32e, subject>>)
==============================================================================
