----------------------------- MODULE MCRequests -----------------------------
(* What happens before the first request, and the parts of a request and   *)
(* its response that run on their own: one behaviour is about one of them, *)
(* the others stand still.                                                 *)
EXTENDS HomeIntegration, Accessories, ScratchAllocator, TlvCodec, JsonStream,
        QueryParams, CharacteristicUpdates

CONSTANTS switch, level

ShortValues == UNION {[1..n -> {7, 8}] : n \in 0..4}

Declared ==
  {<<"accessory", "service", "characteristic", "characteristic">>,
   <<"accessory", "service", "characteristic", "service", "characteristic">>,
   <<"accessory", "service", "characteristic", "accessory", "service", "characteristic">>}

Setters == [ch \in {switch, level} |-> IF ch = switch THEN "notifies" ELSE "none"]

SomeItems ==
  [target : {switch, level}, value : {True, Number(1), Number(2)}, ev : {Absent, "True"}]
  \union [target : {switch, level}, value : {[type |-> Absent]}, ev : {"True", "other"}]
  \union [target : {NoSuch, NoIds}, value : {[type |-> Absent]}, ev : {Absent}]

VARIABLE subject

vars == <<homeVars, accVars, scratchVars, tlvVars, jsonVars, queryVars, updVars, subject>>

Init ==
  /\ subject \in {"sketch", "ids", "scratch", "tlv", "json", "query", "update"}
  /\ HomeInit /\ ScratchInit /\ TlvInit /\ JsonInit /\ UpdInit
  /\ IF subject = "query" THEN QueryInit
     ELSE query = <<>> /\ index = 1 /\ params = <<>> /\ parser = "parse"
  /\ IF subject = "ids" THEN AccInit
     ELSE kind = <<>> /\ chosen = <<>> /\ id = <<>> /\ aid = 1 /\ iid = 1 /\ at = 1

Next ==
  /\ UNCHANGED subject
  /\ \/ /\ subject = "sketch" /\ HomeNext
        /\ UNCHANGED <<accVars, scratchVars, tlvVars, jsonVars, queryVars, updVars>>
     \/ /\ subject = "ids" /\ AccNext
        /\ UNCHANGED <<homeVars, scratchVars, tlvVars, jsonVars, queryVars, updVars>>
     \/ /\ subject = "scratch" /\ ScratchNext
        /\ UNCHANGED <<homeVars, accVars, tlvVars, jsonVars, queryVars, updVars>>
     \/ /\ subject = "tlv" /\ TlvNext
        /\ UNCHANGED <<homeVars, accVars, scratchVars, jsonVars, queryVars, updVars>>
     \/ /\ subject = "json" /\ JsonNext
        /\ UNCHANGED <<homeVars, accVars, scratchVars, tlvVars, queryVars, updVars>>
     \/ /\ subject = "query" /\ QueryNext
        /\ UNCHANGED <<homeVars, accVars, scratchVars, tlvVars, jsonVars, updVars>>
     \/ /\ subject = "update" /\ UpdNext
        /\ UNCHANGED <<homeVars, accVars, scratchVars, tlvVars, jsonVars, queryVars>>

Spec == Init /\ [][Next]_vars

FairSpec ==
  Spec /\ WF_vars(subject = "tlv" /\ tlv_parse
                  /\ UNCHANGED <<homeVars, accVars, scratchVars, jsonVars, queryVars,
                                 updVars, subject>>)
==============================================================================
