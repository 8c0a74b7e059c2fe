-------------------------- MODULE HomeIntegration --------------------------
(***************************************************************************)
(* homeintegration.c: the calls by which a sketch declares its services    *)
(* before the server starts.  Services are added to the base accessory, or *)
(* as accessories of their own, or in a list that the sketch put together  *)
(* itself and that need not have an information service.  The base         *)
(* accessory gets its place in the list of accessories with its first      *)
(* service, and its full list of services at the end.                      *)
(*                                                                         *)
(* A service is a number, 0 the information service of any accessory.  A   *)
(* sketch begins with hap_initbase_accessory_service(), adds nothing after *)
(* the start, and declares no more than MAX_HAP_ACCESSORIES accessories:   *)
(* the code does not check any of it.                                      *)
(***************************************************************************)
EXTENDS Naturals, SequencesExt

CONSTANTS MaxServices,      \* MAX_HAP_SERVICES
          MaxAccessories,   \* MAX_HAP_ACCESSORIES
          MaxDeclared       \* bound: services a sketch declares

ASSUME HomeAssumption == {MaxServices, MaxAccessories} \subseteq Nat \ {0}

VARIABLES hap_services,     \* up to its NULL; its length is hap_mainservices_current
          hap_accessories,  \* up to its NULL; the services of each accessory
          base,             \* base_accessory_index + 1, 0 when there is none
          declared,         \* services the sketch was given so far
          started,          \* homekit_server_init(&hap_config) was called
          given             \* history: the sketch's own lists, by their place

homeVars == <<hap_services, hap_accessories, base, declared, started, given>>

Info == 0
Declaring == hap_services # <<>> /\ ~started
HasPlace == Len(hap_accessories) < MaxAccessories
Recorded(own, a, services) ==
  [k \in DOMAIN own \union {a} |-> IF k = a THEN services ELSE own[k]]
NextServices(n) == [i \in 1..n |-> declared + i]

(* Mutant: every service added makes a base accessory.                     *)
NeedsBaseAlways == TRUE
NeedsBase == base = 0

hap_initbase_accessory_service ==
  /\ hap_services = <<>>
  /\ hap_services' = <<Info>>
  /\ UNCHANGED <<hap_accessories, base, declared, started, given>>

(* hap_init_homekit_base_accessory(), then the service is appended.        *)
hap_add_service ==
  /\ Declaring /\ declared < MaxDeclared
  /\ Len(hap_services) < MaxServices
  /\ IF NeedsBase
     THEN /\ HasPlace
          /\ hap_accessories' = Append(hap_accessories, hap_services)
          /\ base' = Len(hap_accessories')
     ELSE UNCHANGED <<hap_accessories, base>>
  /\ declared' = declared + 1
  /\ hap_services' = Append(hap_services, declared + 1)
  /\ UNCHANGED <<started, given>>

(* The end of the functions below: an accessory with n new services.       *)
AppendAccessory(services, n) ==
  /\ Declaring /\ HasPlace /\ declared + n <= MaxDeclared
  /\ declared' = declared + n
  /\ hap_accessories' = Append(hap_accessories, services)
  /\ UNCHANGED <<hap_services, base, started>>

(* The hap_add_..._as_accessory() functions: an information service and    *)
(* one to three others.                                                    *)
AddAsAccessory(n) ==
  /\ AppendAccessory(<<Info>> \o NextServices(n), n)
  /\ UNCHANGED given

(* A list of the sketch, whatever is in it.                                *)
hap_add_accessory(info, n) ==
  LET services == (IF info THEN <<Info>> ELSE <<>>) \o NextServices(n)
  IN  /\ AppendAccessory(services, n)
      /\ given' = Recorded(given, Len(hap_accessories) + 1, services)

(* The base accessory is made anew with all its services.  Without any,    *)
(* the ESP32 does not start; the ESP8266 starts with the other accessories.*)
hap_init_homekit_server ==
  /\ Declaring
  /\ IF Len(hap_services) > 1
     THEN /\ hap_accessories' = [hap_accessories EXCEPT ![base] = hap_services]
          /\ started' = TRUE
     ELSE UNCHANGED hap_accessories /\ started' \in BOOLEAN
  /\ UNCHANGED <<hap_services, base, declared, given>>

HomeInit ==
  /\ hap_services = <<>> /\ hap_accessories = <<>>
  /\ base = 0 /\ declared = 0 /\ started = FALSE /\ given = <<>>

HomeNext ==
  \/ hap_initbase_accessory_service \/ hap_add_service
  \/ \E n \in 1..3 : AddAsAccessory(n)
  \/ \E info \in BOOLEAN, n \in 0..MaxDeclared : hap_add_accessory(info, n)
  \/ hap_init_homekit_server

HomeSpec == HomeInit /\ [][HomeNext]_homeVars

(* Each service that the sketch declared, by whichever of the calls and in *)
(* whatever order of them, is in exactly one of the accessories the server *)
(* offers.  An accessory that the sketch put together itself is offered    *)
(* as it was given; every other one begins with its information.           *)
EveryServiceOffered ==
  started =>
    /\ \A s \in 1..declared :
         \E a \in DOMAIN hap_accessories :
           /\ s \in ToSet(hap_accessories[a])
           /\ \A k \in DOMAIN hap_accessories \ {a} : s \notin ToSet(hap_accessories[k])
    /\ DOMAIN given \subseteq DOMAIN hap_accessories
    /\ \A a \in DOMAIN hap_accessories :
         IF a \in DOMAIN given THEN hap_accessories[a] = given[a]
                               ELSE Head(hap_accessories[a]) = Info
=============================================================================
