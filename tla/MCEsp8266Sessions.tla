------------------------- MODULE MCEsp8266Sessions -------------------------
(* Small instances of Esp8266Sessions: two controllers and two or three    *)
(* contexts, so that a controller can connect again while its old          *)
(* connection is being closed, and the server can be full.                 *)
EXTENDS Esp8266Sessions, TLC

CONSTANTS phone, tablet, admin, regular

Controllers == {phone, tablet}
OnePhone == {phone}
Permissions == {admin, regular}
OnlyAdmins == {admin}
Symmetry == Permutations(Controllers)
Contexts == 0..(MaxClients - 1)
==============================================================================
