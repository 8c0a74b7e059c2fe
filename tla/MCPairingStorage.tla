-------------------------- MODULE MCPairingStorage --------------------------
(* Small instances of PairingStorage: two or three controllers, a table of *)
(* two or three slots, so that it fills up, holds duplicates and compacts. *)
EXTENDS PairingStorage

CONSTANTS phone, tablet, admin, regular

Controllers == {phone, tablet}
Permissions == {admin, regular}
==============================================================================
