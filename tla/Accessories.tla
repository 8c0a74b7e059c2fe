---------------------------- MODULE Accessories ----------------------------
(***************************************************************************)
(* accessories.c: the ids that homekit_accessories_init gives to the       *)
(* accessories, services and characteristics of a sketch before the server *)
(* starts, and the look-up of a characteristic by those ids, which is how  *)
(* every request names it.                                                 *)
(*                                                                         *)
(* The nested NULL-terminated arrays are one list of elements in the order *)
(* of the loops: an accessory, then its services, each followed by its     *)
(* characteristics.  Id 0 means that the sketch left the choice to the     *)
(* library.  The getters and setters that are wrapped are left out.        *)
(***************************************************************************)
EXTENDS Integers, Sequences, FiniteSets

CONSTANTS
  Shapes,     \* lists of kinds: what a sketch may declare
  MaxId       \* bound: the largest id a sketch chooses

ASSUME ShapesAssumption ==
  \A s \in Shapes :
    /\ s \in Seq({"accessory", "service", "characteristic"})
    /\ Len(s) >= 2 /\ s[1] = "accessory"

VARIABLES
  kind,      \* the kinds of the elements
  chosen,    \* the ids the sketch chose
  id,        \* the ids as they stand
  aid, iid,  \* the counters
  at         \* the element the loops are at

accVars == <<kind, chosen, id, aid, iid, at>>

Elements == 1..Len(kind)

(* An id that the sketch chose pushes the counter past itself, or takes    *)
(* the next one from the counter.                                          *)
IdOr(c, counter) == IF c # 0 THEN c ELSE counter
CounterStays(c, counter) == IF c # 0 THEN counter ELSE counter + 1    \* mutant
CounterAfter(c, counter) ==
  IF c = 0 THEN counter + 1
  ELSE IF c >= counter THEN c + 1 ELSE counter

NameAccessory ==
  /\ at \in Elements /\ kind[at] = "accessory"
  /\ id' = [id EXCEPT ![at] = IdOr(@, aid)]
  /\ aid' = CounterAfter(id[at], aid)
  /\ iid' = 1
  /\ at' = at + 1
  /\ UNCHANGED <<kind, chosen>>

NamePart ==
  /\ at \in Elements /\ kind[at] \in {"service", "characteristic"}
  /\ id' = [id EXCEPT ![at] = IdOr(@, iid)]
  /\ iid' = CounterAfter(id[at], iid)
  /\ at' = at + 1
  /\ UNCHANGED <<kind, chosen, aid>>

AccInit ==
  /\ kind \in Shapes
  /\ chosen \in [1..Len(kind) -> 0..MaxId]
  /\ id = chosen
  /\ aid = 1 /\ iid = 1
  /\ at = 1

AccNext == NameAccessory \/ NamePart

AccSpec == AccInit /\ [][AccNext]_accVars

------------------------------------------------------------------------------
(* The accessory an element belongs to.                                    *)
Home(n) ==
  CHOOSE a \in 1..n :
    kind[a] = "accessory" /\ \A k \in (a + 1)..n : kind[k] # "accessory"

Characteristics == {n \in Elements : kind[n] = "characteristic"}
Named(a, i) == {n \in Characteristics : id[Home(n)] = a /\ id[n] = i}

(* The first one in the order of the loops, 0 when there is none.          *)
homekit_characteristic_by_aid_and_iid(a, i) ==
  IF Named(a, i) = {} THEN 0
  ELSE CHOOSE n \in Named(a, i) : \A k \in Named(a, i) : n <= k

SameScope(m, n) ==
  IF kind[n] = "accessory" THEN kind[m] = "accessory"
  ELSE kind[m] # "accessory" /\ Home(m) = Home(n)

(* The sketch chose an id that an earlier element of the scope has already:*)
(* one that the sketch chose for that too, or one that the counter gave.   *)
(* An accessory, a service and two characteristics with 0, 0, 0 and 2 get  *)
(* 1, 1, 2 and 2: the counter does not know of ids that are still to come. *)
Collides(n) ==
  chosen[n] # 0 /\ \E m \in 1..(n - 1) : SameScope(m, n) /\ id[m] = id[n]

(* Sketches mix ids of their own with ids left open, in any order.  Once   *)
(* all ids are given, a request reaches every characteristic by its ids if *)
(* the library gave them, whatever the sketch chose for others, or if they *)
(* were free when the loops came to them.  A characteristic whose chosen   *)
(* id was taken, or whose accessory's was, may be out of reach.            *)
EveryoneIsFound ==
  at > Len(kind) =>
    \A n \in Characteristics :
      \/ homekit_characteristic_by_aid_and_iid(id[Home(n)], id[n]) = n
      \/ Collides(n) \/ Collides(Home(n))
==============================================================================
