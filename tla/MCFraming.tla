----------------------------- MODULE MCFraming -----------------------------
(* Framing for TLC: requests in one frame with a body, in one that is too  *)
(* full for the margin, and in two that may be read together.              *)
EXTENDS Framing

MCShapes == {<<3>>, <<5>>, <<1, 1>>}
MCRequests == [c \in Client |-> IF c = "secure" THEN 2 ELSE 1]

(* For what one client leaves behind for another.                          *)
OneFrame == {<<2>>}
=============================================================================
