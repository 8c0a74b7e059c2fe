------------------------------- MODULE Lists -------------------------------
(***************************************************************************)
(* The linked lists of the servers - of clients and of notification        *)
(* callbacks - as sequences, from the head on.                             *)
(***************************************************************************)
EXTENDS Integers, Sequences

(* The list when the loops that unlink and free elements are through: what *)
(* is not in S, in the order in which it was.                              *)
Without(l, S) ==
  LET kept[n \in 0..Len(l)] ==
        IF n = 0 THEN <<>>
        ELSE IF l[n] \in S THEN kept[n - 1] ELSE Append(kept[n - 1], l[n])
  IN  kept[Len(l)]
=============================================================================
