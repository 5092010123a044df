------------------------------ MODULE Follower ------------------------------
(***************************************************************************)
(* What every follower of the air conditioner promises: what it shows is a *)
(* revision the air conditioner has been in, and it never goes back to an  *)
(* older one, though it may skip some.                                     *)
(***************************************************************************)
EXTENDS Naturals

VARIABLES
  actual,     \* the revision the air conditioner is in
  shown       \* the revision the follower shows

Init == actual = 0 /\ shown = 0

\* The air conditioner moves on, the follower catches up some of the way, or
\* both.
Next ==
  /\ actual' \in {actual, actual + 1}
  /\ shown' \in shown..actual'

Spec == Init /\ [][Next]_<<actual, shown>>
=============================================================================
