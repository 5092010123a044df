------------------------------- MODULE Button -------------------------------
(***************************************************************************)
(* io/ButtonService.cpp: the one button, its clicks and its two holds.     *)
(* The debounce is the hardware's; what is kept of time is which threshold *)
(* the press has passed.                                                   *)
(***************************************************************************)
EXTENDS Naturals

CONSTANT MaxClicks      \* bound: the clicks of one gesture

ASSUME ClickAssumption == MaxClicks \in Nat

VARIABLES
  press,      \* "up", "short", "long" from three seconds, "spent" at ten
  clicks      \* clickCount_

button == <<press, clicks>>

Press == {"up", "short", "long", "spent"}

ButtonOK == press \in Press /\ clicks \in 0..MaxClicks

PressDown == press = "up" /\ clicks < MaxClicks /\ press' = "short" /\ UNCHANGED clicks

\* Mutant: every release is a click.
ReleaseCounted ==
  /\ press # "up" /\ press' = "up"
  /\ clicks' = IF clicks < MaxClicks THEN clicks + 1 ELSE clicks

\* A press shorter than kPortalHoldMs is a click.
Release ==
  /\ press # "up" /\ press' = "up"
  /\ clicks' = IF press = "short" THEN clicks + 1 ELSE clicks

\* Three seconds; the gesture is missed by a loop that was away for all of the
\* two debounce times after them.
HeldThree == press = "short" /\ press' = "long" /\ UNCHANGED clicks

\* Ten seconds; the clicks before are forgotten.
HeldTen == press = "long" /\ press' = "spent" /\ clicks' = 0

\* kDoubleClickMs with the button up.
ResolveClicks == clicks > 0 /\ press = "up" /\ clicks' = 0 /\ UNCHANGED press

BootButton == press' = "up" /\ clicks' = 0
=============================================================================
