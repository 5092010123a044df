---------------------------- MODULE MCHousehold ----------------------------
(* Two minutes to the day; a place in the list to each of three devices;    *)
(* half a degree, one or two to the step of the limits.                     *)
EXTENDS Household

Range16To30(step) == [min |-> 16 * Degree, max |-> 30 * Degree, step |-> step]

\* The bounds are multiples of each step.
EvenSteps == {Range16To30(45), Range16To30(90), Range16To30(180)}

\* Every tenth of a degree from 10 to 35, and the same range in Fahrenheit.
AllTargets == {9 * k : k \in 100..350} \cup {9 * k : k \in 500..950}
=============================================================================
