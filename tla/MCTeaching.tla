----------------------------- MODULE MCTeaching -----------------------------
(* The wizard alone.                                                       *)
EXTENDS Teaching

MCKey(t, f) == [temp |-> t, fan |-> f]
MCPlans == {[off |-> TRUE, low |-> 21, high |-> 21, fans |-> <<"auto">>]}
MCPutKeys == {MCKey(20, "auto")}

Spec == TeachingInit /\ [][TeachingNext]_teaching
=============================================================================
