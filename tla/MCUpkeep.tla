------------------------------ MODULE MCUpkeep ------------------------------
(* Three sections, one of them checked; plans and codes of a small remote.  *)
EXTENDS Upkeep

MCRank == [wifi |-> 1, auth |-> 2, ac |-> 3]

MCPosted ==
  {[auth |-> v] : v \in {"set", "bad"}}
  \cup {[ac |-> v] : v \in {"set", "default"}}
  \cup {[wifi |-> "hidden", auth |-> "hidden", ac |-> "set"]}   \* a backup

MCKey(t, f) == [temp |-> t, fan |-> f]
MCPlans ==
  {[off |-> FALSE, low |-> 20, high |-> 20, fans |-> << >>],
   [off |-> TRUE, low |-> 20, high |-> 20, fans |-> <<"high", "auto">>]}
MCPutKeys == {MCKey(22, "high")}
=============================================================================
