--------------------------- MODULE MCAutomations ---------------------------
\* Two rules that trigger each other, with a hold time, a wait, a cooldown and
\* an else branch, over the air conditioner and a lamp.
EXTENDS Automations

Is(f, v) == [field |-> f, accepts |-> {v}]
Set(f, v) == [field |-> f, value |-> v]

MCDef == <<
  [conditions |-> {Is("power", "on")}, matchAll |-> TRUE,
   for |-> 0, cooldown |-> 0,
   actions |-> <<Set("lamp", "on")>>,
   elseActions |-> <<Set("lamp", "off")>>],
  [conditions |-> {Is("lamp", "on")}, matchAll |-> FALSE,
   for |-> 1, cooldown |-> 1,
   actions |-> <<Set("power", "off"), [wait |-> 2], Set("power", "on")>>,
   elseActions |-> <<>>] >>
============================================================================
