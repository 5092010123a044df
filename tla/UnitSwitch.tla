----------------------------- MODULE UnitSwitch -----------------------------
(***************************************************************************)
(* A device whose owner keeps switching it between Celsius and Fahrenheit: *)
(* each switch is CommandBus::setUnit, a delta with the converted target,  *)
(* clamped by apply.                                                       *)
(***************************************************************************)
EXTENDS AcState

CONSTANTS
  Targets,        \* the targets clients ask for, in ninetieths of a degree
  LimitSets       \* the limits that may be set, one of them in force

ASSUME TargetAssumption == Targets \subseteq Int
ASSUME LimitAssumption  ==
  LimitSets \subseteq [min : Int, max : Int, step : Nat \ {0}]

VARIABLES
  first,          \* the state before any switch
  current,        \* the state after the switches so far
  limits          \* the limits in force

switch == <<first, current, limits>>

SwitchOK == limits \in LimitSets /\ first \in State /\ current \in State

\* A target some client asked for, as the bus keeps it.
SwitchInit ==
  /\ limits \in LimitSets
  /\ \E p, u \in BOOLEAN, m \in Modes, t \in Targets :
       first = Clamp([power |-> p, mode |-> m, fan |-> AutoFan,
                      degrees |-> t, celsius |-> u], limits)
  /\ current = first

SetUnit ==
  /\ current' = Clamp(Merge(current, UnitDelta(current, ~current.celsius)), limits)
  /\ UNCHANGED <<first, limits>>

----------------------------------------------------------------------------
Celsius(s) == IF s.celsius THEN s.degrees ELSE ToC(s.degrees)

\* The target never leaves the range the air conditioner supports.
WithinLimits == Celsius(current) \in limits.min .. limits.max

\* However often the unit is switched, the room is asked for a temperature
\* within a step (or a whole degree Fahrenheit) of the first one.
NoDrift ==
  LET drift == Celsius(current) - Celsius(first)
      step  == IF limits.step > 50 THEN limits.step ELSE 50
  IN  drift \in -step .. step

\* The file gives back the state of a running unit exactly; of a stopped one it
\* gives back all that is said here, which leaves the mode out: hvac_mode is "off"
\* in the file, and what the mode was is lost (AcState::toJson, fromJson).
FileKeepsState ==
  LET back == Restored(ToJson(current))
  IN  /\ back.power = current.power /\ back.fan = current.fan
      /\ back.degrees = current.degrees /\ back.celsius = current.celsius
      /\ current.power => back.mode = current.mode
============================================================================
