------------------------------ MODULE AcState ------------------------------
(***************************************************************************)
(* The air conditioner's state, the partial updates clients send, and the  *)
(* operators the command bus applies to them.  Everything here is a pure   *)
(* function; the bus itself is module CommandBus.                          *)
(*                                                                         *)
(* Temperatures are integers, in ninetieths of a degree: every value the   *)
(* bus keeps is a whole number of them and stays one under both unit       *)
(* conversions, so the real arithmetic of the code is exact here.          *)
(*                                                                         *)
(* "fan" stands for the fan speed and for every other field the code       *)
(* copies without looking at it (swing, quiet, turbo, econo, light,        *)
(* filter, clean, sleep).  Protocol and model are left out: no property    *)
(* reads them, and equal() does not compare them.                          *)
(***************************************************************************)
EXTENDS Integers

CONSTANTS
  Modes,     \* operating modes: cool, heat, dry, ...
  Cool,      \* the mode of the default state
  Off,       \* what hvac_mode says of a unit that is off
  Fans,      \* fan speeds (see above)
  AutoFan     \* the fan speed of the default state

ASSUME ModeAssumption == Cool \in Modes /\ Off \notin Modes
ASSUME FanAssumption  == AutoFan \in Fans

Degree == 90                     \* one degree in the unit used here

State == [power : BOOLEAN, mode : Modes, fan : Fans,
          degrees : Int, celsius : BOOLEAN]

Fields == {"power", "mode", "fan", "degrees", "celsius"}

DefaultState ==
  [power |-> FALSE, mode |-> Cool, fan |-> AutoFan,
   degrees |-> 24 * Degree, celsius |-> TRUE]

----------------------------------------------------------------------------
(* A delta is a record that has only the fields its client set.  "beep" is  *)
(* a request to the sender and never becomes part of the state.             *)

IsDelta(d) ==
  /\ DOMAIN d \subseteq Fields \cup {"beep"}
  /\ "power" \in DOMAIN d => d["power"] \in BOOLEAN
  /\ "mode" \in DOMAIN d => d["mode"] \in Modes
  /\ "fan" \in DOMAIN d => d["fan"] \in Fans
  /\ "degrees" \in DOMAIN d => d["degrees"] \in Int
  /\ "celsius" \in DOMAIN d => d["celsius"] \in BOOLEAN

Empty(d) == DOMAIN d = {}

Given(d, f, old) == IF f \in DOMAIN d THEN d[f] ELSE old

Merge(s, d) ==
  [power   |-> Given(d, "power", s.power),
   mode    |-> Given(d, "mode", s.mode),
   fan     |-> Given(d, "fan", s.fan),
   degrees |-> Given(d, "degrees", s.degrees),
   celsius |-> Given(d, "celsius", s.celsius)]

----------------------------------------------------------------------------
(* Units and limits.  Limits are in Celsius, whatever the unit.             *)

ToF(u) == (u * 9) \div 5 + 32 * Degree
ToC(u) == ((u - 32 * Degree) * 5) \div 9

\* Mutant: rounds down.
RoundDown(u, step) == step * (u \div step)

\* Nearest multiple of a step, halves away from zero, as roundf does.
RoundToStep(u, step) ==
  IF u >= 0 THEN step * ((2 * u + step) \div (2 * step))
            ELSE -(step * ((step - 2 * u) \div (2 * step)))

Bound(u, lo, hi) == IF u < lo THEN lo ELSE IF u > hi THEN hi ELSE u

\* Mutant: the limits are not converted.
ClampCelsius(s, limits) ==
  [s EXCEPT !.degrees =
     RoundToStep(Bound(@, limits.min, limits.max),
                 IF s.celsius THEN limits.step ELSE Degree)]

\* Bounded first, rounded after.
Clamp(s, limits) ==
  [s EXCEPT !.degrees =
     IF s.celsius
     THEN RoundToStep(Bound(@, limits.min, limits.max), limits.step)
     ELSE RoundToStep(Bound(@, ToF(limits.min), ToF(limits.max)), Degree)]

\* The delta that speaks the same temperature in the other unit.
UnitDelta(s, celsius) ==
  [celsius |-> celsius,
   degrees |-> IF celsius THEN ToC(s.degrees) ELSE ToF(s.degrees)]

----------------------------------------------------------------------------
(* The JSON form: what is published to clients, and what the state file     *)
(* holds.                                                                   *)

Json == [power : BOOLEAN, mode : Modes, hvac_mode : Modes \cup {Off},
         temp : Int, unit : {"C", "F"}, fan : Fans]

\* Mutant: the unit is left to the reader.
ToJsonUnitless(s) ==
  [power |-> s.power, mode |-> s.mode,
   hvac_mode |-> IF s.power THEN s.mode ELSE Off,
   temp |-> s.degrees, unit |-> "C", fan |-> s.fan]

ToJson(s) ==
  [power |-> s.power, mode |-> s.mode,
   hvac_mode |-> IF s.power THEN s.mode ELSE Off,
   temp |-> s.degrees, unit |-> IF s.celsius THEN "C" ELSE "F",
   fan |-> s.fan]

\* The mode an object names: hvac_mode, or mode where that is absent.
Named(j) == Given(j, "hvac_mode", Given(j, "mode", ""))
Names(j) == {"hvac_mode", "mode"} \cap DOMAIN j # {}

\* "off" says nothing of the mode; a mode without "power" turns the unit on.
FromJson(j) ==
  LET has == [power   |-> "power" \in DOMAIN j \/ Names(j),
              mode    |-> Names(j) /\ Named(j) # Off,
              fan     |-> "fan" \in DOMAIN j,
              degrees |-> "temp" \in DOMAIN j,
              celsius |-> "unit" \in DOMAIN j]
  IN  [f \in {g \in Fields : has[g]} |->
         CASE f = "power"   -> Given(j, "power", Named(j) # Off)
           [] f = "mode"    -> Named(j)
           [] f = "fan"     -> j["fan"]
           [] f = "degrees" -> j["temp"]
           [] f = "celsius" -> j["unit"] = "C"]

\* What a boot makes of a stored object: it is merged onto the defaults.
Restored(j) == Merge(DefaultState, FromJson(j))
============================================================================
