---------------------------- MODULE MCCommandBus ----------------------------
(***************************************************************************)
(* Values for the constants of CommandBus.                                 *)
(***************************************************************************)
EXTENDS CommandBus

MCSources == {"Web", "Mqtt", "IrRemote", "System"}
MCAsync   == {"Web"}
MCModes   == {"cool", "heat"}
MCFans    == {"auto"}

Limits(step) == [min |-> 16 * Degree, max |-> 30 * Degree, step |-> step]

C(t) == t * Degree

Settings(enabled, ready, celsius) ==
  [enabled |-> enabled, ready |-> ready, celsius |-> celsius,
   limits |-> Limits(Degree \div 2)]

\* Everyone may command, in Celsius.
OpenConfigs == {Settings(MCSources, TRUE, TRUE)}
\* MQTT may be switched off, the transmitter taken away.
GatedConfigs ==
  {Settings(e, r, TRUE) : e \in {MCSources, MCSources \ {"Mqtt"}}, r \in BOOLEAN}
\* The unit may be switched.
UnitConfigs == {Settings(MCSources, TRUE, u) : u \in BOOLEAN}

PowerDeltas == {[power |-> p] : p \in BOOLEAN}
TempDeltas  == PowerDeltas \cup {[degrees |-> C(t)] : t \in {20, 24}}
ModeDeltas  == TempDeltas \cup {[mode |-> "heat"]}
StopDeltas  == PowerDeltas \cup {[power |-> FALSE, degrees |-> C(20)]}
BeepDeltas  == TempDeltas \cup {[beep |-> TRUE]}

\* The handset's states: the default one, off and on, and one warmer.
Frame(on, t) == [DefaultState EXCEPT !.power = on, !.degrees = C(t)]
TwoFrames   == {Frame(FALSE, 24), Frame(TRUE, 24)}

============================================================================
