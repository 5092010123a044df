-------------------------- MODULE CommandBusProofs --------------------------
(***************************************************************************)
(* Proofs about CommandBus: type correctness of every behaviour, that a    *)
(* session protects the compressor and keeps everyone in sync, and that    *)
(* the copy a crash starts from is current through restarts.               *)
(***************************************************************************)
EXTENDS CommandBus, TLAPS

LimitSet == [min : Int, max : Int, step : Nat \ {0}]

----------------------------------------------------------------------------
(* The operators of AcState return states.                                  *)

\* Rounding to a positive step gives an integer.
LEMMA RoundType ==
  ASSUME NEW u \in Int, NEW step \in Nat \ {0}
  PROVE  RoundToStep(u, step) \in Int
<1>1. step \in Int /\ step > 0 /\ 2 * step \in Int /\ 2 * step > 0
  OBVIOUS
<1>2. /\ (2 * u + step) \div (2 * step) \in Int
      /\ (step - 2 * u) \div (2 * step) \in Int
  BY <1>1
<1> DEFINE up == (2 * u + step) \div (2 * step)
           down == (step - 2 * u) \div (2 * step)
<1>3. up \in Int /\ down \in Int
  BY <1>2
<1> HIDE DEF up, down
<1>4. step * up \in Int /\ -(step * down) \in Int
  BY <1>1, <1>3
<1> QED BY <1>4 DEF RoundToStep, up, down

LEMMA ConversionType ==
  ASSUME NEW u \in Int
  PROVE  ToF(u) \in Int /\ ToC(u) \in Int
BY DEF ToF, ToC, Degree

\* Clamping keeps a state a state and never touches its power.
LEMMA ClampType ==
  ASSUME NEW s \in State, NEW l \in LimitSet
  PROVE  Clamp(s, l) \in State /\ Clamp(s, l).power = s.power
<1> DEFINE c == RoundToStep(Bound(s.degrees, l.min, l.max), l.step)
           f == RoundToStep(Bound(s.degrees, ToF(l.min), ToF(l.max)), Degree)
<1>1. /\ s.degrees \in Int /\ l.min \in Int /\ l.max \in Int
      /\ l.step \in Nat \ {0}
  BY DEF State, LimitSet
<1>2. /\ Bound(s.degrees, l.min, l.max) \in Int
      /\ Bound(s.degrees, ToF(l.min), ToF(l.max)) \in Int
  BY <1>1, ConversionType DEF Bound
<1>3. Degree \in Nat \ {0}
  BY DEF Degree
<1>4. c \in Int /\ f \in Int
  BY <1>1, <1>2, <1>3, RoundType
<1> HIDE DEF c, f
<1>5. Clamp(s, l) = [s EXCEPT !.degrees = IF s.celsius THEN c ELSE f]
  BY DEF Clamp, c, f, State
<1> QED BY <1>4, <1>5 DEF State

LEMMA MergeType ==
  ASSUME NEW s \in State, NEW d, IsDelta(d)
  PROVE  Merge(s, d) \in State
BY DEF Merge, IsDelta, Given, State

LEMMA UnitDeltaType ==
  ASSUME NEW s \in State, NEW u \in BOOLEAN
  PROVE  IsDelta(UnitDelta(s, u))
<1>1. s.degrees \in Int
  BY DEF State
<1> QED BY <1>1, ConversionType DEF UnitDelta, IsDelta, Fields

LEMMA ToJsonType ==
  ASSUME NEW s \in State
  PROVE  ToJson(s) \in Json
BY DEF ToJson, Json, State

\* What a boot makes of a stored object is a state.
LEMMA RestoredType ==
  ASSUME NEW j \in Json
  PROVE  Restored(j) \in State
<1>1. DOMAIN j = {"power", "mode", "hvac_mode", "temp", "unit", "fan"}
  BY DEF Json
<1>2. /\ j.power \in BOOLEAN /\ j.hvac_mode \in Modes \cup {Off}
      /\ j.temp \in Int /\ j.fan \in Fans /\ j.unit \in {"C", "F"}
  BY DEF Json
<1>3. Names(j) /\ Named(j) = j.hvac_mode
  BY <1>1 DEF Names, Named, Given
<1> DEFINE d == FromJson(j)
           dom == Fields \ (IF j.hvac_mode = Off THEN {"mode"} ELSE {})
           has == [power   |-> "power" \in DOMAIN j \/ Names(j),
                   mode    |-> Names(j) /\ Named(j) # Off,
                   fan     |-> "fan" \in DOMAIN j,
                   degrees |-> "temp" \in DOMAIN j,
                   celsius |-> "unit" \in DOMAIN j]
           value(f) == CASE f = "power"   -> Given(j, "power", Named(j) # Off)
                         [] f = "mode"    -> Named(j)
                         [] f = "fan"     -> j["fan"]
                         [] f = "degrees" -> j["temp"]
                         [] f = "celsius" -> j["unit"] = "C"
<1>4. d = [f \in {g \in Fields : has[g]} |-> value(f)]
  BY DEF FromJson
<1>5. /\ has["power"] /\ has["fan"] /\ has["degrees"] /\ has["celsius"]
      /\ has["mode"] <=> j.hvac_mode # Off
  BY <1>1, <1>3
<1>6. {g \in Fields : has[g]} = dom
  <2> HIDE DEF has
  <2> QED BY <1>5 DEF Fields
<1>7. /\ value("power") = j.power
      /\ value("mode") = j.hvac_mode
      /\ value("fan") = j.fan
      /\ value("degrees") = j.temp
      /\ value("celsius") \in BOOLEAN
  BY <1>1, <1>3 DEF Given
<1> HIDE DEF value, has, d
<1>8. d = [f \in dom |-> value(f)]
  BY <1>4, <1>6
<1>9. /\ DOMAIN d = dom
      /\ d["power"] = j.power
      /\ "mode" \in DOMAIN d => d["mode"] \in Modes
      /\ d["fan"] = j.fan
      /\ d["degrees"] = j.temp
      /\ d["celsius"] \in BOOLEAN
  <2>1. {"power", "fan", "degrees", "celsius"} \subseteq dom
    BY DEF Fields
  <2>2. "mode" \in dom => j.hvac_mode \in Modes
    BY <1>2
  <2> HIDE DEF dom
  <2> QED BY <1>7, <1>8, <2>1, <2>2
<1>10. IsDelta(d)
  BY <1>2, <1>9 DEF IsDelta, Fields
<1>11. DefaultState \in State
  BY ModeAssumption, FanAssumption DEF DefaultState, State, Degree
<1> QED BY <1>10, <1>11, MergeType DEF Restored, d

----------------------------------------------------------------------------
(* Type correctness.                                                        *)

LEMMA ConfigType ==
  ASSUME NEW c \in Configs
  PROVE  /\ c.enabled \subseteq Sources /\ c.ready \in BOOLEAN
         /\ c.celsius \in BOOLEAN /\ c.limits \in LimitSet
BY ConfigAssumption DEF IsConfig, LimitSet

LEMMA AskedType ==
  ASSUME state \in State, NEW c \in Configs, NEW d, IsDelta(d)
  PROVE  Asked(d, c) \in State
BY MergeType, ClampType, ConfigType DEF Asked

\* The parts of the type invariant that an outgoing frame changes.
SendTypes ==
  /\ told \in State /\ ac \in State /\ IsCall(call)
  /\ dirty \in BOOLEAN /\ dirtyAge \in 0..FlushAfter
  /\ rtc \in State \cup {None} /\ file \in Json \cup {None}
  /\ run \in {"off", "bridge", "handset"} /\ offFor \in 0..MinOff

LEMMA HearsType ==
  ASSUME TypeOK, NEW f \in State, NEW who \in {"bridge", "handset"},
         Hears(f, who)
  PROVE  /\ ac' \in State
         /\ run' \in {"off", "bridge", "handset"}
         /\ offFor' \in 0..MinOff
BY ClockAssumption DEF TypeOK, Hears, State

LEMMA AfterType ==
  ASSUME TypeOK, NEW then, NEW s \in State, After(then, s)
  PROVE  /\ told' \in State
         /\ dirty' \in BOOLEAN /\ dirtyAge' \in 0..FlushAfter
         /\ rtc' \in State \cup {None} /\ file' \in Json \cup {None}
<1>1. 0 \in 0..FlushAfter
  BY ClockAssumption
<1>2. ToJson(s) \in Json
  BY ToJsonType
<1> QED BY <1>1, <1>2 DEF After, Persist, Written, TypeOK, storeVars

LEMMA SendType ==
  ASSUME TypeOK, NEW f \in State, NEW then \in Afters, NEW w,
         Send(f, then, w)
  PROVE  SendTypes'
<1>1. CASE SendFails /\ UNCHANGED <<acVars, storeVars, told, call>>
  BY <1>1 DEF TypeOK, SendTypes, acVars, storeVars, IsCall
<1>2. CASE Hears(f, "bridge") /\ After(then, f) /\ UNCHANGED call
  BY <1>2, HearsType, AfterType DEF SendTypes, TypeOK, IsCall
<1>3. CASE /\ Hears(f, "bridge") /\ UNCHANGED <<storeVars, told>>
           /\ call' = [frame |-> f, left |-> Repeats, then |-> then]
  <2>1. IsCall(call)'
    BY <1>3, ClockAssumption DEF IsCall
  <2> QED BY <1>3, <2>1, HearsType DEF SendTypes, TypeOK, storeVars
<1> QED BY <1>1, <1>2, <1>3 DEF Send

LEMMA NoteStopType ==
  ASSUME TypeOK, NEW next, NoteStop(next)
  PROVE  /\ IsPending(pending)' /\ sawOff' \in BOOLEAN
         /\ offAge' \in 0..(ClockWrap - 1)
<1>1. 0 \in 0..(ClockWrap - 1)
  BY ClockAssumption
<1> QED BY <1>1 DEF NoteStop, TypeOK, IsPending, guardVars

LEMMA ServeType ==
  ASSUME TypeOK, NEW c \in Configs, NEW d, IsDelta(d),
         NEW source \in Sources, Serve(source, d, c)
  PROVE  SendTypes' /\ state' \in State /\ IsPending(pending)'
         /\ sawOff' \in BOOLEAN /\ offAge' \in 0..(ClockWrap - 1)
<1> DEFINE next == Asked(d, c)
<1>1. next \in State
  BY AskedType DEF TypeOK
<1> HIDE DEF next
<1>2. CASE Hold(next, source)
  BY <1>1, <1>2
     DEF Hold, TypeOK, SendTypes, IsPending, IsCall, acVars, storeVars
<1>3. ASSUME NEW then \in Afters, state' = next, NoteStop(next),
             Send(next, then, source \in AsyncSources)
      PROVE  SendTypes' /\ state' \in State /\ IsPending(pending)'
             /\ sawOff' \in BOOLEAN /\ offAge' \in 0..(ClockWrap - 1)
  <2>1. SendTypes'
    BY <1>1, <1>3, SendType
  <2> QED BY <1>1, <1>3, <2>1, NoteStopType
<1>4. CASE /\ state' = next /\ NoteStop(next)
           /\ UNCHANGED <<storeVars, told, call, acVars>>
  <2>1. SendTypes'
    BY <1>4 DEF TypeOK, SendTypes, acVars, storeVars, IsCall
  <2> QED BY <1>1, <1>4, <2>1, NoteStopType
<1>5. (IF Effective(d, c) THEN "save" ELSE "notify") \in Afters
  BY DEF Afters
<1> QED BY <1>2, <1>3, <1>4, <1>5 DEF Serve, next

\* What begin() takes its state from: a state, whatever the file holds.
Found(r, f) == IF RestoreOnBoot /\ r # None THEN r
               ELSE IF RestoreOnBoot /\ f # None THEN Restored(f)
               ELSE DefaultState

LEMMA FoundType ==
  ASSUME NEW r \in State \cup {None}, NEW f \in Json \cup {None}
  PROVE  Found(r, f) \in State
<1>1. DefaultState \in State
  BY ModeAssumption, FanAssumption DEF DefaultState, State, Degree
<1> QED BY <1>1, RestoredType DEF Found

LEMMA BootType ==
  ASSUME TypeOK, NEW r \in State \cup {None}, NEW f \in Json \cup {None},
         Boot(r, f)
  PROVE  TypeOK'
<1>1. cfg.celsius \in BOOLEAN /\ cfg.limits \in LimitSet
  BY ConfigType DEF TypeOK
<1>2. BootState(r, f, cfg) \in State
  <2>1. Found(r, f) \in State
    BY FoundType
  <2>2. [Found(r, f) EXCEPT !.celsius = cfg.celsius] \in State
    BY <1>1, <2>1 DEF State
  <2> QED BY <1>1, <2>2, ClampType DEF BootState, Found
<1>3. 0 \in 0..(ClockWrap - 1) /\ 0 \in 0..FlushAfter
  BY ClockAssumption
<1> QED BY <1>2, <1>3 DEF Boot, TypeOK, IsPending, IsCall, acVars

LEMMA TypeInit == Init => TypeOK
<1> SUFFICES ASSUME Init PROVE TypeOK
  OBVIOUS
<1>1. cfg.celsius \in BOOLEAN /\ cfg.limits \in LimitSet
  BY ConfigType DEF Init
<1>2. [DefaultState EXCEPT !.celsius = cfg.celsius] \in State
  <2>1. DefaultState \in State
    BY ModeAssumption, FanAssumption DEF DefaultState, State, Degree
  <2> QED BY <1>1, <2>1 DEF State
<1>3. state \in State
  BY <1>1, <1>2, ClampType DEF Init, BootState
<1>4. 0 \in 0..(ClockWrap - 1) /\ 0 \in 0..FlushAfter /\ MinOff \in 0..MinOff
  BY ClockAssumption
<1> QED BY <1>3, <1>4 DEF Init, TypeOK, IsPending, IsCall

LEMMA TypeStep == TypeOK /\ [Next]_vars => TypeOK'
<1> SUFFICES ASSUME TypeOK, [Next]_vars PROVE TypeOK'
  OBVIOUS
<1>1. ASSUME NEW source \in Sources, NEW d \in Deltas, Apply(source, d)
      PROVE  TypeOK'
  <2>1. IsDelta(d)
    BY DeltaAssumption
  <2> QED BY <1>1, <2>1, ServeType DEF Apply, TypeOK, SendTypes
<1>2. ASSUME NEW source \in Sources, Resend(source)
      PROVE  TypeOK'
  <2>1. "notify" \in Afters
    BY DEF Afters
  <2>2. SendTypes'
    BY <1>2, <2>1, SendType DEF Resend, TypeOK
  <2>3. UNCHANGED <<state, guardVars, cfg>>
    BY <1>2 DEF Resend
  <2>4. IsPending(pending)'
    BY <2>3 DEF TypeOK, IsPending, guardVars
  <2> QED BY <2>2, <2>3, <2>4 DEF TypeOK, SendTypes, guardVars
<1>3. ASSUME NEW c \in Configs, SetConfig(c)
      PROVE  TypeOK'
  <2>1. IsDelta(UnitDelta(state, c.celsius))
    BY UnitDeltaType, ConfigType DEF TypeOK
  <2>2. CASE Serve("Web", UnitDelta(state, c.celsius), c)
    BY <1>3, <2>1, <2>2, ServeType, SourceAssumption
       DEF SetConfig, TypeOK, SendTypes
  <2>3. CASE UNCHANGED <<state, guardVars, storeVars, told, call, acVars>>
    BY <1>3, <2>3
       DEF SetConfig, TypeOK, guardVars, storeVars, acVars, IsPending, IsCall
  <2> QED BY <1>3, <2>2, <2>3 DEF SetConfig
<1>4. ASSUME NEW frame \in Frames, HandsetPress(frame)
      PROVE  TypeOK'
  <2> DEFINE next == Clamp(frame, cfg.limits)
  <2>1. frame \in State
    BY FrameAssumption
  <2>2. next \in State
    BY <2>1, ClampType, ConfigType DEF TypeOK
  <2> HIDE DEF next
  <2>3. /\ ac' \in State /\ run' \in {"off", "bridge", "handset"}
        /\ offFor' \in 0..MinOff /\ cfg' = cfg /\ call' = call
    BY <1>4, <2>1, HearsType DEF HandsetPress
  <2>4. CASE state' = next /\ NoteStop(next) /\ After("mark", next)
    BY <2>2, <2>3, <2>4, NoteStopType, AfterType DEF TypeOK, IsCall
  <2>5. CASE UNCHANGED <<state, guardVars, storeVars, told>>
    BY <2>3, <2>5 DEF TypeOK, guardVars, storeVars, IsPending, IsCall
  <2> QED BY <1>4, <2>4, <2>5 DEF HandsetPress, Observe, next
<1>5. CASE RunPendingStart
  <2> DEFINE next == Clamp(pending.state, cfg.limits)
  <2>1. next \in State
    <3>1. pending.state \in State
      BY <1>5 DEF RunPendingStart, StartDue, TypeOK, IsPending
    <3> QED BY <3>1, ClampType, ConfigType DEF TypeOK
  <2> HIDE DEF next
  <2>2. "mark" \in Afters
    BY DEF Afters
  <2>3. IsPending(pending)' /\ UNCHANGED <<sawOff, offAge, cfg>>
    BY <1>5 DEF RunPendingStart, IsPending
  <2>4. CASE state' = next /\ Send(next, "mark", FALSE)
    <3>1. SendTypes'
      BY <2>1, <2>2, <2>4, SendType
    <3> QED BY <2>1, <2>3, <2>4, <3>1 DEF TypeOK, SendTypes
  <2>5. CASE UNCHANGED <<state, storeVars, told, call, acVars>>
    BY <2>3, <2>5 DEF TypeOK, storeVars, acVars, IsCall
  <2> QED BY <1>5, <2>4, <2>5 DEF RunPendingStart, next
<1>6. CASE FlushFile
  <2>1. file' \in Json \cup {None} /\ dirty' \in BOOLEAN
    BY <1>6, ToJsonType DEF FlushFile, Persist, Written, TypeOK
  <2> QED BY <1>6, <2>1
          DEF FlushFile, TypeOK, guardVars, acVars, IsPending, IsCall
<1>7. CASE Repeat
  <2>1. call \in [frame : State, left : Nat, then : Afters]
    BY <1>7 DEF Repeat, TypeOK, IsCall
  <2>2. IsCall(call)'
    BY <1>7, <2>1 DEF Repeat, IsCall
  <2>3. /\ ac' \in State /\ run' \in {"off", "bridge", "handset"}
        /\ offFor' \in 0..MinOff
    BY <1>7, <2>1, HearsType DEF Repeat
  <2> QED BY <1>7, <2>2, <2>3 DEF Repeat, TypeOK, guardVars, storeVars, IsPending
<1>8. CASE Return
  <2>1. /\ told' \in State
        /\ dirty' \in BOOLEAN /\ dirtyAge' \in 0..FlushAfter
        /\ rtc' \in State \cup {None} /\ file' \in Json \cup {None}
    BY <1>8, AfterType DEF Return, TypeOK
  <2> QED BY <1>8, <2>1 DEF Return, TypeOK, guardVars, acVars, IsPending, IsCall
<1>9. CASE Tick
  <2>1. offAge' \in 0..(ClockWrap - 1)
    BY <1>9, ClockAssumption DEF Tick, TypeOK
  <2>2. dirtyAge' \in 0..FlushAfter /\ offFor' \in 0..MinOff
    BY <1>9, ClockAssumption DEF Tick, FlushDue, TypeOK
  <2> QED BY <1>9, <2>1, <2>2 DEF Tick, TypeOK, IsPending, IsCall
<1>10. CASE Reset
  <2>1. file \in Json \cup {None} /\ rtc \in State \cup {None}
    BY DEF TypeOK
  <2>2. Written(state) \subseteq Json \cup {None}
    BY <2>1, ToJsonType DEF Written, TypeOK
  <2> QED BY <1>10, <2>1, <2>2, BootType DEF Reset, Crash, Restart, PowerCut
<1>11. CASE UNCHANGED vars
  BY <1>11 DEF vars, TypeOK, guardVars, storeVars, acVars, IsPending, IsCall
<1> QED BY <1>1, <1>2, <1>3, <1>4, <1>5, <1>6, <1>7, <1>8, <1>9, <1>10, <1>11
        DEF Next, Session, Environment, BusLoop, Sending

\* Every variable of the bus keeps its type in every behaviour, restarts,
\* nested calls, failed transmissions and missed presses included.
THEOREM TypeCorrect == Spec => []TypeOK
<1> QED BY TypeInit, TypeStep, PTL DEF Spec

----------------------------------------------------------------------------
(* The compressor guard.                                                    *)

(***************************************************************************)
(* What the guarantee needs: no restart (the theorems are about            *)
(* SessionSpec), no pauses inside a transmission, every transmission goes  *)
(* out, and the handset is always heard.  Run bus_forget shows that it     *)
(* fails with restarts.                                                    *)
(***************************************************************************)
Undisturbed ==
  /\ Repeats = 0 /\ ~SendFails /\ ~MissesFrames
  /\ \A c \in Configs : "IrRemote" \in c.enabled

(***************************************************************************)
(* The bus knows whether the unit is on and, while it has been off for     *)
(* less than the minimum, exactly for how long.  A held start is a start.  *)
(***************************************************************************)
GuardInv ==
  /\ TypeOK
  /\ call = NoCall
  /\ ac.power = state.power
  /\ run = "off" <=> ~ac.power
  /\ run = "off" /\ offFor < MinOff => sawOff /\ offAge = offFor
  /\ pending # NoStart => pending.state.power

\* What GuardInv adds to the type invariant, of the new values.
Knows ==
  /\ ac.power = state.power
  /\ run = "off" <=> ~ac.power
  /\ run = "off" /\ offFor < MinOff => sawOff /\ offAge = offFor

\* A step of the compressor's promise, or one it does not see.
Promised == [Promise!Next]_(Promise!vars)

LEMMA ModSmall ==
  ASSUME NEW m \in Nat, NEW a \in Nat, a < m
  PROVE  a % m = a
OBVIOUS

LEMMA SendSends ==
  ASSUME Undisturbed, NEW f, NEW then, NEW w, Send(f, then, w)
  PROVE  Hears(f, "bridge") /\ call' = call
BY DEF Undisturbed, Send

(***************************************************************************)
(* A frame of the bridge that is not a start during the hold keeps the     *)
(* promise and the bus's knowledge.                                        *)
(***************************************************************************)
LEMMA FrameKeepsGuard ==
  ASSUME GuardInv, NEW next \in State, ~Blocked(next),
         state' = next, NoteStop(next), Hears(next, "bridge")
  PROVE  Knows' /\ Promised
<1>1. /\ next.power \in BOOLEAN /\ state.power \in BOOLEAN
      /\ offFor \in 0..MinOff /\ MinOff \in Nat
      /\ run \in {"off", "bridge", "handset"}
  BY ClockAssumption DEF GuardInv, TypeOK, State
<1>2. CASE state.power /\ ~next.power
  BY <1>1, <1>2 DEF GuardInv, Knows, Promised, NoteStop, Hears,
       Promise!Next, Promise!Stop, Promise!vars
<1>3. CASE ~state.power /\ next.power
  <2>1. offFor = MinOff
    BY <1>1, <1>3 DEF GuardInv, Blocked, Holding
  <2> QED BY <1>1, <1>3, <2>1 DEF GuardInv, Knows, Promised, NoteStop, Hears,
       Promise!Next, Promise!BridgeStart, Promise!Start, Promise!vars
<1>4. CASE state.power = next.power
  BY <1>1, <1>4 DEF GuardInv, Knows, Promised, NoteStop, Hears, Promise!vars,
       guardVars
<1> QED BY <1>1, <1>2, <1>3, <1>4

LEMMA GuardInit == Undisturbed /\ Init => GuardInv /\ Promise!Init
<1> SUFFICES ASSUME Init PROVE GuardInv /\ Promise!Init
  OBVIOUS
<1>1. cfg.celsius \in BOOLEAN /\ cfg.limits \in LimitSet
  BY ConfigType DEF Init
<1>2. state.power = FALSE
  <2> DEFINE s == [DefaultState EXCEPT !.celsius = cfg.celsius]
  <2>1. DefaultState \in State
    BY ModeAssumption, FanAssumption DEF DefaultState, State, Degree
  <2>2. s \in State /\ s.power = FALSE
    BY <1>1, <2>1 DEF State, DefaultState
  <2> HIDE DEF s
  <2>3. state = Clamp(s, cfg.limits)
    BY DEF Init, BootState, s
  <2> QED BY <1>1, <2>2, <2>3, ClampType
<1> QED BY <1>2, TypeInit, ClockAssumption DEF Init, GuardInv, Promise!Init

LEMMA ServeKeepsGuard ==
  ASSUME Undisturbed, GuardInv, NEW source \in Sources, NEW c \in Configs,
         NEW d, IsDelta(d), Serve(source, d, c)
  PROVE  /\ Knows' /\ Promised /\ call' = NoCall
         /\ (pending # NoStart => pending.state.power)'
<1> DEFINE next == Asked(d, c)
<1>1. next \in State
  BY AskedType DEF GuardInv, TypeOK
<1> HIDE DEF next
<1>2. CASE Blocked(next) /\ Hold(next, source)
  BY <1>2 DEF Hold, Blocked, GuardInv, Knows, Promised, Promise!vars, acVars
<1>3. ASSUME ~Blocked(next), state' = next, NoteStop(next)
      PROVE  (pending # NoStart => pending.state.power)'
  BY <1>3 DEF NoteStop, GuardInv, guardVars
<1>4. CASE /\ ~Blocked(next) /\ state' = next /\ NoteStop(next)
           /\ \E then : Send(next, then, source \in AsyncSources)
  BY <1>1, <1>3, <1>4, SendSends, FrameKeepsGuard DEF GuardInv
<1>5. CASE /\ ~Blocked(next) /\ state' = next /\ NoteStop(next)
           /\ ~Transmits(d, c) /\ UNCHANGED <<storeVars, told, call, acVars>>
  <2>1. next.power = state.power
    <3>1. Merge(state, d) \in State
      BY MergeType DEF GuardInv, TypeOK
    <3>2. Merge(state, d) = state \/ next = state
      BY <1>5 DEF Transmits, Effective, next
    <3>3. next.power = Merge(state, d).power
      BY <3>1, ClampType, ConfigType DEF next, Asked
    <3> QED BY <3>2, <3>3
  <2> QED BY <1>3, <1>5, <2>1 DEF NoteStop, GuardInv, Knows, Promised,
       Promise!vars, acVars, guardVars
<1> QED BY <1>2, <1>4, <1>5 DEF Serve, next

LEMMA GuardStep ==
  Undisturbed /\ GuardInv /\ [Session]_vars => GuardInv' /\ Promised
<1> SUFFICES ASSUME Undisturbed, GuardInv, [Session]_vars
             PROVE  GuardInv' /\ Promised
  OBVIOUS
<1>1. TypeOK'
  BY TypeStep DEF GuardInv, Next
<1> SUFFICES /\ Knows' /\ Promised /\ call' = NoCall
             /\ (pending # NoStart => pending.state.power)'
  BY <1>1 DEF GuardInv, Knows
<1>2. ASSUME NEW source \in Sources, NEW d \in Deltas, Apply(source, d)
      PROVE  /\ Knows' /\ Promised /\ call' = NoCall
             /\ (pending # NoStart => pending.state.power)'
  BY <1>2, DeltaAssumption, ServeKeepsGuard DEF Apply, GuardInv, TypeOK
<1>3. ASSUME NEW source \in Sources, Resend(source)
      PROVE  /\ Knows' /\ Promised /\ call' = NoCall
             /\ (pending # NoStart => pending.state.power)'
  <2>1. Hears(state, "bridge") /\ call' = call /\ UNCHANGED <<state, guardVars>>
    BY <1>3, SendSends DEF Resend
  <2> QED BY <2>1 DEF Hears, GuardInv, TypeOK, State, Knows, Promised,
       Promise!vars, guardVars
<1>4. ASSUME NEW c \in Configs, SetConfig(c)
      PROVE  /\ Knows' /\ Promised /\ call' = NoCall
             /\ (pending # NoStart => pending.state.power)'
  <2>1. IsDelta(UnitDelta(state, c.celsius))
    BY UnitDeltaType, ConfigType DEF GuardInv, TypeOK
  <2>2. CASE Serve("Web", UnitDelta(state, c.celsius), c)
    BY <2>1, <2>2, ServeKeepsGuard, SourceAssumption
  <2>3. CASE UNCHANGED <<state, guardVars, storeVars, told, call, acVars>>
    BY <2>3 DEF GuardInv, Knows, Promised, Promise!vars, guardVars, acVars
  <2> QED BY <1>4, <2>2, <2>3 DEF SetConfig
<1>5. ASSUME NEW frame \in Frames, HandsetPress(frame)
      PROVE  /\ Knows' /\ Promised /\ call' = NoCall
             /\ (pending # NoStart => pending.state.power)'
  <2> DEFINE next == Clamp(frame, cfg.limits)
  <2>1. frame \in State
    BY FrameAssumption
  <2>2. next.power = frame.power
    BY <2>1, ClampType, ConfigType DEF GuardInv, TypeOK
  <2> HIDE DEF next
  <2>3. Hears(frame, "handset") /\ call' = call
    BY <1>5 DEF HandsetPress
  <2>4. \/ state' = next /\ NoteStop(next)
        \/ next = state /\ UNCHANGED <<state, guardVars>>
    BY <1>5 DEF HandsetPress, Observe, Undisturbed, GuardInv, TypeOK, next
  <2>5. /\ frame.power \in BOOLEAN /\ state.power \in BOOLEAN
        /\ run \in {"off", "bridge", "handset"}
        /\ offFor \in 0..MinOff /\ MinOff \in Nat
    BY <2>1, ClockAssumption DEF GuardInv, TypeOK, State
  <2>6. state'.power = frame.power
    BY <2>2, <2>4
  <2>7. (pending # NoStart => pending.state.power)'
    BY <2>4 DEF GuardInv, NoteStop, guardVars
  <2>8. CASE state.power /\ ~frame.power
    <3>1. sawOff' = TRUE /\ offAge' = 0
      BY <2>2, <2>4, <2>8 DEF NoteStop
    <3> QED BY <2>3, <2>5, <2>6, <2>7, <2>8, <3>1 DEF GuardInv, Knows, Hears,
         Promised, Promise!Next, Promise!Stop, Promise!vars
  <2>9. CASE ~(state.power /\ ~frame.power)
    <3>1. UNCHANGED guardVars
      BY <2>2, <2>4, <2>9 DEF NoteStop
    <3> QED BY <2>3, <2>5, <2>6, <2>7, <2>9, <3>1 DEF GuardInv, Knows, Hears,
         Promised, Promise!Next, Promise!HandsetStart, Promise!Start,
         Promise!vars, guardVars
  <2> QED BY <2>8, <2>9
<1>6. CASE RunPendingStart
  <2> DEFINE next == Clamp(pending.state, cfg.limits)
  <2>1. pending.state \in State /\ pending.state.power
    BY <1>6 DEF RunPendingStart, StartDue, GuardInv, TypeOK, IsPending
  <2>2. next \in State /\ next.power
    BY <2>1, ClampType, ConfigType DEF GuardInv, TypeOK
  <2> HIDE DEF next
  <2>3. pending' = NoStart /\ UNCHANGED <<sawOff, offAge>> /\ ~Holding
    BY <1>6 DEF RunPendingStart, StartDue
  <2>4. CASE state' = next /\ Send(next, "mark", FALSE)
    <3>1. Hears(next, "bridge") /\ call' = call
      BY <2>4, SendSends
    <3>2. /\ state.power \in BOOLEAN /\ run \in {"off", "bridge", "handset"}
          /\ offFor \in 0..MinOff /\ MinOff \in Nat
      BY ClockAssumption DEF GuardInv, TypeOK, State
    <3>3. run = "off" => offFor = MinOff
      BY <2>3, <3>2 DEF GuardInv, Holding
    <3> QED BY <2>2, <2>3, <2>4, <3>1, <3>2, <3>3 DEF GuardInv, Knows, Hears,
         Promised, Promise!Next, Promise!BridgeStart, Promise!Start,
         Promise!vars
  <2>5. CASE UNCHANGED <<state, storeVars, told, call, acVars>>
    BY <2>3, <2>5 DEF GuardInv, Knows, Promised, Promise!vars, acVars
  <2> QED BY <1>6, <2>4, <2>5 DEF RunPendingStart, next
<1>7. CASE FlushFile
  BY <1>7 DEF FlushFile, GuardInv, Knows, Promised, Promise!vars, guardVars,
     acVars
<1>8. CASE Sending
  BY <1>8 DEF Sending, Repeat, Return, GuardInv, NoCall
<1>9. CASE Tick
  <2>1. /\ offFor \in 0..MinOff /\ offAge \in Nat /\ MinOff \in Nat
        /\ ClockWrap \in Nat /\ ClockWrap > MinOff
    BY ClockAssumption DEF GuardInv, TypeOK
  <2>2. offAge + 1 < ClockWrap => (offAge + 1) % ClockWrap = offAge + 1
    BY <2>1, ModSmall
  <2>3. run' = "off" /\ offFor' < MinOff => sawOff' /\ offAge' = offFor'
    BY <1>9, <2>1, <2>2 DEF Tick, GuardInv
  <2> QED BY <1>9, <2>1, <2>3 DEF Tick, GuardInv, Knows, Promised,
       Promise!Next, Promise!Elapse, Promise!vars
<1>10. CASE UNCHANGED vars
  BY <1>10 DEF vars, GuardInv, Knows, Promised, Promise!vars, guardVars, acVars
<1> QED BY <1>2, <1>3, <1>4, <1>5, <1>6, <1>7, <1>8, <1>9, <1>10
        DEF Session, Environment, BusLoop

\* In a session where nothing disturbs the transmissions, the bus never
\* starts the compressor before its minimum off period: it implements
\* Compressor, for every set of clients, commands and settings, every
\* minimum and every clock that does not wrap within it.
THEOREM CompressorProtected ==
  ASSUME Undisturbed
  PROVE  SessionSpec => ProtectsCompressor
<1>1. Init => GuardInv /\ Promise!Init
  BY GuardInit
<1>2. GuardInv /\ [Session]_vars => GuardInv' /\ Promised
  BY GuardStep
<1> QED BY <1>1, <1>2, PTL
        DEF SessionSpec, ProtectsCompressor, Promise!Spec, Promised

----------------------------------------------------------------------------
(* What is left of the guarantee with restarts and faults.                  *)

\* No call is ever in a pause.
Idle == call = NoCall

\* A start by the bridge, unless the bus holds it off.
Knowing == run = "off" /\ run' = "bridge" => ~Holding

LEMMA SendSome ==
  ASSUME Repeats = 0, NEW f, NEW then, NEW w, Send(f, then, w)
  PROVE  call' = call /\ (Hears(f, "bridge") \/ run' = run)
BY DEF Send, acVars

LEMMA ServeKnowing ==
  ASSUME TypeOK, Repeats = 0, NEW source \in Sources, NEW c \in Configs,
         NEW d, IsDelta(d), Serve(source, d, c)
  PROVE  call' = call /\ Knowing
<1> DEFINE next == Asked(d, c)
<1>1. next \in State
  BY AskedType DEF TypeOK
<1> HIDE DEF next
<1>2. CASE Hold(next, source)
  BY <1>2 DEF Hold, Knowing, acVars
<1>3. CASE /\ ~Blocked(next)
           /\ \E then : Send(next, then, source \in AsyncSources)
  <2>1. call' = call /\ (Hears(next, "bridge") \/ run' = run)
    BY <1>3, SendSome
  <2> QED BY <1>1, <1>3, <2>1 DEF Blocked, Holding, Hears, Knowing, State
<1>4. CASE UNCHANGED <<storeVars, told, call, acVars>>
  BY <1>4 DEF Knowing, acVars
<1> QED BY <1>2, <1>3, <1>4 DEF Serve, next

LEMMA KnowingStep ==
  Repeats = 0 /\ TypeOK /\ call = NoCall /\ [Next]_vars
    => call' = NoCall /\ Knowing
<1> SUFFICES ASSUME Repeats = 0, TypeOK, call = NoCall, [Next]_vars
             PROVE  call' = NoCall /\ Knowing
  OBVIOUS
<1>1. ASSUME NEW source \in Sources, NEW d \in Deltas, Apply(source, d)
      PROVE  call' = NoCall /\ Knowing
  BY <1>1, DeltaAssumption, ServeKnowing DEF Apply, TypeOK
<1>2. ASSUME NEW source \in Sources, Resend(source)
      PROVE  call' = NoCall /\ Knowing
  <2>1. call' = call /\ (Hears(state, "bridge") \/ run' = run)
    BY <1>2, SendSome DEF Resend
  <2> QED BY <2>1 DEF Hears, Holding, Knowing, TypeOK, State
<1>3. ASSUME NEW c \in Configs, SetConfig(c)
      PROVE  call' = NoCall /\ Knowing
  <2>1. IsDelta(UnitDelta(state, c.celsius))
    BY UnitDeltaType, ConfigType DEF TypeOK
  <2>2. CASE Serve("Web", UnitDelta(state, c.celsius), c)
    BY <2>1, <2>2, ServeKnowing, SourceAssumption
  <2>3. CASE UNCHANGED <<state, guardVars, storeVars, told, call, acVars>>
    BY <2>3 DEF Knowing, acVars
  <2> QED BY <1>3, <2>2, <2>3 DEF SetConfig
<1>4. ASSUME NEW frame \in Frames, HandsetPress(frame)
      PROVE  call' = NoCall /\ Knowing
  BY <1>4, FrameAssumption DEF HandsetPress, Hears, Knowing, State
<1>5. CASE RunPendingStart
  <2>1. ~Holding
    BY <1>5 DEF RunPendingStart, StartDue
  <2>2. call' = call
    BY <1>5, SendSome DEF RunPendingStart
  <2> QED BY <2>1, <2>2 DEF Knowing
<1>6. CASE Sending
  BY <1>6 DEF Sending, Repeat, Return, NoCall
<1>7. CASE FlushFile \/ Tick \/ UNCHANGED vars
  BY <1>7 DEF FlushFile, Tick, vars, acVars, Knowing
<1>8. CASE Reset
  BY <1>8 DEF Reset, Crash, Restart, PowerCut, Boot, acVars, Knowing
<1> QED BY <1>1, <1>2, <1>3, <1>4, <1>5, <1>6, <1>7, <1>8
        DEF Next, Session, Environment, BusLoop

\* With transmissions and writes that fail, frames that are missed, clients
\* that are switched off and restarts at any time, no path to the transmitter
\* starts the unit while the bus itself counts its minimum off period: what it
\* can get wrong is what it knows, not what it does about it.
THEOREM NeverStartsWhileHolding ==
  ASSUME Repeats = 0
  PROVE  Spec => NoStartWhileHolding
<1>1. Init => Idle
  BY DEF Init, Idle
<1>2. TypeOK /\ Idle /\ [Next]_vars => Idle' /\ [Knowing]_vars
  BY KnowingStep DEF Idle
<1> QED BY <1>1, <1>2, TypeCorrect, PTL DEF Spec, NoStartWhileHolding, Knowing

----------------------------------------------------------------------------
(* Everyone in sync, in a session.                                          *)

(***************************************************************************)
(* The settings that may be in force share their limits, as far as it      *)
(* shows: what one of them leaves of a state, the others leave alone.      *)
(* Otherwise a command that changes nothing moves a state that is outside  *)
(* new limits without a word to anyone (apply's `effective`).              *)
(***************************************************************************)
SteadyLimits ==
  \A s \in State, c, e \in Configs :
    Clamp(Clamp(s, c.limits), e.limits) = Clamp(s, c.limits)

\* The state is within its limits, whichever settings come into force.
Within == \A c \in Configs : Clamp(state, c.limits) = state

\* The file holds the state s or is marked for writing; `lax' says that no more is
\* asked of it, because a write may fail or a restart has gone back to another copy.
FileFine(lax, s, written, marked) ==
  lax \/ written \in {None, ToJson(s)} \/ marked

\* Between calls, and in the pauses of a call that leaves the copies alone, both
\* copies are accounted for; what clients were told is so between calls only.
Copied(lax) ==
  /\ call = NoCall => told = state
  /\ call = NoCall \/ call.then = "notify" =>
       rtc \in {state, None} /\ FileFine(lax, state, file, dirty)

CopyInv(lax) == TypeOK /\ Within /\ Copied(lax)

LEMMA ClampWithin ==
  ASSUME SteadyLimits, NEW s \in State, NEW c \in Configs, state' = Clamp(s, c.limits)
  PROVE  Within'
BY DEF SteadyLimits, Within

\* What a call does once its frame is out accounts for both copies, if it is not
\* one that leaves them alone while they are of another state.
LEMMA AfterCopies ==
  ASSUME NEW lax \in BOOLEAN, WriteFails => lax,
         CopyInv(lax), NEW then \in Afters, NEW s, After(then, s), state' = s,
         then = "notify" => rtc \in {s, None} /\ FileFine(lax, s, file, dirty)
  PROVE  told' = state' /\ rtc' \in {state', None} /\ FileFine(lax, state', file', dirty')
<1>1. told' = s
  BY DEF After
<1>2. CASE then = "notify"
  BY <1>1, <1>2 DEF After, storeVars, FileFine
<1>3. CASE then # "notify"
  BY <1>1, <1>3 DEF After, Persist, Written, FileFine
<1> QED BY <1>2, <1>3

\* The same of sendState, whoever calls it with the state just assigned.
LEMMA SendCopies ==
  ASSUME NEW lax \in BOOLEAN, WriteFails => lax,
         ~SendFails, CopyInv(lax), NEW then \in Afters, NEW f, NEW web,
         Send(f, then, web), state' = f,
         then = "notify" => f = state,
         web \/ call = NoCall
  PROVE  Copied(lax)'
<1>1. CASE After(then, f) /\ UNCHANGED call
  <2>1. CASE call = NoCall \/ call.then = "notify"
    <3>1. then = "notify" => rtc \in {f, None} /\ FileFine(lax, f, file, dirty)
      BY <2>1 DEF CopyInv, Copied
    <3> QED BY <1>1, <3>1, AfterCopies DEF Copied
  <2>2. CASE ~(call = NoCall \/ call.then = "notify")
    BY <1>1, <2>2 DEF Copied
  <2> QED BY <2>1, <2>2
<1>2. CASE /\ ~web /\ UNCHANGED <<storeVars, told>>
           /\ call' = [frame |-> f, left |-> Repeats, then |-> then]
  <2>1. call' # NoCall /\ call'.then = then
    <3>1. then # "idle"
      BY DEF Afters
    <3>2. call'.then = then /\ NoCall.then = "idle"
      BY <1>2 DEF NoCall
    <3> QED BY <3>1, <3>2
  <2>2. then = "notify" => rtc \in {f, None} /\ FileFine(lax, f, file, dirty)
    BY <1>2 DEF CopyInv, Copied
  <2> QED BY <1>2, <2>1, <2>2 DEF Copied, storeVars, FileFine
<1> QED BY <1>1, <1>2 DEF Send

\* Steps that change no part of it.
LEMMA CopiesKept ==
  ASSUME NEW lax \in BOOLEAN, CopyInv(lax),
         UNCHANGED <<state, storeVars, told, call>>
  PROVE  Within' /\ Copied(lax)'
BY DEF CopyInv, Within, Copied, FileFine, storeVars

LEMMA ServeCopies ==
  ASSUME NEW lax \in BOOLEAN, WriteFails => lax,
         ~SendFails, SteadyLimits, CopyInv(lax), NEW source \in Sources,
         NEW c \in Configs, NEW d, IsDelta(d), Serve(source, d, c), Free(source)
  PROVE  Within' /\ Copied(lax)'
<1> DEFINE next == Asked(d, c)
           then == IF Effective(d, c) THEN "save" ELSE "notify"
<1>1. Merge(state, d) \in State
  BY MergeType DEF CopyInv, TypeOK
<1>2. ~Effective(d, c) => next = state
  BY DEF Effective, Asked, CopyInv, Within
<1>3. CASE Hold(next, source)
  BY <1>3, CopiesKept DEF Hold
<1>4. CASE state' = next /\ Send(next, then, source \in AsyncSources)
  <2>1. Within'
    BY <1>1, <1>4, ClampWithin DEF Asked
  <2>2. then \in Afters /\ (then = "notify" => next = state)
    BY <1>2 DEF Afters
  <2>3. source \in AsyncSources \/ call = NoCall
    BY DEF Free
  <2> HIDE DEF next, then
  <2>4. Copied(lax)'
    BY <1>4, <2>2, <2>3, SendCopies
  <2> QED BY <2>1, <2>4
<1>5. CASE /\ state' = next /\ ~Transmits(d, c)
           /\ UNCHANGED <<storeVars, told, call, acVars>>
  <2>1. state' = state
    BY <1>2, <1>5 DEF Transmits
  <2> QED BY <1>5, <2>1, CopiesKept
<1> QED BY <1>3, <1>4, <1>5 DEF Serve

LEMMA CopyInit ==
  ASSUME NEW lax \in BOOLEAN, SteadyLimits, Init
  PROVE  CopyInv(lax)
<1>1. TypeOK
  BY TypeInit
<1>2. Within
  <2> DEFINE s == [DefaultState EXCEPT !.celsius = cfg.celsius]
  <2>1. DefaultState \in State
    BY ModeAssumption, FanAssumption DEF DefaultState, State, Degree
  <2>2. s \in State
    BY <2>1, ConfigType DEF Init, State
  <2> HIDE DEF s
  <2>3. state = Clamp(s, cfg.limits) /\ cfg \in Configs
    BY DEF Init, BootState, s
  <2> QED BY <2>2, <2>3 DEF SteadyLimits, Within
<1>3. Copied(lax)
  BY DEF Init, Copied, FileFine
<1> QED BY <1>1, <1>2, <1>3 DEF CopyInv

LEMMA CopyStep ==
  ASSUME NEW lax \in BOOLEAN, WriteFails => lax,
         ~SendFails, SteadyLimits, CopyInv(lax), [Session]_vars
  PROVE  CopyInv(lax)'
<1>1. TypeOK'
  BY TypeStep DEF CopyInv, Next
<1> SUFFICES Within' /\ Copied(lax)'
  BY <1>1 DEF CopyInv
<1>2. ASSUME NEW source \in Sources, NEW d \in Deltas, Apply(source, d)
      PROVE  Within' /\ Copied(lax)'
  BY <1>2, DeltaAssumption, ServeCopies DEF Apply, CopyInv, TypeOK
<1>3. ASSUME NEW source \in Sources, Resend(source)
      PROVE  Within' /\ Copied(lax)'
  <2>1. /\ Send(state, "notify", source \in AsyncSources) /\ state' = state
        /\ source \in AsyncSources \/ call = NoCall
    BY <1>3 DEF Resend, Free
  <2>2. "notify" \in Afters
    BY DEF Afters
  <2>3. Copied(lax)'
    BY <2>1, <2>2, SendCopies
  <2> QED BY <2>1, <2>3 DEF CopyInv, Within
<1>4. ASSUME NEW c \in Configs, SetConfig(c)
      PROVE  Within' /\ Copied(lax)'
  <2>1. IsDelta(UnitDelta(state, c.celsius))
    BY UnitDeltaType, ConfigType DEF CopyInv, TypeOK
  <2>2. CASE Serve("Web", UnitDelta(state, c.celsius), c)
    BY <2>1, <2>2, ServeCopies, SourceAssumption DEF Free
  <2>3. CASE UNCHANGED <<state, guardVars, storeVars, told, call, acVars>>
    BY <2>3, CopiesKept
  <2> QED BY <1>4, <2>2, <2>3 DEF SetConfig
<1>5. ASSUME NEW frame \in Frames, HandsetPress(frame)
      PROVE  Within' /\ Copied(lax)'
  <2> DEFINE next == Clamp(frame, cfg.limits)
  <2>1. CASE /\ call = NoCall /\ call' = call
             /\ state' = next /\ After("mark", next)
    <3>1. Within'
      BY <2>1, FrameAssumption, ClampWithin DEF CopyInv, TypeOK
    <3>2. "mark" \in Afters /\ "mark" # "notify"
      BY DEF Afters
    <3> HIDE DEF next
    <3>3. told' = state' /\ rtc' \in {state', None} /\ FileFine(lax, state', file', dirty')
      BY <2>1, <3>2, AfterCopies
    <3> QED BY <3>1, <3>3 DEF Copied
  <2>2. CASE UNCHANGED <<state, guardVars, storeVars, told, call>>
    BY <2>2, CopiesKept
  <2> QED BY <1>5, <2>1, <2>2 DEF HandsetPress, Observe
<1>6. CASE RunPendingStart
  <2> DEFINE next == Clamp(pending.state, cfg.limits)
  <2>1. CASE state' = next /\ Send(next, "mark", FALSE)
    <3>1. pending.state \in State
      BY <1>6 DEF RunPendingStart, StartDue, CopyInv, TypeOK, IsPending
    <3>2. Within'
      BY <2>1, <3>1, ClampWithin DEF CopyInv, TypeOK
    <3>3. "mark" \in Afters /\ "mark" # "notify" /\ call = NoCall
      BY <1>6 DEF Afters, RunPendingStart
    <3> HIDE DEF next
    <3>4. Copied(lax)'
      BY <2>1, <3>3, SendCopies
    <3> QED BY <3>2, <3>4
  <2>2. CASE UNCHANGED <<state, storeVars, told, call, acVars>>
    BY <2>2, CopiesKept
  <2> QED BY <1>6, <2>1, <2>2 DEF RunPendingStart
<1>7. CASE FlushFile
  <2>1. /\ file' \in {ToJson(state)} \cup (IF WriteFails THEN {file} ELSE {})
        /\ UNCHANGED <<state, rtc, told, call>>
    BY <1>7 DEF FlushFile, Persist, Written
  <2> QED BY <2>1 DEF CopyInv, Within, Copied, FileFine
<1>8. CASE Repeat
  <2>1. /\ call # NoCall /\ call.left > 0
        /\ call' = [call EXCEPT !.left = @ - 1]
        /\ UNCHANGED <<state, storeVars, told>>
    BY <1>8 DEF Repeat
  <2>2. call \in [frame : State, left : Nat, then : Afters]
    BY <2>1 DEF CopyInv, TypeOK, IsCall
  <2>3. call'.then = call.then /\ call' # NoCall
    <3>1. call'.then = call.then /\ call.then \in Afters
      BY <2>1, <2>2
    <3> QED BY <3>1 DEF Afters, NoCall
  <2> QED BY <2>1, <2>3 DEF CopyInv, Within, Copied, FileFine, storeVars
<1>9. CASE Return
  <2>1. /\ call # NoCall /\ After(call.then, state) /\ call' = NoCall
        /\ state' = state
    BY <1>9 DEF Return
  <2>2. call.then \in Afters
    BY <2>1 DEF CopyInv, TypeOK, IsCall
  <2>3. call.then = "notify" => rtc \in {state, None} /\ FileFine(lax, state, file, dirty)
    BY DEF CopyInv, Copied
  <2>4. told' = state' /\ rtc' \in {state', None} /\ FileFine(lax, state', file', dirty')
    BY <2>1, <2>2, <2>3, AfterCopies
  <2> QED BY <2>1, <2>4 DEF CopyInv, Within, Copied
<1>10. CASE Tick
  BY <1>10 DEF Tick, CopyInv, Within, Copied, FileFine
<1>11. CASE UNCHANGED vars
  BY <1>11, CopiesKept DEF vars
<1> QED BY <1>2, <1>3, <1>4, <1>5, <1>6, <1>7, <1>8, <1>9, <1>10, <1>11
        DEF Session, Environment, BusLoop, Sending

LEMMA CopiesHold ==
  ASSUME ~SendFails, SteadyLimits
  PROVE  SessionSpec => []CopyInv(WriteFails)
<1>0. WriteFails \in BOOLEAN
  BY FlagAssumption
<1>1. Init => CopyInv(WriteFails)
  BY <1>0, CopyInit
<1>2. CopyInv(WriteFails) /\ [Session]_vars => CopyInv(WriteFails)'
  BY <1>0, CopyStep
<1> QED BY <1>1, <1>2, PTL DEF SessionSpec

\* In a session, web calls inside the pauses of another call included, clients
\* and the copy that a crash starts from agree with the bus between calls.
THEOREM ClientsCurrent ==
  ASSUME ~SendFails, SteadyLimits
  PROVE  SessionSpec => []CopiesCurrent
<1>1. CopyInv(WriteFails) => CopiesCurrent
  BY DEF CopyInv, Copied, CopiesCurrent
<1> QED BY <1>1, CopiesHold, PTL

\* And a file that differs from the state is marked for writing, whichever path
\* changed the state and whatever was answered or written in its pauses.
THEOREM StaleFileIsMarked ==
  ASSUME ~SendFails, ~WriteFails, SteadyLimits
  PROVE  SessionSpec => []StaleFileMarked
<1>1. CopyInv(WriteFails) => StaleFileMarked
  BY DEF CopyInv, Copied, FileFine, StaleFileMarked
<1> QED BY <1>1, CopiesHold, PTL

----------------------------------------------------------------------------
(* Restarts.                                                                *)

(***************************************************************************)
(* Everything speaks the unit u: the settings, the handset and the clients.*)
(* A boot takes the unit from the settings, and reads the degrees of the   *)
(* copy it finds in that unit, so a copy in the other unit is misread.     *)
(***************************************************************************)
Speaks(u) ==
  /\ u \in BOOLEAN
  /\ \A c \in Configs : c.celsius = u
  /\ \A f \in Frames : f.celsius = u
  /\ \A d \in Deltas : "celsius" \in DOMAIN d => d["celsius"] = u

OneUnit == \E u \in BOOLEAN : Speaks(u)

\* A boot takes the state s for what it is.
Readable(u, s) == s.celsius = u /\ \A c \in Configs : Clamp(s, c.limits) = s

\* Whatever a restart or a held start may put in place is in that unit, and the
\* copy in RTC memory, which is the state or an older one, is within the limits.
RestartInv(u) ==
  /\ CopyInv(TRUE)
  /\ state.celsius = u
  /\ pending # NoStart => pending.state.celsius = u
  /\ rtc # None => Readable(u, rtc)

LEMMA ClampUnit ==
  ASSUME NEW s \in State, NEW l
  PROVE  Clamp(s, l).celsius = s.celsius
BY DEF Clamp, State

LEMMA MergeUnit ==
  ASSUME NEW u, Speaks(u), NEW d \in Deltas, state \in State, state.celsius = u
  PROVE  Merge(state, d).celsius = u
BY DEF Speaks, Merge, Given

\* The copy in RTC memory changes with the state only.
LEMMA AfterRtc ==
  ASSUME NEW then, NEW s, After(then, s)
  PROVE  rtc' \in {rtc, s}
BY DEF After, storeVars

LEMMA SendRtc ==
  ASSUME NEW then, NEW f, NEW web, Send(f, then, web)
  PROVE  rtc' \in {rtc, f}
BY AfterRtc DEF Send, storeVars

LEMMA ServeUnit ==
  ASSUME NEW u, Speaks(u), RestartInv(u), NEW source \in Sources,
         NEW d \in Deltas, Serve(source, d, cfg)
  PROVE  /\ state'.celsius = u /\ rtc' \in {rtc, state'}
         /\ pending' # NoStart => pending'.state.celsius = u
<1> DEFINE next == Asked(d, cfg)
<1>1. IsDelta(d) /\ state \in State
  BY DeltaAssumption DEF RestartInv, CopyInv, TypeOK
<1>2. next.celsius = u
  BY <1>1, MergeType, MergeUnit, ClampUnit DEF Asked, RestartInv
<1> HIDE DEF next
<1>3. CASE Hold(next, source)
  BY <1>2, <1>3 DEF Hold, RestartInv, storeVars
<1>4. CASE state' = next /\ NoteStop(next)
           /\ \/ \E then : Send(next, then, source \in AsyncSources)
              \/ UNCHANGED <<storeVars, told, call, acVars>>
  <2>1. rtc' \in {rtc, next}
    BY <1>4, SendRtc DEF storeVars
  <2>2. pending' \in {pending, NoStart}
    BY <1>4 DEF NoteStop, guardVars
  <2> QED BY <1>2, <1>4, <2>1, <2>2 DEF RestartInv
<1> QED BY <1>3, <1>4 DEF Serve, next

\* A step of a session: what it makes the state is readable, and so is the copy.
LEMMA SessionUnit ==
  ASSUME NEW u, Speaks(u), RestartInv(u), Session
  PROVE  /\ state'.celsius = u /\ rtc' \in {rtc, state'}
         /\ pending' # NoStart => pending'.state.celsius = u
<1> DEFINE Goal == /\ state'.celsius = u /\ rtc' \in {rtc, state'}
                   /\ pending' # NoStart => pending'.state.celsius = u
<1>1. CASE UNCHANGED <<state, pending, rtc>>
  BY <1>1 DEF RestartInv
<1>2. ASSUME NEW source \in Sources, NEW d \in Deltas, Apply(source, d)
      PROVE  Goal
  BY <1>2, ServeUnit DEF Apply
<1>3. ASSUME NEW source \in Sources, Resend(source)
      PROVE  Goal
  <2>1. Send(state, "notify", source \in AsyncSources)
    BY <1>3 DEF Resend
  <2>2. rtc' \in {rtc, state}
    BY <2>1, SendRtc
  <2> QED BY <1>3, <2>2 DEF Resend, guardVars, RestartInv
<1>4. ASSUME NEW c \in Configs, SetConfig(c)
      PROVE  Goal
  <2>1. c.celsius = cfg.celsius
    BY DEF Speaks, RestartInv, CopyInv, TypeOK
  <2> QED BY <1>1, <1>4, <2>1 DEF SetConfig, guardVars, storeVars
<1>5. ASSUME NEW frame \in Frames, HandsetPress(frame)
      PROVE  Goal
  <2> DEFINE next == Clamp(frame, cfg.limits)
  <2>1. next.celsius = u
    BY FrameAssumption, ClampUnit DEF Speaks
  <2> HIDE DEF next
  <2>2. CASE state' = next /\ NoteStop(next) /\ After("mark", next)
    <3>1. rtc' \in {rtc, next}
      BY <2>2, AfterRtc
    <3>2. pending' \in {pending, NoStart}
      BY <2>2 DEF NoteStop, guardVars
    <3> QED BY <2>1, <2>2, <3>1, <3>2 DEF RestartInv
  <2>3. CASE UNCHANGED <<state, guardVars, storeVars, told>>
    BY <1>1, <2>3 DEF guardVars, storeVars
  <2> QED BY <1>5, <2>2, <2>3 DEF HandsetPress, Observe, next
<1>6. CASE RunPendingStart
  <2> DEFINE next == Clamp(pending.state, cfg.limits)
  <2>1. next.celsius = u
    <3>1. pending.state \in State /\ pending.state.celsius = u
      BY <1>6 DEF RunPendingStart, StartDue, RestartInv, CopyInv, TypeOK, IsPending
    <3> QED BY <3>1, ClampUnit
  <2> HIDE DEF next
  <2>2. pending' = NoStart
    BY <1>6 DEF RunPendingStart
  <2>3. CASE state' = next /\ Send(next, "mark", FALSE)
    BY <2>1, <2>2, <2>3, SendRtc
  <2>4. CASE UNCHANGED <<state, storeVars, told, call, acVars>>
    BY <2>2, <2>4 DEF storeVars, RestartInv
  <2> QED BY <1>6, <2>3, <2>4 DEF RunPendingStart, next
<1>7. CASE Return
  BY <1>7, AfterRtc DEF Return, guardVars, RestartInv
<1>8. CASE FlushFile \/ Repeat \/ Tick
  BY <1>1, <1>8 DEF FlushFile, Repeat, Tick, guardVars, storeVars
<1> QED BY <1>2, <1>3, <1>4, <1>5, <1>6, <1>7, <1>8
        DEF Session, Environment, BusLoop, Sending

LEMMA BootReads ==
  ASSUME NEW u, Speaks(u), SteadyLimits, TypeOK, RestoreOnBoot,
         NEW r \in State \cup {None}, NEW f \in Json \cup {None}, Boot(r, f)
  PROVE  /\ state'.celsius = u /\ Within'
         /\ r # None /\ Readable(u, r) => state' = r
<1> DEFINE s == [Found(r, f) EXCEPT !.celsius = cfg.celsius]
<1>1. cfg \in Configs /\ cfg.celsius = u
  BY DEF TypeOK, Speaks
<1>2. Found(r, f) \in State
  BY FoundType
<1>3. s \in State /\ s.celsius = u
  BY <1>1, <1>2, ConfigType DEF State
<1>4. r # None /\ Readable(u, r) => s = r
  BY <1>1, <1>2 DEF Found, Readable, State
<1>5. state' = Clamp(s, cfg.limits)
  BY DEF Boot, BootState, Found
<1> HIDE DEF s
<1>6. state'.celsius = u /\ Within'
  BY <1>1, <1>3, <1>5, ClampUnit, ClampWithin
<1>7. r # None /\ Readable(u, r) => state' = r
  BY <1>1, <1>4, <1>5 DEF Readable
<1> QED BY <1>6, <1>7

LEMMA ResetKeeps ==
  ASSUME NEW u, Speaks(u), SteadyLimits, RestoreOnBoot, RestartInv(u),
         NEW r \in {rtc, None}, NEW f \in Json \cup {None}, Boot(r, f)
  PROVE  RestartInv(u)' /\ (r # None => state' = r)
<1>1. TypeOK /\ r \in State \cup {None}
  BY DEF RestartInv, CopyInv, TypeOK
<1>2. TypeOK'
  BY <1>1, BootType
<1>3. r # None => Readable(u, r)
  BY DEF RestartInv
<1>4. state'.celsius = u /\ Within' /\ (r # None => state' = r)
  BY <1>1, <1>3, BootReads
<1>5. told' = state' /\ rtc' = r /\ pending' = NoStart /\ call' = NoCall
  BY DEF Boot
<1>6. Copied(TRUE)'
  BY <1>4, <1>5 DEF Copied, FileFine
<1>7. rtc' # None => Readable(u, rtc')
  BY <1>3, <1>5
<1> QED BY <1>2, <1>4, <1>5, <1>6, <1>7 DEF RestartInv, CopyInv

LEMMA RestartStep ==
  ASSUME ~SendFails, SteadyLimits, RestoreOnBoot,
         NEW u, Speaks(u), RestartInv(u), [Next]_vars
  PROVE  RestartInv(u)'
<1>1. CASE Session
  <2>1. CopyInv(TRUE)'
    BY <1>1, CopyStep DEF RestartInv
  <2>2. /\ state'.celsius = u /\ rtc' \in {rtc, state'}
        /\ pending' # NoStart => pending'.state.celsius = u
    BY <1>1, SessionUnit
  <2>3. rtc' # None => Readable(u, rtc')
    BY <2>1, <2>2 DEF CopyInv, Within, Readable, RestartInv
  <2> QED BY <2>1, <2>2, <2>3 DEF RestartInv
<1>2. CASE Reset
  <2>1. file \in Json \cup {None} /\ Written(state) \subseteq Json \cup {None}
    BY ToJsonType DEF RestartInv, CopyInv, TypeOK, Written
  <2> QED BY <1>2, <2>1, ResetKeeps DEF Reset, Crash, Restart, PowerCut
<1>3. CASE UNCHANGED vars
  <2>1. CopyInv(TRUE)'
    BY <1>3, CopyStep DEF RestartInv
  <2> QED BY <1>3, <2>1 DEF vars, guardVars, storeVars, RestartInv
<1> QED BY <1>1, <1>2, <1>3 DEF Next

LEMMA RestartsHold ==
  ASSUME ~SendFails, SteadyLimits, RestoreOnBoot, NEW u, Speaks(u)
  PROVE  Spec => []RestartInv(u)
<1>1. Init => RestartInv(u)
  <2> SUFFICES ASSUME Init PROVE RestartInv(u)
    OBVIOUS
  <2>1. CopyInv(TRUE)
    BY CopyInit
  <2>2. state.celsius = u
    <3> DEFINE s == [DefaultState EXCEPT !.celsius = cfg.celsius]
    <3>1. DefaultState \in State
      BY ModeAssumption, FanAssumption DEF DefaultState, State, Degree
    <3>2. s \in State /\ s.celsius = u
      BY <3>1, ConfigType DEF Init, State, Speaks
    <3> HIDE DEF s
    <3>3. state = Clamp(s, cfg.limits)
      BY DEF Init, BootState, s
    <3> QED BY <3>2, <3>3, ClampUnit
  <2> QED BY <2>1, <2>2 DEF Init, RestartInv
<1>2. RestartInv(u) /\ [Next]_vars => RestartInv(u)'
  BY RestartStep
<1> QED BY <1>1, <1>2, PTL DEF Spec

\* With restarts at any point, those inside a call included, clients and the copy
\* that the next crash starts from agree with the bus between calls.
THEOREM CopiesSurviveRestarts ==
  ASSUME ~SendFails, SteadyLimits, RestoreOnBoot, OneUnit
  PROVE  Spec => []CopiesCurrent
<1>1. PICK u \in BOOLEAN : Speaks(u)
  BY DEF OneUnit
<1>2. RestartInv(u) => CopiesCurrent
  BY DEF RestartInv, CopyInv, Copied, CopiesCurrent
<1> QED BY <1>1, <1>2, RestartsHold, PTL

\* Once any command has been carried out, a crash between calls leaves the bus
\* where it was: the copy in RTC memory is current and begin() reads it as written,
\* after any number of earlier restarts, power cuts and lost writes.
THEOREM CrashesLoseNothing ==
  ASSUME ~SendFails, SteadyLimits, RestoreOnBoot, OneUnit
  PROVE  Spec => CrashKeepsState
<1>1. PICK u \in BOOLEAN : Speaks(u)
  BY DEF OneUnit
<1>2. RestartInv(u) /\ [Next]_vars
        => [Crash /\ call = NoCall /\ rtc # None => state' = state]_vars
  <2> SUFFICES ASSUME RestartInv(u), Crash, call = NoCall, rtc # None
               PROVE  state' = state
    OBVIOUS
  <2>1. rtc = state /\ file \in Json \cup {None}
    BY DEF RestartInv, CopyInv, Copied, TypeOK
  <2>2. state' = rtc
    BY <1>1, <2>1, ResetKeeps DEF Crash
  <2> QED BY <2>1, <2>2
<1> QED BY <1>1, <1>2, RestartsHold, PTL DEF Spec, CrashKeepsState

----------------------------------------------------------------------------
(* The air conditioner too, where nothing disturbs the transmissions.       *)

\* The handset sends no state that the limits would change.
FramesWithin == \A f \in Frames, c \in Configs : Clamp(f, c.limits) = f

SyncInv == CopyInv(WriteFails) /\ call = NoCall /\ ac = state

LEMMA ServeSync ==
  ASSUME Undisturbed, SyncInv, NEW source \in Sources, NEW c \in Configs,
         NEW d, IsDelta(d), Serve(source, d, c)
  PROVE  call' = NoCall /\ ac' = state'
<1> DEFINE next == Asked(d, c)
<1>1. ~Effective(d, c) => next = state
  BY DEF Effective, Asked, SyncInv, CopyInv, Within
<1>2. CASE Hold(next, source)
  BY <1>2 DEF Hold, SyncInv, acVars
<1>3. CASE state' = next /\ \E then : Send(next, then, source \in AsyncSources)
  BY <1>3, SendSends DEF Hears, SyncInv
<1>4. CASE /\ state' = next /\ ~Transmits(d, c)
           /\ UNCHANGED <<storeVars, told, call, acVars>>
  BY <1>1, <1>4 DEF Transmits, SyncInv, acVars
<1> QED BY <1>2, <1>3, <1>4 DEF Serve

LEMMA SyncStep ==
  Undisturbed /\ SteadyLimits /\ FramesWithin /\ SyncInv /\ [Session]_vars
    => SyncInv'
<1> SUFFICES ASSUME Undisturbed, SteadyLimits, FramesWithin, SyncInv,
                    [Session]_vars
             PROVE  SyncInv'
  OBVIOUS
<1>1. CopyInv(WriteFails)'
  BY FlagAssumption, CopyStep DEF Undisturbed, SyncInv
<1> SUFFICES call' = NoCall /\ ac' = state'
  BY <1>1 DEF SyncInv
<1>2. ASSUME NEW source \in Sources, NEW d \in Deltas, Apply(source, d)
      PROVE  call' = NoCall /\ ac' = state'
  BY <1>2, DeltaAssumption, ServeSync DEF Apply, SyncInv, CopyInv, TypeOK
<1>3. ASSUME NEW source \in Sources, Resend(source)
      PROVE  call' = NoCall /\ ac' = state'
  BY <1>3, SendSends DEF Resend, Hears, SyncInv
<1>4. ASSUME NEW c \in Configs, SetConfig(c)
      PROVE  call' = NoCall /\ ac' = state'
  <2>1. IsDelta(UnitDelta(state, c.celsius))
    BY UnitDeltaType, ConfigType DEF SyncInv, CopyInv, TypeOK
  <2>2. CASE Serve("Web", UnitDelta(state, c.celsius), c)
    BY <2>1, <2>2, ServeSync, SourceAssumption
  <2>3. CASE UNCHANGED <<state, guardVars, storeVars, told, call, acVars>>
    BY <2>3 DEF SyncInv, acVars
  <2> QED BY <1>4, <2>2, <2>3 DEF SetConfig
<1>5. ASSUME NEW frame \in Frames, HandsetPress(frame)
      PROVE  call' = NoCall /\ ac' = state'
  <2>1. Clamp(frame, cfg.limits) = frame /\ "IrRemote" \in cfg.enabled
    BY DEF FramesWithin, Undisturbed, SyncInv, CopyInv, TypeOK
  <2>2. state' = frame
    BY <1>5, <2>1 DEF HandsetPress, Observe, Undisturbed
  <2> QED BY <1>5, <2>2 DEF HandsetPress, Hears, SyncInv
<1>6. CASE RunPendingStart
  BY <1>6, SendSends DEF RunPendingStart, Hears, SyncInv, acVars
<1>7. CASE FlushFile \/ Tick \/ UNCHANGED vars
  BY <1>7 DEF FlushFile, Tick, vars, SyncInv, acVars
<1>8. CASE Sending
  BY <1>8 DEF Sending, Repeat, Return, SyncInv
<1> QED BY <1>2, <1>3, <1>4, <1>5, <1>6, <1>7, <1>8
        DEF Session, Environment, BusLoop

\* "Every one of those staying in sync": in a session where nothing disturbs the
\* transmissions, what clients were told and what the air conditioner was told
\* last is the state of the bus, for every set of clients, commands and settings.
THEOREM AllStayInSync ==
  ASSUME Undisturbed, SteadyLimits, FramesWithin
  PROVE  SessionSpec => []InSync
<1>1. Init => SyncInv
  <2>1. Init => call = NoCall /\ ac = state
    BY DEF Init
  <2> QED BY <2>1, FlagAssumption, CopyInit DEF SyncInv
<1>2. SyncInv /\ [Session]_vars => SyncInv'
  BY SyncStep
<1>3. SyncInv => InSync
  BY DEF SyncInv, CopyInv, Copied, InSync
<1> QED BY <1>1, <1>2, <1>3, PTL DEF SessionSpec

============================================================================
