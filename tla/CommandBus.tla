----------------------------- MODULE CommandBus -----------------------------
(***************************************************************************)
(* core/CommandBus.cpp: the one place where every client's command meets   *)
(* the air conditioner's state, with the compressor guard, the two copies  *)
(* of the state that survive a restart, and the infrared transmitter below *)
(* it.                                                                     *)
(*                                                                         *)
(* Two contexts call the bus.  The loop task runs one handler at a time    *)
(* and gives way only inside the 40 ms pauses between the repeats of a     *)
(* frame; the web server's handlers run between the steps of the loop and  *)
(* inside those pauses, and there a pause does not pause, so a web call    *)
(* is always atomic.  `call' is the loop's call that is inside a pause.    *)
(***************************************************************************)
EXTENDS AcState

CONSTANTS
  Sources,          \* the clients: src::Source
  AsyncSources,     \* those called from the web server's context
  Deltas,           \* the updates clients send
  Frames,           \* the states the handset can send
  Configs,          \* the settings the bus reads: see Config below
  MinOff,           \* minOffSeconds, in ticks
  ClockWrap,        \* millis() wraps: ages are modulo this many ticks
  FlushAfter,       \* kStateFlushMs, in ticks
  Repeats,          \* sendRepeats
  RestoreOnBoot,    \* restoreOnBoot
  SendFails,        \* may a transmission fail?
  WriteFails,       \* may opening the state file fail?
  MissesFrames,     \* may the bridge miss what the handset sends?
  None              \* no such record, in the RTC memory or the file

(***************************************************************************)
(* A Config is what one call of the settings API can leave in force: the   *)
(* enabled clients ("IrRemote" stands for trackRemote as well), whether a  *)
(* transmitter is ready, the unit and the temperature limits.              *)
(***************************************************************************)
IsConfig(c) ==
  /\ c.enabled \subseteq Sources
  /\ c.ready \in BOOLEAN
  /\ c.celsius \in BOOLEAN
  /\ c.limits \in [min : Int, max : Int, step : Nat \ {0}]

ASSUME SourceAssumption ==
  /\ {"Web", "IrRemote", "System"} \subseteq Sources
  /\ "Web" \in AsyncSources
  /\ AsyncSources \subseteq Sources
ASSUME DeltaAssumption  == \A d \in Deltas : IsDelta(d)
ASSUME FrameAssumption  == Frames \subseteq State
ASSUME ConfigAssumption == Configs # {} /\ \A c \in Configs : IsConfig(c)
ASSUME ClockAssumption  ==
  /\ MinOff \in Nat
  /\ ClockWrap \in Nat /\ ClockWrap > MinOff
  /\ FlushAfter \in Nat
  /\ Repeats \in Nat
ASSUME FlagAssumption ==
  {RestoreOnBoot, SendFails, WriteFails, MissesFrames} \subseteq BOOLEAN

VARIABLES
  state,      \* state_
  pending,    \* pendingStart_ with pendingState_ and pendingSource_
  sawOff,     \* sawPowerOff_
  offAge,     \* millis() - poweredOffAt_
  dirty,      \* statePending_
  dirtyAge,   \* millis() - statePendingAt_, at most FlushAfter
  rtc,        \* the state in RTC memory, or None
  file,       \* the JSON object in /state.json, or None
  cfg,        \* the Config in force
  told,       \* the state the listeners were last called with
  call,       \* the loop's call inside sendState, or NoCall
  ac,         \* the last frame the air conditioner heard
  run,        \* who started its run in progress, "off" between runs
  offFor      \* how long ago its last run ended, at most MinOff

guardVars == <<pending, sawOff, offAge>>
storeVars == <<dirty, dirtyAge, rtc, file>>
acVars    == <<ac, run, offFor>>
vars == <<state, guardVars, storeVars, cfg, told, call, acVars>>

NoStart == [state |-> None, source |-> None]
NoCall  == [frame |-> None, left |-> 0, then |-> "idle"]

\* What a call does once its frame is out: "save" is apply's, which writes the
\* file at once for a unit that is off; "mark" only marks the file stale;
\* "notify" leaves both copies alone.
Afters == {"save", "mark", "notify"}

IsPending(p) == p = NoStart \/ p \in [state : State, source : Sources]
IsCall(c) == c = NoCall \/ c \in [frame : State, left : Nat, then : Afters]

TypeOK ==
  /\ state \in State
  /\ told \in State
  /\ ac \in State
  /\ IsPending(pending)
  /\ IsCall(call)
  /\ sawOff \in BOOLEAN
  /\ offAge \in 0..(ClockWrap - 1)
  /\ dirty \in BOOLEAN
  /\ dirtyAge \in 0..FlushAfter
  /\ rtc \in State \cup {None}
  /\ file \in Json \cup {None}
  /\ cfg \in Configs
  /\ run \in {"off", "bridge", "handset"}
  /\ offFor \in 0..MinOff

----------------------------------------------------------------------------
(* The air conditioner (external): it does what it hears.                   *)

Hears(frame, who) ==
  /\ ac' = frame
  /\ run' = CASE ~frame.power -> "off"
              [] frame.power /\ run = "off" -> who
              [] frame.power /\ run # "off" -> run
  /\ offFor' = IF run # "off" /\ ~frame.power THEN 0 ELSE offFor

----------------------------------------------------------------------------
(* Compressor guard.                                                        *)

\* restartHoldSeconds() > 0
Holding == sawOff /\ ~state.power /\ offAge < MinOff

\* Mutant: the guard lets a start through one tick early.
BlockedEarly(next) ==
  ~state.power /\ next.power /\ sawOff /\ offAge + 1 < MinOff

Blocked(next) == ~state.power /\ next.power /\ Holding

\* The bookkeeping of an on-to-off transition.
NoteStop(next) ==
  IF state.power /\ ~next.power
  THEN pending' = NoStart /\ sawOff' = TRUE /\ offAge' = 0
  ELSE UNCHANGED guardVars

Hold(next, source) ==
  /\ pending' = [state |-> next, source |-> source]
  /\ UNCHANGED <<state, sawOff, offAge, storeVars, told, call, acVars>>

----------------------------------------------------------------------------
(* Saving and telling.  s is the state when it happens: notify and the two  *)
(* copies read state_, not the frame that was sent.                         *)

\* The file after an attempt to write s.
Written(s) == {ToJson(s)} \cup (IF WriteFails THEN {file} ELSE {})

\* persistState: the flag is cleared before the file is opened.
Persist(s) == dirty' = FALSE /\ file' \in Written(s)

\* Mutant: a start or an observed state does not mark the file.
AfterUnmarked(then, s) ==
  /\ told' = s
  /\ IF then = "notify" THEN UNCHANGED storeVars
     ELSE /\ rtc' = s
          /\ dirtyAge' = 0
          /\ IF then = "save" /\ ~s.power
             THEN Persist(s)
             ELSE UNCHANGED <<dirty, file>>

After(then, s) ==
  /\ told' = s
  /\ IF then = "notify" THEN UNCHANGED storeVars
     ELSE /\ rtc' = s
          /\ dirtyAge' = 0
          /\ IF then = "save" /\ ~s.power
             THEN Persist(s)
             ELSE dirty' = TRUE /\ UNCHANGED file

(***************************************************************************)
(* sendState: the first frame goes out; with repeats to send, a call of    *)
(* the loop is left in its first pause.  A web call sends them all at once.*)
(***************************************************************************)
Send(frame, then, fromWeb) ==
  \/ /\ Hears(frame, "bridge")
     /\ IF Repeats = 0 \/ fromWeb
        THEN After(then, frame) /\ UNCHANGED call
        ELSE /\ call' = [frame |-> frame, left |-> Repeats, then |-> then]
             /\ UNCHANGED <<storeVars, told>>
  \/ /\ SendFails
     /\ UNCHANGED <<acVars, storeVars, told, call>>

\* Another frame of the suspended call.
Repeat ==
  /\ call # NoCall /\ call.left > 0
  /\ Hears(call.frame, "bridge")
  /\ call' = [call EXCEPT !.left = @ - 1]
  /\ UNCHANGED <<state, guardVars, storeVars, cfg, told>>

\* Mutant: the caller goes on with the state it sent.
ReturnSent ==
  /\ call # NoCall /\ call.left = 0
  /\ After(call.then, call.frame)
  /\ call' = NoCall
  /\ UNCHANGED <<state, guardVars, cfg, acVars>>

\* Its last frame is out: sendState returns and the caller goes on.
Return ==
  /\ call # NoCall /\ call.left = 0
  /\ After(call.then, state)
  /\ call' = NoCall
  /\ UNCHANGED <<state, guardVars, cfg, acVars>>

----------------------------------------------------------------------------
(* Commands.                                                                *)

\* The loop is busy while one of its calls is in a pause; the web never is.
Free(source) == call = NoCall \/ source \in AsyncSources

Accepts(c, source) == source \in c.enabled \cup {"System"}

Asked(d, c) == Clamp(Merge(state, d), c.limits)

Effective(d, c) == Merge(state, d) # state /\ Asked(d, c) # state

Transmits(d, c) == Effective(d, c) \/ "beep" \in DOMAIN d

\* apply's early returns, but for the hold.
Refused(source, d, c) ==
  \/ ~Accepts(c, source)
  \/ Empty(d)
  \/ ~Blocked(Asked(d, c)) /\ Transmits(d, c) /\ ~c.ready

\* The rest of apply, under the settings c.
Serve(source, d, c) ==
  LET next == Asked(d, c)
  IN  \/ Blocked(next) /\ Hold(next, source)
      \/ /\ ~Blocked(next)
         /\ state' = next
         /\ NoteStop(next)
         /\ \/ /\ Transmits(d, c)
               /\ Send(next, IF Effective(d, c) THEN "save" ELSE "notify",
                       source \in AsyncSources)
            \/ ~Transmits(d, c) /\ UNCHANGED <<storeVars, told, call, acVars>>

Apply(source, d) ==
  /\ Free(source)
  /\ ~Refused(source, d, cfg)
  /\ Serve(source, d, cfg)
  /\ UNCHANGED cfg

Resend(source) ==
  /\ Free(source)
  /\ Accepts(cfg, source)
  /\ cfg.ready
  /\ Send(state, "notify", source \in AsyncSources)
  /\ UNCHANGED <<state, guardVars, cfg>>

(***************************************************************************)
(* The settings API: the new settings are in force, then the bus is told   *)
(* of a new unit, as the web client and whatever the outcome.              *)
(***************************************************************************)
SetConfig(c) ==
  LET d == UnitDelta(state, c.celsius)
  IN  /\ c # cfg
      /\ cfg' = c
      /\ IF /\ c.celsius # cfg.celsius
            /\ c.celsius # state.celsius
            /\ ~Refused("Web", d, c)
         THEN Serve("Web", d, c)
         ELSE UNCHANGED <<state, guardVars, storeVars, told, call, acVars>>

----------------------------------------------------------------------------
(* The handset.                                                             *)

\* Mutant: a stop by the handset does not start the guard's timer.
ObserveNoTimer(frame) ==
  LET next == Clamp(frame, cfg.limits)
  IN  IF "IrRemote" \in cfg.enabled /\ next # state
      THEN state' = next /\ UNCHANGED guardVars /\ After("mark", next)
      ELSE UNCHANGED <<state, guardVars, storeVars, told>>

\* Mutant: nobody is told what the handset did.
ObserveSilent(frame) ==
  LET next == Clamp(frame, cfg.limits)
  IN  IF "IrRemote" \in cfg.enabled /\ next # state
      THEN /\ state' = next /\ NoteStop(next) /\ rtc' = next
           /\ dirty' = TRUE /\ dirtyAge' = 0 /\ UNCHANGED <<told, file>>
      ELSE UNCHANGED <<state, guardVars, storeVars, told>>

\* observe: the air conditioner has acted already, the bus catches up.
Observe(frame) ==
  LET next == Clamp(frame, cfg.limits)
  IN  IF "IrRemote" \in cfg.enabled /\ next # state
      THEN state' = next /\ NoteStop(next) /\ After("mark", next)
      ELSE UNCHANGED <<state, guardVars, storeVars, told>>

\* The receiver is off while a frame is going out.
HandsetPress(frame) ==
  /\ Hears(frame, "handset")
  /\ UNCHANGED <<cfg, call>>
  /\ \/ call = NoCall /\ Observe(frame)
     \/ MissesFrames /\ UNCHANGED <<state, guardVars, storeVars, told>>

----------------------------------------------------------------------------
(* The bus's turn in the loop: the held start, then the state file.         *)

StartDue == pending # NoStart /\ ~Holding

FlushDue == dirty /\ dirtyAge = FlushAfter

\* Mutant: the held start is sent but not adopted.
RunPendingStartUnadopted ==
  /\ call = NoCall
  /\ StartDue
  /\ pending' = NoStart
  /\ IF cfg.ready
     THEN Send(Clamp(pending.state, cfg.limits), "mark", FALSE)
     ELSE UNCHANGED <<storeVars, told, call, acVars>>
  /\ UNCHANGED <<state, sawOff, offAge, cfg>>

\* Mutant: a held start waits for a transmitter instead of being dropped.
RunPendingStartWaits ==
  LET next == Clamp(pending.state, cfg.limits)
  IN  /\ call = NoCall
      /\ StartDue /\ cfg.ready
      /\ pending' = NoStart
      /\ state' = next /\ Send(next, "mark", FALSE)
      /\ UNCHANGED <<sawOff, offAge, cfg>>

RunPendingStart ==
  LET next == Clamp(pending.state, cfg.limits)
  IN  /\ call = NoCall
      /\ StartDue
      /\ pending' = NoStart
      /\ IF cfg.ready
         THEN state' = next /\ Send(next, "mark", FALSE)
         ELSE UNCHANGED <<state, storeVars, told, call, acVars>>
      /\ UNCHANGED <<sawOff, offAge, cfg>>

FlushFile ==
  /\ call = NoCall
  /\ ~StartDue /\ FlushDue
  /\ Persist(state)
  /\ UNCHANGED <<state, guardVars, dirtyAge, rtc, cfg, told, call, acVars>>

\* Time passes; the loop turns many times in a tick, so nothing is left due.
Tick ==
  /\ ~StartDue /\ ~FlushDue
  /\ offAge' = IF sawOff THEN (offAge + 1) % ClockWrap ELSE offAge
  /\ dirtyAge' = IF dirty THEN dirtyAge + 1 ELSE dirtyAge
  /\ offFor' = IF offFor < MinOff THEN offFor + 1 ELSE offFor
  /\ UNCHANGED <<state, pending, sawOff, dirty, rtc, file, cfg, told, call,
                 ac, run>>

----------------------------------------------------------------------------
(* Restarts.  begin() starts from the RTC copy, else the file, else the     *)
(* defaults, then takes the unit and the limits from the settings.          *)

\* Mutant: the file wins over the RTC memory.
BootStateFileFirst(r, f, c) ==
  LET found == IF RestoreOnBoot /\ f # None THEN Restored(f)
               ELSE IF RestoreOnBoot /\ r # None THEN r
               ELSE DefaultState
  IN  Clamp([found EXCEPT !.celsius = c.celsius], c.limits)

BootState(r, f, c) ==
  LET found == IF RestoreOnBoot /\ r # None THEN r
               ELSE IF RestoreOnBoot /\ f # None THEN Restored(f)
               ELSE DefaultState
  IN  Clamp([found EXCEPT !.celsius = c.celsius], c.limits)

Boot(r, f) ==
  /\ state' = BootState(r, f, cfg)
  /\ told' = state'
  /\ pending' = NoStart /\ sawOff' = FALSE /\ offAge' = 0
  /\ dirty' = FALSE /\ dirtyAge' = 0
  /\ rtc' = r /\ file' = f
  /\ call' = NoCall
  /\ UNCHANGED <<cfg, acVars>>

\* A crash, a watchdog reset, an update that restarts at once.
Crash == Boot(rtc, file)

\* A restart the device decides on: flush() writes a stale file first.
Restart ==
  /\ call = NoCall
  /\ \E f \in (IF dirty THEN Written(state) ELSE {file}) : Boot(rtc, f)

PowerCut == Boot(None, file)

----------------------------------------------------------------------------
Init ==
  /\ cfg \in Configs
  /\ state = BootState(None, None, cfg)
  /\ told = state /\ ac = state
  /\ pending = NoStart /\ sawOff = FALSE /\ offAge = 0
  /\ dirty = FALSE /\ dirtyAge = 0 /\ rtc = None /\ file = None
  /\ call = NoCall
  /\ run = "off" /\ offFor = MinOff

\* What clients, the handset and the settings page do.
Environment ==
  \/ \E source \in Sources \ {"IrRemote"} :
       (\E d \in Deltas : Apply(source, d)) \/ Resend(source)
  \/ \E c \in Configs : SetConfig(c)
  \/ \E frame \in Frames : HandsetPress(frame)

BusLoop == RunPendingStart \/ FlushFile
Sending == Repeat \/ Return

Reset == Crash \/ Restart \/ PowerCut

\* A session: no restart.
Session == Environment \/ BusLoop \/ Sending \/ Tick
Next == Session \/ Reset

SessionSpec == Init /\ [][Session]_vars
Spec == Init /\ [][Next]_vars

\* The loop keeps turning and time passes; nobody has to press anything.
Fairness == WF_vars(BusLoop) /\ WF_vars(Sending) /\ WF_vars(Tick)
FairSession == SessionSpec /\ Fairness

----------------------------------------------------------------------------
(* Properties.                                                              *)

\* The bridge never starts the compressor before its minimum off period, by
\* whichever path a start reaches the transmitter (apply, a held start, a
\* resend, a change of unit) and whoever stopped it.
Promise == INSTANCE Compressor
ProtectsCompressor == Promise!Spec

\* Between calls, every client has been told the state the bus holds, and it
\* is what the air conditioner was last told: "every one of those in sync".
InSync == call = NoCall => told = state /\ ac = state

\* Between calls, the clients and the copy a crash starts from agree with the
\* bus, whatever ran inside the pauses of a call.
CopiesCurrent == call = NoCall => told = state /\ rtc \in {state, None}

\* A start that is held is made once the wait is over.
HeldStartRuns == pending # NoStart ~> state.power

\* The hold ends, whatever fails and whatever is switched off meanwhile.
HoldEnds == pending # NoStart ~> pending = NoStart

\* A start from the bus never goes out while the bus itself knows that the
\* unit has not been off for long enough, faults and misses included.
NoStartWhileHolding ==
  [][run = "off" /\ run' = "bridge" => ~Holding]_vars

\* The state file is marked for writing whenever it differs from the state.
StaleFileMarked ==
  call = NoCall /\ file \notin {None, ToJson(state)} => dirty

\* Asking for off drops a start that is being held.
StopCancelsHeldStart ==
  [][\A s \in Sources, d \in Deltas :
       Apply(s, d) /\ Given(d, "power", TRUE) = FALSE => pending' = NoStart]_vars

\* Once any command has been carried out, a restart that keeps the RTC memory
\* leaves the bus where it was, whichever path the last change took.
CrashKeepsState ==
  [][Crash /\ call = NoCall /\ rtc # None => state' = state]_vars
============================================================================
