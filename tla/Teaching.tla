------------------------------ MODULE Teaching ------------------------------
(***************************************************************************)
(* How the device learns its air conditioner and other people's remotes:   *)
(* the wizard of ir/Learning.cpp, the recorded codes of ir/CodeStore.cpp,  *)
(* the bound buttons of ir/RemoteMap.cpp and the reception of              *)
(* ir/IrService.cpp that feeds all three.                                  *)
(*                                                                         *)
(* The user is honest: asked whether the air conditioner reacted, the      *)
(* answer is what it did.                                                  *)
(***************************************************************************)
EXTENDS Integers, Sequences, FiniteSets

CONSTANTS
  Supported,      \* the protocols the library can synthesise, as numbers
  OtherButton,    \* the buttons of other remotes
  Temperature,    \* the temperatures of the plans and codes
  MaxBindings,    \* kMaxBindings
  MaxTargets,     \* kMaxTargets
  MaxTorn,        \* bound: the files that are torn at one time
  Plans,          \* the plans that clients ask to record
  PutKeys,        \* the keys of codes that clients send
  NoProtocol,     \* decode_type_t::UNKNOWN
  Off,            \* the key of a unit that is off
  FirstCapture    \* btn_first_capture, a key of no state

ASSUME TeachingAssumption ==
  /\ Supported \subseteq Nat /\ IsFiniteSet(Supported)
  /\ Temperature \subseteq Nat
  /\ MaxBindings \in Nat \ {0} /\ MaxTargets \in Nat \ {0}
  /\ MaxTorn \in Nat
  /\ NoProtocol \notin Supported

VARIABLES
  phase,       \* phase_
  candidate,   \* candidate_
  sweep,       \* sweep_ from sweepIndex_ on
  targets,     \* targets_ from targetIndex_ on
  reacted,     \* whether the air conditioner reacted to the last probe
  model,       \* settings.ac: the protocol, and whether codes are used
  codes,       \* the keys with a file under /codes
  torn,        \* those of them whose file is short, and does not load
  bindings,    \* bindings_
  taught,      \* history: the action each button was last taught
  unit,        \* whether the air conditioner runs
  dialect      \* the protocol it speaks (external)

teaching == <<phase, candidate, sweep, targets, reacted, model,
              codes, torn, bindings, taught, unit, dialect>>

Phase == {"idle", "identify", "confirm", "sweep", "record", "bind", "done", "failed"}
Protocol == Supported \cup {NoProtocol}
Action == {"toggle", "resend"}    \* two of parseAction's
Untaught == "none"

\* keyFor: the keys of the states of one mode that is on, in two fan speeds.
OnKey == [temp : Temperature, fan : {"auto", "high"}]
Key == OnKey \cup {Off, FirstCapture}

\* A unit that is off has a key of its own.
ASSUME OffAssumption == Off \notin OnKey

\* What clients send is within the ranges the handlers accept.
ASSUME ClientAssumption ==
  /\ PutKeys \subseteq Key
  /\ \A plan \in Plans :
       /\ plan.off \in BOOLEAN /\ plan.low \in Nat /\ plan.high \in Nat
       /\ plan.low..plan.high \subseteq Temperature
       /\ plan.fans \in Seq({"auto", "high"})

TeachingOK ==
  /\ phase \in Phase
  /\ candidate \in Protocol
  /\ sweep \in Seq(Supported)
  /\ targets \in Seq(Key)
  /\ {reacted, unit} \subseteq BOOLEAN
  /\ model \in [protocol : Protocol, learned : BOOLEAN]
  /\ codes \subseteq Key /\ torn \subseteq codes
  /\ bindings \in Seq([button : OtherButton, action : Action])
  /\ Len(bindings) <= MaxBindings
  /\ taught \in [OtherButton -> Action \cup {Untaught}]
  /\ dialect \in Protocol

NoModel == [protocol |-> NoProtocol, learned |-> FALSE]

TeachingInit ==
  /\ phase = "idle" /\ candidate = NoProtocol
  /\ sweep = << >> /\ targets = << >>
  /\ reacted = FALSE
  /\ model = NoModel /\ codes = {} /\ torn = {} /\ bindings = << >>
  /\ taught = [b \in OtherButton |-> Untaught]
  /\ unit \in BOOLEAN /\ dialect \in Protocol

Active == phase \notin {"idle", "done", "failed"}

----------------------------------------------------------------------------
(* Recorded codes.                                                         *)

Distance(a, b) == IF a < b THEN b - a ELSE a - b

\* load succeeds on these.
Playable == codes \ torn

\* Mutant: the nearest temperature is not looked for.
ResolveAny(state) ==
  IF state \in Playable THEN {state}
  ELSE IF state = Off THEN {} ELSE codes \cap OnKey

\* resolve: the recordings it may come to for a state.  A file of this state,
\* or else of its temperature, must load; after that the nearest name that the
\* directory happens to list first is taken, and if its file is torn no other
\* is tried and nothing is sent.
Resolve(state) ==
  IF state \in Playable THEN {state}
  ELSE IF state = Off THEN {}
  ELSE LET known == codes \cap OnKey
           same == {k \in known \ torn : k.temp = state.temp} IN
       IF same # {} THEN same
       ELSE {k \in known : \A j \in known :
               Distance(k.temp, state.temp) <= Distance(j.temp, state.temp)}

\* store: the file is opened over the one there and what the writes return is
\* not looked at.  With the flash full the file is short, or, if it could not be
\* opened or the file system did not commit it, the old one is still there.
Stored(key) ==
  \/ codes' = codes \cup {key} /\ torn' = torn \ {key}
  \/ /\ codes' = codes \cup {key} /\ torn' = torn \cup {key}
     /\ Cardinality(torn') <= MaxTorn
  \/ UNCHANGED <<codes, torn>>

\* handleCodePut: taught from a client, and taken into use.  One that could not
\* be opened is answered as refused, and changes nothing.
PutCode(key) ==
  /\ Stored(key)
  /\ model' = [model EXCEPT !.learned = TRUE]
  /\ UNCHANGED <<phase, candidate, sweep, targets, reacted, bindings, taught,
                 unit, dialect>>

\* handleCodeDelete and handleCodesClear.
DropCodes(gone) ==
  /\ gone # {} /\ gone \subseteq codes
  /\ codes' = codes \ gone /\ torn' = torn \ gone
  /\ UNCHANGED <<phase, candidate, sweep, targets, reacted, model,
                 bindings, taught, unit, dialect>>

\* factoryReset erases the codes and the model, and not the bindings.
ForgetTaught(erased) ==
  /\ model' = NoModel
  /\ IF erased THEN codes' = {} /\ torn' = {} ELSE UNCHANGED <<codes, torn>>
  /\ UNCHANGED <<phase, candidate, sweep, targets, reacted, bindings,
                 taught, unit, dialect>>

\* Every file is gone, /codes and /remotes.json among them.
LoseTaught ==
  /\ model' = NoModel /\ codes' = {} /\ torn' = {}
  /\ bindings' = << >> /\ taught' = [b \in OtherButton |-> Untaught]

KeepTaught == UNCHANGED <<model, codes, torn, bindings, taught>>

----------------------------------------------------------------------------
(* The wizard's own steps.                                                 *)

\* A probe goes out whatever the command bus thinks, and says "on".
Probe(protocol) ==
  /\ reacted' = (protocol = dialect)
  /\ unit' = (unit \/ protocol = dialect)

NoProbe == UNCHANGED <<reacted, unit>>

Finish(success) == phase' = IF success THEN "done" ELSE "failed"

\* adoptProtocol.
AdoptProtocol(protocol) == model' = [protocol |-> protocol, learned |-> FALSE]

\* buildSweepList: in order, what the receiver made out first.
SweepFrom(first) ==
  LET order == CHOOSE s \in [1..Cardinality(Supported) -> Supported] :
                 \A i, j \in DOMAIN s : i < j => s[i] < s[j]
      at == {i \in DOMAIN order : order[i] = first} IN
  [i \in DOMAIN order |->
     IF at = {} THEN order[i]
     ELSE IF i = 1 THEN first
     ELSE IF i \in at THEN order[1]
     ELSE order[i]]

\* advanceTarget: the last target, reached, takes the codes into use.
AdvanceTarget ==
  /\ targets' = Tail(targets)
  /\ IF Len(targets) > 1
     THEN UNCHANGED <<phase, model>>
     ELSE Finish(TRUE) /\ model' = [model EXCEPT !.learned = TRUE]

----------------------------------------------------------------------------
(* Entry points.                                                           *)

\* startIdentify.
StartIdentify ==
  /\ phase' = "identify" /\ candidate' = NoProtocol
  /\ sweep' = << >> /\ targets' = << >>
  /\ UNCHANGED <<reacted, model, codes, torn, bindings, taught, unit, dialect>>

\* startSweep, with its first probe; refused, the wizard is idle.
StartSweep ==
  /\ targets' = << >> /\ sweep' = SweepFrom(candidate)
  /\ IF sweep' = << >> THEN phase' = "idle" /\ NoProbe
                       ELSE phase' = "sweep" /\ Probe(sweep'[1])
  /\ UNCHANGED <<candidate, model, codes, torn, bindings, taught, dialect>>

\* As many of them as the wizard asks for in one go.
FirstOf(keys) ==
  SubSeq(keys, 1, IF Len(keys) < MaxTargets THEN Len(keys) ELSE MaxTargets)

\* planFromJson and buildTargets: "off" if asked for, then every temperature
\* from the lowest to the highest in every fan speed, cut at kMaxTargets.
PlanTargets(plan) ==
  LET fans == plan.fans
      steps == IF plan.high < plan.low THEN 0 ELSE plan.high - plan.low + 1
      all == (IF plan.off THEN <<Off>> ELSE << >>) \o
             [i \in 1..steps * Len(fans) |->
                [temp |-> plan.low + ((i - 1) \div Len(fans)),
                 fan |-> fans[((i - 1) % Len(fans)) + 1]]] IN
  FirstOf(all)

\* startRecord; the range of a plan that is upside down is refused.
StartRecord(plan) ==
  /\ plan.low <= plan.high
  /\ sweep' = << >> /\ targets' = PlanTargets(plan)
  /\ IF targets' = << >>
     THEN phase' = "idle" ELSE phase' = "record"
  /\ UNCHANGED <<candidate, reacted, model, codes, torn, bindings, taught, unit, dialect>>

\* startRecordKeys: recordings asked for by their keys.
StartRecordKeys(keys) ==
  /\ keys # << >> /\ phase' = "record"
  /\ sweep' = << >> /\ targets' = FirstOf(keys)
  /\ UNCHANGED <<candidate, reacted, model, codes, torn, bindings, taught, unit, dialect>>

\* startBind.
StartBind ==
  /\ phase' = "bind" /\ sweep' = << >> /\ targets' = << >>
  /\ UNCHANGED <<candidate, reacted, model, codes, torn, bindings, taught, unit,
                 dialect>>

Cancel ==
  /\ phase # "idle" /\ phase' = "idle"
  /\ sweep' = << >> /\ targets' = << >>
  /\ UNCHANGED <<candidate, reacted, model, codes, torn, bindings, taught, unit,
                 dialect>>

\* Mutant: only the phases that listen to a remote are timed.
TimeoutListening ==
  /\ phase \in {"identify", "record", "bind"} /\ Finish(FALSE)
  /\ UNCHANGED <<candidate, sweep, targets, reacted, model, codes, torn,
                 bindings, taught, unit, dialect>>

\* loop: five minutes in one step.
Timeout ==
  /\ Active /\ Finish(FALSE)
  /\ UNCHANGED <<candidate, sweep, targets, reacted, model, codes, torn,
                 bindings, taught, unit, dialect>>

----------------------------------------------------------------------------
(* Answers.                                                                *)

\* Mutant: the index moves on before it is looked at.
ConfirmSweepNext(worked) ==
  /\ phase = "sweep"
  /\ sweep' = Tail(sweep)
  /\ IF worked /\ sweep' # << >>
     THEN AdoptProtocol(sweep'[1]) /\ Finish(TRUE) /\ NoProbe
     ELSE /\ UNCHANGED model
          /\ IF sweep' = << >> THEN Finish(FALSE) /\ NoProbe
                               ELSE Probe(sweep'[1]) /\ UNCHANGED phase

\* confirm in a sweep: adopt what was probed, or probe the next.
ConfirmSweep(worked) ==
  /\ phase = "sweep"
  /\ IF worked
     THEN AdoptProtocol(sweep[1]) /\ Finish(TRUE) /\ NoProbe /\ UNCHANGED sweep
     ELSE /\ sweep' = Tail(sweep) /\ UNCHANGED model
          /\ IF sweep' = << >> THEN Finish(FALSE) /\ NoProbe
                               ELSE Probe(sweep'[1]) /\ UNCHANGED phase

\* confirm after identification.
ConfirmHeard(worked) ==
  /\ phase = "confirm"
  /\ IF worked /\ candidate \in Supported
     THEN AdoptProtocol(candidate) /\ Finish(TRUE)
     ELSE Finish(FALSE) /\ UNCHANGED model
  /\ NoProbe /\ UNCHANGED sweep

Confirm ==
  /\ ConfirmSweep(reacted) \/ ConfirmHeard(reacted)
  /\ UNCHANGED <<candidate, targets, codes, torn, bindings, taught, dialect>>

\* skip: the next target, or the next protocol.
Skip ==
  \/ /\ phase = "record" /\ AdvanceTarget
     /\ NoProbe
     /\ UNCHANGED <<candidate, sweep, codes, torn, bindings, taught, dialect>>
  \/ /\ ConfirmSweep(FALSE)
     /\ UNCHANGED <<candidate, targets, codes, torn, bindings, taught, dialect>>

----------------------------------------------------------------------------
(* Reception.                                                              *)

\* onCapture while identifying: the state heard is sent straight back, on.
\* Decoded without being synthesisable, the frame is kept as a code.
Identified(on) ==
  /\ phase = "identify" /\ phase' = "confirm" /\ candidate' = dialect
  /\ IF dialect \in Supported
     THEN Probe(dialect)
     ELSE reacted' = FALSE /\ unit' = on
  /\ IF dialect \in Supported THEN UNCHANGED <<codes, torn>>
                             ELSE Stored(FirstCapture)
  /\ UNCHANGED <<sweep, targets, model, bindings, taught>>

\* onCapture while recording: long enough to be one, the frame is the target,
\* and the next is asked for even if it could not be stored.
Recorded(on) ==
  /\ phase = "record"
  /\ unit' = on
  /\ Stored(Head(targets))
  /\ AdvanceTarget
  /\ UNCHANGED <<candidate, sweep, reacted, bindings, taught>>

\* A button of the unit's own handset: the unit acts on it, and the device, if
\* it hears it, takes it for the wizard's while one is active.
PressOwn(on) ==
  /\ \/ Identified(on)
     \/ Recorded(on)
     \/ /\ phase = "bind" /\ dialect # NoProtocol
        /\ Finish(FALSE) /\ unit' = on
        /\ UNCHANGED <<candidate, sweep, targets, reacted, model,
                       codes, torn, bindings, taught>>
     \/ /\ unit' = on    \* swallowed, followed by the bus, or not heard
        /\ UNCHANGED <<phase, candidate, sweep, targets, reacted,
                       model, codes, torn, bindings, taught>>
  /\ UNCHANGED dialect

\* Mutant: a button taught again is added, and the first one wins.
BoundAfter(b) ==
  IF Len(bindings) < MaxBindings THEN Append(bindings, b) ELSE bindings

\* Mutant: the limit is not looked at.
BoundUnlimited(b) ==
  IF \E i \in DOMAIN bindings : bindings[i].button = b.button
  THEN [i \in DOMAIN bindings |->
          IF bindings[i].button = b.button THEN b ELSE bindings[i]]
  ELSE Append(bindings, b)

\* bind: taught again, a button keeps its place; a new one needs a place.
Bound(b) ==
  IF \E i \in DOMAIN bindings : bindings[i].button = b.button
  THEN [i \in DOMAIN bindings |->
          IF bindings[i].button = b.button THEN b ELSE bindings[i]]
  ELSE IF Len(bindings) < MaxBindings THEN Append(bindings, b)
  ELSE bindings

\* onCapture while binding: a button of another remote, bound or refused.
BindButton(b) ==
  LET known == \E i \in DOMAIN bindings : bindings[i].button = b.button
      room == known \/ Len(bindings) < MaxBindings IN
  /\ phase = "bind" /\ Finish(room)
  /\ bindings' = Bound(b)
  /\ taught' = IF room THEN [taught EXCEPT ![b.button] = b.action] ELSE taught
  /\ UNCHANGED <<candidate, sweep, targets, reacted, model, codes, torn,
                 unit, dialect>>

\* find: the first binding of the button is the one handle performs.
Found(button) ==
  LET at == {i \in DOMAIN bindings : bindings[i].button = button} IN
  IF at = {} THEN Untaught
  ELSE bindings[CHOOSE i \in at : \A j \in at : i <= j].action

\* remove(index), from the page.
DropBinding(i) ==
  /\ i \in DOMAIN bindings
  /\ bindings' = [j \in 1..Len(bindings) - 1 |->
                    IF j < i THEN bindings[j] ELSE bindings[j + 1]]
  /\ taught' = [taught EXCEPT ![bindings[i].button] = Untaught]
  /\ UNCHANGED <<phase, candidate, sweep, targets, reacted, model,
                 codes, torn, unit, dialect>>

\* A start: what the wizard was doing is forgotten.
BootWizard ==
  /\ phase' = "idle" /\ candidate' = NoProtocol
  /\ sweep' = << >> /\ targets' = << >>
  /\ UNCHANGED <<reacted, unit, dialect>>

\* handleLearnStart.
LearnStart ==
  \/ StartIdentify \/ StartSweep \/ StartBind
  \/ \E plan \in Plans : StartRecord(plan)
  \/ \E key \in PutKeys : StartRecordKeys(<<key>>)

TeachingNext ==
  \/ LearnStart
  \/ Cancel \/ Timeout \/ Confirm \/ Skip
  \/ \E key \in PutKeys : PutCode(key)
  \/ \E key \in codes : DropCodes({key})
  \/ DropCodes(codes)
  \/ \E on \in BOOLEAN : PressOwn(on)
  \/ \E b \in OtherButton, a \in Action : BindButton([button |-> b, action |-> a])
  \/ \E i \in DOMAIN bindings : DropBinding(i)

----------------------------------------------------------------------------
(* Properties.                                                             *)

\* What is replayed for a state is of its kind: "off" only to turn the unit off,
\* and otherwise a recording no further in temperature than any other that
\* loads, whatever was sent, torn and deleted in whatever order
\* (CodeStore::resolve).  It never comes to a torn file while one of its own
\* temperature loads, or while one that loads is nearer than all the torn ones;
\* a torn file that is as near as any other can hide the rest of the dial.
NearestReplayed ==
  /\ Resolve(Off) \subseteq Playable \cap {Off}
  /\ \A state \in OnKey :
       LET far(k) == Distance(k.temp, state.temp)
           loads == Playable \cap OnKey IN
       /\ Resolve(state) \subseteq codes \cap OnKey
       /\ loads # {} => Resolve(state) # {}
       /\ \A k \in Resolve(state), j \in loads : far(k) <= far(j)
       /\ (\E j \in loads : far(j) = 0 \/ \A t \in torn \cap OnKey : far(j) < far(t))
            => Resolve(state) \subseteq Playable

\* A button of another remote does what it was last taught, also when it was
\* taught twice, when the list was full, or when another one was removed
\* (RemoteMap::find takes the first entry that matches).
DoesWhatWasTaught == \A b \in OtherButton : Found(b) = taught[b]

\* What was taught is recalled: codes by the state, actions by the button.
Recalls == NearestReplayed /\ DoesWhatWasTaught

\* The wizard, told truthfully whether the unit reacted, ends in success after
\* a test or a sweep only with the protocol the unit speaks, and with that in
\* use rather than the recordings of before (Wizard::confirm).
AdoptedWorks ==
  [][phase' = "done" /\ phase \in {"confirm", "sweep"}
       => model'.protocol = dialect /\ ~model'.learned]_teaching

\* A button of the handset, pressed while the wizard listens, leaves the unit
\* as the user set it.
HandsetObeyed ==
  [][\A on \in BOOLEAN : PressOwn(on) => (unit' = on)]_teaching

=============================================================================
