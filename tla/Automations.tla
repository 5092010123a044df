---------------------------- MODULE Automations ----------------------------
(***************************************************************************)
(* app/Automations.cpp: IF/THEN rules over the fields of this device, of   *)
(* its peers and of the clock, with hold times, waits, else branches and   *)
(* the runaway guard.                                                      *)
(*                                                                         *)
(* Time is in seconds, the period of evaluation.  After every tick one     *)
(* pass of loop() runs: first every rule's sequence, then every rule's     *)
(* conditions, in the order of the list; `turn' is the place in the pass,  *)
(* 0 between passes.  Rules act on the house as the pass goes, so a rule   *)
(* sees what the rules before it just did.                                 *)
(***************************************************************************)
EXTENDS Integers, Sequences

CONSTANTS
  Def,             \* the rules, in order: see IsRule
  Fields,          \* the fields they read and write
  Peers,           \* those of other devices, unknown until they answer
  Values,          \* what a field can hold
  Unknown,         \* what a field that was not read yet holds
  Tested,          \* the rules whose test button somebody may press
  MaxFires,        \* kMaxFiresPerWindow
  Window,          \* kCycleWindowMs
  Suppression,     \* kSuppressionMs
  Edits            \* bound: the sets of rules that saving can switch on

Rules == DOMAIN Def
N == Len(Def)

IsWait(step) == "wait" \in DOMAIN step

(***************************************************************************)
(* A rule's condition is the set of values its comparison accepts; a step  *)
(* waits, or sets a field.  fromJson drops waits of zero and refuses a     *)
(* rule without conditions or without commands.                            *)
(***************************************************************************)
Step == [wait : Nat \ {0}] \cup [field : Fields, value : Values]

IsSteps(steps) == steps \in Seq(Step)

IsRule(d) ==
  /\ d.conditions # {}
  /\ \A c \in d.conditions : c.field \in Fields /\ c.accepts \subseteq Values
  /\ d.matchAll \in BOOLEAN
  /\ d.for \in Nat /\ d.cooldown \in Nat
  /\ IsSteps(d.actions) /\ IsSteps(d.elseActions)
  /\ \E i \in DOMAIN d.actions : ~IsWait(d.actions[i])

\* A pass over no rules is not modelled: it does nothing.
ASSUME RuleAssumption ==
  /\ N \in Nat \ {0} /\ Rules = 1 .. N
  /\ \A r \in Rules : IsRule(Def[r])
ASSUME FieldAssumption == Peers \subseteq Fields /\ Unknown \notin Values
ASSUME GuardAssumption ==
  /\ MaxFires \in Nat \ {0} /\ Window \in Nat
  /\ Suppression \in Nat /\ Suppression > Window
  /\ Edits \subseteq SUBSET Rules
ASSUME TestedAssumption == Tested \subseteq Rules

VARIABLES
  house,           \* the value of every field
  enabled,         \* the rules that are switched on
  rule,            \* what each rule keeps in RAM
  turn,            \* the place in the pass of loop()
  held,            \* for how many seconds its conditions were found true
  starts,          \* how long ago its latest starts were, the latest first
  acted            \* the rules whose actions ran in the present episode

vars == <<house, enabled, rule, turn, held, starts, acted>>

Never == -1

\* A rule as fromJson leaves it.
Fresh ==
  [since |-> Never,      \* matchSince, as an age
   fired |-> FALSE,      \* firedThisEpisode
   age |-> Never,        \* lastFiredAt, as an age
   running |-> FALSE, inElse |-> FALSE, step |-> 1,
   resume |-> 0,         \* resumeAt, as the seconds left
   window |-> Never,     \* windowStartedAt, as an age
   fires |-> 0,          \* firesInWindow
   asleep |-> Never]     \* suppressedUntil, as the seconds left

\* As many starts as no rule can make within a window; one that is out of the
\* window is as good as none.
Remembered == 3 * MaxFires + 1

NoStarts == [k \in 1..Remembered |-> Window + 1]
StartedNow(ages) == [k \in 1..Remembered |-> IF k = 1 THEN 0 ELSE ages[k - 1]]
SecondLater(ages) ==
  [k \in 1..Remembered |-> IF ages[k] > Window THEN ages[k] ELSE ages[k] + 1]

----------------------------------------------------------------------------
(* Conditions.                                                              *)

\* An unknown value matches nothing, not even "is not".
Holds(c) == house[c.field] # Unknown /\ house[c.field] \in c.accepts

Matches(r) ==
  IF Def[r].matchAll THEN \A c \in Def[r].conditions : Holds(c)
                     ELSE \E c \in Def[r].conditions : Holds(c)

----------------------------------------------------------------------------
(* Sequences.                                                               *)

Steps(r, inElse) == IF inElse THEN Def[r].elseActions ELSE Def[r].actions

\* Where a sequence stops next: its next wait, or its end.
Stop(steps, from) ==
  CHOOSE i \in from .. Len(steps) + 1 :
    /\ i <= Len(steps) => IsWait(steps[i])
    /\ \A j \in from .. i - 1 : ~IsWait(steps[j])

\* The fields after the commands in `done'; the last writer of a field wins.
Commanded(steps, done) ==
  [f \in Fields |->
     LET writes == {i \in done : steps[i].field = f}
     IN  IF writes = {} THEN house[f]
         ELSE steps[CHOOSE i \in writes : \A j \in writes : j <= i].value]

\* Mutant: the end of the list does not end the sequence.
AdvanceStuck(r, s) ==
  LET steps == Steps(r, s.inElse)
      stop  == Stop(steps, s.step)
  IN  /\ rule' = [rule EXCEPT ![r] =
           [s EXCEPT !.step = stop,
                     !.resume = IF stop > Len(steps) THEN 0 ELSE steps[stop].wait]]
      /\ house' = Commanded(steps, s.step .. stop - 1)

(***************************************************************************)
(* advance(): commands up to the next wait.  Any of them may come to       *)
(* nothing: refused by the bus, held by it, or dropped by the peer's full  *)
(* queue.  A held or queued one that takes effect later is Changes.        *)
(***************************************************************************)
Advance(r, s) ==
  LET steps == Steps(r, s.inElse)
      stop  == Stop(steps, s.step)
  IN  /\ rule' = [rule EXCEPT ![r] =
           IF stop > Len(steps)
           THEN [s EXCEPT !.running = FALSE, !.inElse = FALSE, !.step = 1]
           ELSE [s EXCEPT !.step = stop, !.resume = steps[stop].wait]]
      /\ \E done \in SUBSET (s.step .. stop - 1) : house' = Commanded(steps, done)

----------------------------------------------------------------------------
(* Starting a sequence, unless the runaway guard trips.                     *)

Counted(s) ==
  \* The byte is kept at its limit + 1; it would wrap at the 256th test.
  IF s.window = Never
  THEN [s EXCEPT !.window = 0, !.fires = 1]
  ELSE [s EXCEPT !.fires = IF @ > MaxFires THEN @ ELSE @ + 1]

\* Mutant: the start itself is counted after the comparison.
TripsLate(s) == s.fires > MaxFires

Trips(s) == Counted(s).fires > MaxFires

Start(r, s, inElse) ==
  IF Trips(s)
  THEN /\ rule' = [rule EXCEPT ![r] =
            [Counted(s) EXCEPT !.asleep = Suppression, !.running = FALSE,
                               !.inElse = FALSE, !.step = 1, !.resume = 0]]
       /\ UNCHANGED <<house, starts, acted>>
  ELSE /\ Advance(r, [Counted(s) EXCEPT
            !.age = 0, !.running = TRUE, !.inElse = inElse,
            !.step = 1, !.resume = 0])
       /\ starts' = [starts EXCEPT ![r] = StartedNow(@)]
       /\ acted' = IF inElse THEN acted \ {r} ELSE acted \cup {r}

----------------------------------------------------------------------------
(* The pass.                                                                *)

\* An age a second later; past the last one that is told apart it is forgotten.
Older(a, last) == IF a \in {Never, last} THEN Never ELSE a + 1

Tick ==
  /\ turn = 0
  /\ turn' = 1
  /\ rule' = [r \in Rules |->
       [rule[r] EXCEPT
          !.since = IF @ \in 0 .. Def[r].for - 1 THEN @ + 1 ELSE @,
          !.age = Older(@, Def[r].cooldown),
          !.window = Older(@, Window),
          !.fires = IF rule[r].window = Window THEN 0 ELSE @,
          !.resume = IF @ > 0 THEN @ - 1 ELSE 0,
          !.asleep = IF @ > 0 THEN @ - 1 ELSE @]]
  /\ starts' = [r \in Rules |-> SecondLater(starts[r])]
  /\ UNCHANGED <<house, enabled, held, acted>>

NextTurn == turn' = (turn + 1) % (2 * N + 1)

\* Mutant: the wait is not stepped over, and begins again.
ResumeAtWait ==
  LET r == turn
  IN  /\ r \in Rules
      /\ NextTurn
      /\ IF rule[r].running /\ rule[r].resume = 0
         THEN Advance(r, rule[r])
         ELSE UNCHANGED <<house, rule>>
      /\ UNCHANGED <<enabled, held, starts, acted>>

\* A sequence whose wait is over goes on after it.
Resume ==
  LET r == turn
  IN  /\ r \in Rules
      /\ NextTurn
      /\ IF rule[r].running /\ rule[r].resume = 0
         THEN Advance(r, [rule[r] EXCEPT !.step = @ + 1])
         ELSE UNCHANGED <<house, rule>>
      /\ UNCHANGED <<enabled, held, starts, acted>>

\* Mutant: the end of the sleep is not recorded.
AwakeNever(s) == s

\* The rule once a sleep that is over has been taken off it.
Awake(s) == IF s.asleep = 0 THEN [s EXCEPT !.asleep = Never, !.fires = 0] ELSE s

\* The conditions hold: the rule fires once, when they have held long enough
\* and it has cooled down.
Matched(r, s) ==
  LET seen == [s EXCEPT !.since = IF @ = Never THEN 0 ELSE @]
      waits == \/ s.fired
               \/ seen.since < Def[r].for
               \/ s.age # Never /\ s.age < Def[r].cooldown
  IN  IF waits
      THEN rule' = [rule EXCEPT ![r] = seen] /\ UNCHANGED <<house, starts, acted>>
      ELSE Start(r, [seen EXCEPT !.fired = TRUE], FALSE)

\* Mutant: the episode that is over leaves its beginning behind.
UnmatchedStale(r, s) ==
  /\ rule' = [rule EXCEPT ![r] = [s EXCEPT !.fired = FALSE]]
  /\ acted' = acted \ {r}
  /\ UNCHANGED <<house, starts>>

\* They do not: the else branch runs if the rule fired while they did.
Unmatched(r, s) ==
  LET past == [s EXCEPT !.since = Never, !.fired = FALSE]
  IN  IF s.since # Never /\ s.fired /\ Def[r].elseActions # <<>>
      THEN Start(r, past, TRUE)
      ELSE /\ rule' = [rule EXCEPT ![r] = past]
           /\ acted' = acted \ {r}
           /\ UNCHANGED <<house, starts>>

Evaluate ==
  LET r == turn - N
      s == Awake(rule[r])
  IN  /\ r \in Rules
      /\ NextTurn
      /\ held' = [held EXCEPT ![r] =
           IF Matches(r) THEN (IF @ < Def[r].for THEN @ + 1 ELSE @) ELSE Never]
      /\ IF r \notin enabled \/ rule[r].running \/ s.asleep # Never
         THEN UNCHANGED <<house, rule, starts, acted>>
         ELSE IF Matches(r) THEN Matched(r, s) ELSE Unmatched(r, s)
      /\ UNCHANGED enabled

----------------------------------------------------------------------------
(* Everything else happens between passes.                                  *)

\* What readField can answer of a field: a peer may know nothing of it.
Readings(f) == Values \cup (IF f \in Peers THEN {Unknown} ELSE {})

\* Somebody, or a device, changes a field.
Changes(f, v) ==
  /\ turn = 0
  /\ house' = [house EXCEPT ![f] = v]
  /\ UNCHANGED <<enabled, rule, turn, held, starts, acted>>

\* fire(): the test button starts the actions whatever the rule is doing.
Test(r) ==
  /\ turn = 0
  /\ Start(r, rule[r], FALSE)
  /\ UNCHANGED <<enabled, turn, held>>

Forget ==
  /\ rule' = [r \in Rules |-> Fresh]
  /\ held' = [r \in Rules |-> Never]
  /\ starts' = [r \in Rules |-> NoStarts]
  /\ acted' = {}

\* Saving the list replaces every rule, and with it all that is in RAM.
Save(on) ==
  /\ turn = 0
  /\ enabled' = on
  /\ Forget
  /\ UNCHANGED <<house, turn>>

\* So does a restart, after which the peers have to answer again.
Restart ==
  /\ house' = [f \in Fields |-> IF f \in Peers THEN Unknown ELSE house[f]]
  /\ Forget
  /\ turn' = 0
  /\ UNCHANGED enabled

Init ==
  /\ house \in [Fields -> Values \cup {Unknown}]
  /\ \A f \in Fields : house[f] = Unknown <=> f \in Peers
  /\ enabled = Rules
  /\ rule = [r \in Rules |-> Fresh]
  /\ turn = 0
  /\ held = [r \in Rules |-> Never]
  /\ starts = [r \in Rules |-> NoStarts]
  /\ acted = {}

Loop == Resume \/ Evaluate

\* What goes on when nobody touches the rules.
Quiet == Tick \/ Loop \/ \E f \in Fields : \E v \in Readings(f) : Changes(f, v)

Next ==
  \/ Quiet
  \/ \E r \in Tested : Test(r)
  \/ \E on \in Edits : Save(on)
  \/ Restart

\* The main loop turns for ever, and comes to every rule of a pass.
Spec == Init /\ [][Next]_vars /\ WF_vars(Tick) /\ WF_vars(Loop)

----------------------------------------------------------------------------
(* Properties.                                                              *)

InRAM ==
  [since : Nat \cup {Never}, fired : BOOLEAN, age : Nat \cup {Never},
   running : BOOLEAN, inElse : BOOLEAN, step : Nat, resume : Nat,
   window : Never .. Window, fires : 0 .. MaxFires + 1,
   asleep : Never .. Suppression]

\* What the variables hold; a rule that is running is at a wait of the branch
\* it runs.
TypeOK ==
  /\ house \in [Fields -> Values \cup {Unknown}]
  /\ enabled \subseteq Rules
  /\ turn \in 0 .. 2 * N
  /\ rule \in [Rules -> InRAM]
  /\ held \in [Rules -> Nat \cup {Never}]
  /\ starts \in [Rules -> [1..Remembered -> 0..Window + 1]]
  /\ acted \subseteq Rules
  /\ \A r \in Rules :
       /\ rule[r].since <= Def[r].for /\ held[r] <= Def[r].for
       /\ rule[r].age <= Def[r].cooldown
       /\ rule[r].running =>
            LET steps == Steps(r, rule[r].inElse)
            IN  rule[r].step \in DOMAIN steps /\ IsWait(steps[rule[r].step])

\* Evaluate starts the actions of r, or its else branch.
Starts(r, inElse) ==
  /\ Evaluate /\ turn = N + r
  /\ starts'[r] # starts[r]
  /\ Matches(r) = ~inElse

\* "A rule cannot loop": whatever the rules do to each other, none starts more
\* than twice its allowance in any window, not only in those the guard happens
\* to count.  Testing a rule while it sleeps can add one allowance more.
RateBounded ==
  \A r \in Rules :
    LET most == (IF r \in Tested THEN 3 ELSE 2) * MaxFires
    IN  starts[r][most + 1] > Window

\* "The conditions have to hold, not merely occur": a rule fires only when each
\* of the last evaluations, those it slept or ran through included, found them
\* true.  (A test can leave a rule with an episode that is long over.)
HeldLongEnough ==
  [][\A r \in Rules \ Tested : Starts(r, FALSE) => held'[r] >= Def[r].for]_vars

\* "If the rule actually did something on the way in": the else branch undoes
\* only what the actions did.
ElseUndoes == [][\A r \in Rules : Starts(r, TRUE) => r \in acted]_vars

\* Once nobody touches the rules, one whose conditions stay true fires, whatever
\* sleep, cooldown or sequence it is in when they come true, or the guard stops it
\* as it does; unless it still counts as fired from the last time it looked at
\* them (firedThisEpisode), which is what FiresAgain is about.
RuleFires ==
  <>[][Quiet]_vars =>
    \A r \in Rules :
      (r \in enabled /\ Matches(r) /\ ~rule[r].fired)
        ~> (rule[r].fired \/ ~Matches(r) \/ r \notin enabled)

\* The actions of r have just been started, in this second.
JustStarted(r) == r \in acted /\ starts[r][1] = 0

\* A rule "will fire again next time the conditions go from false to true"
\* (docs/09-troubleshooting.md): once nobody touches the rules and while the guard
\* leaves it alone, one whose conditions an evaluation finds false, and which come
\* true for good later, starts its actions then.
FiresAgain ==
  <>[][Quiet]_vars =>
    \A r \in Rules \ Tested :
      [](rule[r].asleep = Never) =>
        []((held[r] = Never /\ <>[](r \in enabled /\ Matches(r))) => <>JustStarted(r))

\* And every sequence ends, however long its waits.
SequencesEnd ==
  <>[][Quiet]_vars => \A r \in Rules : rule[r].running ~> ~rule[r].running
============================================================================
