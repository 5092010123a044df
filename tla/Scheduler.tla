------------------------------ MODULE Scheduler ------------------------------
(***************************************************************************)
(* app/Scheduler.cpp: daily rules and countdowns, their file, and the page *)
(* that posts the whole list as it read it, with a change.                 *)
(***************************************************************************)
EXTENDS Clock, FiniteSets

CONSTANTS
  Rule,        \* the identifiers of rules
  MaxRules,    \* kMaxRules
  Absent,      \* the place of a rule that is not in a list
  Damaged      \* a file cut off while it was written

ASSUME PlaceAssumption ==
  LET AnyItem == [kind : {"daily", "timer"}, on : BOOLEAN, at : Nat, last : Nat]
  IN  Absent \notin AnyItem /\ Damaged \notin [Rule -> AnyItem \cup {Absent}]

VARIABLES
  rules,      \* rules_
  file,       \* /schedules.json: a list, or Damaged
  page,       \* the list as a page last read it
  scheduling,    \* settings.schedule.enabled
  spent       \* history: what has rung, and should not ring again:
              \* <<r, "timer", t>> for a countdown to t, <<r, "daily", d>> for a
              \* rule on day d

schedule == <<rules, file, page, scheduling, spent>>

\* at: the minute of a daily rule, or when a countdown ends, 0 once it has.
\* last: lastFiredDay, 0 when it has not fired.
Item == [kind : {"daily", "timer"}, on : BOOLEAN, at : 0..Horizon + 1,
         last : 0..Day(Horizon)]
List == [Rule -> Item \cup {Absent}]
NoRules == [r \in Rule |-> Absent]

SchedulerOK ==
  /\ rules \in List /\ page \in List
  /\ file \in List \cup {Damaged}
  /\ scheduling \in BOOLEAN
  /\ spent \subseteq Rule \X {"daily", "timer"} \X (0..Horizon + 1)

SchedulerInit ==
  /\ rules = NoRules /\ file = NoRules /\ page = NoRules
  /\ scheduling = TRUE /\ spent = {}

Present(list) == {r \in Rule : list[r] # Absent}

\* toJson: what the file and the page get to know.
Shown(list) ==
  [r \in Rule |->
     IF list[r] = Absent THEN Absent ELSE [list[r] EXCEPT !.last = 0]]

Daily(m) == [kind |-> "daily", on |-> TRUE, at |-> m, last |-> 0]
Countdown(t) == [kind |-> "timer", on |-> TRUE, at |-> t, last |-> 0]

----------------------------------------------------------------------------
(* The loop.                                                               *)

\* Mutant: only at the minute itself.
OverJust(r) ==
  /\ r \in Present(rules) /\ rules[r].kind = "timer"
  /\ rules[r].on /\ rules[r].at # 0 /\ now = rules[r].at

\* A countdown that is over, however long ago.
Over(r) ==
  /\ r \in Present(rules) /\ rules[r].kind = "timer"
  /\ rules[r].on /\ rules[r].at # 0 /\ now >= rules[r].at

\* A daily rule in its minute.
Striking(r) ==
  /\ r \in Present(rules) /\ rules[r].kind = "daily"
  /\ rules[r].on /\ rules[r].at = Minute(now) /\ rules[r].last # Day(now)

Working == known /\ scheduling

\* A countdown fires, is done, and the list is saved.
Ring(r) ==
  /\ Working /\ Over(r)
  /\ rules' = [rules EXCEPT ![r].on = FALSE, ![r].at = 0]
  /\ file' = Shown(rules')
  /\ spent' = spent \cup {<<r, "timer", rules[r].at>>}
  /\ UNCHANGED <<page, scheduling>>

\* Mutant: the day is not noted.
StrikeOn(r) ==
  /\ Working /\ Striking(r)
  /\ spent' = spent \cup {<<r, "daily", Day(now)>>}
  /\ UNCHANGED <<rules, file, page, scheduling>>

\* A daily rule fires, and remembers the day until the list is replaced.
Strike(r) ==
  /\ Working /\ Striking(r)
  /\ rules' = [rules EXCEPT ![r].last = Day(now)]
  /\ spent' = spent \cup {<<r, "daily", Day(now)>>}
  /\ UNCHANGED <<file, page, scheduling>>

----------------------------------------------------------------------------
(* The page.                                                               *)

\* handleSchedulesGet.
ReadSchedules == page' = Shown(rules) /\ UNCHANGED <<rules, file, scheduling, spent>>

\* What a page makes of the list it has read.
Edited ==
  {page} \cup
  {[page EXCEPT ![r] = item] : r \in Rule,
     item \in {Absent, Countdown(now + 1), Daily(0)}}

\* What should still not ring once a list is in force: the countdowns that
\* have, unless a page brings them back.
SpentUnder(list) ==
  {s \in spent : s[2] = "timer" /\ list[s[1]] # Countdown(s[3])}

\* handleSchedulesSet: the whole list is replaced, and saved.
PostSchedules(list) ==
  /\ Cardinality(Present(list)) <= MaxRules
  /\ rules' = list /\ file' = Shown(list) /\ page' = list
  /\ spent' = SpentUnder(list)
  /\ UNCHANGED scheduling

\* settings.schedule.enabled.
Allow == scheduling' = ~scheduling /\ UNCHANGED <<rules, file, page, spent>>

----------------------------------------------------------------------------
(* Starts.                                                                 *)

\* load.
Read(f) == IF f = Damaged THEN NoRules ELSE f

BootScheduler(f) ==
  /\ rules' = Read(f) /\ file' = f
  /\ spent' = {s \in spent : s[2] = "timer"}
  /\ UNCHANGED <<page, scheduling>>

CutSchedule == BootScheduler(file)

\* The power fails while save is writing.
CutSavingSchedule ==
  /\ \/ \E r \in Rule : Working /\ Over(r)
     \/ \E list \in Edited : Cardinality(Present(list)) <= MaxRules
  /\ BootScheduler(Damaged)

\* The power fails once a countdown has fired and before it is saved as done.
CutRinging(r) == Working /\ Over(r) /\ BootScheduler(file)

RingsOrStrikes(r) == (Ring(r) \/ Strike(r)) /\ UNCHANGED clock

ScheduleNext ==
  \/ \E r \in Rule : RingsOrStrikes(r)
  \/ /\ ReadSchedules \/ Allow \/ \E list \in Edited : PostSchedules(list)
     /\ UNCHANGED clock
  \/ (Elapse \/ SetTime) /\ UNCHANGED schedule
  \/ /\ CutSchedule \/ CutSavingSchedule \/ \E r \in Rule : CutRinging(r)
     /\ BootClock

----------------------------------------------------------------------------
(* Properties.                                                             *)

\* Nothing that has rung is ever due again: no countdown, unless the page brings
\* it back or a cut came before its ringing was saved, and no daily rule on its
\* day, unless the list is replaced or read again (Scheduler::loop).
NoneTwice ==
  \A r \in Rule :
    /\ Over(r) => <<r, "timer", rules[r].at>> \notin spent
    /\ Striking(r) => <<r, "daily", Day(now)>> \notin spent

\* The file is what the next start needs, at any moment it may come, save for
\* one that a cut damaged, and then there is nothing in force it lacks.
FileHasSchedule ==
  IF file = Damaged THEN rules = NoRules ELSE file = Shown(rules)

\* A countdown that is over is not left behind, however late the loop or the
\* clock is.
Behind(r) ==
  /\ Working /\ r \in Present(rules)
  /\ rules[r].kind = "timer" /\ rules[r].on /\ rules[r].at \in 1..now

CountdownRings == \A r \in Rule : []<>~Behind(r)
=============================================================================
