---------------------------- MODULE ClockProofs ----------------------------
(***************************************************************************)
(* Proofs about Scheduler and Stats, the two that live by the clock: the   *)
(* facts about their steps from which module HouseholdProofs concludes     *)
(* that nothing rings twice, that the file has what is in force and that   *)
(* what is counted is what happened.  For any rules, any length of the     *)
(* day, any save interval and any bounds.                                  *)
(***************************************************************************)
EXTENDS Scheduler, Stats, TLAPS

----------------------------------------------------------------------------
(* The schedules.                                                          *)

AnyItem == [kind : {"daily", "timer"}, on : BOOLEAN, at : Nat, last : Nat]
AnyList == [Rule -> AnyItem \cup {Absent}]

\* A countdown that is still to ring is not among what has rung.
TimersUnspent ==
  \A r \in Rule :
    /\ rules[r] # Absent /\ rules[r].kind = "timer"
    /\ rules[r].on /\ rules[r].at # 0
    => <<r, "timer", rules[r].at>> \notin spent

\* A daily rule that has rung today is marked with the day.
StrikesMarked ==
  \A r \in Rule : \A d :
    <<r, "daily", d>> \in spent =>
      /\ d \in Nat /\ d <= Day(now)
      /\ d = Day(now) /\ rules[r] # Absent => rules[r].last = d

\* The inductive invariant.
ScheduleInv ==
  /\ now \in Nat
  /\ rules \in AnyList /\ page \in AnyList /\ page = Shown(page)
  /\ FileHasSchedule /\ TimersUnspent /\ StrikesMarked

----------------------------------------------------------------------------
\* The day never goes back, and numbers no more days than there were minutes.
LEMMA DayGoesOn ==
  ASSUME NEW t \in Nat, NEW u \in Nat, t <= u
  PROVE  Day(t) \in Nat /\ Day(u) \in Nat /\ Day(t) <= Day(u) /\ Day(t) <= t + 1
<1> DEFINE q == t \div DayLength
           p == u \div DayLength
<1>1. DayLength \in Nat /\ DayLength > 0
  BY ClockAssumption
<1>2. /\ q \in Nat /\ p \in Nat
      /\ DayLength * q <= t /\ t < DayLength * (q + 1)
      /\ DayLength * p <= u /\ u < DayLength * (p + 1)
  BY <1>1
<1> HIDE DEF q, p
<1>3. q <= p
  <2>1. SUFFICES ASSUME p + 1 <= q PROVE FALSE
    BY <1>2
  <2>2. DayLength * (p + 1) <= DayLength * q
    BY <1>1, <1>2, <2>1
  <2>3. DayLength * (p + 1) \in Nat /\ DayLength * q \in Nat
    BY <1>1, <1>2
  <2> QED BY <1>2, <2>2, <2>3
<1>4. q <= t
  <2>1. q <= DayLength * q /\ DayLength * q \in Nat
    BY <1>1, <1>2
  <2> QED BY <1>2, <2>1
<1>5. Day(t) = 1 + q /\ Day(u) = 1 + p
  BY DEF Day, q, p
<1> QED BY <1>2, <1>3, <1>4, <1>5

\* What is shown of a list lacks the days, and nothing else.
LEMMA ShownList ==
  ASSUME NEW list \in AnyList
  PROVE  /\ Shown(list) \in AnyList /\ Shown(Shown(list)) = Shown(list)
         /\ \A r \in Rule :
              /\ Shown(list)[r] = Absent <=> list[r] = Absent
              /\ list[r] # Absent =>
                   /\ Shown(list)[r].kind = list[r].kind
                   /\ Shown(list)[r].on = list[r].on
                   /\ Shown(list)[r].at = list[r].at
                   /\ Shown(list)[r].last = 0
<1> USE PlaceAssumption DEF PlaceAssumption, AnyList, AnyItem
<1>1. ASSUME NEW r \in Rule, list[r] # Absent
      PROVE  /\ Shown(list)[r] \in AnyItem /\ Shown(list)[r] # Absent
             /\ Shown(list)[r].kind = list[r].kind
             /\ Shown(list)[r].on = list[r].on
             /\ Shown(list)[r].at = list[r].at
             /\ Shown(list)[r].last = 0
  <2>1. Shown(list)[r] = [list[r] EXCEPT !.last = 0] /\ list[r] \in AnyItem
    BY <1>1 DEF Shown
  <2> QED BY <2>1
<1>2. \A r \in Rule : list[r] = Absent => Shown(list)[r] = Absent
  BY DEF Shown
<1>3. Shown(list) \in AnyList
  <2>1. \A r \in Rule : Shown(list)[r] \in AnyItem \cup {Absent}
    BY <1>1, <1>2
  <2>2. Shown(list) = [r \in Rule |-> Shown(list)[r]]
    BY DEF Shown
  <2> QED BY <2>1, <2>2
<1>4. ASSUME NEW r \in Rule
      PROVE  Shown(Shown(list))[r] = Shown(list)[r]
  <2>1. CASE list[r] = Absent
    BY <1>2, <2>1 DEF Shown
  <2>2. CASE list[r] # Absent
    <3>1. Shown(Shown(list))[r] = [Shown(list)[r] EXCEPT !.last = 0]
      BY <1>1, <2>2 DEF Shown
    <3>2. [Shown(list)[r] EXCEPT !.last = 0] = Shown(list)[r]
      BY <1>1, <2>2
    <3> QED BY <3>1, <3>2
  <2> QED BY <2>1, <2>2
<1>5. Shown(Shown(list)) = Shown(list)
  BY <1>4 DEF Shown
<1> QED BY <1>1, <1>2, <1>3, <1>5

LEMMA NoneShown == NoRules \in AnyList /\ Shown(NoRules) = NoRules
BY DEF NoRules, AnyList, Shown

LEMMA ScheduleInvInit == ClockInit /\ SchedulerInit => ScheduleInv
<1> SUFFICES ASSUME ClockInit, SchedulerInit PROVE ScheduleInv
  OBVIOUS
<1>1. now = 1 /\ rules = NoRules /\ file = NoRules /\ page = NoRules /\ spent = {}
  BY DEF ClockInit, SchedulerInit
<1>2. NoRules # Damaged
  BY NoneShown, PlaceAssumption DEF PlaceAssumption, AnyList, AnyItem
<1>3. FileHasSchedule
  BY <1>1, <1>2, NoneShown DEF FileHasSchedule
<1>4. TimersUnspent /\ StrikesMarked
  BY <1>1 DEF TimersUnspent, StrikesMarked
<1> QED BY <1>1, <1>3, <1>4, NoneShown DEF ScheduleInv

----------------------------------------------------------------------------
LEMMA RingStep ==
  ASSUME ScheduleInv, NEW r \in Rule, Ring(r), UNCHANGED clock
  PROVE  ScheduleInv'
<1> USE PlaceAssumption DEF PlaceAssumption, AnyItem
<1>1. /\ rules[r] \in AnyItem /\ rules[r].kind = "timer"
      /\ rules' = [rules EXCEPT ![r].on = FALSE, ![r].at = 0]
      /\ file' = Shown(rules')
      /\ spent' = spent \cup {<<r, "timer", rules[r].at>>}
      /\ page' = page /\ now' = now
  BY DEF ScheduleInv, Ring, Over, Present, AnyList, clock
<1>2. rules' = [rules EXCEPT ![r] = [@ EXCEPT !.on = FALSE, !.at = 0]]
  BY <1>1 DEF ScheduleInv, AnyList
<1>3. /\ rules'[r] \in AnyItem /\ rules'[r] # Absent
      /\ rules'[r].on = FALSE /\ rules'[r].last = rules[r].last
      /\ \A q \in Rule \ {r} : rules'[q] = rules[q]
      /\ rules' \in AnyList
  <2> DEFINE rung == [rules[r] EXCEPT !.on = FALSE, !.at = 0]
  <2>1. rung \in AnyItem /\ rung.on = FALSE /\ rung.last = rules[r].last
    BY <1>1
  <2>2. rules' = [rules EXCEPT ![r] = rung] /\ rules \in AnyList
    BY <1>2 DEF ScheduleInv
  <2> HIDE DEF rung
  <2>3. rules'[r] = rung /\ \A q \in Rule \ {r} : rules'[q] = rules[q]
    BY <2>2 DEF AnyList
  <2>4. rules' \in AnyList
    BY <2>1, <2>2 DEF AnyList
  <2> QED BY <2>1, <2>3, <2>4
<1>4. FileHasSchedule'
  <2>1. Shown(rules') \in AnyList
    BY <1>3, ShownList
  <2> QED BY <1>1, <2>1 DEF FileHasSchedule, AnyList
<1>5. TimersUnspent'
  <2> SUFFICES ASSUME NEW q \in Rule, rules'[q] # Absent, rules'[q].kind = "timer",
                      rules'[q].on, rules'[q].at # 0
               PROVE  <<q, "timer", rules'[q].at>> \notin spent'
    BY DEF TimersUnspent
  <2>1. q # r
    BY <1>3
  <2>2. <<q, "timer", rules[q].at>> \notin spent
    BY <1>3, <2>1 DEF ScheduleInv, TimersUnspent
  <2>3. rules'[q].at = rules[q].at /\ <<q, "timer", rules[q].at>> # <<r, "timer", rules[r].at>>
    BY <1>3, <2>1
  <2>4. spent' = spent \cup {<<r, "timer", rules[r].at>>}
    BY <1>1
  <2> QED BY <2>2, <2>3, <2>4
<1>6. StrikesMarked'
  <2> SUFFICES ASSUME NEW q \in Rule, NEW d, <<q, "daily", d>> \in spent'
               PROVE  /\ d \in Nat /\ d <= Day(now')
                      /\ d = Day(now') /\ rules'[q] # Absent => rules'[q].last = d
    BY DEF StrikesMarked
  <2>1. <<q, "daily", d>> \in spent
    BY <1>1
  <2>2. rules'[q] # Absent => rules[q] # Absent /\ rules'[q].last = rules[q].last
    BY <1>1, <1>3
  <2> QED BY <1>1, <2>1, <2>2 DEF ScheduleInv, StrikesMarked
<1> QED BY <1>1, <1>3, <1>4, <1>5, <1>6 DEF ScheduleInv

LEMMA StrikeStep ==
  ASSUME ScheduleInv, NEW r \in Rule, Strike(r), UNCHANGED clock
  PROVE  ScheduleInv'
<1> USE PlaceAssumption DEF PlaceAssumption, AnyItem
<1>1. /\ rules[r] \in AnyItem /\ rules[r] # Absent /\ rules[r].kind = "daily"
      /\ rules' = [rules EXCEPT ![r].last = Day(now)]
      /\ spent' = spent \cup {<<r, "daily", Day(now)>>}
      /\ file' = file /\ page' = page /\ now' = now
  BY DEF ScheduleInv, Strike, Striking, Present, AnyList, clock
<1>2. Day(now) \in Nat
  BY DayGoesOn DEF ScheduleInv
<1>3. rules' = [rules EXCEPT ![r] = [@ EXCEPT !.last = Day(now)]]
  BY <1>1 DEF ScheduleInv, AnyList
<1>4. /\ rules'[r] \in AnyItem /\ rules'[r] # Absent
      /\ rules'[r].kind = "daily" /\ rules'[r].last = Day(now)
      /\ \A q \in Rule \ {r} : rules'[q] = rules[q]
      /\ rules' \in AnyList
  BY <1>1, <1>2, <1>3 DEF ScheduleInv, AnyList
<1>5. Shown(rules') = Shown(rules)
  <2>1. [rules'[r] EXCEPT !.last = 0] = [rules[r] EXCEPT !.last = 0]
    BY <1>1, <1>3 DEF ScheduleInv, AnyList
  <2> QED BY <1>1, <1>4, <2>1 DEF Shown
<1>6. file # Damaged /\ file = Shown(rules)
  <2>1. rules # NoRules
    BY <1>1 DEF NoRules
  <2> QED BY <2>1 DEF ScheduleInv, FileHasSchedule
<1>7. FileHasSchedule'
  BY <1>1, <1>5, <1>6 DEF FileHasSchedule
<1>8. TimersUnspent'
  <2> SUFFICES ASSUME NEW q \in Rule, rules'[q] # Absent, rules'[q].kind = "timer",
                      rules'[q].on, rules'[q].at # 0
               PROVE  <<q, "timer", rules'[q].at>> \notin spent'
    BY DEF TimersUnspent
  <2>1. q # r
    BY <1>4
  <2>2. <<q, "timer", rules[q].at>> \notin spent
    BY <1>4, <2>1 DEF ScheduleInv, TimersUnspent
  <2> QED BY <1>1, <1>4, <2>1, <2>2
<1>9. StrikesMarked'
  <2> SUFFICES ASSUME NEW q \in Rule, NEW d, <<q, "daily", d>> \in spent'
               PROVE  /\ d \in Nat /\ d <= Day(now')
                      /\ d = Day(now') /\ rules'[q] # Absent => rules'[q].last = d
    BY DEF StrikesMarked
  <2>1. CASE <<q, "daily", d>> \in spent
    BY <1>1, <1>4, <2>1 DEF ScheduleInv, StrikesMarked
  <2>2. CASE <<q, "daily", d>> = <<r, "daily", Day(now)>>
    BY <1>1, <1>2, <1>4, <2>2
  <2> QED BY <1>1, <2>1, <2>2
<1> QED BY <1>1, <1>4, <1>7, <1>8, <1>9 DEF ScheduleInv

LEMMA PostStep ==
  ASSUME ScheduleInv, NEW list \in Edited, PostSchedules(list), UNCHANGED clock
  PROVE  ScheduleInv'
<1> USE PlaceAssumption DEF PlaceAssumption, AnyItem
<1>1. /\ rules' = list /\ file' = Shown(list) /\ page' = list /\ now' = now
      /\ spent' = {s \in spent : s[2] = "timer" /\ list[s[1]] # Countdown(s[3])}
  BY DEF PostSchedules, SpentUnder, clock
<1>2. /\ page \in AnyList
      /\ \A q \in Rule : page[q] # Absent => page[q].last = 0
  BY ShownList DEF ScheduleInv
<1>3. /\ list \in AnyList
      /\ \A q \in Rule : list[q] # Absent => list[q].last = 0
  <2>1. CASE list = page
    BY <1>2, <2>1
  <2>2. ASSUME NEW r \in Rule, NEW item \in {Absent, Countdown(now + 1), Daily(0)},
               list = [page EXCEPT ![r] = item]
        PROVE  /\ list \in AnyList
               /\ \A q \in Rule : list[q] # Absent => list[q].last = 0
    <3>1. item \in AnyItem \cup {Absent} /\ (item # Absent => item.last = 0)
      <4>1. now + 1 \in Nat
        BY DEF ScheduleInv
      <4>2. CASE item = Countdown(now + 1)
        BY <4>1, <4>2 DEF Countdown
      <4>3. CASE item = Daily(0)
        BY <4>3 DEF Daily
      <4> QED BY <4>2, <4>3
    <3> QED BY <1>2, <2>2, <3>1 DEF AnyList
  <2> QED BY <2>1, <2>2 DEF Edited
<1>4. Shown(list) \in AnyList
  BY <1>3, ShownList
<1>5. Shown(list) = list
  <2>1. \A q \in Rule : list[q] # Absent => [list[q] EXCEPT !.last = 0] = list[q]
    BY <1>3 DEF AnyList
  <2>2. \A q \in Rule : Shown(list)[q] = list[q]
    BY <2>1 DEF Shown
  <2> QED BY <1>3, <2>2 DEF Shown, AnyList
<1>6. FileHasSchedule'
  BY <1>1, <1>4 DEF FileHasSchedule, AnyList
<1>7. TimersUnspent'
  <2> SUFFICES ASSUME NEW q \in Rule, list[q] # Absent, list[q].kind = "timer",
                      list[q].on, <<q, "timer", list[q].at>> \in spent'
               PROVE  FALSE
    BY <1>1 DEF TimersUnspent
  <2>1. list[q] # Countdown(list[q].at)
    BY <1>1
  <2>2. list[q] \in AnyItem /\ list[q].last = 0 /\ list[q].on = TRUE
    BY <1>3 DEF AnyList
  <2>3. list[q] = [kind |-> "timer", on |-> TRUE, at |-> list[q].at, last |-> 0]
    BY <2>2
  <2> QED BY <2>1, <2>3 DEF Countdown
<1>8. StrikesMarked'
  BY <1>1 DEF StrikesMarked
<1> QED BY <1>1, <1>3, <1>5, <1>6, <1>7, <1>8 DEF ScheduleInv

LEMMA BootStep ==
  ASSUME ScheduleInv, NEW f \in {file, Damaged}, BootScheduler(f), now' = now
  PROVE  ScheduleInv'
<1>1. /\ rules' = Read(f) /\ file' = f /\ page' = page
      /\ spent' = {s \in spent : s[2] = "timer"}
  BY DEF BootScheduler
<1>2. StrikesMarked'
  BY <1>1 DEF StrikesMarked
<1>3. CASE f = Damaged
  <2>1. rules' = NoRules
    BY <1>1, <1>3 DEF Read
  <2>2. FileHasSchedule' /\ TimersUnspent'
    BY <1>1, <1>3, <2>1 DEF FileHasSchedule, TimersUnspent, NoRules
  <2> QED BY <1>1, <1>2, <2>1, <2>2, NoneShown DEF ScheduleInv
<1>4. CASE f # Damaged
  <2>1. f = Shown(rules) /\ rules' = Shown(rules) /\ rules \in AnyList
    BY <1>1, <1>4 DEF Read, ScheduleInv, FileHasSchedule
  <2>2. rules' \in AnyList /\ FileHasSchedule'
    BY <1>1, <1>4, <2>1, ShownList DEF FileHasSchedule
  <2>3. TimersUnspent'
    BY <1>1, <2>1, ShownList DEF TimersUnspent, ScheduleInv
  <2> QED BY <1>1, <1>2, <2>2, <2>3 DEF ScheduleInv
<1> QED BY <1>3, <1>4

LEMMA ElapseStep ==
  ASSUME ScheduleInv, Elapse, UNCHANGED schedule
  PROVE  ScheduleInv'
<1>1. now \in Nat /\ now' = now + 1
      /\ rules' = rules /\ file' = file /\ page' = page /\ spent' = spent
  BY DEF Elapse, schedule, ScheduleInv
<1>2. Day(now) \in Nat /\ Day(now') \in Nat /\ Day(now) <= Day(now')
  BY <1>1, DayGoesOn
<1>3. StrikesMarked'
  <2> SUFFICES ASSUME NEW q \in Rule, NEW d, <<q, "daily", d>> \in spent
               PROVE  /\ d \in Nat /\ d <= Day(now')
                      /\ d = Day(now') /\ rules[q] # Absent => rules[q].last = d
    BY <1>1 DEF StrikesMarked
  <2>1. /\ d \in Nat /\ d <= Day(now)
        /\ d = Day(now) /\ rules[q] # Absent => rules[q].last = d
    BY DEF ScheduleInv, StrikesMarked
  <2> QED BY <1>2, <2>1
<1> QED BY <1>1, <1>3 DEF ScheduleInv, FileHasSchedule, TimersUnspent

LEMMA ScheduleStep == ScheduleInv /\ [ScheduleNext]_<<clock, schedule>> => ScheduleInv'
<1> SUFFICES ASSUME ScheduleInv, [ScheduleNext]_<<clock, schedule>>
             PROVE  ScheduleInv'
  OBVIOUS
<1>1. ASSUME NEW r \in Rule, RingsOrStrikes(r)
      PROVE  ScheduleInv'
  BY <1>1, RingStep, StrikeStep DEF RingsOrStrikes
<1>2. CASE (ReadSchedules \/ Allow) /\ UNCHANGED clock
  <2>1. /\ rules' = rules /\ file' = file /\ spent' = spent /\ now' = now
        /\ page' = Shown(rules) \/ page' = page
    BY <1>2 DEF ReadSchedules, Allow, clock
  <2>2. page' \in AnyList /\ page' = Shown(page')
    BY <2>1, ShownList DEF ScheduleInv
  <2> QED BY <2>1, <2>2
          DEF ScheduleInv, FileHasSchedule, TimersUnspent, StrikesMarked
<1>3. ASSUME NEW list \in Edited, PostSchedules(list), UNCHANGED clock
      PROVE  ScheduleInv'
  BY <1>3, PostStep
<1>4. CASE Elapse /\ UNCHANGED schedule
  BY <1>4, ElapseStep
<1>5. CASE SetTime /\ UNCHANGED schedule
  BY <1>5 DEF SetTime, schedule, ScheduleInv, FileHasSchedule, TimersUnspent,
              StrikesMarked
<1>6. CASE /\ CutSchedule \/ CutSavingSchedule \/ \E r \in Rule : CutRinging(r)
           /\ BootClock
  <2>1. now' = now
    BY <1>6 DEF BootClock
  <2>2. BootScheduler(file) \/ BootScheduler(Damaged)
    BY <1>6 DEF CutSchedule, CutSavingSchedule, CutRinging
  <2> QED BY <2>1, <2>2, BootStep
<1>7. CASE UNCHANGED <<clock, schedule>>
  BY <1>7 DEF clock, schedule, ScheduleInv, FileHasSchedule, TimersUnspent,
              StrikesMarked
<1> QED BY <1>1, <1>2, <1>3, <1>4, <1>5, <1>6, <1>7 DEF ScheduleNext

\* What else the clock does leaves the schedules right.
LEMMA ScheduleKept ==
  ASSUME ScheduleInv, UNCHANGED schedule, Elapse \/ now' = now
  PROVE  ScheduleInv'
<1>1. CASE Elapse
  BY <1>1, ElapseStep
<1>2. CASE now' = now
  BY <1>2 DEF schedule, ScheduleInv, FileHasSchedule, TimersUnspent, StrikesMarked
<1> QED BY <1>1, <1>2

\* What the variables hold.  An item is of its type with whatever day of the
\* explored ones it is marked.
ScheduleTypes == ClockOK /\ SchedulerOK

LEMMA DaysInRange ==
  ASSUME ClockOK
  PROVE  /\ now \in Nat /\ now \in 0..Horizon + 1 /\ now + 1 \in 0..Horizon + 1
         /\ Day(now) \in 0..Day(Horizon) /\ Day(now) \in 0..Horizon + 1
         /\ Day(Horizon) \in Nat /\ Horizon \in Nat
<1>1. Horizon \in Nat /\ now \in Nat /\ now >= 1 /\ now <= Horizon
  BY ClockAssumption DEF ClockOK
<1>2. /\ Day(now) \in Nat /\ Day(Horizon) \in Nat
      /\ Day(now) <= Day(Horizon) /\ Day(now) <= now + 1
  BY <1>1, DayGoesOn
<1> QED BY <1>1, <1>2

LEMMA ShownTypes ==
  ASSUME NEW list \in List, ClockOK
  PROVE  Shown(list) \in List
<1>1. \A r \in Rule : list[r] # Absent => list[r] \in Item
  BY DEF List
<1>2. \A r \in Rule : list[r] # Absent => [list[r] EXCEPT !.last = 0] \in Item
  BY <1>1, DaysInRange DEF Item
<1> QED BY <1>2 DEF Shown, List

LEMMA NoRulesType == NoRules \in List
BY DEF NoRules, List

LEMMA ScheduleTypesInit == ClockInit /\ SchedulerInit => ScheduleTypes
BY NoRulesType, ClockAssumption
   DEF ClockInit, SchedulerInit, ScheduleTypes, ClockOK, SchedulerOK

\* The clock's own steps.
LEMMA ClockStep ==
  ASSUME ClockOK, Elapse \/ SetTime \/ BootClock \/ UNCHANGED clock
  PROVE  ClockOK' /\ (Elapse \/ now' = now)
<1>1. Horizon \in Nat
  BY ClockAssumption
<1>2. CASE Elapse
  BY <1>1, <1>2 DEF Elapse, ClockOK
<1>3. CASE SetTime \/ BootClock \/ UNCHANGED clock
  BY <1>3 DEF SetTime, BootClock, clock, ClockOK
<1> QED BY <1>2, <1>3

LEMMA RingTypes ==
  ASSUME ScheduleTypes, NEW r \in Rule, RingsOrStrikes(r)
  PROVE  SchedulerOK'
<1>1. /\ rules \in List /\ page \in List /\ scheduling \in BOOLEAN
      /\ file \in List \cup {Damaged}
      /\ spent \subseteq Rule \X {"daily", "timer"} \X (0..Horizon + 1)
      /\ page' = page /\ scheduling' = scheduling
  BY DEF RingsOrStrikes, Ring, Strike, ScheduleTypes, SchedulerOK
<1>2. rules[r] \in Item
  BY <1>1 DEF RingsOrStrikes, Ring, Strike, Over, Striking, Present, List
<1>3. ClockOK
  BY DEF ScheduleTypes
<1>4. CASE Ring(r)
  <2>1. rules' = [rules EXCEPT ![r] = [@ EXCEPT !.on = FALSE, !.at = 0]]
    BY <1>1, <1>2, <1>4 DEF Ring, List, Item
  <2>2. [rules[r] EXCEPT !.on = FALSE, !.at = 0] \in Item
    <3>1. 0 \in 0..Horizon + 1
      BY <1>3, DaysInRange
    <3> QED BY <1>2, <3>1 DEF Item
  <2>3. rules' \in List
    BY <1>1, <2>1, <2>2 DEF List
  <2>4. Shown(rules') \in List
    BY <1>3, <2>3, ShownTypes
  <2>5. rules[r].at \in 0..Horizon + 1
    BY <1>2 DEF Item
  <2>6. spent' \subseteq Rule \X {"daily", "timer"} \X (0..Horizon + 1)
    BY <1>1, <1>4, <2>5 DEF Ring
  <2> QED BY <1>1, <1>4, <2>3, <2>4, <2>6 DEF Ring, SchedulerOK
<1>5. CASE Strike(r)
  <2>1. rules' = [rules EXCEPT ![r] = [@ EXCEPT !.last = Day(now)]]
    BY <1>1, <1>2, <1>5 DEF Strike, List, Item
  <2>2. [rules[r] EXCEPT !.last = Day(now)] \in Item
    BY <1>2, <1>3, DaysInRange DEF Item
  <2>3. rules' \in List
    BY <1>1, <2>1, <2>2 DEF List
  <2>4. spent' \subseteq Rule \X {"daily", "timer"} \X (0..Horizon + 1)
    BY <1>1, <1>3, <1>5, DaysInRange DEF Strike
  <2> QED BY <1>1, <1>5, <2>3, <2>4 DEF Strike, SchedulerOK
<1> QED BY <1>4, <1>5 DEF RingsOrStrikes

LEMMA PostTypes ==
  ASSUME ScheduleTypes, NEW list \in Edited, PostSchedules(list)
  PROVE  SchedulerOK'
<1>1. ClockOK /\ page \in List /\ scheduling \in BOOLEAN
      /\ spent \subseteq Rule \X {"daily", "timer"} \X (0..Horizon + 1)
  BY DEF ScheduleTypes, SchedulerOK
<1>2. Countdown(now + 1) \in Item /\ Daily(0) \in Item
  BY <1>1, DaysInRange DEF Countdown, Daily, Item
<1>3. list \in List
  BY <1>1, <1>2 DEF Edited, List
<1>4. Shown(list) \in List
  BY <1>1, <1>3, ShownTypes
<1>5. spent' \subseteq spent
  BY DEF PostSchedules, SpentUnder
<1> QED BY <1>1, <1>3, <1>4, <1>5 DEF PostSchedules, SchedulerOK

LEMMA ScheduleTypesStep ==
  ScheduleTypes /\ [ScheduleNext]_<<clock, schedule>> => ScheduleTypes'
<1> SUFFICES ASSUME ScheduleTypes, [ScheduleNext]_<<clock, schedule>>
             PROVE  ScheduleTypes'
  OBVIOUS
<1>0. ClockOK /\ SchedulerOK
  BY DEF ScheduleTypes
<1>1. ClockOK'
  <2>1. Elapse \/ SetTime \/ BootClock \/ UNCHANGED clock
    BY DEF ScheduleNext, RingsOrStrikes
  <2> QED BY <1>0, <2>1, ClockStep
<1>2. CASE \E r \in Rule : RingsOrStrikes(r)
  BY <1>1, <1>2, RingTypes DEF ScheduleTypes
<1>3. CASE ReadSchedules \/ Allow
  <2>1. Shown(rules) \in List
    BY <1>0, ShownTypes DEF SchedulerOK
  <2> QED BY <1>0, <1>1, <1>3, <2>1 DEF ReadSchedules, Allow, ScheduleTypes, SchedulerOK
<1>4. CASE \E list \in Edited : PostSchedules(list)
  BY <1>1, <1>4, PostTypes DEF ScheduleTypes
<1>5. CASE UNCHANGED schedule
  BY <1>0, <1>1, <1>5 DEF schedule, ScheduleTypes, SchedulerOK
<1>6. CASE CutSchedule \/ CutSavingSchedule \/ \E r \in Rule : CutRinging(r)
  <2>1. PICK f \in {file, Damaged} : BootScheduler(f)
    BY <1>6 DEF CutSchedule, CutSavingSchedule, CutRinging
  <2>2. rules' \in List /\ file' \in List \cup {Damaged}
    BY <1>0, <2>1, NoRulesType DEF BootScheduler, Read, SchedulerOK
  <2>3. spent' \subseteq spent
    BY <2>1 DEF BootScheduler
  <2> QED BY <1>0, <1>1, <2>1, <2>2, <2>3 DEF BootScheduler, ScheduleTypes, SchedulerOK
<1> QED BY <1>2, <1>3, <1>4, <1>5, <1>6 DEF ScheduleNext

----------------------------------------------------------------------------
(* The counters.                                                           *)

\* A run that was seen is of a unit that is on; only a cut hides one.
RunsAreSeen ==
  /\ ~running => ran = 0
  /\ running => powered
  /\ ~cut /\ powered => running

\* The days the device and its file have seen; without a cut the device knows the
\* time, and has noticed a new day before a minute of it is over.
DaysAreSeen ==
  /\ kept.stamp <= stamp /\ stamp <= Day(now)
  /\ ~cut => known
  /\ ~cut /\ stamp # Day(now) => onToday = 0

\* What the file says, if it was written.
FileIsTrue ==
  ~unwritten =>
    /\ kept.total <= onTime
    /\ kept.stamp = Day(now) => kept.today <= onToday + carried

\* The inductive invariant.
MeterInv ==
  RunsAreSeen /\ DaysAreSeen /\ FileIsTrue /\ Metered /\ TodayRight /\ RestIsKept

LEMMA MeterInvInit == ClockInit /\ StatsInit => MeterInv
<1> SUFFICES ASSUME ClockInit, StatsInit PROVE MeterInv
  OBVIOUS
<1>1. Day(now) \in Nat
  BY DayGoesOn DEF ClockInit
<1>2. ~cut /\ known /\ ~running /\ ~powered /\ ~unwritten
  BY Zenon DEF StatsInit, ClockInit
<1> QED
  BY <1>1, <1>2 DEF StatsInit, MeterInv, RunsAreSeen, DaysAreSeen, FileIsTrue, Metered,
     TodayRight, RestIsKept, Runtime, RuntimeToday, NoCounts

\* What a save makes of the counters it is given, once the file is written, and
\* when it could not be opened.
LEMMA SaveWritten ==
  ASSUME NEW t, NEW d, NEW n, NEW live, Save(t, d, n, live, TRUE)
  PROVE  /\ total' = t + live /\ today' = d + live /\ ran' = 0 /\ ~unwritten'
         /\ kept'.total = t + live /\ kept'.today = d + live /\ kept'.starts = n
<1>1. ~unwritten'
  BY Zenon DEF Save
<1>2. /\ kept' = [total |-> t + live, today |-> d + live, starts |-> n,
                  stamp |-> stamp]
      /\ total' = t + live /\ today' = d + live /\ ran' = 0
  BY DEF Save
<1> QED BY <1>1, <1>2

LEMMA SaveStamps ==
  ASSUME NEW t, NEW d, NEW n, NEW live, Save(t, d, n, live, TRUE)
  PROVE  kept'.stamp = stamp
<1>1. kept' = [total |-> t + live, today |-> d + live, starts |-> n, stamp |-> stamp]
  BY DEF Save
<1> QED BY <1>1

LEMMA SaveUnwritten ==
  ASSUME NEW t, NEW d, NEW n, NEW live, Save(t, d, n, live, FALSE)
  PROVE  total' = t /\ today' = d /\ ran' = live /\ unwritten' /\ kept' = kept
<1>1. unwritten'
  BY Zenon DEF Save
<1> QED BY <1>1 DEF Save

LEMMA DayNotZero == ASSUME NEW t \in Nat PROVE Day(t) # 0
<1>1. DayLength \in Nat /\ DayLength > 0
  BY ClockAssumption
<1>2. t \div DayLength \in Nat
  BY <1>1
<1> QED BY <1>2 DEF Day

\* The types the steps below rest on, before and after.
LEMMA CountTypes ==
  ASSUME StatsOK, ClockOK
  PROVE  /\ total \in Nat /\ today \in Nat /\ starts \in Nat /\ stamp \in Nat
         /\ ran \in Nat /\ onTime \in Nat /\ onCount \in Nat
         /\ onToday \in Nat /\ carried \in Nat
         /\ kept.total \in Nat /\ kept.today \in Nat
         /\ kept.starts \in Nat /\ kept.stamp \in Nat
         /\ Day(now) \in Nat /\ now \in Nat
BY DaysInRange DEF StatsOK, Counter

LEMMA MeterStep ==
  ASSUME StatsOK, ClockOK, MeterInv, [MeterNext]_<<clock, meter>>
  PROVE  MeterInv'
<1> USE DEF MeterInv, RunsAreSeen, DaysAreSeen, FileIsTrue, Metered, TodayRight,
            RestIsKept, Runtime, RuntimeToday
<1>0. /\ total \in Nat /\ today \in Nat /\ starts \in Nat /\ stamp \in Nat
      /\ ran \in Nat /\ onTime \in Nat /\ onCount \in Nat
      /\ onToday \in Nat /\ carried \in Nat
      /\ kept.total \in Nat /\ kept.today \in Nat
      /\ kept.starts \in Nat /\ kept.stamp \in Nat
      /\ Day(now) \in Nat /\ now \in Nat
  BY CountTypes
<1>1. CASE Started /\ UNCHANGED clock
  <2>1. /\ ~running /\ running' /\ powered' /\ ran' = 0 /\ starts' = starts + 1
        /\ onCount' = IF powered THEN onCount ELSE onCount + 1
        /\ UNCHANGED <<total, today, stamp, kept, unwritten, onTime, onToday, carried,
                       cut, now, known>>
    BY <1>1 DEF Started, clock
  <2>2. ~cut => ~powered
    BY <2>1
  <2> QED BY <1>0, <2>1, <2>2
<1>2. ASSUME Stopped(TRUE), UNCHANGED clock PROVE MeterInv'
  <2> DEFINE t == total + ran
             d == today + ran
  <2>1. /\ running /\ ~running' /\ ~powered'
        /\ UNCHANGED <<starts, stamp, onTime, onCount, onToday, carried, cut, now, known>>
        /\ Save(t, d, starts, 0, TRUE)
    BY <1>2 DEF Stopped, clock
  <2>2. /\ total' = t + 0 /\ today' = d + 0 /\ ran' = 0 /\ ~unwritten'
        /\ kept'.total = t + 0 /\ kept'.today = d + 0 /\ kept'.starts = starts
    BY <2>1, SaveWritten, Zenon
  <2>3. kept'.stamp = stamp
    BY <2>1, SaveStamps
  <2> QED BY <1>0, <2>1, <2>2, <2>3
<1>3. ASSUME Stopped(FALSE), UNCHANGED clock PROVE MeterInv'
  <2>1. /\ running /\ ~running' /\ ~powered'
        /\ UNCHANGED <<starts, stamp, onTime, onCount, onToday, carried, cut, now, known>>
        /\ Save((total + ran), (today + ran), starts, 0, FALSE)
    BY <1>3 DEF Stopped, clock
  <2>2. /\ total' = (total + ran) /\ today' = (today + ran) /\ ran' = 0 /\ unwritten'
        /\ kept' = kept
    BY <2>1, SaveUnwritten
  <2> QED BY <1>0, <2>1, <2>2
<1>4. ASSUME NEW ok \in BOOLEAN, SaveLoop(ok), UNCHANGED clock
      PROVE  /\ UNCHANGED <<starts, stamp, running, powered, onTime, onCount, onToday,
                            carried, cut, now, known>>
             /\ Save(total, today, starts, ran, ok)
  <2>1. (IF running THEN ran ELSE 0) = ran
    OBVIOUS
  <2> QED BY <1>4, <2>1 DEF SaveLoop, clock
<1>5. ASSUME SaveLoop(TRUE), UNCHANGED clock PROVE MeterInv'
  <2>1. /\ total' = total + ran /\ today' = today + ran /\ ran' = 0 /\ ~unwritten'
        /\ kept'.total = total + ran /\ kept'.today = today + ran
        /\ kept'.starts = starts
    BY <1>4, <1>5, SaveWritten
  <2>3. kept'.stamp = stamp
    BY <1>4, <1>5, SaveStamps
  <2>2. UNCHANGED <<starts, stamp, running, powered, onTime, onCount, onToday, carried,
                    cut, now, known>>
    BY <1>4, <1>5
  <2> QED BY <1>0, <2>1, <2>2, <2>3
<1>6. ASSUME SaveLoop(FALSE), UNCHANGED clock PROVE MeterInv'
  <2>1. /\ total' = total /\ today' = today /\ ran' = ran /\ unwritten'
        /\ kept' = kept
    BY <1>4, <1>6, SaveUnwritten
  <2>2. UNCHANGED <<starts, stamp, running, powered, onTime, onCount, onToday, carried,
                    cut, now, known>>
    BY <1>4, <1>6
  <2> QED BY <1>0, <2>1, <2>2
<1>7. ASSUME ResetStats(TRUE), UNCHANGED clock PROVE MeterInv'
  <2>1. /\ starts' = 0 /\ onTime' = 0 /\ onCount' = 0 /\ onToday' = 0 /\ carried' = 0
        /\ UNCHANGED <<stamp, running, powered, cut, now, known>>
        /\ Save(0, 0, 0, 0, TRUE)
    BY <1>7 DEF ResetStats, clock
  <2>2. /\ total' = 0 + 0 /\ today' = 0 + 0 /\ ran' = 0 /\ ~unwritten'
        /\ kept'.total = 0 + 0 /\ kept'.today = 0 + 0
        /\ kept'.starts = 0
    BY <2>1, SaveWritten
  <2>3. kept'.stamp = stamp
    BY <2>1, SaveStamps
  <2> QED BY <1>0, <2>1, <2>2, <2>3
<1>8. ASSUME ResetStats(FALSE), UNCHANGED clock PROVE MeterInv'
  <2>1. /\ starts' = 0 /\ onTime' = 0 /\ onCount' = 0 /\ onToday' = 0 /\ carried' = 0
        /\ UNCHANGED <<stamp, running, powered, cut, now, known>>
        /\ Save(0, 0, 0, 0, FALSE)
    BY <1>8 DEF ResetStats, clock
  <2>2. /\ total' = 0 /\ today' = 0 /\ ran' = 0 /\ unwritten'
        /\ kept' = kept
    BY <2>1, SaveUnwritten
  <2> QED BY <1>0, <2>1, <2>2
<1>9. CASE StoppedUnseen /\ UNCHANGED clock
  <2>1. /\ powered /\ ~running /\ ~powered'
        /\ UNCHANGED <<total, today, starts, stamp, running, ran, kept, unwritten,
                       onTime, onCount, onToday, carried, cut, now, known>>
    BY <1>9 DEF StoppedUnseen, clock
  <2> QED BY <1>0, <2>1
<1>10. CASE RollDay /\ UNCHANGED clock
  <2>1. /\ today' = 0 /\ carried' = ran /\ stamp' = Day(now) /\ stamp # Day(now)
        /\ UNCHANGED <<total, starts, running, ran, kept, unwritten, powered,
                       onTime, onCount, onToday, cut, now, known>>
    BY <1>10 DEF RollDay, DayDue, Today, clock
  <2> QED BY <1>0, <2>1
<1>11. CASE Elapse /\ ~DayDue /\ MeterRuns
  <2>1. /\ ran' = IF running THEN ran + 1 ELSE ran
        /\ onTime' = IF powered THEN onTime + 1 ELSE onTime
        /\ onToday' = IF Day(now') # Day(now) THEN 0
                      ELSE IF powered THEN onToday + 1 ELSE onToday
        /\ UNCHANGED <<total, today, starts, stamp, running, kept, unwritten, powered,
                       onCount, carried, cut, known>>
    BY <1>11 DEF MeterRuns, Elapse
  <2>2. Day(now') \in Nat /\ Day(now) <= Day(now')
    BY <1>0, <1>11, DayGoesOn DEF Elapse
  <2>3. known => stamp = Day(now)
    <3>1. Day(now) # 0
      BY <1>0, DayNotZero
    <3> QED BY <1>11, <3>1 DEF DayDue, Today
  <2> QED BY <1>0, <2>1, <2>2, <2>3
<1>12. CASE CutMeter /\ BootClock
  <2>1. /\ total' = kept.total /\ today' = kept.today /\ starts' = kept.starts
        /\ stamp' = kept.stamp
        /\ ~running' /\ ran' = 0 /\ ~unwritten' /\ cut' /\ kept' = kept
        /\ onTime' = IF unwritten THEN kept.total ELSE onTime
        /\ onToday' = IF unwritten THEN kept.today ELSE onToday
        /\ UNCHANGED <<powered, onCount, carried, now>>
    BY <1>12 DEF CutMeter, Reloaded, BootClock
  <2> QED BY <1>0, <2>1
<1>13. CASE CutSavingMeter /\ BootClock
  <2>1. /\ total' = 0 /\ today' = 0 /\ starts' = 0 /\ stamp' = 0
        /\ ~running' /\ ran' = 0 /\ ~unwritten' /\ cut'
        /\ kept'.total = 0 /\ kept'.today = 0 /\ kept'.starts = 0 /\ kept'.stamp = 0
        /\ UNCHANGED <<onTime, onToday, onCount, carried, now>>
    BY <1>13 DEF CutSavingMeter, Reloaded, NoCounts, BootClock
  <2> QED BY <1>0, <2>1
<1>14. CASE (SetTime \/ UNCHANGED clock) /\ UNCHANGED meter
  <2>1. /\ UNCHANGED <<total, today, starts, stamp, running, ran, kept, unwritten,
                       powered, onTime, onCount, onToday, carried, cut, now>>
        /\ known => known'
    BY <1>14 DEF meter, SetTime, clock
  <2> QED BY <1>0, <2>1
<1>15. ASSUME NEW ok \in BOOLEAN, Stopped(ok) \/ SaveLoop(ok) \/ ResetStats(ok),
              UNCHANGED clock
       PROVE  MeterInv'
  <2>1. CASE ok = TRUE
    BY <1>2, <1>5, <1>7, <1>15, <2>1
  <2>2. CASE ok = FALSE
    BY <1>3, <1>6, <1>8, <1>15, <2>2
  <2> QED BY <1>0, <2>1, <2>2
<1> QED
  <2> HIDE DEF MeterInv
  <2> QED BY <1>1, <1>9, <1>10, <1>11, <1>12, <1>13, <1>14, <1>15 DEF MeterNext

\* What the counters hold.
LEMMA StatsTypesInit == StatsInit => StatsOK
<1> SUFFICES ASSUME StatsInit PROVE StatsOK
  OBVIOUS
<1>1. /\ running \in BOOLEAN /\ unsaved \in BOOLEAN /\ unwritten \in BOOLEAN
      /\ powered \in BOOLEAN /\ cut \in BOOLEAN
  BY Zenon DEF StatsInit
<1>2. age \in 0..SaveInterval
  BY StatsAssumption DEF StatsInit, StatsAssumption
<1>3. kept \in Counter
  BY DEF StatsInit, NoCounts, Counter
<1> QED BY <1>1, <1>2, <1>3 DEF StatsInit, StatsOK

LEMMA SaveTypes ==
  ASSUME StatsOK, NEW t \in Nat, NEW d \in Nat, NEW n \in Nat, NEW live \in Nat,
         NEW ok \in BOOLEAN, Save(t, d, n, live, ok)
  PROVE  /\ total' \in Nat /\ today' \in Nat /\ ran' \in Nat /\ kept' \in Counter
         /\ unsaved' \in BOOLEAN /\ unwritten' \in BOOLEAN
         /\ age' \in 0..SaveInterval
<1>1. unsaved' \in BOOLEAN /\ unwritten' \in BOOLEAN
  BY Zenon DEF Save
<1>2. age' \in 0..SaveInterval
  BY StatsAssumption DEF Save, StatsAssumption
<1>3. kept' \in Counter
  BY DEF Save, StatsOK, Counter
<1> QED BY <1>1, <1>2, <1>3 DEF Save

LEMMA StatsTypesStep ==
  StatsOK /\ ClockOK /\ [MeterNext]_<<clock, meter>> => StatsOK' /\ ClockOK'
<1> SUFFICES ASSUME StatsOK, ClockOK, [MeterNext]_<<clock, meter>>
             PROVE  StatsOK' /\ ClockOK'
  OBVIOUS
<1>0. ClockOK'
  <2>1. Elapse \/ SetTime \/ BootClock \/ UNCHANGED clock
    BY DEF MeterNext
  <2> QED BY <2>1, ClockStep
<1>1. /\ running \in BOOLEAN /\ unsaved \in BOOLEAN /\ unwritten \in BOOLEAN
      /\ powered \in BOOLEAN /\ cut \in BOOLEAN
  BY Zenon DEF StatsOK
<1>2. SaveInterval \in Nat
  BY StatsAssumption DEF StatsAssumption
<1>3. CASE Started
  <2>1. powered' \in BOOLEAN /\ running' \in BOOLEAN /\ unsaved' \in BOOLEAN
        /\ unwritten' \in BOOLEAN /\ cut' \in BOOLEAN
    BY <1>1, <1>3, Zenon DEF Started
  <2> QED BY <1>0, <1>3, <2>1 DEF Started, StatsOK
<1>4. CASE StoppedUnseen
  <2>1. powered' \in BOOLEAN /\ running' \in BOOLEAN /\ unsaved' \in BOOLEAN
        /\ unwritten' \in BOOLEAN /\ cut' \in BOOLEAN
    BY <1>1, <1>4, Zenon DEF StoppedUnseen
  <2> QED BY <1>0, <1>4, <2>1 DEF StoppedUnseen, StatsOK
<1>5. CASE RollDay
  <2>1. powered' \in BOOLEAN /\ running' \in BOOLEAN /\ unsaved' \in BOOLEAN
        /\ unwritten' \in BOOLEAN /\ cut' \in BOOLEAN
    BY <1>1, <1>5, Zenon DEF RollDay
  <2>2. stamp' \in Nat
    BY <1>5, DaysInRange DEF RollDay, DayDue, Today
  <2> QED BY <1>0, <1>5, <2>1, <2>2 DEF RollDay, StatsOK
<1>6. ASSUME NEW ok \in BOOLEAN, Stopped(ok) \/ SaveLoop(ok) \/ ResetStats(ok)
      PROVE  StatsOK'
  <2>1. \E t \in Nat, d \in Nat, n \in Nat, live \in Nat : Save(t, d, n, live, ok)
    <3>1. /\ total \in Nat /\ today \in Nat /\ starts \in Nat /\ ran \in Nat
          /\ total + ran \in Nat /\ today + ran \in Nat /\ 0 \in Nat
          /\ (IF running THEN ran ELSE 0) \in Nat
      BY DEF StatsOK
    <3> QED BY <1>6, <3>1, Zenon DEF Stopped, SaveLoop, ResetStats
  <2>2. /\ total' \in Nat /\ today' \in Nat /\ ran' \in Nat /\ kept' \in Counter
        /\ unsaved' \in BOOLEAN /\ unwritten' \in BOOLEAN
        /\ age' \in 0..SaveInterval
    BY <2>1, SaveTypes
  <2>3. running' \in BOOLEAN /\ powered' \in BOOLEAN /\ cut' \in BOOLEAN
    BY <1>1, <1>6, Zenon DEF Stopped, SaveLoop, ResetStats
  <2>4. /\ starts' \in Nat /\ stamp' \in Nat /\ onTime' \in Nat /\ onCount' \in Nat
        /\ onToday' \in Nat /\ carried' \in Nat
    BY <1>6 DEF Stopped, SaveLoop, ResetStats, StatsOK
  <2> QED BY <2>2, <2>3, <2>4 DEF StatsOK
<1>7. CASE MeterRuns
  <2>1. powered' \in BOOLEAN /\ running' \in BOOLEAN /\ unsaved' \in BOOLEAN
        /\ unwritten' \in BOOLEAN /\ cut' \in BOOLEAN
    BY <1>1, <1>7, Zenon DEF MeterRuns
  <2> QED BY <1>0, <1>2, <1>7, <2>1 DEF MeterRuns, StatsOK
<1>8. CASE CutMeter \/ CutSavingMeter
  <2>1. powered' \in BOOLEAN /\ running' \in BOOLEAN /\ unsaved' \in BOOLEAN
        /\ unwritten' \in BOOLEAN /\ cut' \in BOOLEAN
    BY <1>1, <1>8, Zenon DEF CutMeter, CutSavingMeter, Reloaded
  <2>2. kept' \in Counter
    BY <1>8 DEF CutMeter, CutSavingMeter, Reloaded, NoCounts, StatsOK, Counter
  <2>3. total' \in Nat /\ today' \in Nat /\ starts' \in Nat /\ stamp' \in Nat
    BY <1>8, <2>2 DEF CutMeter, CutSavingMeter, Reloaded, Counter
  <2>4. ran' \in Nat /\ age' \in 0..SaveInterval
    BY <1>2, <1>8 DEF CutMeter, CutSavingMeter, Reloaded
  <2>5. kept.total \in Nat /\ kept.today \in Nat
    BY DEF StatsOK, Counter
  <2>6. /\ onTime' \in Nat /\ onCount' \in Nat /\ onToday' \in Nat
        /\ carried' \in Nat
    BY <1>8, <2>5 DEF CutMeter, CutSavingMeter, StatsOK
  <2> QED BY <1>0, <2>1, <2>2, <2>3, <2>4, <2>6 DEF StatsOK
<1>9. CASE UNCHANGED meter
  BY <1>0, <1>1, <1>9 DEF meter, StatsOK
<1> QED BY <1>0, <1>3, <1>4, <1>5, <1>6, <1>7, <1>8, <1>9 DEF MeterNext
=============================================================================
