-------------------------- MODULE AutomationsProofs --------------------------
(***************************************************************************)
(* Proofs about Automations: type correctness, that no rule starts more    *)
(* often than the runaway guard means to allow, and that hold times are    *)
(* kept, whatever the rules and whoever tests, saves or restarts them.     *)
(***************************************************************************)
EXTENDS Automations, WellFoundedInduction, TLAPS

----------------------------------------------------------------------------
(* Sequences of steps.                                                      *)

LEMMA LeastNumber ==
  ASSUME NEW T \in SUBSET Nat, T # {}
  PROVE  \E m \in T : \A k \in T : m <= k
<1>1. PICK m \in T : \A k \in T : <<k, m>> \notin OpToRel(<, Nat)
  BY NatLessThanWellFounded, WFMin
<1>2. \A k \in T : ~(k < m)
  BY <1>1 DEF OpToRel
<1> QED BY <1>2

\* Likewise among numbers that have a bound there is a greatest one.
LEMMA GreatestNumber ==
  ASSUME NEW b \in Nat, NEW T \in SUBSET (1..b), T # {}
  PROVE  \E m \in T : \A k \in T : k <= m
<1> DEFINE Gaps == {g \in Nat : b - g \in T}
<1>1. Gaps # {} /\ Gaps \in SUBSET Nat
  <2>1. PICK k \in T : TRUE
    OBVIOUS
  <2>2. b - k \in Nat /\ b - (b - k) = k
    BY <2>1
  <2> QED BY <2>1, <2>2
<1>2. PICK g \in Gaps : \A h \in Gaps : g <= h
  BY <1>1, LeastNumber
<1>3. ASSUME NEW k \in T PROVE k <= b - g
  <2>1. b - k \in Nat /\ b - (b - k) = k
    OBVIOUS
  <2>2. b - k \in Gaps
    BY <2>1
  <2> QED BY <1>2, <2>1, <2>2
<1> QED BY <1>2, <1>3

LEMMA RuleType ==
  ASSUME NEW r \in Rules
  PROVE  /\ r \in Nat /\ r >= 1 /\ r <= N /\ N \in Nat
         /\ Def[r].for \in Nat /\ Def[r].cooldown \in Nat
         /\ \A inElse \in BOOLEAN : Steps(r, inElse) \in Seq(Step)
BY RuleAssumption DEF IsRule, IsSteps, Steps

LEMMA SizeType == N \in Nat /\ N >= 1 /\ Rules = 1 .. N
BY RuleAssumption

LEMMA StepType ==
  ASSUME NEW x \in Step
  PROVE  /\ IsWait(x) => x.wait \in Nat \ {0}
         /\ ~IsWait(x) => x.field \in Fields /\ x.value \in Values
<1>1. CASE x \in [wait : Nat \ {0}]
  BY <1>1 DEF IsWait
<1>2. CASE x \in [field : Fields, value : Values]
  BY <1>2 DEF IsWait
<1> QED BY <1>1, <1>2 DEF Step

\* A sequence stops at a wait or behind its last step, with commands up to there.
LEMMA StopsThere ==
  ASSUME NEW steps \in Seq(Step), NEW from \in 1 .. Len(steps) + 1
  PROVE  LET stop == Stop(steps, from)
         IN  /\ stop \in from .. Len(steps) + 1
             /\ stop <= Len(steps) => IsWait(steps[stop])
             /\ \A j \in from .. stop - 1 : ~IsWait(steps[j])
<1> DEFINE Ends == {i \in from .. Len(steps) + 1 : i <= Len(steps) => IsWait(steps[i])}
           Good(i) == /\ i <= Len(steps) => IsWait(steps[i])
                      /\ \A j \in from .. i - 1 : ~IsWait(steps[j])
<1>1. Len(steps) \in Nat /\ Len(steps) + 1 \in Ends /\ Ends \in SUBSET Nat
  OBVIOUS
<1>2. PICK i \in Ends : \A k \in Ends : i <= k
  BY <1>1, LeastNumber
<1>3. ASSUME NEW j \in from .. i - 1 PROVE ~IsWait(steps[j])
  <2>1. j \in from .. Len(steps) + 1 /\ j < i
    BY <1>1, <1>2
  <2>2. j \notin Ends
    BY <1>2, <2>1
  <2> QED BY <2>1, <2>2
<1>4. i \in from .. Len(steps) + 1 /\ Good(i)
  BY <1>2, <1>3
<1> HIDE DEF Good
<1>5. Good(CHOOSE k \in from .. Len(steps) + 1 : Good(k))
      /\ (CHOOSE k \in from .. Len(steps) + 1 : Good(k)) \in from .. Len(steps) + 1
  BY <1>4
<1>6. Stop(steps, from) = CHOOSE k \in from .. Len(steps) + 1 : Good(k)
  BY DEF Stop, Good
<1> QED BY <1>5, <1>6 DEF Good

HouseType == house \in [Fields -> Values \cup {Unknown}]

\* Commands leave every field with a value it can have.
LEMMA CommandedType ==
  ASSUME HouseType, NEW steps \in Seq(Step), NEW done \in SUBSET (1 .. Len(steps)),
         \A i \in done : ~IsWait(steps[i])
  PROVE  Commanded(steps, done) \in [Fields -> Values \cup {Unknown}]
<1> SUFFICES ASSUME NEW f \in Fields
             PROVE  LET writes == {i \in done : steps[i].field = f}
                    IN  (IF writes = {} THEN house[f]
                         ELSE steps[CHOOSE i \in writes : \A j \in writes : j <= i].value)
                          \in Values \cup {Unknown}
  BY DEF Commanded
<1> DEFINE writes == {i \in done : steps[i].field = f}
           Last(i) == \A j \in writes : j <= i
<1>1. CASE writes = {}
  BY <1>1 DEF HouseType
<1>2. CASE writes # {}
  <2>1. Len(steps) \in Nat /\ writes \in SUBSET (1 .. Len(steps))
    <3>1. writes \subseteq done
      OBVIOUS
    <3> HIDE DEF writes
    <3> QED BY <3>1
  <2>2. \E i \in writes : Last(i)
    BY <1>2, <2>1, GreatestNumber
  <2>3. (CHOOSE i \in writes : Last(i)) \in writes
    <3> HIDE DEF Last, writes
    <3> QED BY <2>2
  <2>4. \A i \in writes : steps[i].value \in Values
    BY StepType
  <2> HIDE DEF writes
  <2>5. steps[CHOOSE i \in writes : Last(i)].value \in Values
    BY <2>3, <2>4
  <2> QED BY <1>2, <2>5 DEF writes
<1> QED BY <1>1, <1>2

----------------------------------------------------------------------------
(* The runaway guard.                                                       *)

(***************************************************************************)
(* T starts more than its allowance is what a rule can make while it is    *)
(* asleep: none, or, if somebody may test it, one allowance.  Below, w, f  *)
(* and a are a rule's window, fires and asleep, and ages its latest starts.*)
(***************************************************************************)
Spare(r) == IF r \in Tested THEN MaxFires ELSE 0

Spares == {0, MaxFires}
Ages == [1..Remembered -> 0..Window + 1]
Windows == Never .. Window
FireCounts == 0 .. MaxFires + 1
Sleeps == Never .. Suppression

Tripped(f) == f > MaxFires
\* The starts that the window in progress has counted.
InWindow(f) == IF Tripped(f) THEN MaxFires ELSE f

\* A start of that age was made before the sleep began that has `a' left.
BeforeSleep(a, age) == age > Window \/ age >= Suppression - a

Ordered(ages) == \A i, j \in 1..Remembered : i <= j => ages[i] <= ages[j]

\* The window counts every start made in it, but for the spare ones, and the
\* window before it counted at most the allowance.
WindowsCount(T, w, f, ages) ==
  /\ w = Never => ages[1] >= 1 /\ ages[T + MaxFires + 1] > Window
  /\ w # Never => /\ ages[InWindow(f) + T + 1] > w
                  /\ ages[InWindow(f) + T + MaxFires + 1] > Window

\* A sleep outlasts the window it began in.  Since it began nothing started but by
\* tests, in windows that counted all of them and did not trip.
SleepsOutlast(T, w, f, a, ages) ==
  a # Never =>
    /\ Tripped(f) => w # Never /\ w + a > Window /\ BeforeSleep(a, ages[1])
    /\ ~Tripped(f) /\ w = Never => BeforeSleep(a, ages[MaxFires + 1])
    /\ ~Tripped(f) /\ w # Never => /\ T = MaxFires
                                   /\ ages[f + 1] > w
                                   /\ BeforeSleep(a, ages[f + MaxFires + 1])

Paced(T, w, f, a, ages) ==
  /\ Ordered(ages)
  /\ WindowsCount(T, w, f, ages)
  /\ SleepsOutlast(T, w, f, a, ages)

LEMMA PaceTypes ==
  /\ MaxFires \in Nat /\ MaxFires >= 1 /\ Window \in Nat /\ Suppression \in Nat
  /\ Suppression > Window /\ Remembered = 3 * MaxFires + 1 /\ Never = -1
BY GuardAssumption DEF Remembered, Never

\* A rule as fromJson leaves it.
LEMMA FreshPaced ==
  ASSUME NEW T \in Spares
  PROVE  NoStarts \in Ages /\ Paced(T, Never, 0, Never, NoStarts)
BY PaceTypes DEF NoStarts, Ages, Spares, Paced, Ordered, WindowsCount, SleepsOutlast

\* A second later.
LEMMA TickPaced ==
  ASSUME NEW T \in Spares, NEW w \in Windows, NEW f \in FireCounts,
         NEW a \in Sleeps, NEW ages \in Ages, Paced(T, w, f, a, ages)
  PROVE  /\ SecondLater(ages) \in Ages
         /\ Paced(T, Older(w, Window), IF w = Window THEN 0 ELSE f,
                  IF a > 0 THEN a - 1 ELSE a, SecondLater(ages))
<1> DEFINE later == SecondLater(ages)
           v == Older(w, Window)
           g == IF w = Window THEN 0 ELSE f
           b == IF a > 0 THEN a - 1 ELSE a
<1>1. /\ later \in Ages
      /\ \A k \in 1..Remembered :
           later[k] = IF ages[k] > Window THEN ages[k] ELSE ages[k] + 1
  BY PaceTypes DEF SecondLater, Ages
<1>2. \A k \in 1..Remembered : ages[k] \in 0..Window + 1 /\ later[k] \in 0..Window + 1
  BY <1>1 DEF Ages
<1>3. v \in Windows /\ g \in FireCounts /\ b \in Sleeps
  BY PaceTypes DEF Older, Windows, FireCounts, Sleeps
<1> HIDE DEF later
<1>4. Ordered(later)
  BY <1>1, <1>2, PaceTypes DEF Paced, Ordered
<1>5. WindowsCount(T, v, g, later)
  BY <1>1, <1>2, PaceTypes
     DEF Paced, Ordered, WindowsCount, InWindow, Tripped, Older, Windows, FireCounts, Spares
<1>6. SleepsOutlast(T, v, g, b, later)
  BY <1>1, <1>2, PaceTypes
     DEF Paced, Ordered, WindowsCount, SleepsOutlast, InWindow, Tripped, BeforeSleep,
         Older, Windows, FireCounts, Sleeps, Spares
<1> QED BY <1>1, <1>4, <1>5, <1>6 DEF Paced, later

\* The window and the count once a start has been counted.
WindowThen(w) == IF w = Never THEN 0 ELSE w
FiresThen(w, f) ==
  IF w = Never THEN 1 ELSE IF f > MaxFires THEN f ELSE f + 1

LEMMA CountedIs ==
  ASSUME NEW s \in InRAM
  PROVE  LET c == Counted(s)
         IN  /\ c \in InRAM
             /\ c.window = WindowThen(s.window) /\ c.window # Never
             /\ c.fires = FiresThen(s.window, s.fires)
             /\ c.since = s.since /\ c.fired = s.fired /\ c.asleep = s.asleep
<1>1. s.window \in Never .. Window /\ s.fires \in 0 .. MaxFires + 1
  BY DEF InRAM
<1>2. /\ 0 \in Never .. Window /\ 1 \in 0 .. MaxFires + 1 /\ 0 # Never
      /\ (IF s.fires > MaxFires THEN s.fires ELSE s.fires + 1) \in 0 .. MaxFires + 1
  BY <1>1, PaceTypes
<1>3. CASE s.window = Never
  BY <1>2, <1>3 DEF Counted, WindowThen, FiresThen, InRAM
<1>4. CASE s.window # Never
  BY <1>2, <1>4 DEF Counted, WindowThen, FiresThen, InRAM
<1> QED BY <1>3, <1>4

\* A start that the guard lets through; only a test starts a rule that sleeps.
LEMMA StartPaced ==
  ASSUME NEW T \in Spares, NEW w \in Windows, NEW f \in FireCounts,
         NEW a \in Sleeps, NEW ages \in Ages, Paced(T, w, f, a, ages),
         ~Tripped(FiresThen(w, f)), a = Never \/ T = MaxFires
  PROVE  /\ StartedNow(ages) \in Ages
         /\ Paced(T, WindowThen(w), FiresThen(w, f), a, StartedNow(ages))
<1> DEFINE next == StartedNow(ages)
<1>1. /\ next \in Ages
      /\ \A k \in 1..Remembered : next[k] = IF k = 1 THEN 0 ELSE ages[k - 1]
  BY PaceTypes DEF StartedNow, Ages
<1>2. \A k \in 1..Remembered : ages[k] \in 0..Window + 1 /\ next[k] \in 0..Window + 1
  BY <1>1 DEF Ages
<1> HIDE DEF next
<1>3. Ordered(next)
  BY <1>1, <1>2, PaceTypes DEF Paced, Ordered
<1>4. WindowsCount(T, WindowThen(w), FiresThen(w, f), next)
  <2>1. CASE w = Never
    <3>1. /\ next[1 + T + 1] = ages[1 + T]
          /\ next[1 + T + MaxFires + 1] = ages[1 + T + MaxFires]
      BY <1>1, PaceTypes DEF Spares
    <3>2. ages[1] <= ages[1 + T]
      BY PaceTypes DEF Paced, Ordered, Spares
    <3> QED BY <1>2, <2>1, <3>1, <3>2, PaceTypes
            DEF Paced, WindowsCount, InWindow, Tripped, WindowThen, FiresThen, Spares
  <2>2. CASE w # Never
    <3>1. f < MaxFires /\ InWindow(f) = f /\ InWindow(f + 1) = f + 1
          /\ FiresThen(w, f) = f + 1 /\ WindowThen(w) = w
      BY <2>2, PaceTypes DEF InWindow, Tripped, FiresThen, WindowThen, FireCounts
    <3>2. /\ next[f + 1 + T + 1] = ages[f + T + 1]
          /\ next[f + 1 + T + MaxFires + 1] = ages[f + T + MaxFires + 1]
      BY <1>1, <3>1, PaceTypes DEF Spares, FireCounts
    <3> QED BY <2>2, <3>1, <3>2 DEF Paced, WindowsCount
  <2> QED BY <2>1, <2>2
<1>5. SleepsOutlast(T, WindowThen(w), FiresThen(w, f), a, next)
  BY <1>1, <1>2, PaceTypes
     DEF Paced, WindowsCount, SleepsOutlast, InWindow, Tripped, BeforeSleep,
         WindowThen, FiresThen, Windows, FireCounts, Sleeps, Spares
<1> QED BY <1>1, <1>3, <1>4, <1>5 DEF Paced, next

\* A start that trips it.
LEMMA TripPaced ==
  ASSUME NEW T \in Spares, NEW w \in Windows, NEW f \in FireCounts,
         NEW a \in Sleeps, NEW ages \in Ages, Paced(T, w, f, a, ages),
         Tripped(FiresThen(w, f))
  PROVE  Paced(T, WindowThen(w), FiresThen(w, f), Suppression, ages)
<1>1. \A k \in 1..Remembered : ages[k] \in 0..Window + 1
  BY DEF Ages
<1>2. w # Never /\ f >= MaxFires
  BY PaceTypes DEF Tripped, FiresThen, FireCounts
<1>3. WindowsCount(T, WindowThen(w), FiresThen(w, f), ages)
  BY <1>1, <1>2, PaceTypes
     DEF Paced, WindowsCount, InWindow, Tripped, WindowThen, FiresThen, FireCounts
<1>4. SleepsOutlast(T, WindowThen(w), FiresThen(w, f), Suppression, ages)
  BY <1>1, <1>2, PaceTypes
     DEF SleepsOutlast, Tripped, BeforeSleep, WindowThen, FiresThen, Windows, FireCounts
<1> QED BY <1>3, <1>4 DEF Paced

\* The end of a sleep.
LEMMA AwakePaced ==
  ASSUME NEW T \in Spares, NEW w \in Windows, NEW f \in FireCounts,
         NEW ages \in Ages, Paced(T, w, f, 0, ages)
  PROVE  Paced(T, w, 0, Never, ages)
<1>1. \A k \in 1..Remembered : ages[k] \in 0..Window + 1
  BY DEF Ages
<1>2. w # Never => ~Tripped(f)
  BY PaceTypes DEF Paced, SleepsOutlast, Windows
<1>3. WindowsCount(T, w, 0, ages)
  BY <1>1, <1>2, PaceTypes
     DEF Paced, Ordered, WindowsCount, SleepsOutlast, InWindow, Tripped, BeforeSleep,
         Windows, FireCounts, Spares
<1> QED BY <1>3, PaceTypes DEF Paced, SleepsOutlast

\* No more than two allowances, and the spare one, fit into any window.
LEMMA PacedBounds ==
  ASSUME NEW T \in Spares, NEW w \in Windows, NEW f \in FireCounts,
         NEW a \in Sleeps, NEW ages \in Ages, Paced(T, w, f, a, ages)
  PROVE  ages[2 * MaxFires + T + 1] > Window
<1>1. \A k \in 1..Remembered : ages[k] \in 0..Window + 1
  BY DEF Ages
<1> QED BY <1>1, PaceTypes
        DEF Paced, Ordered, WindowsCount, InWindow, Tripped, Windows, FireCounts, Spares

----------------------------------------------------------------------------
(* What a rule keeps in RAM.                                                *)

\* A sequence that is running is at one of its waits.
AtWait(r, s) ==
  s.running => LET steps == Steps(r, s.inElse)
               IN  s.step \in DOMAIN steps /\ IsWait(steps[s.step])

\* Ages are kept as far as a comparison tells them apart.
Within(r, s) == s \in InRAM /\ s.since <= Def[r].for /\ s.age <= Def[r].cooldown

RulesType ==
  /\ rule \in [Rules -> InRAM]
  /\ \A r \in Rules : Within(r, rule[r]) /\ AtWait(r, rule[r])

LEMMA FreshType ==
  ASSUME NEW r \in Rules
  PROVE  Within(r, Fresh) /\ AtWait(r, Fresh)
BY RuleType, PaceTypes DEF Fresh, InRAM, Within, AtWait

\* Steps that change what one rule keeps.
LEMMA OneRule ==
  ASSUME RulesType, NEW r \in Rules, NEW x, rule' = [rule EXCEPT ![r] = x],
         Within(r, x), AtWait(r, x)
  PROVE  RulesType'
BY DEF RulesType, Within

\* The fields that a sequence on its way leaves alone.
SameEpisode(s, x) ==
  /\ x.since = s.since /\ x.fired = s.fired /\ x.age = s.age
  /\ x.window = s.window /\ x.fires = s.fires /\ x.asleep = s.asleep

LEMMA AdvanceDoes ==
  ASSUME HouseType, RulesType, NEW r \in Rules, NEW s, Within(r, s), s.running,
         s.step \in 1 .. Len(Steps(r, s.inElse)) + 1, Advance(r, s)
  PROVE  /\ HouseType' /\ RulesType'
         /\ SameEpisode(s, rule'[r])
         /\ \A q \in Rules \ {r} : rule'[q] = rule[q]
<1> DEFINE steps == Steps(r, s.inElse)
           stop == Stop(steps, s.step)
           ended == [s EXCEPT !.running = FALSE, !.inElse = FALSE, !.step = 1]
           waits == [s EXCEPT !.step = stop, !.resume = steps[stop].wait]
<1>1. steps \in Seq(Step) /\ s \in InRAM
  BY RuleType DEF Within, InRAM
<1> HIDE DEF steps
<1>2. /\ Len(steps) \in Nat /\ s.step \in 1 .. Len(steps) + 1
      /\ DOMAIN steps = 1 .. Len(steps)
  BY <1>1 DEF steps
<1>3. /\ stop \in s.step .. Len(steps) + 1
      /\ stop <= Len(steps) => IsWait(steps[stop])
      /\ \A j \in s.step .. stop - 1 : ~IsWait(steps[j])
  BY <1>1, <1>2, StopsThere
<1> HIDE DEF stop
<1>4. PICK done \in SUBSET (s.step .. stop - 1) : house' = Commanded(steps, done)
  BY DEF Advance, steps, stop
<1>5. HouseType'
  <2>1. done \in SUBSET (1 .. Len(steps)) /\ \A i \in done : ~IsWait(steps[i])
    BY <1>2, <1>3, <1>4
  <2> QED BY <1>1, <1>4, <2>1, CommandedType DEF HouseType
<1>6. CASE stop > Len(steps)
  <2>1. rule' = [rule EXCEPT ![r] = ended]
    BY <1>6 DEF Advance, steps, stop
  <2>2. ended \in InRAM /\ SameEpisode(s, ended) /\ ~ended.running
    BY <1>1 DEF InRAM, SameEpisode
  <2> HIDE DEF ended
  <2>3. Within(r, ended) /\ AtWait(r, ended)
    BY <2>2 DEF Within, AtWait, SameEpisode
  <2>4. rule'[r] = ended /\ \A q \in Rules \ {r} : rule'[q] = rule[q]
    BY <2>1 DEF RulesType
  <2> QED BY <1>5, <2>1, <2>2, <2>3, <2>4, OneRule
<1>7. CASE ~(stop > Len(steps))
  <2>1. rule' = [rule EXCEPT ![r] = waits]
    BY <1>7 DEF Advance, steps, stop
  <2>2. stop \in 1 .. Len(steps) /\ IsWait(steps[stop])
    BY <1>2, <1>3, <1>7
  <2>3. steps[stop] \in Step
    BY <1>1, <2>2
  <2>4. steps[stop].wait \in Nat
    BY <2>2, <2>3, StepType
  <2>5. waits \in InRAM /\ SameEpisode(s, waits)
    <3> DEFINE wait == steps[stop].wait
    <3>1. stop \in Nat /\ wait \in Nat
      BY <1>2, <2>2, <2>4
    <3> HIDE DEF wait
    <3> QED BY <1>1, <3>1 DEF InRAM, SameEpisode, wait
  <2>6. waits.step = stop /\ waits.inElse = s.inElse
    BY <1>1 DEF InRAM
  <2> HIDE DEF waits
  <2>7. Within(r, waits) /\ AtWait(r, waits)
    BY <1>2, <2>2, <2>5, <2>6 DEF Within, AtWait, SameEpisode, steps
  <2>8. rule'[r] = waits /\ \A q \in Rules \ {r} : rule'[q] = rule[q]
    BY <2>1 DEF RulesType
  <2> QED BY <1>5, <2>1, <2>5, <2>7, <2>8, OneRule
<1> QED BY <1>6, <1>7

----------------------------------------------------------------------------
(* What a start and an evaluation do to the rule, its starts and the house. *)

StartsType == starts \in [Rules -> Ages]
Types == HouseType /\ RulesType /\ StartsType

\* The rule r, and no other, has made a start, or not.
Started(r) ==
  starts' = [starts EXCEPT ![r] = StartedNow(@)]

LEMMA StartsKept ==
  ASSUME StartsType, NEW r \in Rules, Started(r)
  PROVE  /\ starts'[r] = StartedNow(starts[r])
         /\ \A q \in Rules \ {r} : starts'[q] = starts[q]
         /\ StartsType'
<1>1. starts[r] \in Ages
  BY DEF StartsType
<1>2. StartedNow(starts[r]) \in Ages
  BY <1>1, PaceTypes DEF StartedNow, Ages
<1> QED BY <1>2 DEF Started, StartsType

\* start(): the start is counted; then it goes ahead, or the rule is put to sleep.
LEMMA StartDoes ==
  ASSUME Types, NEW r \in Rules, NEW s, Within(r, s), NEW inElse \in BOOLEAN,
         Start(r, s, inElse)
  PROVE  /\ Types'
         /\ \A q \in Rules \ {r} : rule'[q] = rule[q] /\ starts'[q] = starts[q]
         /\ rule'[r].since = s.since /\ rule'[r].fired = s.fired
         /\ rule'[r].window = WindowThen(s.window)
         /\ rule'[r].fires = FiresThen(s.window, s.fires)
         /\ IF Tripped(FiresThen(s.window, s.fires))
            THEN rule'[r].asleep = Suppression /\ starts' = starts /\ ~rule'[r].running
            ELSE rule'[r].asleep = s.asleep /\ Started(r)
<1> DEFINE c == Counted(s)
           trips == [c EXCEPT !.asleep = Suppression, !.running = FALSE,
                              !.inElse = FALSE, !.step = 1, !.resume = 0]
           goes == [c EXCEPT !.age = 0, !.running = TRUE, !.inElse = inElse,
                             !.step = 1, !.resume = 0]
<1>1. s \in InRAM /\ s.since <= Def[r].for
  BY DEF Within
<1>2. /\ c \in InRAM
      /\ c.window = WindowThen(s.window)
      /\ c.fires = FiresThen(s.window, s.fires)
      /\ c.since = s.since /\ c.fired = s.fired /\ c.asleep = s.asleep
  BY <1>1, CountedIs
<1>3. Trips(s) <=> Tripped(FiresThen(s.window, s.fires))
  BY <1>2 DEF Trips, Tripped
<1>4. c.age = s.age
  BY <1>1 DEF Counted, InRAM
<1> HIDE DEF c
<1>5. CASE Trips(s)
  <2>1. rule' = [rule EXCEPT ![r] = trips] /\ UNCHANGED <<house, starts>>
    BY <1>5 DEF Start, c
  <2>2. /\ trips \in InRAM /\ trips.asleep = Suppression /\ ~trips.running
        /\ trips.since = s.since /\ trips.fired = s.fired /\ trips.age = s.age
        /\ trips.window = c.window /\ trips.fires = c.fires
    <3>1. Suppression \in Never .. Suppression
      BY PaceTypes
    <3> QED BY <1>2, <1>4, <3>1 DEF InRAM
  <2> HIDE DEF trips
  <2>3. Within(r, trips) /\ AtWait(r, trips)
    BY <2>2 DEF Within, AtWait
  <2>4. rule'[r] = trips /\ \A q \in Rules \ {r} : rule'[q] = rule[q]
    BY <2>1 DEF Types, RulesType
  <2>5. RulesType'
    BY <2>1, <2>3, OneRule DEF Types
  <2> QED BY <1>2, <1>3, <1>5, <2>1, <2>2, <2>4, <2>5
          DEF Types, HouseType, StartsType
<1>6. CASE ~Trips(s)
  <2>1. Advance(r, goes) /\ Started(r)
    BY <1>6 DEF Start, Started, c
  <2>2. /\ goes \in InRAM /\ goes.running /\ goes.age = 0 /\ goes.step = 1
        /\ goes.since = s.since /\ goes.fired = s.fired /\ goes.asleep = s.asleep
        /\ goes.window = c.window /\ goes.fires = c.fires /\ goes.inElse = inElse
    BY <1>2 DEF InRAM
  <2> HIDE DEF goes
  <2>3. Within(r, goes)
    BY <1>1, <2>2, RuleType DEF Within
  <2>4. goes.step \in 1 .. Len(Steps(r, goes.inElse)) + 1
    BY <2>2, RuleType
  <2>5. /\ HouseType' /\ RulesType' /\ SameEpisode(goes, rule'[r])
        /\ \A q \in Rules \ {r} : rule'[q] = rule[q]
    BY <2>1, <2>2, <2>3, <2>4, AdvanceDoes DEF Types
  <2> QED BY <1>2, <1>3, <1>6, <2>1, <2>2, <2>5, StartsKept DEF Types, SameEpisode
<1> QED BY <1>5, <1>6

\* A rule at the beginning of its evaluation.
LEMMA AwakeIs ==
  ASSUME RulesType, NEW r \in Rules
  PROVE  LET s == Awake(rule[r])
         IN  /\ Within(r, s) /\ AtWait(r, s)
             /\ s.since = rule[r].since /\ s.fired = rule[r].fired
             /\ s.running = rule[r].running /\ s.window = rule[r].window
             /\ IF rule[r].asleep = 0 THEN s.asleep = Never /\ s.fires = 0
                ELSE s.asleep = rule[r].asleep /\ s.fires = rule[r].fires
<1>1. rule[r] \in InRAM /\ Within(r, rule[r]) /\ AtWait(r, rule[r])
  BY DEF RulesType
<1>2. CASE rule[r].asleep = 0
  <2>1. Never \in Never .. Suppression /\ 0 \in 0 .. MaxFires + 1
    BY PaceTypes
  <2> QED BY <1>1, <1>2, <2>1 DEF Awake, InRAM, Within, AtWait
<1>3. CASE rule[r].asleep # 0
  BY <1>1, <1>3 DEF Awake
<1> QED BY <1>2, <1>3

\* What Matched and Unmatched leave of a rule that does not start.
Seen(s) == [s EXCEPT !.since = IF @ = Never THEN 0 ELSE @]
Past(s) == [s EXCEPT !.since = Never, !.fired = FALSE]

\* The fields that the beginning and the end of an episode leave alone.
SamePace(s, x) ==
  /\ x.window = s.window /\ x.fires = s.fires /\ x.asleep = s.asleep
  /\ x.running = s.running

LEMMA EpisodeIs ==
  ASSUME NEW r \in Rules, NEW s, Within(r, s), ~s.running
  PROVE  /\ Within(r, Seen(s)) /\ AtWait(r, Seen(s)) /\ SamePace(s, Seen(s))
         /\ Seen(s).since = (IF s.since = Never THEN 0 ELSE s.since)
         /\ Seen(s).fired = s.fired
         /\ Within(r, [Seen(s) EXCEPT !.fired = TRUE])
         /\ SamePace(s, [Seen(s) EXCEPT !.fired = TRUE])
         /\ [Seen(s) EXCEPT !.fired = TRUE].fired = TRUE
         /\ Within(r, Past(s)) /\ AtWait(r, Past(s)) /\ SamePace(s, Past(s))
         /\ Past(s).since = Never
<1>1. s \in InRAM /\ s.since <= Def[r].for /\ s.age <= Def[r].cooldown
  BY DEF Within
<1>2. Def[r].for \in Nat /\ Never \in Nat \cup {Never} /\ 0 \in Nat \cup {Never}
      /\ Never <= Def[r].for
  BY RuleType, PaceTypes
<1>3. /\ Within(r, Seen(s)) /\ SamePace(s, Seen(s)) /\ Seen(s).fired = s.fired
      /\ Seen(s).since = (IF s.since = Never THEN 0 ELSE s.since)
  BY <1>1, <1>2 DEF Seen, Within, SamePace, InRAM
<1>4. /\ Within(r, [Seen(s) EXCEPT !.fired = TRUE])
      /\ SamePace(s, [Seen(s) EXCEPT !.fired = TRUE])
      /\ [Seen(s) EXCEPT !.fired = TRUE].fired = TRUE
  BY <1>3 DEF Within, SamePace, InRAM
<1>5. Within(r, Past(s)) /\ SamePace(s, Past(s)) /\ Past(s).since = Never
  BY <1>1, <1>2 DEF Past, Within, SamePace, InRAM
<1> QED BY <1>3, <1>4, <1>5 DEF AtWait, SamePace

\* What an evaluation comes to.  A rule that is evaluated is enabled, awake and at
\* rest; then its episode begins, goes on or ends, and perhaps it starts.
LEMMA EvaluateDoes ==
  ASSUME Types, NEW r \in Rules, Evaluate, r = turn - N
  PROVE  LET s == Awake(rule[r])
             Rests(x) == rule' = [rule EXCEPT ![r] = x] /\ UNCHANGED <<house, starts>>
         IN  \/ /\ r \notin enabled \/ rule[r].running \/ s.asleep # Never
                /\ UNCHANGED <<house, rule, starts, acted>>
             \/ /\ r \in enabled /\ ~rule[r].running /\ s.asleep = Never
                /\ \/ Rests(Seen(s)) /\ Matches(r)
                   \/ Rests(Past(s)) /\ ~Matches(r)
                   \/ /\ Start(r, [Seen(s) EXCEPT !.fired = TRUE], FALSE)
                      /\ Matches(r) /\ ~s.fired /\ Seen(s).since >= Def[r].for
                   \/ Start(r, Past(s), TRUE) /\ ~Matches(r)
<1> DEFINE s == Awake(rule[r])
<1>1. IF r \notin enabled \/ rule[r].running \/ s.asleep # Never
      THEN UNCHANGED <<house, rule, starts, acted>>
      ELSE IF Matches(r) THEN Matched(r, s) ELSE Unmatched(r, s)
  BY DEF Evaluate
<1>2. ~s.fired /\ ~(Seen(s).since < Def[r].for) => Seen(s).since >= Def[r].for
  <2>1. s \in InRAM /\ Def[r].for \in Nat
    BY AwakeIs, RuleType DEF Types, Within
  <2> HIDE DEF s
  <2>2. Seen(s).since \in Int
    BY <2>1, PaceTypes DEF Seen, InRAM
  <2> QED BY <2>1, <2>2
<1> HIDE DEF s
<1> DEFINE Skips == r \notin enabled \/ rule[r].running \/ s.asleep # Never
<1>3. CASE Skips
  BY <1>1, <1>3 DEF s
<1>4. CASE ~Skips /\ Matches(r)
  <2>1. Matched(r, s)
    BY <1>1, <1>4
  <2>2. \/ rule' = [rule EXCEPT ![r] = Seen(s)] /\ UNCHANGED <<house, starts>>
        \/ /\ Start(r, [Seen(s) EXCEPT !.fired = TRUE], FALSE)
           /\ ~s.fired /\ ~(Seen(s).since < Def[r].for)
    BY <2>1 DEF Matched, Seen
  <2> QED BY <1>2, <1>4, <2>2 DEF s
<1>5. CASE ~Skips /\ ~Matches(r)
  <2>1. Unmatched(r, s)
    BY <1>1, <1>5
  <2>2. \/ Start(r, Past(s), TRUE)
        \/ rule' = [rule EXCEPT ![r] = Past(s)] /\ UNCHANGED <<house, starts>>
    BY <2>1 DEF Unmatched, Past
  <2> QED BY <1>5, <2>2 DEF s
<1> QED BY <1>3, <1>4, <1>5

----------------------------------------------------------------------------
(* Type correctness.                                                        *)

\* The parts of the type invariant that no start changes.
PassType ==
  /\ enabled \subseteq Rules
  /\ turn \in 0 .. 2 * N
  /\ held \in [Rules -> Nat \cup {Never}]
  /\ \A r \in Rules : held[r] <= Def[r].for
  /\ acted \subseteq Rules

LEMMA TypeParts == TypeOK <=> Types /\ PassType
<1>1. ASSUME rule \in [Rules -> InRAM], NEW r \in Rules
      PROVE  (rule[r].running =>
                LET steps == Steps(r, rule[r].inElse)
                IN  rule[r].step \in DOMAIN steps /\ IsWait(steps[rule[r].step]))
              <=> AtWait(r, rule[r])
  BY DEF AtWait
<1>2. ASSUME rule \in [Rules -> InRAM], NEW r \in Rules
      PROVE  Within(r, rule[r]) <=>
               rule[r].since <= Def[r].for /\ rule[r].age <= Def[r].cooldown
  BY <1>2 DEF Within
<1> QED BY <1>1, <1>2
        DEF TypeOK, Types, PassType, HouseType, RulesType, StartsType, Ages

\* Each command of a sequence, and each start, acts on a known rule only.
LEMMA ActedType ==
  ASSUME acted \subseteq Rules, NEW r \in Rules, NEW s, NEW inElse,
         Start(r, s, inElse)
  PROVE  acted' \subseteq Rules
BY DEF Start

LEMMA ForgetType ==
  ASSUME Forget
  PROVE  /\ RulesType' /\ StartsType' /\ acted' \subseteq Rules
         /\ held' \in [Rules -> Nat \cup {Never}]
         /\ \A r \in Rules : held'[r] <= Def[r].for
<1>1. NoStarts \in Ages
  BY FreshPaced DEF Spares
<1>2. \A r \in Rules : Never <= Def[r].for
  BY RuleType, PaceTypes
<1>3. \A r \in Rules : Fresh \in InRAM /\ Within(r, Fresh) /\ AtWait(r, Fresh)
  BY FreshType DEF Within
<1> QED BY <1>1, <1>2, <1>3 DEF Forget, RulesType, StartsType

LEMMA AgeKept ==
  ASSUME NEW age \in Nat \cup {Never}, NEW last \in Nat, age <= last
  PROVE  LET older == IF age \in 0 .. last - 1 THEN age + 1 ELSE age
         IN  /\ older \in Nat \cup {Never} /\ older <= last
             /\ Older(age, last) \in Nat \cup {Never} /\ Older(age, last) <= last
BY PaceTypes DEF Older

LEMMA TickType ==
  ASSUME TypeOK, Tick
  PROVE  TypeOK'
<1>1. Types /\ PassType
  BY TypeParts
<1>2. ASSUME NEW r \in Rules
      PROVE  Within(r, rule'[r]) /\ AtWait(r, rule'[r])
  <2> DEFINE s == rule[r]
             x == rule'[r]
  <2>1. s \in InRAM /\ Within(r, s) /\ AtWait(r, s)
    BY <1>1 DEF Types, RulesType
  <2>2. x = [s EXCEPT
              !.since = IF @ \in 0 .. Def[r].for - 1 THEN @ + 1 ELSE @,
              !.age = Older(@, Def[r].cooldown),
              !.window = Older(@, Window),
              !.fires = IF s.window = Window THEN 0 ELSE @,
              !.resume = IF @ > 0 THEN @ - 1 ELSE 0,
              !.asleep = IF @ > 0 THEN @ - 1 ELSE @]
    BY DEF Tick
  <2>3. /\ s.since \in Nat \cup {Never} /\ s.since <= Def[r].for
        /\ s.age \in Nat \cup {Never} /\ s.age <= Def[r].cooldown
        /\ Def[r].for \in Nat /\ Def[r].cooldown \in Nat
    BY <2>1, RuleType DEF Within, InRAM
  <2> HIDE DEF s
  <2>4. LET since == IF s.since \in 0 .. Def[r].for - 1 THEN s.since + 1 ELSE s.since
            age == Older(s.age, Def[r].cooldown)
        IN  /\ since \in Nat \cup {Never} /\ since <= Def[r].for
            /\ age \in Nat \cup {Never} /\ age <= Def[r].cooldown
    BY <2>3, AgeKept
  <2>5. /\ Older(s.window, Window) \in Never .. Window
        /\ (IF s.window = Window THEN 0 ELSE s.fires) \in 0 .. MaxFires + 1
        /\ (IF s.asleep > 0 THEN s.asleep - 1 ELSE s.asleep) \in Never .. Suppression
        /\ (IF s.resume > 0 THEN s.resume - 1 ELSE 0) \in Nat
    BY <2>1, PaceTypes DEF InRAM, Older
  <2>6. x \in InRAM /\ x.since <= Def[r].for /\ x.age <= Def[r].cooldown
        /\ x.running = s.running /\ x.inElse = s.inElse /\ x.step = s.step
    BY <2>1, <2>2, <2>3, <2>4, <2>5 DEF InRAM
  <2> HIDE DEF x, s
  <2>7. Within(r, x) /\ AtWait(r, x)
    BY <2>1, <2>6 DEF Within, AtWait
  <2> QED BY <2>7 DEF x
<1>3. RulesType'
  <2>1. rule' = [r \in Rules |-> rule'[r]]
    BY DEF Tick
  <2> QED BY <1>2, <2>1 DEF RulesType, Within
<1>4. StartsType'
  <2>1. ASSUME NEW r \in Rules PROVE SecondLater(starts[r]) \in Ages
    <3>1. starts[r] \in Ages
      BY <1>1 DEF Types, StartsType
    <3> QED BY <3>1, PaceTypes DEF SecondLater, Ages
  <2> QED BY <2>1 DEF Tick, StartsType
<1>5. turn' = 1 /\ UNCHANGED <<house, enabled, held, acted>>
  BY DEF Tick
<1>6. HouseType'
  BY <1>1, <1>5 DEF HouseType, Types
<1>7. PassType'
  <2>1. 1 \in 0 .. 2 * N
    BY SizeType
  <2> QED BY <1>1, <1>5, <2>1 DEF PassType
<1>8. Types'
  BY <1>3, <1>4, <1>6 DEF Types
<1> QED BY <1>7, <1>8, TypeParts, PTL
\* The pass goes on to its next place, and from the last one to its end.
LEMMA NextTurnIs ==
  ASSUME turn \in 0 .. 2 * N, NextTurn
  PROVE  turn' = (IF turn = 2 * N THEN 0 ELSE turn + 1) /\ turn' \in 0 .. 2 * N
<1>1. N \in Nat /\ N >= 1
  BY SizeType
<1> DEFINE m == 2 * N + 1
<1>2. m \in Nat /\ m > 0
  BY <1>1
<1>3. CASE turn = 2 * N
  <2>1. (turn + 1) % m = 0
    BY <1>1, <1>2, <1>3
  <2> QED BY <1>1, <1>3, <2>1 DEF NextTurn
<1>4. CASE turn # 2 * N
  <2>1. turn + 1 \in 0 .. m - 1
    BY <1>1, <1>4
  <2>2. (turn + 1) % m = turn + 1
    BY <1>2, <2>1
  <2> QED BY <1>1, <1>4, <2>1, <2>2 DEF NextTurn
<1> QED BY <1>3, <1>4
LEMMA ResumeType ==
  ASSUME TypeOK, Resume
  PROVE  TypeOK'
<1>1. Types /\ PassType
  BY TypeParts
<1> DEFINE r == turn
           s == [rule[r] EXCEPT !.step = @ + 1]
<1>2. r \in Rules /\ NextTurn /\ UNCHANGED <<enabled, held, starts, acted>>
  BY DEF Resume
<1>3. PassType'
  BY <1>1, <1>2, NextTurnIs DEF PassType
<1>4. HouseType' /\ RulesType'
  <2>1. CASE rule[r].running /\ rule[r].resume = 0
    <3>1. Advance(r, s)
      BY <2>1 DEF Resume
    <3>2. rule[r] \in InRAM /\ Within(r, rule[r]) /\ AtWait(r, rule[r])
      BY <1>1, <1>2 DEF Types, RulesType
    <3>3. s \in InRAM /\ Within(r, s) /\ s.running
          /\ s.inElse = rule[r].inElse /\ s.step = rule[r].step + 1
      BY <2>1, <3>2 DEF InRAM, Within
    <3>4. s.step \in 1 .. Len(Steps(r, s.inElse)) + 1
      <4>1. rule[r].step \in DOMAIN Steps(r, s.inElse)
        BY <2>1, <3>2, <3>3 DEF AtWait
      <4>2. Steps(r, s.inElse) \in Seq(Step)
        BY <1>2, <3>3, RuleType DEF InRAM
      <4> QED BY <3>3, <4>1, <4>2
    <3> HIDE DEF s, r
    <3> QED BY <1>1, <1>2, <3>1, <3>3, <3>4, AdvanceDoes DEF Types
  <2>2. CASE ~(rule[r].running /\ rule[r].resume = 0)
    <3>1. UNCHANGED <<house, rule>>
      BY <2>2 DEF Resume
    <3> QED BY <1>1, <3>1 DEF Types, HouseType, RulesType
  <2> QED BY <2>1, <2>2
<1>5. StartsType'
  BY <1>1, <1>2 DEF Types, StartsType
<1>6. Types'
  BY <1>4, <1>5 DEF Types
<1> QED BY <1>3, <1>6, TypeParts, PTL

\* How long the conditions of a rule were found true, after an evaluation of r.
HeldThen(r) ==
  held' = [held EXCEPT ![r] =
    IF Matches(r) THEN (IF @ < Def[r].for THEN @ + 1 ELSE @) ELSE Never]

LEMMA HeldType ==
  ASSUME PassType, NEW r \in Rules, HeldThen(r)
  PROVE  /\ held' \in [Rules -> Nat \cup {Never}]
         /\ \A q \in Rules : held'[q] <= Def[q].for
<1>1. /\ held[r] \in Nat \cup {Never} /\ held[r] <= Def[r].for
      /\ Def[r].for \in Nat
  BY RuleType DEF PassType
<1> DEFINE h == IF Matches(r) THEN (IF held[r] < Def[r].for THEN held[r] + 1 ELSE held[r])
                ELSE Never
<1>2. h \in Nat \cup {Never} /\ h <= Def[r].for
  <2>1. CASE Matches(r)
    BY <1>1, <2>1, PaceTypes
  <2>2. CASE ~Matches(r)
    BY <1>1, <2>2, PaceTypes
  <2> QED BY <2>1, <2>2
<1>3. held' = [held EXCEPT ![r] = h]
  BY DEF HeldThen
<1> HIDE DEF h
<1> QED BY <1>2, <1>3 DEF PassType

\* The rule that is evaluated, with what its episode then is.
LEMMA EvaluateType ==
  ASSUME TypeOK, Evaluate
  PROVE  TypeOK'
<1>1. Types /\ PassType
  BY TypeParts
<1> DEFINE r == turn - N
           s == Awake(rule[r])
<1>2. r \in Rules /\ NextTurn /\ HeldThen(r) /\ UNCHANGED enabled
  BY DEF Evaluate, HeldThen
<1>3. rule[r] \in InRAM /\ Within(r, s) /\ s.running = rule[r].running
  BY <1>1, <1>2, AwakeIs DEF Types, RulesType
<1>4. Evaluate /\ r = turn - N
  OBVIOUS
<1> HIDE DEF s, r
<1>5. \/ UNCHANGED <<house, rule, starts, acted>>
      \/ ~s.running /\ \/ rule' = [rule EXCEPT ![r] = Seen(s)] /\ UNCHANGED <<house, starts>>
                       \/ rule' = [rule EXCEPT ![r] = Past(s)] /\ UNCHANGED <<house, starts>>
                       \/ Start(r, [Seen(s) EXCEPT !.fired = TRUE], FALSE)
                       \/ Start(r, Past(s), TRUE)
  BY <1>1, <1>2, <1>3, <1>4, EvaluateDoes DEF s
<1>6. Types'
  <2>1. CASE UNCHANGED <<house, rule, starts, acted>>
    BY <1>1, <2>1 DEF Types, HouseType, RulesType, StartsType
  <2>2. CASE /\ ~s.running /\ UNCHANGED <<house, starts>>
             /\ rule' = [rule EXCEPT ![r] = Seen(s)] \/ rule' = [rule EXCEPT ![r] = Past(s)]
    <3>1. RulesType'
      BY <1>1, <1>2, <1>3, <2>2, EpisodeIs, OneRule DEF Types
    <3> QED BY <1>1, <2>2, <3>1 DEF Types, HouseType, StartsType
  <2>3. CASE ~s.running /\ Start(r, [Seen(s) EXCEPT !.fired = TRUE], FALSE)
    BY <1>1, <1>2, <1>3, <2>3, EpisodeIs, StartDoes
  <2>4. CASE ~s.running /\ Start(r, Past(s), TRUE)
    BY <1>1, <1>2, <1>3, <2>4, EpisodeIs, StartDoes
  <2> QED BY <1>5, <2>1, <2>2, <2>3, <2>4
<1>7. acted' \subseteq Rules
  BY <1>1, <1>2, <1>4, ActedType DEF Evaluate, Matched, Unmatched, PassType
<1>8. PassType'
  BY <1>1, <1>2, <1>7, NextTurnIs, HeldType DEF PassType
<1> QED BY <1>6, <1>8, TypeParts, PTL
LEMMA InitType == Init => TypeOK
<1> SUFFICES ASSUME Init PROVE TypeOK
  OBVIOUS
<1>1. /\ NoStarts \in Ages
      /\ \A r \in Rules : Fresh \in InRAM /\ Within(r, Fresh) /\ AtWait(r, Fresh)
  BY FreshType, FreshPaced DEF Within, Spares
<1>2. \A r \in Rules : Never <= Def[r].for
  BY RuleType, PaceTypes
<1>3. Types
  BY <1>1 DEF Init, Types, HouseType, RulesType, StartsType
<1>4. 0 \in 0 .. 2 * N
  BY SizeType
<1>5. PassType
  BY <1>2, <1>4 DEF Init, PassType
<1> QED BY <1>3, <1>5, TypeParts

LEMMA TypeStep == TypeOK /\ [Next]_vars => TypeOK'
<1> SUFFICES ASSUME TypeOK, [Next]_vars PROVE TypeOK'
  OBVIOUS
<1>0. Types /\ PassType
  BY TypeParts
<1>1. CASE Tick
  BY <1>1, TickType
<1>2. CASE Resume
  BY <1>2, ResumeType
<1>3. CASE Evaluate
  BY <1>3, EvaluateType
<1>4. ASSUME NEW f \in Fields, NEW v \in Readings(f), Changes(f, v)
      PROVE  TypeOK'
  <2>1. /\ house' = [house EXCEPT ![f] = v]
        /\ UNCHANGED <<enabled, rule, turn, held, starts, acted>>
    BY <1>4 DEF Changes
  <2>2. v \in Values \cup {Unknown}
    BY DEF Readings
  <2>3. Types' /\ PassType'
    BY <1>0, <2>1, <2>2 DEF Types, HouseType, RulesType, StartsType, PassType
  <2> QED BY <2>3, TypeParts, PTL
<1>5. ASSUME NEW r \in Tested, Test(r)
      PROVE  TypeOK'
  <2>1. r \in Rules
    BY TestedAssumption
  <2>2. Start(r, rule[r], FALSE) /\ UNCHANGED <<enabled, turn, held>>
    BY <1>5 DEF Test
  <2>3. Within(r, rule[r])
    BY <1>0, <2>1 DEF Types, RulesType
  <2>4. Types'
    BY <1>0, <2>1, <2>2, <2>3, StartDoes
  <2>5. acted' \subseteq Rules
    BY <1>0, <2>1, <2>2, ActedType DEF PassType
  <2>6. PassType'
    BY <1>0, <2>2, <2>5 DEF PassType
  <2> QED BY <2>4, <2>6, TypeParts, PTL
<1>6. ASSUME NEW on \in Edits, Save(on)
      PROVE  TypeOK'
  <2>1. Forget /\ enabled' = on /\ UNCHANGED <<house, turn>>
    BY <1>6 DEF Save
  <2>2. on \subseteq Rules
    BY GuardAssumption
  <2>3. Types' /\ PassType'
    BY <1>0, <2>1, <2>2, ForgetType DEF Types, HouseType, PassType
  <2> QED BY <2>3, TypeParts, PTL
<1>7. CASE Restart
  <2>1. /\ house' = [f \in Fields |-> IF f \in Peers THEN Unknown ELSE house[f]]
        /\ Forget /\ turn' = 0 /\ UNCHANGED enabled
    BY <1>7 DEF Restart
  <2>2. 0 \in 0 .. 2 * N
    BY SizeType
  <2>3. Types' /\ PassType'
    BY <1>0, <2>1, <2>2, ForgetType DEF Types, HouseType, PassType
  <2> QED BY <2>3, TypeParts, PTL
<1>8. CASE UNCHANGED vars
  <2>1. Types' /\ PassType'
    BY <1>0, <1>8 DEF vars, Types, HouseType, RulesType, StartsType, PassType
  <2> QED BY <2>1, TypeParts, PTL
<1> QED BY <1>1, <1>2, <1>3, <1>4, <1>5, <1>6, <1>7, <1>8 DEF Next, Quiet, Loop

\* What every rule keeps stays in range, and one that is running is at a wait of
\* the branch it runs, whatever its steps are.
THEOREM AutomationsTypeCorrect == Spec => []TypeOK
<1>1. Init => TypeOK
  BY InitType
<1>2. TypeOK /\ [Next]_vars => TypeOK'
  BY TypeStep
<1> QED BY <1>1, <1>2, PTL DEF Spec
----------------------------------------------------------------------------
(* No rule loops.                                                           *)

PacedAs(r, s) == Paced(Spare(r), s.window, s.fires, s.asleep, starts[r])
PacesInv == \A r \in Rules : PacedAs(r, rule[r])

LEMMA PaceOf ==
  ASSUME Types, NEW r \in Rules, NEW s, Within(r, s)
  PROVE  /\ Spare(r) \in Spares /\ s.window \in Windows /\ s.fires \in FireCounts
         /\ s.asleep \in Sleeps /\ starts[r] \in Ages
BY DEF Spare, Spares, Windows, FireCounts, Sleeps, Types, StartsType, Within, InRAM

\* A rule that is awake, or tested, is let through by the guard or put to sleep.
LEMMA StartPaces ==
  ASSUME Types, PacesInv, NEW r \in Rules, NEW s, Within(r, s), PacedAs(r, s),
         s.asleep = Never \/ r \in Tested, NEW inElse \in BOOLEAN, Start(r, s, inElse)
  PROVE  PacesInv'
<1>1. /\ \A q \in Rules \ {r} : rule'[q] = rule[q] /\ starts'[q] = starts[q]
      /\ rule'[r].window = WindowThen(s.window)
      /\ rule'[r].fires = FiresThen(s.window, s.fires)
      /\ IF Tripped(FiresThen(s.window, s.fires))
         THEN rule'[r].asleep = Suppression /\ starts' = starts
         ELSE rule'[r].asleep = s.asleep /\ starts'[r] = StartedNow(starts[r])
  BY StartDoes, StartsKept DEF Types
<1>2. PacedAs(r, rule[r])'
  <2>1. CASE Tripped(FiresThen(s.window, s.fires))
    BY <1>1, <2>1, PaceOf, TripPaced DEF PacedAs
  <2>2. CASE ~Tripped(FiresThen(s.window, s.fires))
    <3>1. s.asleep = Never \/ Spare(r) = MaxFires
      BY DEF Spare
    <3> QED BY <1>1, <2>2, <3>1, PaceOf, StartPaced DEF PacedAs
  <2> QED BY <2>1, <2>2
<1>3. \A q \in Rules \ {r} : PacedAs(q, rule[q])'
  BY <1>1 DEF PacesInv, PacedAs
<1> QED BY <1>2, <1>3 DEF PacesInv

\* Steps that start nothing, nor count, nor put to sleep.
LEMMA PacesKept ==
  ASSUME PacesInv, UNCHANGED starts,
         \A r \in Rules : /\ rule'[r].window = rule[r].window
                          /\ rule'[r].fires = rule[r].fires
                          /\ rule'[r].asleep = rule[r].asleep
  PROVE  PacesInv'
BY DEF PacesInv, PacedAs

LEMMA ForgetPaces ==
  ASSUME Forget
  PROVE  PacesInv'
<1> SUFFICES ASSUME NEW r \in Rules PROVE PacedAs(r, rule[r])'
  BY DEF PacesInv
<1>1. rule'[r] = Fresh /\ starts'[r] = NoStarts
  BY DEF Forget
<1>2. Paced(Spare(r), Never, 0, Never, NoStarts)
  BY FreshPaced DEF Spare, Spares
<1> QED BY <1>1, <1>2 DEF PacedAs, Fresh

LEMMA TickPaces ==
  ASSUME Types, PacesInv, Tick
  PROVE  PacesInv'
<1> SUFFICES ASSUME NEW r \in Rules PROVE PacedAs(r, rule[r])'
  BY DEF PacesInv
<1>1. /\ rule'[r].window = Older(rule[r].window, Window)
      /\ rule'[r].fires = (IF rule[r].window = Window THEN 0 ELSE rule[r].fires)
      /\ rule'[r].asleep = (IF rule[r].asleep > 0 THEN rule[r].asleep - 1 ELSE rule[r].asleep)
      /\ starts'[r] = SecondLater(starts[r])
  <2>1. rule[r] \in InRAM
    BY DEF Types, RulesType
  <2> QED BY <2>1 DEF Tick, InRAM
<1>2. Within(r, rule[r]) /\ PacedAs(r, rule[r])
  BY DEF Types, RulesType, PacesInv
<1> QED BY <1>1, <1>2, PaceOf, TickPaced DEF PacedAs

LEMMA ResumePaces ==
  ASSUME Types, PacesInv, Resume
  PROVE  PacesInv'
<1> DEFINE r == turn
           s == [rule[r] EXCEPT !.step = @ + 1]
<1>1. r \in Rules /\ UNCHANGED starts
  BY DEF Resume
<1>2. CASE rule[r].running /\ rule[r].resume = 0
  <2>1. Advance(r, s)
    BY <1>2 DEF Resume
  <2>2. rule[r] \in InRAM /\ rule \in [Rules -> InRAM]
    BY <1>1 DEF Types, RulesType
  <2>3. \A q \in Rules \ {r} : rule'[q] = rule[q]
    BY <1>1, <2>1, <2>2 DEF Advance
  <2>4. /\ rule'[r].window = rule[r].window /\ rule'[r].fires = rule[r].fires
        /\ rule'[r].asleep = rule[r].asleep
    BY <1>1, <2>1, <2>2 DEF Advance, InRAM
  <2> HIDE DEF r
  <2> QED BY <1>1, <2>3, <2>4, PacesKept
<1>3. CASE ~(rule[r].running /\ rule[r].resume = 0)
  <2>1. UNCHANGED rule
    BY <1>3 DEF Resume
  <2> QED BY <1>1, <2>1, PacesKept
<1> QED BY <1>2, <1>3
\* The beginning and the end of an episode.
LEMMA RestPaces ==
  ASSUME Types, PacesInv, NEW r \in Rules, NEW x, PacedAs(r, x),
         rule' = [rule EXCEPT ![r] = x], UNCHANGED starts
  PROVE  PacesInv'
<1>1. rule'[r] = x /\ \A q \in Rules \ {r} : rule'[q] = rule[q]
  BY DEF Types, RulesType
<1>2. PacedAs(r, rule[r])'
  BY <1>1 DEF PacedAs
<1>3. \A q \in Rules \ {r} : PacedAs(q, rule[q])'
  BY <1>1 DEF PacesInv, PacedAs
<1> QED BY <1>2, <1>3 DEF PacesInv

LEMMA EvaluatePaces ==
  ASSUME Types, PacesInv, Evaluate
  PROVE  PacesInv'
<1> DEFINE r == turn - N
           s == Awake(rule[r])
<1>1. r \in Rules /\ Evaluate /\ r = turn - N
  BY DEF Evaluate
<1>2. /\ rule \in [Rules -> InRAM] /\ Within(r, rule[r]) /\ PacedAs(r, rule[r])
  BY <1>1 DEF Types, RulesType, PacesInv
<1>3. /\ Within(r, s) /\ s.running = rule[r].running /\ s.window = rule[r].window
      /\ IF rule[r].asleep = 0 THEN s.asleep = Never /\ s.fires = 0
         ELSE s.asleep = rule[r].asleep /\ s.fires = rule[r].fires
  BY <1>1, AwakeIs DEF Types
<1>4. PacedAs(r, s)
  <2>1. CASE rule[r].asleep = 0
    BY <1>1, <1>2, <1>3, <2>1, PaceOf, AwakePaced DEF PacedAs
  <2>2. CASE rule[r].asleep # 0
    BY <1>2, <1>3, <2>2 DEF PacedAs
  <2> QED BY <2>1, <2>2
<1> DEFINE fires == [Seen(s) EXCEPT !.fired = TRUE]
           Rests(x) == rule' = [rule EXCEPT ![r] = x] /\ UNCHANGED starts
           Evaluated == ~s.running /\ s.asleep = Never
<1> HIDE DEF s, r
<1>5. \/ UNCHANGED <<rule, starts>>
      \/ Evaluated /\ \/ Rests(Seen(s)) \/ Rests(Past(s))
                      \/ Start(r, fires, FALSE) \/ Start(r, Past(s), TRUE)
  BY <1>1, <1>3, EvaluateDoes DEF s
<1>6. ASSUME NEW x, SamePace(s, x)
      PROVE  PacedAs(r, x) /\ x.asleep = s.asleep
  BY <1>4, <1>6 DEF PacedAs, SamePace
<1>7. ASSUME NEW x, SamePace(s, x), Rests(x)
      PROVE  PacesInv'
  BY <1>1, <1>2, <1>6, <1>7, RestPaces
<1>8. ASSUME NEW x, SamePace(s, x), Within(r, x), Evaluated,
             NEW inElse \in BOOLEAN, Start(r, x, inElse)
      PROVE  PacesInv'
  BY <1>1, <1>6, <1>8, StartPaces
<1>9. Evaluated => /\ SamePace(s, Seen(s)) /\ SamePace(s, Past(s)) /\ SamePace(s, fires)
                   /\ Within(r, Past(s)) /\ Within(r, fires)
  BY <1>1, <1>3, EpisodeIs
<1> HIDE DEF fires, Evaluated, Rests
<1> QED BY <1>5, <1>7, <1>8, <1>9, PacesKept

LEMMA PacesStep == Types /\ PacesInv /\ [Next]_vars => PacesInv'
<1> SUFFICES ASSUME Types, PacesInv, [Next]_vars PROVE PacesInv'
  OBVIOUS
<1>1. CASE Tick
  BY <1>1, TickPaces
<1>2. CASE Resume
  BY <1>2, ResumePaces
<1>3. CASE Evaluate
  BY <1>3, EvaluatePaces
<1>4. ASSUME NEW f \in Fields, NEW v \in Readings(f), Changes(f, v)
      PROVE  PacesInv'
  BY <1>4, PacesKept DEF Changes
<1>5. ASSUME NEW r \in Tested, Test(r)
      PROVE  PacesInv'
  <2>1. r \in Rules /\ Start(r, rule[r], FALSE)
    BY <1>5, TestedAssumption DEF Test
  <2>2. Within(r, rule[r]) /\ PacedAs(r, rule[r])
    BY <2>1 DEF Types, RulesType, PacesInv
  <2> QED BY <2>1, <2>2, StartPaces
<1>6. ASSUME NEW on \in Edits, Save(on)
      PROVE  PacesInv'
  BY <1>6, ForgetPaces DEF Save
<1>7. CASE Restart
  BY <1>7, ForgetPaces DEF Restart
<1>8. CASE UNCHANGED vars
  BY <1>8, PacesKept DEF vars
<1> QED BY <1>1, <1>2, <1>3, <1>4, <1>5, <1>6, <1>7, <1>8 DEF Next, Quiet, Loop

LEMMA PacesBound == Types /\ PacesInv => RateBounded
<1> SUFFICES ASSUME Types, PacesInv, NEW r \in Rules
             PROVE  LET most == (IF r \in Tested THEN 3 ELSE 2) * MaxFires
                    IN  starts[r][most + 1] > Window
  BY DEF RateBounded
<1>1. Within(r, rule[r]) /\ PacedAs(r, rule[r])
  BY DEF Types, RulesType, PacesInv
<1>2. starts[r][2 * MaxFires + Spare(r) + 1] > Window
  BY <1>1, PaceOf, PacedBounds DEF PacedAs
<1>3. CASE r \in Tested
  <2>1. 2 * MaxFires + Spare(r) + 1 = 3 * MaxFires + 1
    BY <1>3, PaceTypes DEF Spare
  <2> QED BY <1>2, <1>3, <2>1
<1>4. CASE r \notin Tested
  <2>1. 2 * MaxFires + Spare(r) + 1 = 2 * MaxFires + 1
    BY <1>4, PaceTypes DEF Spare
  <2> QED BY <1>2, <1>4, <2>1
<1> QED BY <1>3, <1>4

\* "A rule cannot loop": whatever the rules are and do to each other, and however
\* often they are tested, no rule starts more than twice its allowance in any
\* window, or three times if somebody tests it.
THEOREM NoRuleLoops == Spec => []RateBounded
<1>1. Init => TypeOK /\ Types /\ PacesInv
  <2> SUFFICES ASSUME Init PROVE TypeOK /\ Types /\ PacesInv
    OBVIOUS
  <2>1. TypeOK /\ Types
    BY InitType, TypeParts
  <2>2. ASSUME NEW r \in Rules PROVE PacedAs(r, rule[r])
    <3>1. rule[r] = Fresh /\ starts[r] = NoStarts
      BY DEF Init
    <3>2. Paced(Spare(r), Never, 0, Never, NoStarts)
      BY FreshPaced DEF Spare, Spares
    <3> QED BY <3>1, <3>2 DEF PacedAs, Fresh
  <2> QED BY <2>1, <2>2 DEF PacesInv
<1>2. TypeOK /\ PacesInv /\ [Next]_vars => TypeOK' /\ PacesInv'
  BY TypeStep, PacesStep, TypeParts
<1>3. TypeOK /\ PacesInv => RateBounded
  BY PacesBound, TypeParts
<1> QED BY <1>1, <1>2, <1>3, PTL DEF Spec
----------------------------------------------------------------------------
(* Hold times.                                                              *)

\* Between a tick and the evaluation of r its episode is a second ahead of what
\* the evaluations found.
Behind(r) == IF turn \in 1 .. N + r THEN 1 ELSE 0

\* An episode that did not fire yet is one that the last evaluations found, each
\* of them; nothing but firing stops a rule from being evaluated in it.
Unfired(r) == rule[r].since # Never /\ ~rule[r].fired

Episode(r) ==
  /\ Unfired(r) => /\ ~rule[r].running /\ rule[r].asleep = Never
                   /\ rule[r].since <= held[r] + Behind(r)
  /\ r \notin enabled => rule[r].since = Never

EpisodesInv == \A r \in Rules \ Tested : Episode(r)

LEMMA ForgetEpisodes ==
  ASSUME Forget
  PROVE  EpisodesInv'
BY DEF Forget, Fresh, EpisodesInv, Episode, Unfired

LEMMA TickEpisodes ==
  ASSUME TypeOK, EpisodesInv, Tick
  PROVE  EpisodesInv'
<1> SUFFICES ASSUME NEW r \in Rules \ Tested PROVE Episode(r)'
  BY DEF EpisodesInv
<1>1. Episode(r) /\ rule[r] \in InRAM /\ held[r] \in Nat \cup {Never}
  BY DEF EpisodesInv, TypeOK
<1>2. /\ rule'[r].since = (IF rule[r].since \in 0 .. Def[r].for - 1
                           THEN rule[r].since + 1 ELSE rule[r].since)
      /\ rule'[r].asleep = (IF rule[r].asleep > 0 THEN rule[r].asleep - 1 ELSE rule[r].asleep)
      /\ rule'[r].fired = rule[r].fired /\ rule'[r].running = rule[r].running
  BY <1>1 DEF Tick, InRAM
<1>3. turn = 0 /\ turn' = 1 /\ UNCHANGED <<enabled, held>>
  BY DEF Tick
<1>4. Behind(r) = 0 /\ Behind(r)' = 1
  BY <1>3, SizeType DEF Behind
<1>5. rule[r].since \in Nat \cup {Never} /\ Def[r].for \in Nat
  BY <1>1, RuleType DEF InRAM
<1>6. rule'[r].since # Never => rule[r].since # Never /\ rule'[r].since <= rule[r].since + 1
  BY <1>2, <1>5, PaceTypes
<1>7. rule[r].since = Never => rule'[r].since = Never
  BY <1>2, <1>5, PaceTypes
<1>8. rule[r].asleep = Never => rule'[r].asleep = Never
  BY <1>2, PaceTypes
<1>9. ASSUME Unfired(r)'
      PROVE  /\ ~rule'[r].running /\ rule'[r].asleep = Never
             /\ rule'[r].since <= held'[r] + Behind(r)'
  <2>1. Unfired(r)
    BY <1>2, <1>6, <1>9 DEF Unfired
  <2>2. rule[r].since <= held[r] + Behind(r) /\ rule'[r].since <= rule[r].since + 1
    BY <1>1, <1>6, <1>9, <2>1 DEF Episode, Unfired
  <2>3. rule'[r].since \in Int
    BY <1>2, <1>5, PaceTypes
  <2>4. rule'[r].since <= held'[r] + Behind(r)'
    BY <1>1, <1>3, <1>4, <1>5, <2>2, <2>3, PaceTypes
  <2> QED BY <1>1, <1>2, <1>8, <2>1, <2>4 DEF Episode
<1> QED BY <1>1, <1>3, <1>7, <1>9 DEF Episode

\* Steps that leave a rule, and how far it is behind, as they are.
LEMMA EpisodeKept ==
  ASSUME NEW r \in Rules, Episode(r), rule'[r] = rule[r], held'[r] = held[r],
         UNCHANGED enabled, Behind(r)' = Behind(r)
  PROVE  Episode(r)'
BY DEF Episode, Unfired

LEMMA ResumeEpisodes ==
  ASSUME TypeOK, EpisodesInv, Resume
  PROVE  EpisodesInv'
<1> SUFFICES ASSUME NEW r \in Rules \ Tested PROVE Episode(r)'
  BY DEF EpisodesInv
<1>1. Episode(r) /\ rule \in [Rules -> InRAM] /\ turn \in 0 .. 2 * N
  BY DEF EpisodesInv, TypeOK
<1>2. turn \in Rules /\ NextTurn /\ UNCHANGED <<enabled, held>>
  BY DEF Resume
<1>3. Behind(r)' = Behind(r)
  <2>1. turn' = turn + 1
    BY <1>1, <1>2, NextTurnIs, SizeType
  <2> QED BY <1>2, <2>1, SizeType DEF Behind
<1>4. CASE rule'[r] = rule[r]
  BY <1>1, <1>2, <1>3, <1>4, EpisodeKept
<1>5. CASE rule'[r] # rule[r]
  <2>1. /\ turn = r /\ rule[r].running
        /\ Advance(r, [rule[r] EXCEPT !.step = @ + 1])
    BY <1>1, <1>5 DEF Resume, Advance
  <2>2. /\ rule'[r].since = rule[r].since /\ rule'[r].fired = rule[r].fired
    BY <1>1, <2>1 DEF Advance, InRAM
  <2> QED BY <1>1, <1>2, <2>1, <2>2 DEF Episode, Unfired
<1> QED BY <1>4, <1>5

\* What evaluating a rule finds of its conditions keeps up with its episode.
LEMMA HeldKeepsUp ==
  ASSUME TypeOK, NEW r \in Rules \ Tested, Episode(r), HeldThen(r), Matches(r),
         Unfired(r) \/ rule[r].since = Never, Behind(r) = 1
  PROVE  LET since == IF rule[r].since = Never THEN 0 ELSE rule[r].since
         IN  since <= held'[r]
<1>1. /\ held[r] \in Nat \cup {Never} /\ Def[r].for \in Nat
      /\ rule[r].since \in Nat \cup {Never} /\ rule[r].since <= Def[r].for
  BY RuleType DEF TypeOK, InRAM
<1>2. held'[r] = (IF held[r] < Def[r].for THEN held[r] + 1 ELSE held[r])
  BY DEF HeldThen, TypeOK
<1>3. CASE rule[r].since = Never
  BY <1>1, <1>2, <1>3, PaceTypes
<1>4. CASE Unfired(r)
  <2>1. rule[r].since <= held[r] + 1 /\ rule[r].since # Never
    BY <1>4 DEF Episode, Unfired
  <2> QED BY <1>1, <1>2, <2>1, PaceTypes
<1> QED BY <1>3, <1>4
\* The evaluation of the rule itself.
LEMMA OwnEpisode ==
  ASSUME TypeOK, NEW r \in Rules \ Tested, Episode(r), Evaluate, turn = N + r
  PROVE  Episode(r)'
<1> DEFINE s == Awake(rule[r])
<1>1. r = turn - N /\ Behind(r) = 1 /\ Types
  BY SizeType, TypeParts DEF Behind
<1>2. HeldThen(r) /\ UNCHANGED enabled
  BY <1>1 DEF Evaluate, HeldThen
<1>3. /\ rule \in [Rules -> InRAM] /\ Within(r, s)
      /\ s.since = rule[r].since /\ s.fired = rule[r].fired
      /\ s.running = rule[r].running
      /\ rule[r].asleep = Never => s.asleep = Never
  BY <1>1, AwakeIs, PaceTypes DEF Types, RulesType
<1> HIDE DEF s
<1> DEFINE Rests(x) == rule' = [rule EXCEPT ![r] = x]
<1>4. \/ (r \notin enabled \/ rule[r].running \/ s.asleep # Never) /\ UNCHANGED rule
      \/ /\ r \in enabled /\ ~s.running /\ s.asleep = Never
         /\ \/ Rests(Seen(s)) /\ Matches(r)
            \/ Rests(Past(s))
            \/ Start(r, [Seen(s) EXCEPT !.fired = TRUE], FALSE)
            \/ Start(r, Past(s), TRUE)
  BY <1>1, <1>3, EvaluateDoes DEF s
<1> DEFINE fires == [Seen(s) EXCEPT !.fired = TRUE]
<1>5. ~s.running =>
        /\ SamePace(s, Seen(s)) /\ Seen(s).fired = s.fired
        /\ Seen(s).since = (IF s.since = Never THEN 0 ELSE s.since)
        /\ Within(r, fires) /\ fires.fired = TRUE
        /\ Within(r, Past(s)) /\ Past(s).since = Never
  BY <1>3, EpisodeIs
<1>6. ASSUME NEW x, Within(r, x), NEW inElse \in BOOLEAN, Start(r, x, inElse)
      PROVE  rule'[r].since = x.since /\ rule'[r].fired = x.fired
  BY <1>1, <1>6, StartDoes
<1> HIDE DEF fires
<1>7. CASE (r \notin enabled \/ rule[r].running \/ s.asleep # Never) /\ UNCHANGED rule
  <2>1. ~Unfired(r)
    BY <1>3, <1>7 DEF Episode, Unfired
  <2> QED BY <1>2, <1>7, <2>1 DEF Episode, Unfired
<1> DEFINE Evaluated == r \in enabled /\ ~s.running /\ s.asleep = Never
<1>8. CASE Evaluated /\ Rests(Seen(s)) /\ Matches(r)
  <2>1. /\ rule'[r] = Seen(s) /\ SamePace(s, Seen(s)) /\ Seen(s).fired = s.fired
        /\ Seen(s).since = (IF s.since = Never THEN 0 ELSE s.since)
    BY <1>3, <1>8, <1>5
  <2>2. ASSUME Unfired(r)'
        PROVE  rule'[r].since <= held'[r] + Behind(r)'
    <3>1. Unfired(r) \/ rule[r].since = Never
      BY <1>3, <2>1, <2>2 DEF Unfired
    <3>2. rule'[r].since <= held'[r]
      BY <1>1, <1>2, <1>3, <1>8, <2>1, <3>1, HeldKeepsUp
    <3>3. held'[r] \in Int /\ rule'[r].since \in Int
      <4>1. rule[r].since \in Nat \cup {Never}
        BY <1>3 DEF InRAM
      <4>2. TypeOK'
        BY TypeStep DEF Next, Quiet, Loop
      <4> QED BY <1>3, <2>1, <4>1, <4>2, PaceTypes DEF TypeOK
    <3>4. Behind(r)' \in {0, 1}
      BY DEF Behind
    <3> QED BY <3>2, <3>3, <3>4
  <2> QED BY <1>2, <1>8, <2>1, <2>2 DEF Episode, SamePace
<1>9. CASE Evaluated /\ Rests(Past(s))
  <2>1. rule'[r].since = Never
    BY <1>3, <1>9, <1>5
  <2> QED BY <1>9, <2>1 DEF Episode, Unfired
<1>10. CASE Evaluated /\ Start(r, fires, FALSE)
  <2>1. rule'[r].fired = TRUE
    BY <1>10, <1>5, <1>6
  <2> QED BY <1>2, <1>10, <2>1 DEF Episode, Unfired
<1>11. CASE Evaluated /\ Start(r, Past(s), TRUE)
  <2>1. rule'[r].since = Never
    BY <1>11, <1>5, <1>6
  <2> QED BY <1>11, <2>1 DEF Episode, Unfired
<1> QED BY <1>4, <1>7, <1>8, <1>9, <1>10, <1>11 DEF fires

LEMMA EvaluateEpisodes ==
  ASSUME TypeOK, EpisodesInv, Evaluate
  PROVE  EpisodesInv'
<1> SUFFICES ASSUME NEW r \in Rules \ Tested PROVE Episode(r)'
  BY DEF EpisodesInv
<1>1. Episode(r) /\ rule \in [Rules -> InRAM] /\ turn \in 0 .. 2 * N /\ Types
  BY TypeParts DEF EpisodesInv, TypeOK
<1>2. CASE turn = N + r
  BY <1>1, <1>2, OwnEpisode
<1>3. CASE turn # N + r
  <2> DEFINE q == turn - N
  <2>1. q \in Rules /\ q # r /\ NextTurn /\ HeldThen(q) /\ UNCHANGED enabled
    BY <1>1, <1>3, SizeType DEF Evaluate, HeldThen
  <2>2. turn' = (IF turn = 2 * N THEN 0 ELSE turn + 1)
    BY <1>1, <2>1, NextTurnIs
  <2>3. Behind(r)' = Behind(r)
    BY <1>1, <1>3, <2>1, <2>2, SizeType DEF Behind
  <2>4. held'[r] = held[r]
    BY <2>1 DEF HeldThen, TypeOK
  <2>5. rule'[r] = rule[r]
    <3>1. Evaluate /\ q = turn - N
      OBVIOUS
    <3>2. /\ Within(q, Awake(rule[q])) /\ Awake(rule[q]).running = rule[q].running
      BY <1>1, <2>1, AwakeIs DEF Types
    <3> HIDE DEF q
    <3> DEFINE s == Awake(rule[q])
    <3>3. \/ UNCHANGED rule
          \/ rule' = [rule EXCEPT ![q] = Seen(s)]
          \/ rule' = [rule EXCEPT ![q] = Past(s)]
          \/ ~s.running /\ \/ Start(q, [Seen(s) EXCEPT !.fired = TRUE], FALSE)
                           \/ Start(q, Past(s), TRUE)
      BY <1>1, <2>1, <3>1, <3>2, EvaluateDoes
    <3> DEFINE fires == [Seen(s) EXCEPT !.fired = TRUE]
    <3>4. ~s.running => Within(q, fires) /\ Within(q, Past(s))
      BY <2>1, <3>2, EpisodeIs
    <3>5. ASSUME NEW x, Within(q, x), NEW inElse \in BOOLEAN, Start(q, x, inElse)
          PROVE  rule'[r] = rule[r]
      BY <1>1, <2>1, <3>5, StartDoes
    <3> HIDE DEF fires, s
    <3>6. ASSUME NEW x, rule' = [rule EXCEPT ![q] = x]
          PROVE  rule'[r] = rule[r]
      BY <1>1, <2>1, <3>6
    <3> QED BY <3>3, <3>4, <3>5, <3>6 DEF fires
  <2> QED BY <1>1, <2>1, <2>3, <2>4, <2>5, EpisodeKept
<1> QED BY <1>2, <1>3
LEMMA EpisodesStep == TypeOK /\ EpisodesInv /\ [Next]_vars => EpisodesInv'
<1> SUFFICES ASSUME TypeOK, EpisodesInv, [Next]_vars PROVE EpisodesInv'
  OBVIOUS
<1>1. CASE Tick
  BY <1>1, TickEpisodes
<1>2. CASE Resume
  BY <1>2, ResumeEpisodes
<1>3. CASE Evaluate
  BY <1>3, EvaluateEpisodes
<1>4. ASSUME UNCHANGED <<enabled, rule, turn, held>>
      PROVE  EpisodesInv'
  BY <1>4, EpisodeKept DEF EpisodesInv, Behind
<1>5. ASSUME NEW f \in Fields, NEW v \in Readings(f), Changes(f, v)
      PROVE  EpisodesInv'
  BY <1>4, <1>5 DEF Changes
<1>6. ASSUME NEW q \in Tested, Test(q)
      PROVE  EpisodesInv'
  <2> SUFFICES ASSUME NEW r \in Rules \ Tested PROVE Episode(r)'
    BY DEF EpisodesInv
  <2>1. q \in Rules /\ q # r /\ Start(q, rule[q], FALSE) /\ UNCHANGED <<enabled, turn, held>>
    BY <1>6, TestedAssumption DEF Test
  <2>2. Types /\ Within(q, rule[q])
    BY <2>1, TypeParts DEF Types, RulesType
  <2>3. rule'[r] = rule[r]
    BY <2>1, <2>2, StartDoes
  <2> QED BY <2>1, <2>3, EpisodeKept DEF EpisodesInv, Behind
<1>7. ASSUME NEW on \in Edits, Save(on)
      PROVE  EpisodesInv'
  BY <1>7, ForgetEpisodes DEF Save
<1>8. CASE Restart
  BY <1>8, ForgetEpisodes DEF Restart
<1>9. CASE UNCHANGED vars
  BY <1>4, <1>9 DEF vars
<1> QED BY <1>1, <1>2, <1>3, <1>5, <1>6, <1>7, <1>8, <1>9 DEF Next, Quiet, Loop

\* A rule that fires has been found true for its whole hold time.
LEMMA FiresWhenHeld ==
  ASSUME TypeOK, EpisodesInv, NEW r \in Rules \ Tested, Starts(r, FALSE)
  PROVE  held'[r] >= Def[r].for
<1> DEFINE s == Awake(rule[r])
<1>1. /\ Evaluate /\ r = turn - N /\ starts'[r] # starts[r] /\ Matches(r)
      /\ Behind(r) = 1 /\ Types /\ Episode(r)
  <2>1. Evaluate /\ turn = N + r /\ starts'[r] # starts[r] /\ Matches(r)
    BY DEF Starts
  <2>2. r = turn - N /\ Behind(r) = 1
    BY <2>1, SizeType DEF Behind
  <2> QED BY <2>1, <2>2, TypeParts DEF EpisodesInv
<1>2. HeldThen(r)
  BY <1>1 DEF Evaluate, HeldThen
<1>3. s \in InRAM /\ s.since = rule[r].since /\ s.fired = rule[r].fired
  BY <1>1, AwakeIs DEF Types, Within
<1> HIDE DEF s
<1>4. ~s.fired /\ Seen(s).since >= Def[r].for
  BY <1>1, EvaluateDoes DEF s
<1>5. Seen(s).since = (IF s.since = Never THEN 0 ELSE s.since)
  BY <1>3 DEF Seen, InRAM
<1>6. Unfired(r) \/ rule[r].since = Never
  BY <1>3, <1>4 DEF Unfired
<1>7. Seen(s).since <= held'[r]
  BY <1>1, <1>2, <1>3, <1>5, <1>6, HeldKeepsUp
<1>8. Seen(s).since \in Int /\ held'[r] \in Int /\ Def[r].for \in Nat
  <2>1. s.since \in Nat \cup {Never}
    BY <1>3 DEF InRAM
  <2>2. TypeOK'
    BY <1>1, TypeStep DEF Next, Quiet, Loop
  <2> QED BY <1>5, <2>1, <2>2, RuleType, PaceTypes DEF TypeOK
<1> QED BY <1>4, <1>7, <1>8

\* "The conditions have to hold, not merely occur": sleeps, cooldowns and sequences
\* that a rule goes through, and whatever the others do, add nothing to how long
\* they held.
THEOREM HoldsAreKept == Spec => HeldLongEnough
<1>1. Init => TypeOK /\ EpisodesInv
  <2>1. Init => EpisodesInv
    BY DEF Init, Fresh, EpisodesInv, Episode, Unfired
  <2> QED BY <2>1, InitType
<1>2. TypeOK /\ EpisodesInv /\ [Next]_vars => TypeOK' /\ EpisodesInv'
  BY TypeStep, EpisodesStep
<1>3. TypeOK /\ EpisodesInv /\ [Next]_vars =>
        [\A r \in Rules \ Tested : Starts(r, FALSE) => held'[r] >= Def[r].for]_vars
  BY FiresWhenHeld
<1> QED BY <1>1, <1>2, <1>3, PTL DEF Spec, HeldLongEnough
=============================================================================
