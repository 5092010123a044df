-------------------------------- MODULE Stats --------------------------------
(***************************************************************************)
(* app/Stats.cpp: how long the air conditioner has run, in all and today,  *)
(* and how often it was started, as the command bus tells it, kept in a    *)
(* file that is written at a stop and now and then.                        *)
(***************************************************************************)
EXTENDS Clock

CONSTANTS
  SaveInterval,     \* kSaveIntervalMs, in minutes
  MaxStarts         \* bound: the starts that are explored

ASSUME StatsAssumption == SaveInterval \in Nat /\ MaxStarts \in Nat

VARIABLES
  total, today,     \* totalSeconds_, todaySeconds_
  starts, stamp,    \* starts_, dayStamp_
  running, ran,     \* running_, the time since runningSince_
  unsaved, age,     \* dirty_, the time since lastSaveAt_, up to SaveInterval
  kept,             \* /stats.json
  unwritten,        \* history: the last save could not open the file
  powered,          \* state().power (of the command bus)
  onTime, onCount,  \* history: how long and how often it was on since a reset,
                    \* or a start that found the counters of an unwritten file
  onToday,          \* history: how long of it since midnight
  carried,          \* history: what the run that saw the day roll had not saved
  cut               \* history: the power was cut

meter == <<total, today, starts, stamp, running, ran, unsaved, age, kept,
           unwritten, powered, onTime, onCount, onToday, carried, cut>>

Counter == [total : Nat, today : Nat, starts : Nat, stamp : Nat]

\* What load makes of a file that is missing, or that does not parse.
NoCounts == [total |-> 0, today |-> 0, starts |-> 0, stamp |-> 0]

StatsOK ==
  /\ total \in Nat /\ today \in Nat /\ starts \in Nat /\ stamp \in Nat
  /\ {ran, onTime, onCount, onToday, carried} \subseteq Nat
  /\ {running, unsaved, unwritten, powered, cut} \subseteq BOOLEAN
  /\ age \in 0..SaveInterval
  /\ kept \in Counter

StatsInit ==
  /\ total = 0 /\ today = 0 /\ starts = 0 /\ stamp = 0
  /\ running = FALSE /\ ran = 0 /\ unsaved = FALSE /\ age = 0
  /\ kept = NoCounts
  /\ unwritten = FALSE /\ powered = FALSE
  /\ onTime = 0 /\ onCount = 0 /\ onToday = 0 /\ carried = 0 /\ cut = FALSE

\* runtimeSeconds and runtimeTodaySeconds.
Runtime == total + ran
RuntimeToday == today + ran

\* Mutant: the run goes on from where it was.
SaveRunningOn(t, d, n, live, ok) ==
  /\ unsaved' = FALSE /\ age' = 0 /\ unwritten' = ~ok
  /\ kept' = IF ok THEN [total |-> t, today |-> d, starts |-> n, stamp |-> stamp]
                   ELSE kept
  /\ total' = t /\ today' = d /\ UNCHANGED ran

\* save of these counters: a run in progress is added to them and starts over,
\* so that no minute of it is counted twice.  Not even the mark is kept of a
\* file that cannot be opened.
Save(t, d, n, live, ok) ==
  /\ unsaved' = FALSE /\ age' = 0 /\ unwritten' = ~ok
  /\ kept' = IF ok THEN [total |-> t + live, today |-> d + live, starts |-> n,
                         stamp |-> stamp]
                   ELSE kept
  /\ IF ok THEN total' = t + live /\ today' = d + live /\ ran' = 0
           ELSE total' = t /\ today' = d /\ ran' = live

----------------------------------------------------------------------------
(* onStateChanged.                                                         *)

\* The first notification that it is on: also the first after a start of the
\* device that found it on.
Started ==
  /\ ~running /\ starts < MaxStarts /\ (powered \/ onCount < MaxStarts)
  /\ powered' = TRUE /\ running' = TRUE /\ ran' = 0
  /\ starts' = starts + 1 /\ unsaved' = TRUE
  /\ onCount' = IF powered THEN onCount ELSE onCount + 1
  /\ UNCHANGED <<total, today, stamp, age, kept, unwritten, onTime, onToday, carried,
                 cut>>

\* Mutant: the run is left to the next save.
StoppedUnsaved(ok) ==
  /\ running /\ running' = FALSE /\ powered' = FALSE
  /\ total' = total + ran /\ today' = today + ran /\ ran' = 0 /\ unsaved' = TRUE
  /\ UNCHANGED <<starts, stamp, age, kept, unwritten, onTime, onCount, onToday,
                 carried, cut>>

Stopped(ok) ==
  /\ running /\ running' = FALSE /\ powered' = FALSE
  /\ Save(total + ran, today + ran, starts, 0, ok)
  /\ UNCHANGED <<starts, stamp, onTime, onCount, onToday, carried, cut>>

\* Turned off without having been seen on.
StoppedUnseen ==
  /\ powered /\ ~running /\ powered' = FALSE
  /\ UNCHANGED <<total, today, starts, stamp, running, ran, unsaved, age, kept,
                 unwritten, onTime, onCount, onToday, carried, cut>>

----------------------------------------------------------------------------
(* The loop, the clock and the page.                                       *)

DayDue == Today # 0 /\ Today # stamp

\* rollDay: a run in progress goes on as the new day's, all that is not saved of it.
RollDay ==
  /\ DayDue
  /\ stamp' = Today /\ today' = 0 /\ unsaved' = TRUE /\ carried' = ran
  /\ UNCHANGED <<total, starts, running, ran, age, kept, unwritten, powered,
                 onTime, onCount, onToday, cut>>

SaveLoop(ok) ==
  /\ unsaved /\ age = SaveInterval
  /\ Save(total, today, starts, IF running THEN ran ELSE 0, ok)
  /\ UNCHANGED <<starts, stamp, running, powered, onTime, onCount, onToday, carried,
                 cut>>

\* A minute goes by.
MeterRuns ==
  /\ ran' = IF running THEN ran + 1 ELSE ran
  /\ age' = IF age < SaveInterval THEN age + 1 ELSE age
  /\ onTime' = IF powered THEN onTime + 1 ELSE onTime
  /\ onToday' = IF Day(now') # Day(now) THEN 0
                ELSE IF powered THEN onToday + 1 ELSE onToday
  /\ UNCHANGED <<total, today, starts, stamp, running, unsaved, kept, unwritten,
                 powered, onCount, carried, cut>>

\* Mutant: the day goes on.
ResetStatsToday(ok) ==
  /\ starts' = 0 /\ onTime' = 0 /\ onCount' = 0 /\ onToday' = 0 /\ carried' = 0
  /\ Save(0, today, 0, 0, ok)
  /\ UNCHANGED <<stamp, running, powered, cut>>

\* reset, from the page.
ResetStats(ok) ==
  /\ starts' = 0 /\ onTime' = 0 /\ onCount' = 0 /\ onToday' = 0 /\ carried' = 0
  /\ Save(0, 0, 0, 0, ok)
  /\ UNCHANGED <<stamp, running, powered, cut>>

\* Whatever was counted, load finds these counters.
Reloaded(counts) ==
  /\ total' = counts.total /\ today' = counts.today
  /\ starts' = counts.starts /\ stamp' = counts.stamp
  /\ kept' = counts
  /\ running' = FALSE /\ ran' = 0 /\ unsaved' = FALSE /\ age' = 0
  /\ unwritten' = FALSE /\ cut' = TRUE

\* The power is cut; the bus remembers whether it was on.
CutMeter ==
  /\ Reloaded(kept)
  /\ onTime' = IF unwritten THEN kept.total ELSE onTime
  /\ onToday' = IF unwritten THEN kept.today ELSE onToday
  /\ UNCHANGED <<powered, onCount, carried>>

\* The power is cut while save writes the only file, in the loop, for the page or
\* at a stop: what is left of it does not parse.
CutSavingMeter ==
  /\ Reloaded(NoCounts)
  /\ UNCHANGED powered \/ (running /\ powered' = FALSE)
  /\ UNCHANGED <<onTime, onCount, onToday, carried>>

\* The loop has noticed the day long before another minute is over.
MeterNext ==
  \/ /\ \/ Started \/ StoppedUnseen \/ RollDay
        \/ \E ok \in BOOLEAN : Stopped(ok) \/ SaveLoop(ok) \/ ResetStats(ok)
     /\ UNCHANGED clock
  \/ Elapse /\ ~DayDue /\ MeterRuns
  \/ SetTime /\ UNCHANGED meter
  \/ (CutMeter \/ CutSavingMeter) /\ BootClock

----------------------------------------------------------------------------
(* Properties.                                                             *)

\* No minute is counted that the unit was not on, whatever is saved, folded,
\* rolled over or cut; and none is missed as long as the power was never cut.
Metered ==
  /\ ~cut => Runtime = onTime /\ starts = onCount
  /\ Runtime <= onTime

\* "How long it has run today" is what it has run since midnight, but for one
\* thing: of a run that goes on over midnight all that was not saved by then is
\* counted too, as rollDay leaves runningSince_ where it is.
TodayRight ==
  stamp = Day(now) =>
    /\ ~cut => RuntimeToday = onToday + carried
    /\ RuntimeToday <= onToday + carried

\* What a cut loses is the time since the last save, of a run in progress, and
\* the start of that run at most: the file has all the rest, unless it could not
\* be written.
RestIsKept ==
  ~unwritten =>
    /\ kept.total = total
    /\ starts - kept.starts \in 0..(IF running THEN 1 ELSE 0)

\* The counters, the run in progress and the file add up to what happened
\* (Stats::onStateChanged, rollDay, save, load and reset).
CountersRight == Metered /\ TodayRight /\ RestIsKept
=============================================================================
