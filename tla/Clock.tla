-------------------------------- MODULE Clock --------------------------------
(***************************************************************************)
(* The wall clock as app/Scheduler.cpp and app/Stats.cpp see it: minutes,  *)
(* a few to the day, and no time at all after a start until NTP or a page  *)
(* has set it.  Whoever sets it knows the time.                            *)
(***************************************************************************)
EXTENDS Naturals

CONSTANTS
  DayLength,     \* the minutes of a day
  Horizon        \* bound: the last minute that is explored

ASSUME ClockAssumption == {DayLength, Horizon} \subseteq Nat \ {0}

VARIABLES
  now,      \* the time, in minutes
  known     \* whether ::time() is past kSaneEpoch

clock == <<now, known>>

ClockOK == now \in 1..Horizon /\ known \in BOOLEAN

ClockInit == now = 1 /\ known = TRUE

\* dayStamp: never 0, which stands for no day.
Day(t) == 1 + t \div DayLength
Minute(t) == t % DayLength
Today == IF known THEN Day(now) ELSE 0

Elapse == now < Horizon /\ now' = now + 1 /\ UNCHANGED known

\* setTime, or the NTP server.
SetTime == known' = TRUE /\ UNCHANGED now

BootClock == known' = FALSE /\ UNCHANGED now
=============================================================================
