-------------------------- MODULE HouseholdProofs --------------------------
(***************************************************************************)
(* Theorems about Household: what the services around one device keep,     *)
(* each while the others do whatever they do.  The invariant is the        *)
(* conjunction of theirs, and its one interaction is the clock, which both *)
(* the schedules and the counters move.                                    *)
(***************************************************************************)
EXTENDS Household, ClockProofs, ServicesProofs, UnitSwitchProofs

\* Where the counters are not explored they are as they began.
MeterAsExplored == IF session = "metering" THEN MeterInv ELSE StatsInit

HouseInv ==
  /\ ScheduleTypes /\ ScheduleInv
  /\ StatsOK /\ MeterAsExplored
  /\ WatchersInv
  /\ BotTypes /\ BotInv
  /\ PeerTypes /\ PeerInv
  /\ SwitchOK

\* A step of the household is a step of each service or leaves it alone; the
\* clock moves with the schedules or with the counters.
LEMMA StepOfEach ==
  ASSUME [Next]_vars
  PROVE  /\ UNCHANGED session
         /\ \/ /\ [ScheduleNext]_<<clock, schedule>> /\ UNCHANGED meter
               /\ session = "metering" => UNCHANGED clock
            \/ /\ [MeterNext]_<<clock, meter>> /\ UNCHANGED schedule
               /\ session # "metering" => UNCHANGED meter
         /\ [WatchersNext]_watchers
         /\ [TelegramNext]_chat
         /\ [PartnersNext]_partners
         /\ [SetUnit]_switch
<1>1. /\ session = "scheduling" => session # "metering"
  OBVIOUS
<1>2. CASE session = "scheduling" /\ Scheduling /\ UNCHANGED session
  BY <1>1, <1>2, Zenon DEF Scheduling
<1>3. CASE session = "metering" /\ Metering /\ UNCHANGED session
  BY <1>3, Zenon DEF Metering
<1>4. CASE (Watching \/ Chatting \/ Pairing \/ Switching) /\ UNCHANGED session
  BY <1>4, Zenon DEF Watching, Chatting, Pairing, Switching
<1>5. CASE UNCHANGED vars
  BY <1>5, Zenon DEF vars
<1> QED BY <1>2, <1>3, <1>4, <1>5, Zenon DEF Next

LEMMA HouseInvInit == Init => HouseInv
<1> SUFFICES ASSUME Init PROVE HouseInv
  OBVIOUS
<1>1. MeterAsExplored
  BY MeterInvInit DEF Init, MeterAsExplored
<1> QED
  BY <1>1, ScheduleTypesInit, ScheduleInvInit, StatsTypesInit, WatchersInvInit,
     BotTypesInit, BotInvInit, PeerTypesInit, PeerInvInit, SwitchTypesInit
     DEF Init, HouseInv

\* The counters as they are, and what is said of them.
LEMMA MeterKept ==
  ASSUME UNCHANGED meter
  PROVE  /\ StatsOK => StatsOK'
         /\ StatsInit => StatsInit'
         /\ MeterInv /\ UNCHANGED clock => MeterInv'
<1>1. /\ UNCHANGED <<total, today, starts, stamp, ran, age, kept, onTime, onCount>>
      /\ UNCHANGED <<onToday, carried>>
      /\ UNCHANGED <<running, unsaved, unwritten, powered, cut>>
  BY DEF meter
<1>2. StatsOK => StatsOK'
  BY <1>1 DEF StatsOK
<1>3. StatsInit => StatsInit'
  BY <1>1 DEF StatsInit
<1>4. MeterInv /\ UNCHANGED clock => MeterInv'
  BY <1>1 DEF clock, MeterInv, RunsAreSeen, DaysAreSeen, FileIsTrue, Metered, TodayRight,
              RestIsKept, Runtime, RuntimeToday
<1> QED BY <1>2, <1>3, <1>4

LEMMA HouseInvStep == HouseInv /\ [Next]_vars => HouseInv'
<1> SUFFICES ASSUME HouseInv, [Next]_vars PROVE HouseInv'
  OBVIOUS
<1>0. session' = session
  BY StepOfEach
<1>1. (ScheduleTypes /\ ScheduleInv /\ StatsOK /\ MeterAsExplored)'
  <2>1. CASE /\ [ScheduleNext]_<<clock, schedule>> /\ UNCHANGED meter
             /\ session = "metering" => UNCHANGED clock
    <3>1. ScheduleTypes' /\ ScheduleInv'
      BY <2>1, ScheduleTypesStep, ScheduleStep DEF HouseInv
    <3>2. StatsOK' /\ MeterAsExplored'
      BY <1>0, <2>1, MeterKept DEF HouseInv, MeterAsExplored
    <3> QED BY <3>1, <3>2
  <2>2. CASE /\ [MeterNext]_<<clock, meter>> /\ UNCHANGED schedule
             /\ session # "metering" => UNCHANGED meter
    <3>1. Elapse \/ SetTime \/ BootClock \/ UNCHANGED clock
      BY <2>2 DEF MeterNext
    <3>2. Elapse \/ now' = now
      BY <3>1 DEF SetTime, BootClock, clock
    <3>3. ScheduleInv'
      BY <2>2, <3>2, ScheduleKept DEF HouseInv
    <3>4. StatsOK' /\ ClockOK'
      BY <2>2, StatsTypesStep DEF HouseInv, ScheduleTypes
    <3>5. SchedulerOK'
      BY <2>2 DEF schedule, HouseInv, ScheduleTypes, SchedulerOK
    <3>6. MeterAsExplored'
      <4>1. CASE session = "metering"
        <5>1. MeterInv /\ StatsOK /\ ClockOK
          BY <4>1 DEF HouseInv, MeterAsExplored, ScheduleTypes
        <5> QED BY <1>0, <2>2, <4>1, <5>1, MeterStep DEF MeterAsExplored
      <4>2. CASE session # "metering"
        BY <1>0, <2>2, <4>2, MeterKept DEF HouseInv, MeterAsExplored
      <4> QED BY <4>1, <4>2
    <3> QED BY <3>3, <3>4, <3>5, <3>6 DEF ScheduleTypes
  <2> QED BY <2>1, <2>2, StepOfEach
<1>2. WatchersInv'
  BY StepOfEach, WatchersStep DEF HouseInv
<1>3. BotTypes' /\ BotInv'
  BY StepOfEach, BotTypesStep, BotStep DEF HouseInv
<1>4. PeerTypes' /\ PeerInv'
  BY StepOfEach, PeerTypesStep, PeerStep DEF HouseInv
<1>5. SwitchOK'
  BY StepOfEach, SwitchTypesStep DEF HouseInv
<1> QED BY <1>1, <1>2, <1>3, <1>4, <1>5 DEF HouseInv

LEMMA HouseInvariant == Spec => []HouseInv
BY HouseInvInit, HouseInvStep, PTL DEF Spec

----------------------------------------------------------------------------
\* Every variable of the household is of its type, whoever acts.
THEOREM HouseholdTypeCorrect == Spec => []TypeOK
<1>1. HouseInv => TypeOK
  BY DEF HouseInv, ScheduleTypes, WatchersInv, BotTypes, PeerTypes, TypeOK
<1> QED BY HouseInvariant, <1>1, PTL

\* The file is what the next start needs (Scheduler::save after each change).
THEOREM FileIsCurrent == Spec => []FileHasSchedule
<1>1. HouseInv => FileHasSchedule
  BY DEF HouseInv, ScheduleInv
<1> QED BY HouseInvariant, <1>1, PTL

\* Nothing that has rung is due again (Scheduler::loop, lastFiredDay).
THEOREM NothingRingsTwice == Spec => []NoneTwice
<1>1. ASSUME ScheduleInv, NEW r \in Rule
      PROVE  /\ Over(r) => <<r, "timer", rules[r].at>> \notin spent
             /\ Striking(r) => <<r, "daily", Day(now)>> \notin spent
  BY <1>1 DEF ScheduleInv, TimersUnspent, StrikesMarked, Over, Striking, Present
<1>2. HouseInv => NoneTwice
  BY <1>1 DEF HouseInv, NoneTwice
<1> QED BY HouseInvariant, <1>2, PTL

\* The counters, the run in progress and the file add up to what happened, today's
\* but for what a run that saw midnight carries over, and a cut loses that of the
\* run which was not saved (Stats::save folds a run, Stats::rollDay, reset and load
\* keep it).
THEOREM CountersAddUp == Spec => []CountersRight
<1>1. StatsInit => CountersRight
  <2> SUFFICES ASSUME StatsInit PROVE CountersRight
    OBVIOUS
  <2>1. ~cut /\ ~running /\ ~unwritten
    BY Zenon DEF StatsInit
  <2> QED BY <2>1 DEF StatsInit, CountersRight, Metered, TodayRight, RestIsKept,
                      Runtime, RuntimeToday, NoCounts
<1>2. MeterInv => CountersRight
  BY DEF MeterInv, CountersRight
<1>3. HouseInv => CountersRight
  BY <1>1, <1>2 DEF HouseInv, MeterAsExplored
<1> QED BY HouseInvariant, <1>3, PTL

\* Whoever has nothing on its way to it knows the newest state: an open page
\* (WebService's greeting and loop), the webhook's server unless something was
\* missed (WebhookService::onStateChanged, loop and finish), and the registers
\* always (ModbusService::publish).
THEOREM NobodyIsBehind == Spec => []EveryoneTold
<1>1. HouseInv => EveryoneTold
  BY DEF HouseInv, WatchersInv, HookHasNewest, HookComplete, EveryoneTold
<1> QED BY HouseInvariant, <1>1, PTL

\* The page implements Follower (WebService).
LEMMA PageImplements == Spec => PageFollows
<1>1. Init => Page!Init
  BY DEF Init, WatchersInit, Page!Init
<1>2. HouseInv /\ [Next]_vars => [Page!Next]_<<rev, pageShown>>
  BY StepOfEach, WatchersStep DEF HouseInv, Page!Next
<1> QED BY <1>1, <1>2, HouseInvariant, PTL DEF Spec, PageFollows, Page!Spec

\* The webhook implements Follower (WebhookService).
LEMMA HookImplements == Spec => HookFollows
<1>1. Init => Hook!Init
  BY DEF Init, WatchersInit, Hook!Init
<1>2. HouseInv /\ [Next]_vars => [Hook!Next]_<<rev, hookShown>>
  BY StepOfEach, WatchersStep DEF HouseInv, Hook!Next
<1> QED BY <1>1, <1>2, HouseInvariant, PTL DEF Spec, HookFollows, Hook!Spec

\* The registers of the PLC implement Follower (ModbusService).
LEMMA PlcImplements == Spec => PlcFollows
<1>1. Init => Plc!Init
  BY DEF Init, WatchersInit, Plc!Init
<1>2. HouseInv /\ [Next]_vars => [Plc!Next]_<<rev, registers>>
  BY StepOfEach, WatchersStep DEF HouseInv, Plc!Next
<1> QED BY <1>1, <1>2, HouseInvariant, PTL DEF Spec, PlcFollows, Plc!Spec

\* All three implement Follower: none is ever shown an older state after a
\* newer one, nor one that never was.
THEOREM AllImplement == Spec => EveryoneFollows
BY PageImplements, HookImplements, PlcImplements DEF EveryoneFollows

\* The server forgets no update that was not handled (handleResponse and
\* updateOffset_).
THEOREM UpdatesNotForgotten == Spec => []NoneForgotten
<1>1. HouseInv => NoneForgotten
  BY DEF HouseInv, BotInv
<1> QED BY HouseInvariant, <1>1, PTL

\* One chat at most becomes the owner by writing first (authorise).
THEOREM OwnedByOne == Spec => []OneOwner
<1>1. ASSUME BotInv
      PROVE  OneOwner
  <2>1. PICK c : owners \subseteq {c}
    BY <1>1 DEF BotInv, DoorKept
  <2>2. owners = {} \/ owners = {c}
    BY <2>1
  <2>3. Cardinality({}) = 0 /\ Cardinality({c}) = 1
    BY FS_EmptySet, FS_Singleton
  <2> QED BY <2>2, <2>3 DEF OneOwner
<1>2. HouseInv => OneOwner
  BY <1>1 DEF HouseInv
<1> QED BY HouseInvariant, <1>2, PTL

\* Nothing is carried out twice since a start (handleResponse).
THEOREM UpdatesHandledOnce == Spec => NoneHandledTwice
<1>1. HouseInv /\ [Next]_vars
      => [\A n \in 0..2 : Handle(n) => Head(batch) \notin since]_chat
  BY HandleStep DEF HouseInv
<1> QED BY HouseInvariant, <1>1, PTL DEF Spec, NoneHandledTwice

\* No command reaches its device twice, nor after a later one: a failure is
\* never repeated, and the one connection keeps the order of the queue, however
\* many devices are paired, removed, asleep or silent.
THEOREM CommandsOnceInOrder == Spec => OnceInOrder
<1>1. HouseInv /\ [Next]_vars => [Reaches /\ job.order # 0 => job.order > done]_partners
  BY ReachesOnce DEF HouseInv
<1> QED BY HouseInvariant, <1>1, PTL DEF Spec, OnceInOrder

----------------------------------------------------------------------------
(* The unit.                                                               *)

LEMMA SwitchInvariant == ASSUME EvenLimits PROVE Spec => []SwitchInv
<1>1. Init => SwitchInv
  BY SwitchInvInit DEF Init
<1>2. SwitchInv /\ [Next]_vars => SwitchInv'
  BY StepOfEach, SwitchStep
<1> QED BY <1>1, <1>2, PTL DEF Spec

\* However often the unit is switched, the target stays in the range the air
\* conditioner supports (AcState's clamp, in either unit).
THEOREM TargetsStayWithin == ASSUME EvenLimits PROVE Spec => []WithinLimits
<1>1. SwitchInv => WithinLimits
  BY SwitchedWithin
<1> QED BY SwitchInvariant, <1>1, PTL

\* And it stays within a step, or a whole degree Fahrenheit, of the first one: the
\* roundings of setUnit do not add up.
THEOREM SwitchesDoNotAddUp == ASSUME EvenLimits PROVE Spec => []NoDrift
<1>1. SwitchInv => NoDrift
  BY SwitchedNear
<1> QED BY SwitchInvariant, <1>1, PTL

\* Whatever the limits, the file gives back each field of a running unit, and each
\* but the mode of a stopped one (AcState::toJson, fromJson).
THEOREM FileKeeps == Spec => []FileKeepsState
<1>1. HouseInv => FileKeepsState
  BY FileKept DEF HouseInv
<1> QED BY HouseInvariant, <1>1, PTL
=============================================================================
