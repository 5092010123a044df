------------------------------ MODULE Household ------------------------------
(***************************************************************************)
(* What goes on around one device: its own clock with the schedules and    *)
(* the counters that live by it, those who follow it, the chat that        *)
(* commands it, the devices it commands, and the owner who keeps changing  *)
(* the unit it speaks.                                                     *)
(***************************************************************************)
EXTENDS Scheduler, Stats, Watchers, Telegram, PeerClient, UnitSwitch

VARIABLE session    \* which of them is explored, see Next

vars == <<clock, schedule, meter, watchers, chat, partners, switch, session>>

TypeOK ==
  /\ ClockOK /\ SchedulerOK /\ StatsOK /\ WatchersOK
  /\ TelegramOK /\ PartnersOK /\ SwitchOK

\* Only where the pairing or the switching is explored does it begin in more than
\* one state.
Init ==
  /\ session \in {"scheduling", "metering", "watching", "chatting", "pairing",
                  "switching"}
  /\ ClockInit /\ SchedulerInit /\ StatsInit
  /\ WatchersInit /\ TelegramInit /\ PartnersInit
  /\ session # "pairing" => \A d \in Device : paired[d] = "none"
  /\ SwitchInit
  /\ session # "switching" =>
       first = DefaultState /\ limits = CHOOSE l \in LimitSets : TRUE

----------------------------------------------------------------------------
(* Its parts, each with the others as they are.                            *)

Scheduling == ScheduleNext /\ UNCHANGED <<meter, watchers, chat, partners, switch>>
Metering == MeterNext /\ UNCHANGED <<schedule, watchers, chat, partners, switch>>
Watching == WatchersNext /\ UNCHANGED <<clock, schedule, meter, chat, partners, switch>>
Chatting == TelegramNext /\ UNCHANGED <<clock, schedule, meter, watchers, partners, switch>>
Pairing == PartnersNext /\ UNCHANGED <<clock, schedule, meter, watchers, chat, switch>>
Switching == SetUnit /\ UNCHANGED <<clock, schedule, meter, watchers, chat, partners>>

Next ==
  /\ \/ session = "scheduling" /\ Scheduling
     \/ session = "metering" /\ Metering
     \/ session = "watching" /\ Watching
     \/ session = "chatting" /\ Chatting
     \/ session = "pairing" /\ Pairing
     \/ session = "switching" /\ Switching
  /\ UNCHANGED session

\* A step of part of the device, the rest of it as it is.
Of(step, name, others) == session = name /\ step /\ UNCHANGED <<others, switch, session>>

\* The loop goes round for ever, and its timers elapse.
Spec ==
  /\ Init /\ [][Next]_vars
  /\ \A r \in Rule :
       WF_vars(Of(RingsOrStrikes(r), "scheduling", <<meter, watchers, chat, partners>>))
  /\ WF_vars(Of(HookLoop \/ PauseOver \/ \E ok \in BOOLEAN : HookAnswered(ok),
                "watching", <<clock, schedule, meter, chat, partners>>))
  /\ WF_vars(Of(BotLoop, "chatting", <<clock, schedule, meter, watchers, partners>>))
  /\ WF_vars(Of(ClientLoop, "pairing", <<clock, schedule, meter, watchers, chat>>))
=============================================================================
