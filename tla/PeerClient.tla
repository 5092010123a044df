----------------------------- MODULE PeerClient -----------------------------
(***************************************************************************)
(* app/Peers.cpp and app/PeerClient.cpp: the list of paired devices, the   *)
(* commands that are sent to them and what is known of each, over one      *)
(* connection, one request at a time.                                      *)
(***************************************************************************)
EXTENDS Naturals, Sequences

CONSTANTS
  DeviceCount,   \* the devices that may be paired
  Sleeper,       \* those of them that are only ever woken, by Wake-on-LAN
  Verbose,       \* those whose state is a document of more than kMaxResponseBytes
  MaxPending,    \* kMaxQueue
  FailuresBeforeOffline,
  Wishes,        \* bound: what the devices may be told, of Value
  MaxOrders,     \* bound: the commands that are explored
  MaxEvents,     \* bound: what happens to the devices, the list and the network
  Unknown        \* no value, or nothing known

ASSUME PeerAssumption ==
  /\ DeviceCount \in Nat \ {0}
  /\ {Sleeper, Verbose} \subseteq SUBSET (1..DeviceCount) /\ Wishes \subseteq {0, 1}
  /\ {MaxPending, FailuresBeforeOffline, MaxOrders, MaxEvents} \subseteq Nat
  /\ MaxPending > 0
  /\ Unknown \notin {0, 1}

VARIABLES
  paired,       \* peers_: the devices paired, and whether enabled
  answering,    \* the world: the devices that answer
  lamp,         \* the world: the state each of them is in
  jobs,         \* queue_: [device, order, to] each; order 0 is a poll
  job,          \* inFlight_ with what was answered, while busy_
  cursor,       \* pollCursor_
  states,       \* states_: Unknown, or [online, failures, value], by device
  orders,       \* history: how many commands were accepted
  done,         \* history: the last command that reached its device
  events

partners == <<paired, answering, lamp, jobs, job, cursor, states, orders, done,
              events>>
world == <<answering, lamp>>

\* A device is its place in the list.
Device == 1..DeviceCount
Value == {0, 1}
Job == [device : Device, order : 0..MaxOrders, to : Value]
Flight == [device : Device, order : 0..MaxOrders, to : Value,
           answer : Value \cup {Unknown}]
Known == [online : BOOLEAN, failures : 0..FailuresBeforeOffline,
          value : Value \cup {Unknown}]

PartnersOK ==
  /\ paired \in [Device -> {"on", "off", "none"}]
  /\ answering \subseteq Device /\ lamp \in [Device -> Value]
  /\ jobs \in Seq(Job) /\ Len(jobs) <= MaxPending
  /\ job \in Flight \cup {Unknown}
  /\ cursor \in Device
  /\ states \in [Device -> Known \cup {Unknown}]
  /\ {orders, done} \subseteq 0..MaxOrders
  /\ events \in 0..MaxEvents

PartnersInit ==
  /\ \E as \in {"on", "none"} : paired = [d \in Device |-> as]
  /\ answering = Device \ Sleeper /\ lamp = [d \in Device |-> 0]
  /\ jobs = << >> /\ job = Unknown /\ cursor = 1
  /\ states = [d \in Device |-> Unknown]
  /\ orders = 0 /\ done = 0 /\ events = 0

Event == events < MaxEvents /\ events' = events + 1

----------------------------------------------------------------------------
(* The world.                                                              *)

Switched(d) ==
  /\ Event
  /\ lamp' = [lamp EXCEPT ![d] = 1 - @]
  /\ UNCHANGED <<paired, answering, jobs, job, cursor, states, orders, done>>

ComesOrGoes(d) ==
  /\ Event
  /\ answering' = IF d \in answering THEN answering \ {d} ELSE answering \cup {d}
  /\ UNCHANGED <<paired, lamp, jobs, job, cursor, states, orders, done>>

----------------------------------------------------------------------------
(* The page and the automations.                                           *)

\* reconfigure: what is known of a device that is not in the list any more is
\* forgotten; its requests are not.
KeptStates(list) == [d \in Device |-> IF list[d] = "none" THEN Unknown ELSE states[d]]

\* handlePeersSet.
Pair(d, as) ==
  /\ Event
  /\ paired' = [paired EXCEPT ![d] = as]
  /\ states' = KeptStates(paired')
  /\ cursor' = 1
  /\ UNCHANGED <<world, jobs, job, orders, done>>

\* Mutant: a command does not wait behind the polls.
CommandFirst(d, v) ==
  /\ orders < MaxOrders /\ paired[d] = "on" /\ d \notin Sleeper
  /\ Len(jobs) < MaxPending
  /\ jobs' = <<[device |-> d, order |-> orders + 1, to |-> v]>> \o jobs
  /\ orders' = orders + 1
  /\ UNCHANGED <<paired, world, job, cursor, states, done, events>>

\* command: refused for a device that is off or not paired, and when the
\* queue is full.
Command(d, v) ==
  /\ orders < MaxOrders /\ paired[d] = "on" /\ d \notin Sleeper
  /\ Len(jobs) < MaxPending
  /\ jobs' = Append(jobs, [device |-> d, order |-> orders + 1, to |-> v])
  /\ orders' = orders + 1
  /\ UNCHANGED <<paired, world, job, cursor, states, done, events>>

Fresh == [online |-> FALSE, failures |-> 0, value |-> Unknown]

\* stateFor.
StateFor(d) == IF states[d] = Unknown THEN Fresh ELSE states[d]

\* readValue: what an automation reads, whether or not it is still online.
ReadValue(d) == IF states[d] = Unknown THEN Unknown ELSE states[d].value

\* wake: one datagram, past the queue; whether it woke the device is not known.
Wake(d) ==
  /\ paired[d] = "on"
  /\ states' = [states EXCEPT ![d] = StateFor(d)]
  /\ UNCHANGED <<paired, world, jobs, job, cursor, orders, done, events>>

----------------------------------------------------------------------------
(* finish and absorb.                                                      *)

Capped(n) == IF n < FailuresBeforeOffline THEN n ELSE FailuresBeforeOffline

\* absorb: the value of a device that is in the list is taken from its answer to a
\* poll, unless that was cut off and does not parse.
Absorbs(d, order) == order = 0 /\ paired[d] # "none" /\ d \notin Verbose

\* Mutant: a poll without an answer is forgiven.
AfterLenient(d, order, answer) ==
  LET was == StateFor(d) IN
  IF answer = Unknown
  THEN IF order = 0 THEN was
       ELSE [was EXCEPT !.failures = Capped(@ + 1),
                        !.online = @ /\ was.failures + 1 < FailuresBeforeOffline]
  ELSE [online |-> TRUE, failures |-> 0,
        value |-> IF Absorbs(d, order) THEN answer ELSE was.value]

\* What is known of a device after a request: an answer of Unknown is none, or
\* not a good one.  Whoever answers is online, whatever can be read of it; a device
\* that is known no more becomes so again, but for its value.
After(d, order, answer) ==
  LET was == StateFor(d) IN
  IF answer = Unknown
  THEN [was EXCEPT !.failures = Capped(@ + 1),
                   !.online = @ /\ was.failures + 1 < FailuresBeforeOffline]
  ELSE [online |-> TRUE, failures |-> 0,
        value |-> IF Absorbs(d, order) THEN answer ELSE was.value]

----------------------------------------------------------------------------
(* The loop and the connection.                                            *)

\* dispatch: the connection may not even start.
Dispatch(starts) ==
  /\ job = Unknown /\ jobs # << >> /\ jobs' = Tail(jobs)
  /\ LET j == Head(jobs) IN
     IF starts
     THEN /\ job' = [device |-> j.device, order |-> j.order, to |-> j.to,
                     answer |-> Unknown]
          /\ UNCHANGED <<states, events>>
     ELSE /\ states' = [states EXCEPT ![j.device] = After(j.device, j.order, Unknown)]
          /\ Event /\ UNCHANGED job
  /\ UNCHANGED <<paired, world, cursor, orders, done>>

\* The request reaches the device, which does as it is told and answers with
\* the state it is in.
Reaches ==
  /\ job # Unknown /\ job.answer = Unknown /\ job.device \in answering
  /\ lamp' = IF job.order = 0 THEN lamp ELSE [lamp EXCEPT ![job.device] = job.to]
  /\ job' = [job EXCEPT !.answer = lamp'[job.device]]
  /\ done' = IF job.order = 0 THEN done ELSE job.order
  /\ UNCHANGED <<paired, answering, jobs, cursor, states, orders, events>>

\* onDisconnect with the answer.
PeerAnswers ==
  /\ job # Unknown /\ job.answer # Unknown /\ job' = Unknown
  /\ states' = [states EXCEPT ![job.device] = After(job.device, job.order, job.answer)]
  /\ UNCHANGED <<paired, world, jobs, cursor, orders, done, events>>

\* Mutant: the client stays busy.
PeerLostBusy ==
  /\ job # Unknown /\ job.device \notin answering
  /\ states' = [states EXCEPT ![job.device] = After(job.device, job.order, Unknown)]
  /\ UNCHANGED <<paired, world, jobs, job, cursor, orders, done, events>>

\* Mutant: a command that got no answer is sent again.
PeerLostRetried ==
  /\ job # Unknown /\ job.device \notin answering /\ job' = Unknown
  /\ states' = [states EXCEPT ![job.device] = After(job.device, job.order, Unknown)]
  /\ jobs' = IF Len(jobs) < MaxPending /\ job.order # 0
             THEN Append(jobs, [device |-> job.device, order |-> job.order,
                                to |-> job.to])
             ELSE jobs
  /\ UNCHANGED <<paired, world, cursor, orders, done, events>>

\* onError and onTimeout: of a request that did reach the device, too.
PeerLost ==
  /\ job # Unknown /\ job.device \notin answering /\ job' = Unknown
  /\ states' = [states EXCEPT ![job.device] = After(job.device, job.order, Unknown)]
  /\ UNCHANGED <<paired, world, jobs, cursor, orders, done, events>>

\* The places in the list from the cursor on, round and round.
Round == [i \in 1..DeviceCount |->
            1 + ((cursor + i - 2) % DeviceCount)]
Pollable(d) == paired[d] = "on" /\ d \notin Sleeper
NextTo(d) == 1 + (d % DeviceCount)

\* Mutant: the round starts over.
PollFirst ==
  /\ job = Unknown /\ jobs = << >>
  /\ \E d \in Device :
       /\ Pollable(d) /\ \A e \in Device : Pollable(e) => d <= e
       /\ jobs' = <<[device |-> d, order |-> 0, to |-> 0]>>
       /\ cursor' = NextTo(d)
  /\ UNCHANGED <<paired, world, job, states, orders, done, events>>

\* Nothing to do: the next device of the round is asked for its state.
Poll ==
  /\ job = Unknown /\ jobs = << >>
  /\ \E i \in DOMAIN Round :
       /\ Pollable(Round[i]) /\ \A k \in 1..i - 1 : ~Pollable(Round[k])
       /\ jobs' = <<[device |-> Round[i], order |-> 0, to |-> 0]>>
       /\ cursor' = NextTo(Round[i])
  /\ UNCHANGED <<paired, world, job, states, orders, done, events>>

ClientLoop ==
  \/ \E starts \in BOOLEAN : Dispatch(starts)
  \/ Reaches \/ PeerAnswers \/ PeerLost \/ Poll

PartnersNext ==
  \/ \E d \in Device \ Sleeper : Switched(d) \/ ComesOrGoes(d)
  \/ \E d \in Sleeper : Wake(d)
  \/ \E d \in Device, as \in {"on", "off", "none"} : Pair(d, as)
  \/ \E d \in Device, v \in Wishes : Command(d, v)
  \/ ClientLoop

----------------------------------------------------------------------------
(* Properties.                                                             *)

\* No command reaches its device twice, nor after one that was given later,
\* whatever was lost or refused in between (PeerClient: what fails is not
\* repeated).
OnceInOrder == [][Reaches /\ job.order # 0 => job.order > done]_partners

\* What was accepted goes out, whichever devices have gone and whatever
\* connection does not start or end.
Queued(n) == \E i \in DOMAIN jobs : jobs[i].order = n
CommandsLeave == \A n \in 1..MaxOrders : []<>~Queued(n)

\* A device that keeps answering is in the end known to, however often the others do
\* not, and as it is: an automation that tests it sees the state it is in.  Only of
\* one whose document is too long the value is never known (absorb's early returns),
\* though it is shown as online.
SeesDevice ==
  \A d \in Device \ Sleeper :
    <>[](Pollable(d) /\ d \in answering)
      => <>[](/\ states[d] # Unknown /\ states[d].online
              /\ d \notin Verbose => ReadValue(d) = lamp[d])

\* A device that answers no more is not taken for ever for one that does.
NoticesSilence ==
  \A d \in Device \ Sleeper :
    <>[](Pollable(d) /\ d \notin answering)
      => <>[](states[d] = Unknown \/ ~states[d].online)

\* What is known of the paired devices is in the end what is so.
KnowsDevices == SeesDevice /\ NoticesSilence
=============================================================================
