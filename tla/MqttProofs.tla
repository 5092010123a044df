----------------------------- MODULE MqttProofs -----------------------------
(***************************************************************************)
(* Proofs about Mqtt: type correctness with the bounds of the back-off,    *)
(* and that a working connection leaves nothing old on show, for every     *)
(* heartbeat, delay and number of changes.                                 *)
(***************************************************************************)
EXTENDS Mqtt, TLAPS

\* What the type invariant says of each part; a command is on its way over a
\* connection that works, or not at all.
DeviceTypes ==
  /\ rev \in Revisions
  /\ sent \in Revisions \cup {Nothing} /\ (sent # Nothing => sent <= rev)
  /\ age \in 0..Heartbeat
TimerTypes == delay \in FirstDelay..MaxDelay /\ wait \in 0..delay
LinkTypes ==
  /\ link \in {"up", "dead", "down"}
  /\ asked \in Commands \cup {Nothing} /\ (asked # Nothing => link = "up")
  /\ will \in Wills \cup {"none"} /\ (will # "none" => link # "up")
  /\ wifi \in BOOLEAN /\ (link = "up" => wifi)
  /\ conf \in Settings

\* A message, and a topic of the two, each with what it may hold.
MessageTypes ==
  /\ kept \in [state : Revisions \cup {Nothing}, online : BOOLEAN \cup {Nothing}]
  /\ shown \in [state : Revisions \cup {Nothing, Wish},
                online : BOOLEAN \cup {Nothing}]

\* What UpToDate needs: what was published last is what is retained, so that
\* a subscriber who comes late is told the same.
RetainedCurrent ==
  link = "up" /\ conf.retain => kept.state = rev /\ shown.state \in {rev, Wish}

\* The inductive invariant.
MqttInv ==
  /\ DeviceTypes /\ TimerTypes /\ LinkTypes /\ MessageTypes
  /\ RetainedCurrent

----------------------------------------------------------------------------
LEMMA TimesPositive ==
  /\ Heartbeat \in Nat \ {0} /\ FirstDelay \in Nat \ {0} /\ MaxDelay \in Nat
  /\ FirstDelay <= MaxDelay /\ MaxRevision \in Nat
BY DelayAssumption DEF DelayAssumption

LEMMA MqttInvInit == Init => MqttInv
<1> SUFFICES ASSUME Init PROVE MqttInv
  OBVIOUS
<1>1. DeviceTypes
  BY TimesPositive DEF Init, DeviceTypes, Revisions
<1>2. TimerTypes
  BY TimesPositive DEF Init, TimerTypes
<1>3. LinkTypes /\ RetainedCurrent
  BY DEF Init, LinkTypes, RetainedCurrent
<1>4. MessageTypes
  BY DEF Init, MessageTypes, Blank
<1> QED BY <1>1, <1>2, <1>3, <1>4 DEF MqttInv

\* Publishing the state r, once it is the bus's, over whatever link.
LEMMA PublishKeeps ==
  ASSUME MqttInv, NEW r \in Revisions, rev' = r, rev <= r, Publish(r),
         link' = link, conf' = conf
  PROVE  DeviceTypes' /\ MessageTypes' /\ RetainedCurrent'
<1>1. DeviceTypes'
  BY TimesPositive DEF MqttInv, DeviceTypes, Publish, Revisions
<1>2. CASE link = "up"
  <2>1. /\ shown' = [shown EXCEPT !["state"] = r]
        /\ kept' = IF conf.retain THEN [kept EXCEPT !["state"] = r] ELSE kept
    BY <1>2 DEF Publish, Connected, Told, Kept
  <2> QED BY <1>1, <1>2, <2>1 DEF MqttInv, MessageTypes, RetainedCurrent
<1>3. CASE link # "up"
  <2>1. kept' = kept /\ shown' = shown
    BY <1>3 DEF Publish, Connected
  <2> QED BY <1>1, <1>3, <2>1 DEF MqttInv, MessageTypes, RetainedCurrent
<1> QED BY <1>2, <1>3

LEMMA ChangedStep ==
  ASSUME MqttInv, Changed
  PROVE  MqttInv'
<1>1. rev + 1 \in Revisions /\ rev <= rev + 1
  BY TimesPositive DEF Changed, MqttInv, DeviceTypes, Revisions
<1>2. DeviceTypes' /\ MessageTypes' /\ RetainedCurrent'
  BY <1>1, PublishKeeps DEF Changed
<1> QED BY <1>2 DEF MqttInv, Changed, TimerTypes, LinkTypes

LEMMA RepublishStep ==
  ASSUME MqttInv, Republish
  PROVE  MqttInv'
<1>1. rev \in Revisions /\ rev <= rev
  BY DEF MqttInv, DeviceTypes, Revisions
<1>2. DeviceTypes' /\ MessageTypes' /\ RetainedCurrent'
  BY <1>1, PublishKeeps DEF Republish
<1> QED BY <1>2 DEF MqttInv, Republish, TimerTypes, LinkTypes

LEMMA CommandStep ==
  ASSUME MqttInv, Command
  PROVE  MqttInv'
<1>1. /\ asked' = Nothing /\ UNCHANGED <<wait, delay, link, will, wifi, conf>>
      /\ Answer(asked)
  BY DEF Command
<1>2. TimerTypes' /\ LinkTypes'
  BY <1>1 DEF MqttInv, TimerTypes, LinkTypes
<1>3. rev \in Revisions /\ rev <= rev
  BY DEF MqttInv, DeviceTypes, Revisions
<1>4. CASE rev < MaxRevision /\ rev' = rev + 1 /\ Publish(rev + 1)
  <2>1. rev + 1 \in Revisions /\ rev <= rev + 1
    BY <1>4, TimesPositive DEF MqttInv, DeviceTypes, Revisions
  <2>2. DeviceTypes' /\ MessageTypes' /\ RetainedCurrent'
    BY <1>1, <1>4, <2>1, PublishKeeps
  <2> QED BY <1>2, <2>2 DEF MqttInv
<1>5. CASE Publish(rev) /\ UNCHANGED rev
  <2>1. DeviceTypes' /\ MessageTypes' /\ RetainedCurrent'
    BY <1>1, <1>3, <1>5, PublishKeeps
  <2> QED BY <1>2, <2>1 DEF MqttInv
<1>6. CASE UNCHANGED <<rev, sent, age, kept, shown>>
  BY <1>1, <1>2, <1>6 DEF MqttInv, DeviceTypes, MessageTypes, RetainedCurrent
<1> QED BY <1>1, <1>4, <1>5, <1>6 DEF Answer

LEMMA ConnectStep ==
  ASSUME MqttInv, Connect
  PROVE  MqttInv'
<1>1. /\ link' = "up" /\ will' = "none" /\ delay' = FirstDelay /\ wait' = delay'
      /\ sent' = rev /\ age' = 0 /\ UNCHANGED <<rev, asked, wifi, conf>>
      /\ wifi
      /\ shown' = [state |-> rev, online |-> TRUE]
      /\ kept' = IF conf.retain THEN [state |-> rev, online |-> TRUE]
                 ELSE IF will = "retained" THEN [kept EXCEPT !.online = FALSE]
                 ELSE kept
  BY DEF Connect, MayTry
<1>2. DeviceTypes'
  BY <1>1, TimesPositive DEF MqttInv, DeviceTypes, Revisions
<1>3. TimerTypes'
  BY <1>1, TimesPositive DEF TimerTypes
<1>4. LinkTypes'
  BY <1>1 DEF MqttInv, LinkTypes
<1>5. MessageTypes' /\ RetainedCurrent'
  BY <1>1 DEF MqttInv, DeviceTypes, MessageTypes, RetainedCurrent
<1> QED BY <1>2, <1>3, <1>4, <1>5 DEF MqttInv

LEMMA ConnectFailsStep ==
  ASSUME MqttInv, ConnectFails
  PROVE  MqttInv'
<1>1. delay' \in FirstDelay..MaxDelay /\ wait' = delay'
  BY TimesPositive DEF ConnectFails, Earlier, MqttInv, TimerTypes
<1>2. TimerTypes'
  BY <1>1, TimesPositive DEF TimerTypes
<1>3. UNCHANGED <<rev, sent, age, link, asked, will, kept, shown, wifi, conf>>
  BY DEF ConnectFails, broker
<1> QED BY <1>2, <1>3 DEF MqttInv, DeviceTypes, LinkTypes, MessageTypes,
           RetainedCurrent

LEMMA TickStep ==
  ASSUME MqttInv, Tick
  PROVE  MqttInv'
<1>1. UNCHANGED <<rev, sent, delay, link, asked, will, kept, shown, wifi, conf>>
  BY DEF Tick, broker
<1>2. age' \in 0..Heartbeat
  BY TimesPositive DEF Tick, Earlier, MqttInv, DeviceTypes
<1>3. wait' \in 0..delay
  BY TimesPositive DEF Tick, MqttInv, TimerTypes
<1> QED BY <1>1, <1>2, <1>3 DEF MqttInv, DeviceTypes, TimerTypes, LinkTypes,
           MessageTypes, RetainedCurrent

\* What leaves the device's own counters and timers alone.
LEMMA OutsideStep ==
  ASSUME MqttInv,
         \/ \E c \in Commands : Ask(c)
         \/ Break \/ BrokerRestart \/ Subscribe \/ WifiDown \/ WifiUp
         \/ Notice \/ LastWill
  PROVE  MqttInv'
<1>1. UNCHANGED <<rev, sent, age, wait, delay, conf>>
  BY DEF Ask, Break, BrokerRestart, Subscribe, WifiDown, WifiUp, Notice,
         LastWill, Lost, device
<1>2. DeviceTypes' /\ TimerTypes'
  BY <1>1 DEF MqttInv, DeviceTypes, TimerTypes
<1>3. CASE \E c \in Commands : Ask(c)
  BY <1>1, <1>2, <1>3 DEF MqttInv, LinkTypes, MessageTypes, RetainedCurrent, Ask,
     broker
<1>4. CASE Break \/ WifiDown
  <2>1. \/ UNCHANGED <<link, will, asked>>
        \/ link' = "dead" /\ asked' = Nothing /\ will' \in {"retained", "passing"}
    BY <1>4 DEF Break, WifiDown, Lost
  <2>2. UNCHANGED <<kept, shown>> /\ wifi' \in BOOLEAN /\ (link' = "up" => wifi')
    BY <1>4 DEF Break, WifiDown, Lost, MqttInv, LinkTypes
  <2> QED BY <1>1, <1>2, <2>1, <2>2
          DEF MqttInv, LinkTypes, MessageTypes, RetainedCurrent, Wills
<1>5. CASE BrokerRestart
  <2>1. LinkTypes' /\ RetainedCurrent'
    BY <1>1, <1>5 DEF BrokerRestart, MqttInv, LinkTypes, RetainedCurrent
  <2>2. MessageTypes'
    BY <1>5 DEF BrokerRestart, Blank, MqttInv, MessageTypes
  <2> QED BY <1>2, <2>1, <2>2 DEF MqttInv
<1>6. CASE Subscribe
  BY <1>1, <1>2, <1>6 DEF Subscribe, broker, MqttInv, LinkTypes, MessageTypes,
     RetainedCurrent
<1>7. CASE WifiUp \/ Notice
  BY <1>1, <1>2, <1>7 DEF WifiUp, Notice, broker, MqttInv, LinkTypes,
     MessageTypes, RetainedCurrent
<1>8. CASE LastWill
  <2>1. LinkTypes' /\ link # "up" /\ link' = link
    BY <1>1, <1>8 DEF LastWill, MqttInv, LinkTypes
  <2>2. MessageTypes'
    BY <1>8 DEF LastWill, MqttInv, MessageTypes
  <2> QED BY <1>2, <2>1, <2>2 DEF MqttInv, RetainedCurrent
<1> QED BY <1>3, <1>4, <1>5, <1>6, <1>7, <1>8

LEMMA ReconfigureStep ==
  ASSUME MqttInv, NEW c \in Settings, Reconfigure(c)
  PROVE  MqttInv'
<1>1. UNCHANGED <<rev, sent, age, will, wifi>> /\ conf' = c
  BY DEF Reconfigure
<1>2. TimerTypes'
  BY TimesPositive DEF Reconfigure, TimerTypes
<1>3. LinkTypes' /\ RetainedCurrent'
  BY <1>1 DEF Reconfigure, MqttInv, LinkTypes, RetainedCurrent
<1>4. DeviceTypes'
  BY <1>1 DEF MqttInv, DeviceTypes
<1>5. MessageTypes'
  BY DEF Reconfigure, MqttInv, MessageTypes
<1> QED BY <1>2, <1>3, <1>4, <1>5 DEF MqttInv

LEMMA MqttStep == MqttInv /\ [Next]_vars => MqttInv'
<1> SUFFICES ASSUME MqttInv, [Next]_vars PROVE MqttInv'
  OBVIOUS
<1>1. CASE UNCHANGED vars
  BY <1>1 DEF vars, device, broker, MqttInv, DeviceTypes, TimerTypes, LinkTypes,
     MessageTypes, RetainedCurrent
<1> QED BY <1>1, ChangedStep, RepublishStep, CommandStep, ConnectStep,
           ConnectFailsStep, TickStep, OutsideStep, ReconfigureStep
        DEF Next, Calm, Loop

LEMMA MqttInvHolds == Spec => []MqttInv
BY MqttInvInit, MqttStep, PTL DEF Spec

\* Every variable of the client keeps its type, whatever is lost, refused,
\* restarted or reconfigured: the delay before the next attempt never leaves
\* its limits, nothing is counted as published that the bus never had, and no
\* command waits on a connection that is known to be down.
THEOREM MqttTypeCorrect == Spec => []TypeOK
<1>1. MqttInv => TypeOK
  BY DEF MqttInv, DeviceTypes, TimerTypes, LinkTypes, MessageTypes, TypeOK
<1> QED BY <1>1, MqttInvHolds, PTL

\* Over a connection that works, with states retained, Home Assistant shows the
\* state the bus has or its own wish, at every moment and even right after it
\* restarts (publishState, connect).
THEOREM NothingOldOnShow == Spec => []UpToDate
<1>1. MqttInv => UpToDate
  BY DEF MqttInv, RetainedCurrent, UpToDate
<1> QED BY <1>1, MqttInvHolds, PTL
=============================================================================
