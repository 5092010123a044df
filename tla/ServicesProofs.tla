--------------------------- MODULE ServicesProofs ---------------------------
(***************************************************************************)
(* Proofs about Watchers, Telegram and PeerClient, the services on the     *)
(* network: the facts about their steps from which module HouseholdProofs  *)
(* draws its theorems.  For any number of revisions, chats, updates and    *)
(* faults, any size of a poll, any number of paired devices and commands,  *)
(* and any queues.                                                         *)
(***************************************************************************)
EXTENDS Watchers, Telegram, PeerClient, Integers, FiniteSetTheorems, TLAPS

----------------------------------------------------------------------------
(* Those who follow the bus.                                               *)

\* What the webhook has told, has in flight and has noted follow each other.
HookInOrder ==
  /\ hookShown <= dueRev /\ dueRev <= rev
  /\ flight # Nothing =>
       /\ hookShown <= flight.rev /\ flight.rev <= dueRev
       /\ flight.got => hookShown = flight.rev

\* The newest revision is told, in flight or noted, unless it was missed.
HookHasNewest ==
  \/ missed
  \/ due /\ dueRev = rev
  \/ flight # Nothing /\ flight.rev = rev
  \/ hookShown = rev

\* The inductive invariant.
WatchersInv ==
  /\ WatchersOK
  /\ pageShown <= rev /\ PageComplete
  /\ HookInOrder /\ HookHasNewest
  /\ PlcCurrent /\ (~plc => registers = 0)

----------------------------------------------------------------------------
LEMMA WatchersInvInit == WatchersInit => WatchersInv
<1> SUFFICES ASSUME WatchersInit PROVE WatchersInv
  OBVIOUS
<1>1. WatchersFlags
  BY Zenon DEF WatchersInit, WatchersFlags
<1>2. WatchersOK
  BY <1>1, WatchersAssumption DEF WatchersAssumption, WatchersInit, WatchersOK, Revision
<1>3. /\ pageShown <= rev /\ PageComplete
      /\ HookInOrder /\ HookHasNewest
      /\ PlcCurrent /\ (~plc => registers = 0)
  BY DEF WatchersInit, PageComplete, HookInOrder, HookHasNewest, PlcCurrent
<1> QED BY <1>2, <1>3 DEF WatchersInv

\* Flags stay flags.
LEMMA FlagsStep ==
  ASSUME WatchersFlags, [WatchersNext]_watchers
  PROVE  WatchersFlags'
<1> USE DEF WatchersFlags, pageVars, hookVars, plcVars
<1>1. CASE Notify
  BY <1>1, Zenon DEF Notify, HookNotes
<1>2. CASE PageConnects \/ PageLost \/ PageLoop
  BY <1>2, Zenon DEF PageConnects, PageLost, PageLoop
<1>3. CASE HookLoop
  BY <1>3, Zenon DEF HookLoop, HookDispatch, NoAddress, HookFailed
<1>4. CASE SendNow
  BY <1>4, Zenon DEF SendNow, HookDispatch, NoAddress, HookFailed
<1>5. CASE Arrives \/ PauseOver
  BY <1>5, Zenon DEF Arrives, PauseOver
<1>6. ASSUME NEW ok \in BOOLEAN, HookAnswered(ok)
      PROVE  WatchersFlags'
  BY <1>6, Zenon DEF HookAnswered, HookTold, HookFailed
<1>7. ASSUME NEW h \in BOOLEAN, NEW p \in BOOLEAN, Reconfigured(h, p)
      PROVE  WatchersFlags'
  BY <1>7, Zenon DEF Reconfigured
<1>8. CASE PlcWrites
  BY <1>1, <1>8, Zenon DEF PlcWrites
<1>9. CASE NetworkChanges
  BY <1>9, Zenon DEF NetworkChanges
<1>10. CASE UNCHANGED watchers
  BY <1>10, Zenon DEF watchers
<1> QED BY <1>1, <1>2, <1>3, <1>4, <1>5, <1>6, <1>7, <1>8, <1>9, <1>10, Zenon
        DEF WatchersNext

\* Every step of the webhook keeps what is told, in flight and noted in order,
\* and tells no older revision.
LEMMA HookStep ==
  ASSUME WatchersInv,
         \/ HookLoop \/ SendNow \/ Arrives \/ PauseOver
         \/ \E ok \in BOOLEAN : HookAnswered(ok)
  PROVE  /\ HookInOrder' /\ HookHasNewest' /\ hookShown <= hookShown'
         /\ hookShown' \in Revision /\ dueRev' \in Revision
         /\ flight' \in Delivery \cup {Nothing}
         /\ failures' \in 0..FailuresBefore
         /\ UNCHANGED <<rev, network, pageVars, hookOn, plcVars>>
<1> USE WatchersAssumption, NothingAssumption
        DEF WatchersAssumption, NothingAssumption
<1> DEFINE Typed == /\ hookShown' \in Revision /\ dueRev' \in Revision
                    /\ flight' \in Delivery \cup {Nothing}
                    /\ failures' \in 0..FailuresBefore
           Told == HookInOrder' /\ HookHasNewest' /\ hookShown <= hookShown'
           Rest == UNCHANGED <<rev, network, pageVars, hookOn, plcVars>>
<1>1. /\ rev \in Nat /\ dueRev \in Nat /\ hookShown \in Nat
      /\ rev \in Revision /\ dueRev \in Revision /\ hookShown \in Revision
      /\ flight \in Delivery \cup {Nothing}
      /\ flight # Nothing => flight \in Delivery /\ flight.rev \in Nat
      /\ failures \in Nat /\ failures \in 0..FailuresBefore
      /\ HookInOrder /\ HookHasNewest
  BY DEF WatchersInv, WatchersOK, Revision, Delivery
<1>2. ASSUME NEW r, NEW pause, NEW space, HookDispatch(r, pause, space)
      PROVE  /\ \/ flight' = [rev |-> r, got |-> FALSE] /\ missed' = missed
                \/ flight' = flight /\ missed' = TRUE
             /\ failures' \in 0..FailuresBefore
  <2>1. CASE /\ flight' = [rev |-> r, got |-> FALSE]
             /\ UNCHANGED <<failures, missed>>
    BY <1>1, <2>1
  <2>2. CASE NoAddress(pause, space)
    BY <1>1, <2>2 DEF NoAddress
  <2>3. CASE HookFailed(pause) /\ UNCHANGED flight
    <3>1. failures' = IF failures < FailuresBefore THEN failures + 1 ELSE failures
      BY <2>3 DEF HookFailed
    <3>2. missed' = TRUE /\ flight' = flight
      BY <2>3 DEF HookFailed
    <3>3. failures' \in 0..FailuresBefore
      BY <1>1, <3>1
    <3> QED BY <3>2, <3>3
  <2> QED BY <1>2, <2>1, <2>2, <2>3 DEF HookDispatch
<1>3. CASE HookLoop
  <2>1. due /\ flight = Nothing /\ UNCHANGED <<dueRev, hookShown>> /\ Rest
    BY <1>3 DEF HookLoop
  <2>2. \/ missed' = TRUE /\ UNCHANGED <<flight, failures>>
        \/ HookDispatch(dueRev, FALSE, TRUE)
    BY <1>3 DEF HookLoop
  <2>3. /\ \/ flight' = [rev |-> dueRev, got |-> FALSE] /\ missed' = missed
           \/ flight' = flight /\ missed' = TRUE
        /\ failures' \in 0..FailuresBefore
    BY <1>1, <1>2, <2>2
  <2>4. CASE flight' = [rev |-> dueRev, got |-> FALSE] /\ missed' = missed
    <3>1. flight' \in Delivery /\ flight'.rev = dueRev /\ ~flight'.got
      BY <1>1, <2>4 DEF Delivery
    <3>2. flight' # Nothing
      BY <3>1
    <3>3. HookInOrder'
      BY <1>1, <2>1, <3>1 DEF HookInOrder
    <3>4. HookHasNewest'
      BY <1>1, <2>1, <2>4, <3>1, <3>2 DEF HookHasNewest
    <3> QED BY <1>1, <2>1, <2>3, <3>1, <3>3, <3>4
  <2>5. CASE flight' = flight /\ missed' = TRUE
    <3>1. HookInOrder'
      BY <1>1, <2>1, <2>5 DEF HookInOrder
    <3>2. HookHasNewest'
      BY <2>5 DEF HookHasNewest
    <3> QED BY <1>1, <2>1, <2>3, <2>5, <3>1, <3>2
  <2> QED BY <2>3, <2>4, <2>5
<1>4. CASE SendNow
  <2>1. flight = Nothing /\ dueRev' = rev /\ hookShown' = hookShown /\ Rest
    BY <1>4 DEF SendNow
  <2>2. HookDispatch(rev, FALSE, TRUE)
    BY <1>4 DEF SendNow
  <2>3. /\ \/ flight' = [rev |-> rev, got |-> FALSE] /\ missed' = missed
           \/ flight' = flight /\ missed' = TRUE
        /\ failures' \in 0..FailuresBefore
    BY <1>2, <2>2
  <2>4. CASE flight' = [rev |-> rev, got |-> FALSE] /\ missed' = missed
    <3>1. flight' \in Delivery /\ flight'.rev = rev /\ ~flight'.got
      BY <1>1, <2>4 DEF Delivery
    <3>2. flight' # Nothing
      BY <3>1
    <3>3. HookInOrder'
      BY <1>1, <2>1, <3>1 DEF HookInOrder
    <3>4. HookHasNewest'
      BY <2>1, <3>1, <3>2 DEF HookHasNewest
    <3> QED BY <1>1, <2>1, <2>3, <3>1, <3>3, <3>4
  <2>5. CASE flight' = flight /\ missed' = TRUE
    <3>1. HookInOrder'
      BY <1>1, <2>1, <2>5 DEF HookInOrder
    <3>2. HookHasNewest'
      BY <2>5 DEF HookHasNewest
    <3> QED BY <1>1, <2>1, <2>3, <2>5, <3>1, <3>2
  <2> QED BY <2>3, <2>4, <2>5
<1>5. CASE Arrives
  <2>1. /\ flight # Nothing /\ flight' = [flight EXCEPT !.got = TRUE]
        /\ hookShown' = flight.rev /\ UNCHANGED <<due, dueRev, failures, missed>>
        /\ Rest
    BY <1>5 DEF Arrives
  <2>2. flight' \in Delivery /\ flight'.rev = flight.rev /\ flight.rev \in Revision
    BY <1>1, <2>1 DEF Delivery
  <2>3. flight' # Nothing
    BY <2>2
  <2>4. HookInOrder' /\ hookShown <= hookShown'
    BY <1>1, <2>1, <2>2 DEF HookInOrder
  <2>5. HookHasNewest'
    BY <1>1, <2>1, <2>2, <2>3 DEF HookHasNewest, HookInOrder
  <2> QED BY <1>1, <2>1, <2>2, <2>4, <2>5
<1>6. CASE PauseOver
  <2>1. UNCHANGED <<due, dueRev, flight, failures, hookShown, missed>> /\ Rest
    BY <1>6 DEF PauseOver
  <2>2. HookInOrder' /\ HookHasNewest'
    BY <1>1, <2>1 DEF HookInOrder, HookHasNewest
  <2> QED BY <1>1, <2>1, <2>2
<1>7. ASSUME NEW ok \in BOOLEAN, HookAnswered(ok)
      PROVE  Told /\ Typed /\ Rest
  <2>1. flight # Nothing /\ flight' = Nothing
        /\ UNCHANGED <<due, dueRev, hookShown>> /\ Rest
    BY <1>7 DEF HookAnswered
  <2>2. HookInOrder'
    BY <1>1, <2>1 DEF HookInOrder
  <2>3. CASE ok
    <3>1. /\ flight.got /\ failures' = 0
          /\ missed' = (missed /\ hookShown < rev)
      BY <1>7, <2>3 DEF HookAnswered, HookTold
    <3>2. ~missed => HookHasNewest'
      BY <1>1, <2>1, <3>1 DEF HookHasNewest, HookInOrder
    <3>3. missed => HookHasNewest'
      <4>1. CASE hookShown < rev
        <5>1. missed => missed'
          BY <3>1, <4>1, Zenon
        <5> QED BY <5>1 DEF HookHasNewest
      <4>2. CASE ~(hookShown < rev)
        <5>1. hookShown' = rev'
          BY <1>1, <2>1, <4>2 DEF HookInOrder
        <5> QED BY <5>1 DEF HookHasNewest
      <4> QED BY <4>1, <4>2
    <3>4. failures' \in 0..FailuresBefore
      BY <3>1
    <3> QED BY <1>1, <2>1, <2>2, <3>2, <3>3, <3>4
  <2>4. CASE ~ok
    <3>1. failures' = IF failures < FailuresBefore THEN failures + 1 ELSE failures
      BY <1>7, <2>4 DEF HookAnswered, HookFailed
    <3>2. missed' = TRUE
      BY <1>7, <2>4 DEF HookAnswered, HookFailed
    <3>3. failures' \in 0..FailuresBefore
      BY <1>1, <3>1
    <3>4. HookHasNewest'
      BY <3>2 DEF HookHasNewest
    <3> QED BY <1>1, <2>1, <2>2, <3>3, <3>4
  <2> QED BY <2>3, <2>4
<1> QED BY <1>3, <1>4, <1>5, <1>6, <1>7

\* A change is noted for the page and the webhook, and in the registers.
LEMMA NotifyStep ==
  ASSUME WatchersInv, Notify
  PROVE  /\ WatchersInv' /\ rev' = rev + 1 /\ pageShown' = pageShown
         /\ hookShown' = hookShown /\ registers <= registers'
<1> USE WatchersAssumption, NothingAssumption DEF WatchersAssumption, NothingAssumption
<1>1. /\ rev \in Nat /\ dueRev \in Nat /\ hookShown \in Nat /\ pageShown \in Nat
      /\ registers \in Nat
      /\ flight # Nothing => flight.rev \in Nat
      /\ rev < MaxRev /\ rev' = rev + 1 /\ rev' \in Revision
  BY DEF Notify, WatchersInv, WatchersOK, Revision, Delivery
<1>2. registers' = IF plc THEN rev' ELSE registers
  BY DEF Notify, Published, Stored
<1>3. IF hookOn THEN due' = TRUE /\ dueRev' = rev' /\ missed' = missed
                ELSE missed' = TRUE /\ due' = due /\ dueRev' = dueRev
  BY DEF Notify, HookNotes
<1>4. UNCHANGED <<network, open, pageShown, hookOn, flight, failures, pausing,
                  spaced, hookShown, plcOn, plc>> /\ pageDue' = TRUE
  BY DEF Notify
<1>f. WatchersFlags'
  BY FlagsStep DEF WatchersInv, WatchersOK, WatchersNext
<1>5. WatchersOK'
  BY <1>f, <1>1, <1>2, <1>3, <1>4 DEF WatchersInv, WatchersOK
<1>6. (pageShown <= rev /\ PageComplete)'
  BY <1>1, <1>4 DEF WatchersInv, PageComplete
<1>7. HookInOrder' /\ HookHasNewest'
  BY <1>1, <1>3, <1>4 DEF WatchersInv, HookInOrder, HookHasNewest
<1>8. (PlcCurrent /\ (~plc => registers = 0))' /\ registers <= registers'
  BY <1>1, <1>2, <1>4 DEF WatchersInv, PlcCurrent
<1> QED BY <1>1, <1>4, <1>5, <1>6, <1>7, <1>8 DEF WatchersInv

\* What a step does to the three.
LEMMA WatchersStep ==
  ASSUME WatchersInv, [WatchersNext]_watchers
  PROVE  /\ WatchersInv'
         /\ rev' \in {rev, rev + 1}
         /\ pageShown' \in pageShown..rev'
         /\ hookShown' \in hookShown..rev'
         /\ registers' \in registers..rev'
<1> DEFINE PageGoal == /\ pageShown' \in Revision /\ pageShown <= pageShown'
                       /\ pageShown' <= rev' /\ PageComplete'
           HookGoal == /\ hookShown' \in Revision /\ dueRev' \in Revision
                       /\ flight' \in Delivery \cup {Nothing}
                       /\ failures' \in 0..FailuresBefore
                       /\ HookInOrder' /\ HookHasNewest'
                       /\ hookShown <= hookShown'
           PlcGoal == /\ registers' \in Revision /\ registers <= registers'
                      /\ PlcCurrent' /\ (~plc' => registers' = 0)
           Goal == rev' \in Revision /\ rev' \in {rev, rev + 1}
                   /\ PageGoal /\ HookGoal /\ PlcGoal
<1>1. /\ rev \in Nat /\ dueRev \in Nat /\ hookShown \in Nat /\ pageShown \in Nat
      /\ registers \in Nat
      /\ rev \in Revision /\ dueRev \in Revision /\ hookShown \in Revision
      /\ pageShown \in Revision /\ registers \in Revision
      /\ flight \in Delivery \cup {Nothing}
      /\ failures \in 0..FailuresBefore
      /\ pageShown <= rev /\ registers <= rev /\ PageComplete
      /\ HookInOrder /\ HookHasNewest
      /\ PlcCurrent /\ (~plc => registers = 0)
  BY WatchersAssumption
     DEF WatchersAssumption, WatchersInv, WatchersOK, Revision, PlcCurrent
<1>p. UNCHANGED <<rev, pageVars>> => PageGoal
  BY <1>1 DEF pageVars, PageComplete
<1>h. /\ UNCHANGED rev
      /\ UNCHANGED <<due, dueRev, flight, failures, hookShown, missed>>
      => HookGoal
  BY <1>1 DEF HookInOrder, HookHasNewest
<1>m. UNCHANGED <<rev, plcVars>> => PlcGoal
  BY <1>1 DEF plcVars, PlcCurrent
<1>2. ASSUME Notify PROVE Goal
  <2>1. /\ WatchersInv' /\ rev' = rev + 1 /\ pageShown' = pageShown
        /\ hookShown' = hookShown /\ registers <= registers'
    BY <1>2, NotifyStep
  <2> QED BY <1>1, <2>1 DEF WatchersInv, WatchersOK
<1>3. ASSUME PageConnects \/ PageLost \/ PageLoop PROVE Goal
  <2>1. UNCHANGED <<rev, hookVars, plcVars>>
    BY <1>3 DEF PageConnects, PageLost, PageLoop
  <2>2. PageGoal
    <3>1. CASE PageConnects
      BY <1>1, <3>1 DEF PageConnects, PageComplete
    <3>2. CASE PageLost
      BY <1>1, <3>2 DEF PageLost, PageComplete
    <3>3. CASE PageLoop
      BY <1>1, <3>3 DEF PageLoop, PageComplete
    <3> QED BY <1>3, <3>1, <3>2, <3>3
  <2> QED BY <1>1, <1>h, <1>m, <2>1, <2>2 DEF hookVars
<1>4. ASSUME \/ HookLoop \/ SendNow \/ Arrives \/ PauseOver
             \/ \E ok \in BOOLEAN : HookAnswered(ok)
      PROVE  Goal
  <2>1. HookGoal /\ UNCHANGED <<rev, network, pageVars, hookOn, plcVars>>
    BY <1>4, HookStep
  <2> QED BY <1>1, <1>p, <1>m, <2>1
<1>5. ASSUME NEW h \in BOOLEAN, NEW p \in BOOLEAN, Reconfigured(h, p)
      PROVE  Goal
  <2>1. /\ UNCHANGED <<rev, pageVars, due, dueRev, flight, hookShown, missed>>
        /\ failures' = 0
        /\ registers' = IF ~plc /\ p THEN rev ELSE registers
    BY <1>5 DEF Reconfigured
  <2>2. HookGoal
    BY <1>1, <2>1, WatchersAssumption
       DEF WatchersAssumption, HookInOrder, HookHasNewest
  <2>3. plc' <=> plc \/ p
    BY <1>5, Zenon DEF Reconfigured
  <2>4. PlcGoal
    BY <1>1, <2>1, <2>3 DEF PlcCurrent
  <2> QED BY <1>1, <1>p, <2>1, <2>2, <2>4
<1>6. ASSUME PlcWrites PROVE Goal
  <2>1. CASE Notify
    BY <1>2, <2>1
  <2>2. CASE /\ registers' = Stored(rev + 1, FALSE)
             /\ UNCHANGED <<rev, network, pageVars, hookVars, plcOn, plc>>
    <3>1. registers' = registers
      BY <2>2 DEF Stored
    <3>2. UNCHANGED <<rev, pageVars, plcVars>>
          /\ UNCHANGED <<due, dueRev, flight, failures, hookShown, missed>>
      BY <2>2, <3>1 DEF hookVars, plcVars
    <3> QED BY <1>1, <1>p, <1>h, <1>m, <3>2
  <2> QED BY <1>6, <2>1, <2>2 DEF PlcWrites
<1>7. ASSUME NetworkChanges PROVE Goal
  <2>1. UNCHANGED <<rev, pageShown, pageDue, hookVars, plcVars>>
    BY <1>7 DEF NetworkChanges
  <2>2. open' => open
    BY <1>7, Zenon DEF NetworkChanges
  <2>3. PageGoal
    BY <1>1, <2>1, <2>2 DEF PageComplete
  <2> QED BY <1>1, <1>h, <1>m, <2>1, <2>3 DEF hookVars
<1>8. ASSUME UNCHANGED watchers PROVE Goal
  <2>1. UNCHANGED <<rev, pageVars, hookVars, plcVars>>
    BY <1>8 DEF watchers, pageVars, hookVars, plcVars
  <2> QED BY <1>1, <1>p, <1>h, <1>m, <2>1 DEF hookVars
<1>9. Goal
  BY <1>2, <1>3, <1>4, <1>5, <1>6, <1>7, <1>8 DEF WatchersNext
<1>10. WatchersFlags'
  BY FlagsStep DEF WatchersInv, WatchersOK
<1>11. WatchersInv'
  BY <1>9, <1>10 DEF WatchersInv, WatchersOK
<1>12. hookShown' <= rev' /\ rev' \in Nat /\ hookShown' \in Nat
       /\ pageShown' \in Nat /\ registers' \in Nat /\ registers' <= rev'
  BY <1>9, WatchersAssumption
     DEF WatchersAssumption, HookInOrder, Revision, PlcCurrent
<1> QED BY <1>1, <1>9, <1>11, <1>12

----------------------------------------------------------------------------
(* The bot.                                                                *)

\* A response is a run of updates from where the server was asked to start.
BatchInOrder ==
  /\ batch \in Seq(Nat)
  /\ \A i \in 1..Len(batch) : batch[i] = batch[1] + i - 1
  /\ batch # << >> =>
       /\ offset <= batch[1]
       /\ \A u \in 1..batch[1] - 1 : u \in handled

\* What is before the offset has been handled, and so has nothing after it
\* since the last start.
OffsetIsNext ==
  /\ \A u \in 1..offset - 1 : u \in handled
  /\ \A u \in since : u \in Nat /\ u < offset

\* While the door is open nobody has come through it.
DoorKept == (door => owners = {}) /\ \E c : owners \subseteq {c}

\* The inductive invariant.
BotInv ==
  /\ offset \in Nat /\ unread \in Nat
  /\ sent \in Seq([chat : Chat, long : BOOLEAN])
  /\ BatchInOrder /\ OffsetIsNext /\ NoneForgotten /\ DoorKept

----------------------------------------------------------------------------
LEMMA BotInvInit == TelegramInit => BotInv
<1> SUFFICES ASSUME TelegramInit PROVE BotInv
  OBVIOUS
<1>1. /\ offset = 0 /\ unread = 1 /\ batch = << >> /\ sent = << >>
      /\ handled = {} /\ since = {} /\ owners = {}
  BY DEF TelegramInit
<1>2. BatchInOrder
  BY <1>1 DEF BatchInOrder
<1>3. OffsetIsNext /\ NoneForgotten
  BY <1>1 DEF OffsetIsNext, NoneForgotten
<1>4. DoorKept
  BY <1>1 DEF DoorKept
<1> QED BY <1>1, <1>2, <1>3, <1>4 DEF BotInv

\* Steps that leave the updates alone keep what is known of them.
LEMMA UpdatesKept ==
  ASSUME BotInv, UNCHANGED <<offset, batch, unread, handled, heard, since>>
  PROVE  /\ offset' \in Nat /\ unread' \in Nat
         /\ BatchInOrder' /\ OffsetIsNext' /\ NoneForgotten'
<1>1. BatchInOrder'
  BY DEF BotInv, BatchInOrder
<1>2. OffsetIsNext' /\ NoneForgotten'
  BY DEF BotInv, OffsetIsNext, NoneForgotten
<1> QED BY <1>1, <1>2 DEF BotInv

\* The same of the door, when somebody opens it again and all are forgotten.
LEMMA DoorReset ==
  ASSUME DoorKept, owners' = IF door' /\ ~door THEN {} ELSE owners
  PROVE  DoorKept'
<1>1. PICK c : owners \subseteq {c}
  BY DEF DoorKept
<1>2. owners' \subseteq {c}
  BY <1>1
<1>3. door' => owners' = {}
  BY DEF DoorKept
<1> QED BY <1>2, <1>3 DEF DoorKept

\* The server is asked for the first update that is not handled.
LEMMA FirstIsNext ==
  ASSUME BotInv
  PROVE  /\ FirstUnread \in Nat /\ offset <= FirstUnread
         /\ \A u \in 1..FirstUnread - 1 : u \in handled
BY DEF BotInv, FirstUnread, Larger, OffsetIsNext, NoneForgotten

LEMMA PolledStep ==
  ASSUME BotInv, Polled
  PROVE  BotInv'
<1>1. /\ unread' = FirstUnread /\ UNCHANGED <<offset, sent, handled, heard, since, door, owners>>
      /\ batch' = IF \E u \in Batch : sent[u].long THEN << >>
                  ELSE [i \in 1..Cardinality(Batch) |-> FirstUnread + i - 1]
  BY DEF Polled, access
<1>2. /\ FirstUnread \in Nat /\ offset <= FirstUnread
      /\ \A u \in 1..FirstUnread - 1 : u \in handled
  BY FirstIsNext
<1>3. Cardinality(Batch) \in Nat
  <2>1. Len(sent) \in Nat /\ PerPoll \in Nat
    BY TelegramAssumption DEF BotInv, TelegramAssumption
  <2>2. IsFiniteSet(Batch)
    <3>1. FirstUnread \in Int
      BY <1>2
    <3>2. Smaller(FirstUnread + PerPoll - 1, Len(sent)) \in Int
      BY <1>2, <2>1 DEF Smaller
    <3> QED BY <3>1, <3>2, FS_Interval DEF Batch
  <2> QED BY <2>2, FS_CardinalityType
<1> DEFINE n == Cardinality(Batch)
           run == [i \in 1..n |-> FirstUnread + i - 1]
<1> HIDE DEF n
<1>4. /\ run \in Seq(Nat) /\ Len(run) = n
      /\ \A i \in 1..n : run[i] = FirstUnread + i - 1
  <2>1. n \in Nat
    BY <1>3 DEF n
  <2>2. \A i \in 1..n : FirstUnread + i - 1 \in Nat
    BY <1>2, <2>1
  <2> QED BY <2>1, <2>2
<1>5. batch' = << >> \/ batch' = run
  BY <1>1 DEF n
<1> HIDE DEF run
<1>6. BatchInOrder'
  <2>1. CASE batch' = << >>
    BY <2>1 DEF BatchInOrder
  <2>2. CASE batch' = run
    <3>1. \A i \in 1..n : run[i] = run[1] + i - 1
      BY <1>2, <1>3, <1>4 DEF n
    <3>2. run # << >> => run[1] = FirstUnread
      BY <1>2, <1>3, <1>4 DEF n
    <3> QED BY <1>1, <1>2, <1>4, <2>2, <3>1, <3>2 DEF BatchInOrder
  <2> QED BY <1>5, <2>1, <2>2
<1>7. OffsetIsNext' /\ NoneForgotten'
  BY <1>1, <1>2 DEF BotInv, OffsetIsNext, NoneForgotten
<1>8. DoorKept'
  BY <1>1 DEF BotInv, DoorKept
<1> QED BY <1>1, <1>2, <1>6, <1>7, <1>8 DEF BotInv

LEMMA NoResponseStep ==
  ASSUME BotInv, NoResponse
  PROVE  BotInv'
<1>1. /\ unread' \in {unread, FirstUnread}
      /\ UNCHANGED <<offset, batch, sent, handled, heard, since, door, owners>>
  BY DEF NoResponse, access
<1>2. FirstUnread \in Nat /\ \A u \in 1..FirstUnread - 1 : u \in handled
  BY FirstIsNext
<1>3. unread' \in Nat /\ NoneForgotten'
  BY <1>1, <1>2 DEF BotInv, NoneForgotten
<1>4. BatchInOrder' /\ OffsetIsNext' /\ DoorKept'
  BY <1>1 DEF BotInv, BatchInOrder, OffsetIsNext, DoorKept
<1> QED BY <1>1, <1>3, <1>4 DEF BotInv

LEMMA HandleStep ==
  ASSUME BotInv, NEW n \in 0..2, Handle(n)
  PROVE  BotInv' /\ Head(batch) \notin since
<1> DEFINE u == batch[1]
           c == sent[u].chat
<1>1. /\ batch # << >> /\ batch' = Tail(batch)
      /\ offset' = IF u >= offset THEN u + 1 ELSE offset
      /\ handled' = handled \cup {u} /\ since' = since \cup {u}
      /\ Heeded(u, c, n)
      /\ UNCHANGED <<sent, unread>>
  BY DEF Handle, server
<1>2. /\ batch \in Seq(Nat) /\ u \in Nat /\ offset <= u
      /\ \A i \in 1..Len(batch) : batch[i] = u + i - 1
      /\ \A v \in 1..u - 1 : v \in handled
  BY <1>1 DEF BotInv, BatchInOrder
<1>3. offset' = u + 1
  BY <1>1, <1>2 DEF BotInv
<1>4. BatchInOrder'
  <2>1. batch' \in Seq(Nat) /\ \A i \in 1..Len(batch') : batch'[i] = u + i
    <3>1. /\ batch' \in Seq(Nat) /\ Len(batch') = Len(batch) - 1
          /\ \A i \in 1..Len(batch') : batch'[i] = batch[i + 1]
      BY <1>1, <1>2
    <3>2. Len(batch) \in Nat
      BY <1>2
    <3>3. \A i \in 1..Len(batch') : batch[i + 1] = u + i
      <4> TAKE i \in 1..Len(batch')
      <4>1. i + 1 \in 1..Len(batch)
        BY <3>1, <3>2
      <4>2. batch[i + 1] = u + (i + 1) - 1
        BY <1>2, <4>1
      <4> QED BY <1>2, <3>1, <3>2, <4>2
    <3> QED BY <3>1, <3>3
  <2>2. \A i \in 1..Len(batch') : batch'[i] = batch'[1] + i - 1
    <3> TAKE i \in 1..Len(batch')
    <3>1. 1 \in 1..Len(batch') /\ i \in Nat
      BY <2>1
    <3>2. batch'[i] = u + i /\ batch'[1] = u + 1
      BY <2>1, <3>1
    <3> QED BY <1>2, <3>1, <3>2
  <2>3. batch' # << >> => batch'[1] = u + 1
    BY <1>2, <2>1
  <2>4. \A v \in 1..u : v \in handled'
    BY <1>1, <1>2
  <2> QED BY <1>2, <1>3, <2>1, <2>2, <2>3, <2>4 DEF BatchInOrder
<1>5. OffsetIsNext'
  BY <1>1, <1>2, <1>3 DEF BotInv, OffsetIsNext
<1>6. NoneForgotten'
  BY <1>1 DEF BotInv, NoneForgotten
<1>7. DoorKept'
  <2>1. CASE UNCHANGED <<door, owners>>
    BY <2>1 DEF BotInv, DoorKept
  <2>2. CASE door' = FALSE /\ door /\ owners' = owners \cup {c}
    BY <2>2 DEF BotInv, DoorKept
  <2> QED BY <1>1, <2>1, <2>2 DEF Heeded, Message, KeyPress, Enrols
<1>8. u \notin since /\ u = Head(batch)
  BY <1>1, <1>2 DEF BotInv, OffsetIsNext
<1> QED BY <1>1, <1>2, <1>3, <1>4, <1>5, <1>6, <1>7, <1>8 DEF BotInv

LEMMA CutStep ==
  ASSUME BotInv, CutBot
  PROVE  BotInv'
<1>1. /\ offset' = 0 /\ batch' = << >> /\ since' = {}
      /\ UNCHANGED <<sent, unread, handled>>
      /\ door' = saved.door
      /\ owners' = IF door' /\ ~door THEN {} ELSE owners
  BY DEF CutBot, server
<1>2. BatchInOrder' /\ OffsetIsNext' /\ NoneForgotten'
  BY <1>1 DEF BotInv, BatchInOrder, OffsetIsNext, NoneForgotten
<1>3. DoorKept'
  BY <1>1, DoorReset DEF BotInv
<1> QED BY <1>1, <1>2, <1>3 DEF BotInv

LEMMA BotStep == BotInv /\ [TelegramNext]_chat => BotInv'
<1> SUFFICES ASSUME BotInv, [TelegramNext]_chat PROVE BotInv'
  OBVIOUS
<1>1. ASSUME NEW c \in Chat, NEW long \in BOOLEAN, Write(c, long)
      PROVE  BotInv'
  <2>1. /\ sent' = Append(sent, [chat |-> c, long |-> long])
        /\ UNCHANGED <<offset, batch, unread, handled, heard, since, door, owners>>
    BY <1>1 DEF Write, access
  <2>2. sent' \in Seq([chat : Chat, long : BOOLEAN])
    BY <2>1 DEF BotInv
  <2>3. DoorKept'
    BY <2>1 DEF BotInv, DoorKept
  <2> QED BY <2>1, <2>2, <2>3, UpdatesKept DEF BotInv
<1>2. ASSUME \/ Report \/ BackoffOver \/ Connect \/ Ask \/ Replied \/ Dropped
             \/ SaveAccess \/ ReadForm \/ UNCHANGED chat
      PROVE  BotInv'
  <2>1. UNCHANGED <<offset, batch, unread, handled, heard, since, door, owners, sent>>
    BY <1>2 DEF Report, BackoffOver, Connect, Ask, Replied, Dropped, SaveAccess,
                ReadForm, chat, access, server
  <2>2. DoorKept'
    BY <2>1 DEF BotInv, DoorKept
  <2> QED BY <2>1, <2>2, UpdatesKept DEF BotInv
<1>3. ASSUME NEW f \in Forms, NEW on \in BOOLEAN, PostForm(f, on)
      PROVE  BotInv'
  <2>1. /\ UNCHANGED <<offset, batch, unread, handled, heard, since, sent>>
        /\ owners' = IF door' /\ ~door THEN {} ELSE owners
    BY <1>3 DEF PostForm, server
  <2> QED BY <2>1, DoorReset, UpdatesKept DEF BotInv
<1> QED BY <1>1, <1>2, <1>3, PolledStep, NoResponseStep, HandleStep, CutStep
        DEF TelegramNext, BotLoop

\* What the bot's variables hold.  The updates it has to handle, and the offset
\* after them, are among those that were sent.
BotTypes ==
  /\ TelegramOK
  /\ offset <= Len(sent) + 1
  /\ \A i \in 1..Len(batch) : batch[i] <= Len(sent)

LEMMA BotTypesInit == TelegramInit => BotTypes
<1> SUFFICES ASSUME TelegramInit PROVE BotTypes
  OBVIOUS
<1>1. /\ offset = 0 /\ unread = 1 /\ batch = << >> /\ sent = << >>
      /\ handled = {} /\ heard = {} /\ since = {} /\ owners = {} /\ allowed = {}
      /\ saved = NewAccess /\ form = NewAccess /\ faults = 0 /\ waiting = 0
      /\ phase = "backoff" /\ request = "none"
  BY DEF TelegramInit
<1>2. NewAccess \in Access
  BY DEF NewAccess, Access
<1>3. enabled \in BOOLEAN /\ door \in BOOLEAN
  BY Zenon DEF TelegramInit
<1>4. /\ MaxQueue \in Nat /\ MaxUpdates \in Nat /\ MaxFaults \in Nat /\ PerPoll \in Nat
  BY TelegramAssumption DEF TelegramAssumption
<1>5. /\ waiting \in 0..MaxQueue /\ faults \in 0..MaxFaults
      /\ offset \in 0..MaxUpdates + 1
  BY <1>1, <1>4
<1>6. Len(sent) = 0 /\ Len(batch) = 0 /\ unread \in 1..Len(sent) + 1
  BY <1>1
<1>7. batch \in Seq(Update) /\ sent \in Seq([chat : Chat, long : BOOLEAN])
  BY <1>1
<1>8. Len(batch) <= PerPoll /\ Len(sent) <= MaxUpdates
  BY <1>4, <1>6
<1>9. TelegramOK
  BY <1>1, <1>2, <1>3, <1>5, <1>6, <1>7, <1>8 DEF TelegramOK, Phase
<1> QED BY <1>1, <1>6, <1>9 DEF BotTypes

\* What is common to the actions that leave the updates alone.
LEMMA BotUpdatesKept ==
  ASSUME BotTypes, UNCHANGED <<offset, batch, server, handled, heard, since>>,
         phase' \in Phase, request' \in {"none", "poll", "send"},
         phase' = "reading" <=> request' # "none",
         waiting' \in 0..MaxQueue, enabled' \in BOOLEAN, door' \in BOOLEAN,
         allowed' \subseteq Chat, owners' \subseteq Chat,
         saved' \in Access, form' \in Access, faults' \in 0..MaxFaults
  PROVE  BotTypes'
BY DEF BotTypes, TelegramOK, server

\* More replies are never more than there is room for.
LEMMA EnqueuedFits ==
  ASSUME waiting \in 0..MaxQueue, NEW n \in Nat
  PROVE  Enqueued(n) \in 0..MaxQueue
BY TelegramAssumption DEF TelegramAssumption, Enqueued, Smaller

LEMMA WriteTypes ==
  ASSUME BotTypes, NEW c \in Chat, NEW long \in BOOLEAN, Write(c, long)
  PROVE  BotTypes'
<1>1. /\ sent \in Seq([chat : Chat, long : BOOLEAN]) /\ Len(sent) <= MaxUpdates
      /\ batch \in Seq(Update) /\ offset \in 0..MaxUpdates + 1
      /\ unread \in 1..Len(sent) + 1
      /\ offset <= Len(sent) + 1 /\ \A i \in 1..Len(batch) : batch[i] <= Len(sent)
      /\ MaxUpdates \in Nat
  BY TelegramAssumption DEF BotTypes, TelegramOK, TelegramAssumption
<1>2. /\ sent' = Append(sent, [chat |-> c, long |-> long]) /\ Len(sent) < MaxUpdates
      /\ UNCHANGED <<connection, offset, batch, unread, handled, heard, since, access, faults>>
  BY DEF Write
<1>3. /\ sent' \in Seq([chat : Chat, long : BOOLEAN]) /\ Len(sent') = Len(sent) + 1
  BY <1>1, <1>2
<1>4. Len(sent') <= MaxUpdates /\ unread' \in 1..Len(sent') + 1
      /\ offset' <= Len(sent') + 1
  BY <1>1, <1>2, <1>3
<1>5. \A i \in 1..Len(batch') : batch'[i] <= Len(sent')
  BY <1>1, <1>2, <1>3 DEF Update
<1> QED BY <1>2, <1>3, <1>4, <1>5 DEF BotTypes, TelegramOK, connection, access

\* The server is never asked for more than one update beyond the last.
LEMMA FirstUnreadInRange ==
  ASSUME BotTypes
  PROVE  FirstUnread \in 1..Len(sent) + 1 /\ Len(sent) \in Nat
BY DEF BotTypes, TelegramOK, FirstUnread, Larger

LEMMA PolledTypes ==
  ASSUME BotTypes, Polled
  PROVE  BotTypes'
<1>1. /\ MaxUpdates \in Nat /\ PerPoll \in Nat /\ PerPoll > 0
      /\ FirstUnread \in 1..Len(sent) + 1 /\ Len(sent) \in Nat /\ Len(sent) <= MaxUpdates
  BY FirstUnreadInRange, TelegramAssumption
     DEF BotTypes, TelegramOK, TelegramAssumption
<1> DEFINE top == Smaller(FirstUnread + PerPoll - 1, Len(sent))
           n == Cardinality(Batch)
           run == [i \in 1..n |-> FirstUnread + i - 1]
<1>2. /\ top \in Int /\ top <= Len(sent) /\ top - FirstUnread + 1 <= PerPoll
      /\ FirstUnread \in Int
  BY <1>1 DEF Smaller
<1>3. n = IF FirstUnread > top THEN 0 ELSE top - FirstUnread + 1
  BY <1>2, FS_Interval DEF Batch
<1>4. n \in Nat /\ n <= PerPoll /\ FirstUnread + n - 1 <= Len(sent)
  BY <1>1, <1>2, <1>3
<1> HIDE DEF n
<1>5. \A i \in 1..n : FirstUnread + i - 1 \in Update /\ FirstUnread + i - 1 <= Len(sent)
  BY <1>1, <1>4 DEF Update
<1>6. run \in Seq(Update) /\ Len(run) = n /\ \A i \in 1..Len(run) : run[i] <= Len(sent)
  BY <1>4, <1>5
<1>7. batch' = << >> \/ batch' = run
  BY DEF Polled, n
<1> HIDE DEF run
<1>8. /\ batch' \in Seq(Update) /\ Len(batch') <= PerPoll
      /\ \A i \in 1..Len(batch') : batch'[i] <= Len(sent)
  <2>1. CASE batch' = << >>
    BY <1>1, <2>1
  <2>2. CASE batch' = run
    BY <1>4, <1>6, <2>2
  <2> QED BY <1>7, <2>1, <2>2
<1>9. /\ phase' = "idle" /\ request' = "none" /\ unread' = FirstUnread
      /\ UNCHANGED <<waiting, offset, sent, handled, heard, since, access, faults>>
  BY DEF Polled
<1> QED BY <1>1, <1>8, <1>9 DEF BotTypes, TelegramOK, Phase, access

LEMMA NoResponseTypes ==
  ASSUME BotTypes, NoResponse
  PROVE  BotTypes'
<1>1. unread' \in 1..Len(sent) + 1
  BY FirstUnreadInRange DEF BotTypes, TelegramOK, NoResponse
<1>2. faults' \in 0..MaxFaults
  BY TelegramAssumption DEF NoResponse, Fault, TelegramAssumption, BotTypes, TelegramOK
<1>3. /\ phase' \in {"backoff", "idle"} /\ request' = "none"
      /\ UNCHANGED <<waiting, offset, batch, sent, handled, heard, since, access>>
  BY DEF NoResponse
<1> QED BY <1>1, <1>2, <1>3 DEF BotTypes, TelegramOK, Phase, access

LEMMA HandleTypes ==
  ASSUME BotTypes, NEW n \in 0..2, Handle(n)
  PROVE  BotTypes'
<1> DEFINE u == batch[1]
           c == sent[u].chat
<1>1. /\ batch # << >> /\ batch' = Tail(batch)
      /\ offset' = IF u >= offset THEN u + 1 ELSE offset
      /\ handled' = handled \cup {u} /\ since' = since \cup {u}
      /\ Heeded(u, c, n)
      /\ waiting' = Enqueued(n)
      /\ UNCHANGED <<phase, request, server, enabled, saved, form, faults>>
  BY DEF Handle, BotTypes, TelegramOK
<1>2. /\ batch \in Seq(Update) /\ Len(batch) \in Nat /\ Len(batch) > 0
      /\ Len(batch) <= PerPoll /\ PerPoll \in Nat
      /\ sent \in Seq([chat : Chat, long : BOOLEAN]) /\ Len(sent) <= MaxUpdates
      /\ MaxUpdates \in Nat /\ offset \in 0..MaxUpdates + 1
      /\ offset <= Len(sent) + 1 /\ \A i \in 1..Len(batch) : batch[i] <= Len(sent)
      /\ allowed \subseteq Chat /\ owners \subseteq Chat
  BY <1>1, TelegramAssumption DEF BotTypes, TelegramOK, TelegramAssumption
<1>0. door \in BOOLEAN
  BY Zenon DEF BotTypes, TelegramOK
<1>3. u \in Update /\ u \in 1..Len(sent)
  BY <1>2 DEF Update
<1>4. c \in Chat
  <2> DEFINE Text == [chat : Chat, long : BOOLEAN]
  <2> HIDE DEF u, Text
  <2>1. sent \in Seq(Text) /\ u \in 1..Len(sent)
    BY <1>2, <1>3 DEF Text
  <2>2. sent[u] \in Text
    BY <2>1
  <2> QED BY <2>2 DEF Text
<1>5. /\ allowed' \subseteq Chat /\ owners' \subseteq Chat
  BY <1>1, <1>2, <1>4 DEF Heeded, Message, KeyPress
<1>6. door' \in BOOLEAN
  BY <1>0, <1>1, <1>2, Zenon DEF Heeded, Message, KeyPress
<1>7. offset' \in 0..MaxUpdates + 1 /\ offset' <= Len(sent) + 1
  BY <1>1, <1>2, <1>3
<1>8. /\ batch' \in Seq(Update) /\ Len(batch') <= PerPoll
      /\ \A i \in 1..Len(batch') : batch'[i] <= Len(sent)
  BY <1>1, <1>2
<1>9. waiting' \in 0..MaxQueue
  <2>1. waiting \in 0..MaxQueue /\ n \in Nat
    BY DEF BotTypes, TelegramOK
  <2> QED BY <1>1, <2>1, EnqueuedFits
<1>10. handled' \subseteq Update /\ since' \subseteq handled' /\ heard' \subseteq handled'
  BY <1>1, <1>3 DEF Heeded, BotTypes, TelegramOK
<1> HIDE DEF u, c
<1> QED BY <1>1, <1>5, <1>6, <1>7, <1>8, <1>9, <1>10 DEF BotTypes, TelegramOK, server

LEMMA BotTypesStep == BotTypes /\ [TelegramNext]_chat => BotTypes'
<1> SUFFICES ASSUME BotTypes, [TelegramNext]_chat PROVE BotTypes'
  OBVIOUS
<1>1. /\ phase \in Phase /\ request \in {"none", "poll", "send"}
      /\ phase = "reading" <=> request # "none"
      /\ waiting \in 0..MaxQueue
      /\ allowed \subseteq Chat /\ owners \subseteq Chat
      /\ saved \in Access /\ form \in Access /\ faults \in 0..MaxFaults
  BY DEF BotTypes, TelegramOK
<1>2. enabled \in BOOLEAN /\ door \in BOOLEAN
  BY Zenon DEF BotTypes, TelegramOK
<1>3. MaxQueue \in Nat /\ MaxFaults \in Nat
  BY TelegramAssumption DEF TelegramAssumption
<1>4. Fault => faults' \in 0..MaxFaults
  BY <1>1, <1>3 DEF Fault
<1>5. CASE Report
  <2>1. Cardinality(allowed) \in Nat
    BY <1>1, FS_Subset, FS_CardinalityType, TelegramAssumption DEF TelegramAssumption
  <2>2. waiting' \in 0..MaxQueue
    BY <1>1, <1>5, <2>1, EnqueuedFits DEF Report
  <2> QED BY <1>1, <1>2, <1>5, <2>2, BotUpdatesKept DEF Report, access
<1>6. CASE BackoffOver \/ Connect \/ Dropped
  BY <1>1, <1>2, <1>4, <1>6, BotUpdatesKept
     DEF BackoffOver, Connect, Dropped, access, Phase
<1>7. CASE Ask
  <2>1. waiting' \in 0..MaxQueue
    BY <1>1, <1>3, <1>7 DEF Ask
  <2>2. phase' = "reading" /\ request' \in {"send", "poll"}
    BY <1>7 DEF Ask
  <2> QED BY <1>1, <1>2, <1>7, <2>1, <2>2, BotUpdatesKept DEF Ask, access, Phase
<1>8. CASE Replied
  BY <1>1, <1>2, <1>8, BotUpdatesKept DEF Replied, access, Phase
<1>9. CASE SaveAccess \/ ReadForm
  <2>1. [allowed |-> allowed, door |-> door] \in Access
    BY <1>1, <1>2 DEF Access
  <2> QED BY <1>1, <1>2, <1>9, <2>1, BotUpdatesKept
          DEF SaveAccess, ReadForm, connection
<1>10. ASSUME NEW f \in Forms, NEW on \in BOOLEAN, PostForm(f, on)
       PROVE  BotTypes'
  <2>1. f \in Access
    BY <1>1 DEF Forms, Access
  <2>2. /\ allowed' \subseteq Chat /\ owners' \subseteq Chat
        /\ saved' \in Access /\ form' \in Access
    BY <1>1, <1>10, <2>1 DEF PostForm, Access
  <2>3. enabled' \in BOOLEAN /\ door' \in BOOLEAN
    BY <1>10, <2>1 DEF PostForm, Access
  <2>4. /\ phase' \in Phase /\ phase' # "reading" /\ request' = "none"
        /\ waiting' \in 0..MaxQueue
    BY <1>3, <1>10 DEF PostForm, Phase
  <2> QED BY <1>4, <1>10, <2>2, <2>3, <2>4, BotUpdatesKept DEF PostForm
<1>11. CASE CutBot
  <2>1. /\ allowed' \subseteq Chat /\ owners' \subseteq Chat
        /\ saved' \in Access /\ form' \in Access
    BY <1>1, <1>11 DEF CutBot, Access
  <2>2. enabled' \in BOOLEAN /\ door' \in BOOLEAN
    BY <1>1, <1>2, <1>11 DEF CutBot, Access
  <2>3. /\ phase' \in Phase /\ phase' # "reading" /\ request' = "none"
        /\ waiting' \in 0..MaxQueue
    BY <1>3, <1>11 DEF CutBot, Phase
  <2>4. /\ offset' = 0 /\ batch' = << >> /\ since' = {} /\ UNCHANGED <<server, handled, heard>>
    BY <1>11 DEF CutBot
  <2>5. /\ Len(batch') = 0 /\ Len(batch') <= PerPoll /\ batch' \in Seq(Update)
        /\ offset' \in 0..MaxUpdates + 1 /\ offset' <= Len(sent) + 1
    BY <2>4, TelegramAssumption DEF TelegramAssumption, BotTypes, TelegramOK
  <2> QED BY <1>4, <1>11, <2>1, <2>2, <2>3, <2>4, <2>5
          DEF CutBot, BotTypes, TelegramOK, server
<1>12. CASE UNCHANGED chat
  BY <1>1, <1>2, <1>12, BotUpdatesKept DEF chat, server
<1> QED BY <1>5, <1>6, <1>7, <1>8, <1>9, <1>10, <1>11, <1>12, WriteTypes,
           PolledTypes, NoResponseTypes, HandleTypes
        DEF TelegramNext, BotLoop

----------------------------------------------------------------------------
(* The paired devices.                                                     *)

\* A command of the queue was accepted, and is later than any that arrived.
Later(j, last, given) == j.order # 0 => last < j.order /\ j.order <= given

\* The queue holds commands in the order they were given, with polls between.
QueueInOrder ==
  /\ jobs \in Seq(Job)
  /\ \A i \in 1..Len(jobs) : Later(jobs[i], done, orders)
  /\ \A i, k \in 1..Len(jobs) :
       i < k /\ jobs[i].order # 0 /\ jobs[k].order # 0
         => jobs[i].order < jobs[k].order

\* The command in flight, if it is one, is earlier than those of the queue and
\* has not arrived before; once it has, it is the last that did.
FlightFirst ==
  job # Unknown =>
    /\ job.device \in Device /\ job.order \in 0..MaxOrders
    /\ job.to \in Value /\ job.answer \in Value \cup {Unknown}
    /\ job.order <= orders
    /\ job.answer = Unknown => Later(job, done, orders)
    /\ \A i \in 1..Len(jobs) :
         jobs[i].order # 0 => job.order < jobs[i].order

\* The inductive invariant.
PeerInv ==
  /\ orders \in Nat /\ done \in Nat /\ done <= orders
  /\ lamp \in [Device -> Value] /\ cursor \in Device
  /\ QueueInOrder /\ FlightFirst

----------------------------------------------------------------------------
LEMMA PeerConstants ==
  MaxOrders \in Nat /\ Unknown \notin Value /\ DeviceCount \in Nat /\ DeviceCount > 0
BY PeerAssumption DEF PeerAssumption, Value

\* A place in the round is one of the list.
LEMMA PlaceInList ==
  ASSUME NEW a \in Int
  PROVE  1 + (a % DeviceCount) \in Device
BY PeerConstants DEF Device

LEMMA PeerInvInit == PartnersInit => PeerInv
<1> SUFFICES ASSUME PartnersInit PROVE PeerInv
  OBVIOUS
<1>1. jobs = << >> /\ job = Unknown /\ orders = 0 /\ done = 0
  BY DEF PartnersInit
<1>2. lamp \in [Device -> Value] /\ cursor \in Device
  BY PeerConstants DEF PartnersInit, Value, Device
<1>3. QueueInOrder
  BY <1>1 DEF QueueInOrder
<1> QED BY <1>1, <1>2, <1>3 DEF PeerInv, FlightFirst

\* Steps that leave the requests alone.
LEMMA RequestsKept ==
  ASSUME PeerInv, UNCHANGED <<jobs, job, orders, done>>,
         lamp' \in [Device -> Value], cursor' \in Device
  PROVE  PeerInv'
BY DEF PeerInv, QueueInOrder, FlightFirst, Later

\* The flight is over, however it ended.
LEMMA FlightOver ==
  ASSUME PeerInv, job' = Unknown, UNCHANGED <<jobs, orders, done, lamp, cursor>>
  PROVE  PeerInv'
BY DEF PeerInv, QueueInOrder, FlightFirst, Later

LEMMA CommandJoins ==
  ASSUME PeerInv, NEW d \in Device, NEW v \in Wishes, Command(d, v)
  PROVE  PeerInv'
<1> DEFINE new == [device |-> d, order |-> orders + 1, to |-> v]
           n == Len(jobs)
<1>1. /\ jobs' = Append(jobs, new) /\ orders' = orders + 1 /\ orders < MaxOrders
      /\ UNCHANGED <<job, done, lamp, cursor>>
  BY DEF Command, world
<1>2. /\ jobs \in Seq(Job) /\ n \in Nat
      /\ orders \in Nat /\ done \in Nat /\ done <= orders
  BY DEF PeerInv, QueueInOrder
<1>3. new \in Job /\ new.order = orders + 1 /\ Later(new, done', orders')
  <2>1. v \in Value
    BY PeerAssumption DEF PeerAssumption, Value
  <2>2. orders + 1 \in 0..MaxOrders
    BY <1>1, <1>2, PeerConstants
  <2> QED BY <1>1, <1>2, <2>1, <2>2 DEF Job, Later
<1> HIDE DEF new
<1>4. /\ jobs' \in Seq(Job) /\ Len(jobs') = n + 1 /\ jobs'[n + 1] = new
      /\ \A i \in 1..n : jobs'[i] = jobs[i] /\ jobs[i].order \in Nat
  <2>1. \A j \in Job : j.order \in Nat
    BY PeerConstants DEF Job
  <2> QED BY <1>1, <1>2, <1>3, <2>1
<1> HIDE DEF n
<1>5. \A i \in 1..n : jobs[i].order # 0 => done < jobs[i].order /\ jobs[i].order <= orders
  BY <1>2 DEF PeerInv, QueueInOrder, Later, n
<1>6. QueueInOrder'
  <2>1. \A i \in 1..Len(jobs') : Later(jobs'[i], done', orders')
    <3> TAKE i \in 1..Len(jobs')
    <3>1. CASE i = n + 1
      BY <1>3, <1>4, <3>1 DEF Later
    <3>2. CASE i # n + 1
      <4>1. i \in 1..n
        BY <1>2, <1>4, <3>2
      <4> QED BY <1>1, <1>2, <1>4, <1>5, <4>1 DEF Later
    <3> QED BY <3>1, <3>2
  <2>2. \A i, k \in 1..Len(jobs') :
          i < k /\ jobs'[i].order # 0 /\ jobs'[k].order # 0
            => jobs'[i].order < jobs'[k].order
    <3> SUFFICES ASSUME NEW i \in 1..Len(jobs'), NEW k \in 1..Len(jobs'), i < k,
                        jobs'[i].order # 0, jobs'[k].order # 0
                 PROVE  jobs'[i].order < jobs'[k].order
      OBVIOUS
    <3>1. i \in 1..n
      BY <1>2, <1>4
    <3>2. CASE k = n + 1
      BY <1>2, <1>3, <1>4, <1>5, <3>1, <3>2
    <3>3. CASE k # n + 1
      <4>1. k \in 1..n
        BY <1>2, <1>4, <3>3
      <4>2. jobs'[i] = jobs[i] /\ jobs'[k] = jobs[k]
        BY <1>4, <3>1, <4>1
      <4> QED BY <3>1, <4>1, <4>2 DEF PeerInv, QueueInOrder, n
    <3> QED BY <3>2, <3>3
  <2> QED BY <1>4, <2>1, <2>2 DEF QueueInOrder
<1>7. FlightFirst'
  <2> SUFFICES ASSUME job # Unknown PROVE FlightFirst'
    BY <1>1 DEF FlightFirst
  <2>1. /\ job.device \in Device /\ job.order \in 0..MaxOrders
        /\ job.to \in Value /\ job.answer \in Value \cup {Unknown}
        /\ job.order <= orders /\ (job.answer = Unknown => Later(job, done, orders))
        /\ \A i \in 1..n : jobs[i].order # 0 => job.order < jobs[i].order
    BY DEF PeerInv, FlightFirst, n
  <2>2. job.order <= orders + 1 /\ (job.answer = Unknown => Later(job, done', orders'))
    BY <1>1, <1>2, <2>1, PeerConstants DEF Later
  <2>3. \A i \in 1..Len(jobs') : jobs'[i].order # 0 => job.order < jobs'[i].order
    <3> TAKE i \in 1..Len(jobs')
    <3>1. CASE i = n + 1
      BY <1>2, <1>3, <1>4, <2>1, <3>1, PeerConstants
    <3>2. CASE i # n + 1
      <4>1. i \in 1..n
        BY <1>2, <1>4, <3>2
      <4> QED BY <1>4, <2>1, <4>1
    <3> QED BY <3>1, <3>2
  <2> QED BY <1>1, <2>1, <2>2, <2>3 DEF FlightFirst, Later
<1> QED BY <1>1, <1>2, <1>6, <1>7 DEF PeerInv

LEMMA DispatchTakes ==
  ASSUME PeerInv, NEW starts \in BOOLEAN, Dispatch(starts)
  PROVE  PeerInv'
<1> DEFINE j == jobs[1]
<1>1. /\ job = Unknown /\ jobs # << >> /\ jobs' = Tail(jobs)
      /\ UNCHANGED <<orders, done, lamp, cursor>>
      /\ \/ job' = [device |-> j.device, order |-> j.order, to |-> j.to,
                    answer |-> Unknown]
         \/ job' = Unknown
  BY DEF Dispatch, world
<1>2. jobs \in Seq(Job) /\ Len(jobs) \in Nat /\ Len(jobs) > 0
  BY <1>1 DEF PeerInv, QueueInOrder
<1>3. /\ jobs' \in Seq(Job) /\ Len(jobs') = Len(jobs) - 1
      /\ \A i \in 1..Len(jobs') : jobs'[i] = jobs[i + 1] /\ i + 1 \in 1..Len(jobs)
  BY <1>1, <1>2
<1>4. j \in Job /\ Later(j, done, orders)
  BY <1>2 DEF PeerInv, QueueInOrder
<1>5. QueueInOrder'
  <2>1. \A i \in 1..Len(jobs') : Later(jobs'[i], done', orders')
    BY <1>1, <1>3 DEF PeerInv, QueueInOrder, Later
  <2>2. ASSUME NEW i \in 1..Len(jobs'), NEW k \in 1..Len(jobs'), i < k,
               jobs'[i].order # 0, jobs'[k].order # 0
        PROVE  jobs'[i].order < jobs'[k].order
    <3>1. i + 1 \in 1..Len(jobs) /\ k + 1 \in 1..Len(jobs) /\ i + 1 < k + 1
      BY <1>2, <1>3, <2>2
    <3>2. jobs'[i] = jobs[i + 1] /\ jobs'[k] = jobs[k + 1]
      BY <1>3
    <3> QED BY <2>2, <3>1, <3>2 DEF PeerInv, QueueInOrder
  <2> QED BY <1>3, <2>1, <2>2 DEF QueueInOrder
<1>6. FlightFirst'
  <2> SUFFICES ASSUME job' # Unknown PROVE FlightFirst'
    BY DEF FlightFirst
  <2>1. /\ job'.device = j.device /\ job'.order = j.order /\ job'.to = j.to
        /\ job'.answer = Unknown
    BY <1>1
  <2>2. /\ j.device \in Device /\ j.order \in 0..MaxOrders /\ j.to \in Value
    BY <1>4 DEF Job
  <2>3. j.order <= orders
    BY <1>4, <2>2, PeerConstants DEF Later, PeerInv
  <2>4. \A i \in 1..Len(jobs') : jobs'[i].order # 0 => j.order < jobs'[i].order
    <3> SUFFICES ASSUME NEW i \in 1..Len(jobs'), jobs'[i].order # 0
                 PROVE  j.order < jobs'[i].order
      OBVIOUS
    <3>1. /\ jobs'[i] = jobs[i + 1] /\ i + 1 \in 1..Len(jobs)
          /\ 1 \in 1..Len(jobs) /\ 1 < i + 1
      BY <1>2, <1>3
    <3>2. jobs[i + 1].order \in Nat
      <4>1. jobs[i + 1] \in Job
        BY <1>2, <3>1
      <4> QED BY <4>1, PeerConstants DEF Job
    <3>3. CASE j.order = 0
      BY <3>1, <3>2, <3>3
    <3>4. CASE j.order # 0
      <4>1. \A a, b \in 1..Len(jobs) :
              a < b /\ jobs[a].order # 0 /\ jobs[b].order # 0
                => jobs[a].order < jobs[b].order
        BY DEF PeerInv, QueueInOrder
      <4>2. jobs[i + 1].order # 0
        BY <3>1
      <4> QED BY <3>1, <3>4, <4>1, <4>2
    <3> QED BY <3>3, <3>4
  <2> QED BY <1>1, <1>4, <2>1, <2>2, <2>3, <2>4 DEF FlightFirst, Later
<1> QED BY <1>1, <1>5, <1>6 DEF PeerInv

LEMMA ReachesOnce ==
  ASSUME PeerInv, Reaches
  PROVE  PeerInv' /\ (job.order # 0 => job.order > done)
<1>1. /\ job # Unknown /\ job.answer = Unknown
      /\ lamp' = IF job.order = 0 THEN lamp ELSE [lamp EXCEPT ![job.device] = job.to]
      /\ job' = [job EXCEPT !.answer = lamp'[job.device]]
      /\ done' = IF job.order = 0 THEN done ELSE job.order
      /\ UNCHANGED <<jobs, orders, cursor>>
  BY DEF Reaches
<1>2. /\ job.device \in Device /\ job.order \in 0..MaxOrders /\ job.to \in Value
      /\ job.order <= orders /\ Later(job, done, orders)
      /\ \A i \in 1..Len(jobs) : jobs[i].order # 0 => job.order < jobs[i].order
  BY <1>1 DEF PeerInv, FlightFirst
<1>3. lamp' \in [Device -> Value]
  BY <1>1, <1>2 DEF PeerInv
<1>4. done' \in Nat /\ done' <= orders /\ (job.order # 0 => job.order > done)
  BY <1>1, <1>2, PeerConstants DEF PeerInv, Later
<1>5. QueueInOrder'
  <2>1. \A i \in 1..Len(jobs) : Later(jobs[i], done', orders')
    BY <1>1, <1>2 DEF PeerInv, QueueInOrder, Later
  <2> QED BY <1>1, <2>1 DEF PeerInv, QueueInOrder
<1>6. FlightFirst'
  <2>1. lamp'[job.device] \in Value
    BY <1>2, <1>3
  <2> QED BY <1>1, <1>2, <2>1, PeerConstants DEF FlightFirst
<1> QED BY <1>1, <1>3, <1>4, <1>5, <1>6 DEF PeerInv

LEMMA PollAsks ==
  ASSUME PeerInv, Poll
  PROVE  PeerInv'
<1>1. /\ \E d \in Device : jobs' = <<[device |-> d, order |-> 0, to |-> 0]>>
      /\ cursor' \in Device
  <2>1. PICK i \in 1..DeviceCount :
          /\ jobs' = <<[device |-> Round[i], order |-> 0, to |-> 0]>>
          /\ cursor' = NextTo(Round[i])
    BY DEF Poll, Round
  <2>2. cursor + i - 2 \in Int /\ Round[i] = 1 + ((cursor + i - 2) % DeviceCount)
    BY DEF PeerInv, Device, Round
  <2>3. Round[i] \in Device
    BY <2>2, PlaceInList
  <2>4. Round[i] \in Int
    BY <2>3 DEF Device
  <2>5. cursor' \in Device
    BY <2>1, <2>4, PlaceInList DEF NextTo
  <2> QED BY <2>1, <2>3, <2>5
<1>2. job = Unknown /\ UNCHANGED <<job, orders, done, lamp>>
  BY DEF Poll, world
<1>3. jobs' \in Seq(Job) /\ Len(jobs') = 1 /\ jobs'[1].order = 0
  BY <1>1, PeerConstants DEF Job, Value
<1>4. QueueInOrder'
  BY <1>3 DEF QueueInOrder, Later
<1> QED BY <1>1, <1>2, <1>4 DEF PeerInv, FlightFirst

\* What a step of the client may not do.
Ordered == Reaches /\ job.order # 0 => job.order > done

LEMMA PeerStep == PeerInv /\ [PartnersNext]_partners => PeerInv' /\ Ordered
<1> SUFFICES ASSUME PeerInv, [PartnersNext]_partners PROVE PeerInv' /\ Ordered
  OBVIOUS
<1>1. Ordered
  BY ReachesOnce DEF Ordered
<1>2. ASSUME NEW d \in Device, Switched(d) \/ ComesOrGoes(d)
      PROVE  PeerInv'
  <2>1. lamp' \in [Device -> Value] /\ cursor' \in Device
    BY <1>2 DEF Switched, ComesOrGoes, PeerInv, Value
  <2> QED BY <1>2, <2>1, RequestsKept DEF Switched, ComesOrGoes
<1>3. ASSUME NEW d \in Device, Wake(d) PROVE PeerInv'
  BY <1>3, RequestsKept DEF Wake, world, PeerInv
<1>4. ASSUME NEW d \in Device, NEW as, Pair(d, as) PROVE PeerInv'
  <2>1. cursor' \in Device
    BY <1>4, PeerConstants DEF Pair, Device
  <2> QED BY <1>4, <2>1, RequestsKept DEF Pair, world, PeerInv
<1>5. CASE PeerAnswers \/ PeerLost
  <2>1. job' = Unknown /\ UNCHANGED <<jobs, orders, done, lamp, cursor>>
    BY <1>5 DEF PeerAnswers, PeerLost, world
  <2> QED BY <1>1, <2>1, FlightOver
<1>6. CASE UNCHANGED partners
  <2>1. UNCHANGED <<jobs, job, orders, done, lamp, cursor>>
    BY <1>6 DEF partners
  <2> QED BY <1>1, <2>1, RequestsKept DEF PeerInv
<1>7. Sleeper \subseteq Device
  BY PeerAssumption DEF PeerAssumption, Device
<1> QED BY <1>1, <1>2, <1>3, <1>4, <1>5, <1>6, <1>7, CommandJoins, DispatchTakes,
           ReachesOnce, PollAsks
        DEF PartnersNext, ClientLoop
\* What the client's variables hold, over those that PeerInv says nothing of.
PeerTypes ==
  /\ PartnersOK
  /\ done <= orders

LEMMA BoundsOfPeers ==
  /\ MaxPending \in Nat /\ MaxPending > 0 /\ MaxOrders \in Nat /\ MaxEvents \in Nat
  /\ FailuresBeforeOffline \in Nat /\ DeviceCount \in Nat /\ DeviceCount > 0
  /\ Sleeper \subseteq Device /\ Wishes \subseteq Value /\ Unknown \notin Value
BY PeerAssumption DEF PeerAssumption, Device, Value

\* A device of the list is not Unknown's, nor is what is known of one.
LEMMA StateForType ==
  ASSUME PartnersOK, NEW d \in Device
  PROVE  StateFor(d) \in Known
<1>1. Fresh \in Known
  BY BoundsOfPeers DEF Fresh, Known
<1>2. states[d] \in Known \cup {Unknown}
  BY DEF PartnersOK
<1> QED BY <1>1, <1>2 DEF StateFor

LEMMA AfterType ==
  ASSUME PartnersOK, NEW d \in Device, NEW order, NEW answer \in Value \cup {Unknown}
  PROVE  After(d, order, answer) \in Known
<1> DEFINE was == StateFor(d)
<1>1. was \in Known
  BY StateForType
<1> HIDE DEF was
<1>2. /\ was.online \in BOOLEAN /\ was.failures \in 0..FailuresBeforeOffline
      /\ was.value \in Value \cup {Unknown}
  BY <1>1 DEF Known
<1>3. Capped(was.failures + 1) \in 0..FailuresBeforeOffline
  BY <1>2, BoundsOfPeers DEF Capped
<1>4. CASE answer = Unknown
  <2>1. After(d, order, answer) =
          [was EXCEPT !.failures = Capped(@ + 1),
                      !.online = @ /\ was.failures + 1 < FailuresBeforeOffline]
    BY <1>4 DEF After, was
  <2>2. (was.online /\ was.failures + 1 < FailuresBeforeOffline) \in BOOLEAN
    BY Zenon
  <2> QED BY <1>1, <1>3, <2>1, <2>2 DEF Known
<1>5. CASE answer # Unknown
  <2>1. After(d, order, answer) =
          [online |-> TRUE, failures |-> 0,
           value |-> IF Absorbs(d, order) THEN answer ELSE was.value]
    BY <1>5 DEF After, was
  <2>2. (IF Absorbs(d, order) THEN answer ELSE was.value) \in Value \cup {Unknown}
    BY <1>2
  <2> QED BY <2>1, <2>2, BoundsOfPeers DEF Known
<1> QED BY <1>4, <1>5

LEMMA PeerTypesInit == PartnersInit => PeerTypes
<1> SUFFICES ASSUME PartnersInit PROVE PeerTypes
  OBVIOUS
<1>1. /\ jobs = << >> /\ Len(jobs) = 0 /\ job = Unknown /\ cursor = 1
      /\ orders = 0 /\ done = 0 /\ events = 0
      /\ answering = Device \ Sleeper /\ lamp = [d \in Device |-> 0]
      /\ states = [d \in Device |-> Unknown]
  BY DEF PartnersInit
<1>2. paired \in [Device -> {"on", "off", "none"}]
  BY DEF PartnersInit
<1>3. jobs \in Seq(Job)
  BY <1>1
<1>4. Len(jobs) <= MaxPending /\ 0 \in 0..MaxOrders /\ 0 \in 0..MaxEvents
      /\ 1 \in Device /\ 0 \in Value
  BY <1>1, BoundsOfPeers DEF Device, Value
<1> QED BY <1>1, <1>2, <1>3, <1>4 DEF PeerTypes, PartnersOK

\* A request enters the queue, or leaves it.
LEMMA CommandTypes ==
  ASSUME PeerTypes, NEW d \in Device, NEW v \in Wishes, Command(d, v)
  PROVE  PeerTypes'
<1> DEFINE new == [device |-> d, order |-> orders + 1, to |-> v]
<1>1. /\ jobs \in Seq(Job) /\ orders \in 0..MaxOrders /\ done \in 0..MaxOrders
      /\ done <= orders
      /\ orders < MaxOrders /\ Len(jobs) < MaxPending
      /\ jobs' = Append(jobs, new) /\ orders' = orders + 1
      /\ UNCHANGED <<paired, world, job, cursor, states, done, events>>
  BY DEF Command, PeerTypes, PartnersOK
<1>2. new \in Job /\ orders' \in 0..MaxOrders /\ done' <= orders'
  BY <1>1, BoundsOfPeers DEF Job
<1> HIDE DEF new
<1>3. jobs' \in Seq(Job) /\ Len(jobs') <= MaxPending
  BY <1>1, <1>2, BoundsOfPeers
<1> QED BY <1>1, <1>2, <1>3 DEF PeerTypes, PartnersOK, world

LEMMA DispatchTypes ==
  ASSUME PeerTypes, NEW starts \in BOOLEAN, Dispatch(starts)
  PROVE  PeerTypes'
<1> DEFINE j == jobs[1]
<1>1. /\ jobs \in Seq(Job) /\ jobs # << >> /\ Len(jobs) <= MaxPending
      /\ jobs' = Tail(jobs) /\ UNCHANGED <<paired, world, cursor, orders, done>>
      /\ \/ /\ job' = [device |-> j.device, order |-> j.order, to |-> j.to,
                       answer |-> Unknown]
            /\ UNCHANGED <<states, events>>
         \/ /\ states' = [states EXCEPT ![j.device] = After(j.device, j.order, Unknown)]
            /\ Event /\ UNCHANGED job
  BY DEF Dispatch, PeerTypes, PartnersOK
<1>2. jobs' \in Seq(Job) /\ Len(jobs') <= MaxPending
  BY <1>1, BoundsOfPeers
<1>3. j \in Job
  BY <1>1
<1> HIDE DEF j
<1>4. j.device \in Device /\ j.order \in 0..MaxOrders /\ j.to \in Value
  BY <1>3 DEF Job
<1>5. CASE job' = [device |-> j.device, order |-> j.order, to |-> j.to,
                   answer |-> Unknown]
           /\ UNCHANGED <<states, events>>
  BY <1>1, <1>2, <1>4, <1>5 DEF PeerTypes, PartnersOK, Flight, world
<1>6. CASE /\ states' = [states EXCEPT ![j.device] = After(j.device, j.order, Unknown)]
           /\ Event /\ UNCHANGED job
  <2>1. After(j.device, j.order, Unknown) \in Known
    BY <1>4, AfterType DEF PeerTypes
  <2>2. states' \in [Device -> Known \cup {Unknown}]
    BY <1>6, <2>1 DEF PeerTypes, PartnersOK
  <2>3. events' \in 0..MaxEvents
    BY <1>6, BoundsOfPeers DEF Event, PeerTypes, PartnersOK
  <2> QED BY <1>1, <1>2, <1>6, <2>2, <2>3 DEF PeerTypes, PartnersOK, world
<1> QED BY <1>1, <1>5, <1>6

LEMMA FlightTypes ==
  ASSUME PeerTypes, PeerInv, Reaches \/ PeerAnswers \/ PeerLost
  PROVE  PeerTypes'
<1>1. /\ job # Unknown /\ job \in Flight
      /\ job.device \in Device /\ job.order \in 0..MaxOrders /\ job.to \in Value
      /\ job.answer \in Value \cup {Unknown}
  BY DEF Reaches, PeerAnswers, PeerLost, PeerTypes, PartnersOK, Flight
<1>2. CASE Reaches
  <2>1. lamp' \in [Device -> Value]
    BY <1>1, <1>2 DEF Reaches, PeerTypes, PartnersOK
  <2>2. lamp'[job.device] \in Value
    BY <1>1, <2>1
  <2>3. job' \in Flight
    BY <1>1, <1>2, <2>2 DEF Reaches, Flight
  <2>4. done' \in 0..MaxOrders /\ done' <= orders
    BY <1>1, <1>2 DEF Reaches, PeerTypes, PartnersOK, PeerInv, FlightFirst, Later
  <2> QED BY <1>2, <2>1, <2>3, <2>4 DEF Reaches, PeerTypes, PartnersOK
<1>3. CASE PeerAnswers \/ PeerLost
  <2>1. \E answer \in Value \cup {Unknown} :
          states' = [states EXCEPT ![job.device] = After(job.device, job.order, answer)]
    BY <1>1, <1>3 DEF PeerAnswers, PeerLost
  <2>2. states' \in [Device -> Known \cup {Unknown}]
    BY <1>1, <2>1, AfterType DEF PeerTypes, PartnersOK
  <2>3. job' = Unknown
        /\ UNCHANGED <<paired, world, jobs, cursor, orders, done, events>>
    BY <1>3 DEF PeerAnswers, PeerLost
  <2> QED BY <2>2, <2>3 DEF PeerTypes, PartnersOK, world
<1> QED BY <1>2, <1>3

LEMMA PollTypes ==
  ASSUME PeerTypes, Poll
  PROVE  PeerTypes'
<1>1. PICK i \in DOMAIN Round :
        /\ Pollable(Round[i])
        /\ jobs' = <<[device |-> Round[i], order |-> 0, to |-> 0]>>
        /\ cursor' = NextTo(Round[i])
  BY DEF Poll
<1>2. job = Unknown /\ jobs = << >>
      /\ UNCHANGED <<paired, world, job, states, orders, done, events>>
  BY DEF Poll
<1>3. Round[i] \in Device
  <2>1. i \in 1..DeviceCount /\ Round[i] = 1 + ((cursor + i - 2) % DeviceCount)
    BY <1>1 DEF Round
  <2>2. cursor + i - 2 \in Int
    BY <2>1 DEF PeerTypes, PartnersOK, Device
  <2> QED BY <2>1, <2>2, PlaceInList
<1>4. cursor' \in Device
  BY <1>1, <1>3, PlaceInList DEF NextTo, Device
<1>5. Len(jobs') <= MaxPending
  <2>1. Len(jobs') = 1
    BY <1>1
  <2> QED BY <2>1, BoundsOfPeers
<1>6. [device |-> Round[i], order |-> 0, to |-> 0] \in Job
  BY <1>3, BoundsOfPeers DEF Job, Value
<1>7. jobs' \in Seq(Job)
  BY <1>1, <1>6
<1> QED BY <1>2, <1>4, <1>5, <1>7 DEF PeerTypes, PartnersOK, world
LEMMA PeerTypesStep ==
  PeerTypes /\ PeerInv /\ [PartnersNext]_partners => PeerTypes'
<1> SUFFICES ASSUME PeerTypes, PeerInv, [PartnersNext]_partners PROVE PeerTypes'
  OBVIOUS
<1>1. Event => events' \in 0..MaxEvents
  BY BoundsOfPeers DEF Event, PeerTypes, PartnersOK
<1>2. ASSUME NEW d \in Device, Switched(d) PROVE PeerTypes'
  <2>1. lamp' \in [Device -> Value]
    BY <1>2 DEF Switched, PeerTypes, PartnersOK, Value
  <2> QED BY <1>1, <1>2, <2>1 DEF Switched, PeerTypes, PartnersOK
<1>3. ASSUME NEW d \in Device, ComesOrGoes(d) PROVE PeerTypes'
  BY <1>1, <1>3 DEF ComesOrGoes, PeerTypes, PartnersOK
<1>4. ASSUME NEW d \in Device, Wake(d) PROVE PeerTypes'
  <2>1. StateFor(d) \in Known
    BY <1>4, StateForType DEF PeerTypes
  <2> QED BY <1>4, <2>1 DEF Wake, world, PeerTypes, PartnersOK
<1>5. ASSUME NEW d \in Device, NEW as \in {"on", "off", "none"}, Pair(d, as)
      PROVE  PeerTypes'
  <2>1. paired' \in [Device -> {"on", "off", "none"}]
    BY <1>5 DEF Pair, PeerTypes, PartnersOK
  <2>2. states' \in [Device -> Known \cup {Unknown}]
    BY <1>5 DEF Pair, KeptStates, PeerTypes, PartnersOK
  <2>3. cursor' \in Device
    BY <1>5, BoundsOfPeers DEF Pair, Device
  <2> QED BY <1>1, <1>5, <2>1, <2>2, <2>3 DEF Pair, world, PeerTypes, PartnersOK
<1>6. CASE UNCHANGED partners
  BY <1>6 DEF partners, PeerTypes, PartnersOK
<1> QED BY <1>2, <1>3, <1>4, <1>5, <1>6, BoundsOfPeers, CommandTypes, DispatchTypes,
           FlightTypes, PollTypes
        DEF PartnersNext, ClientLoop
=============================================================================
