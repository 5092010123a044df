------------------------------ MODULE Watchers ------------------------------
(***************************************************************************)
(* Three that follow the command bus from outside: the web page behind     *)
(* net/WebService.cpp, a server behind net/WebhookService.cpp and a PLC    *)
(* behind net/ModbusService.cpp.  A state is its revision; each follower   *)
(* implements Follower.                                                    *)
(***************************************************************************)
EXTENDS Naturals

CONSTANTS
  MaxRev,           \* bound: the revisions that are explored
  FailuresBefore,   \* kFailuresBeforeBackoff
  Nothing           \* no delivery is under way

ASSUME WatchersAssumption == MaxRev \in Nat /\ FailuresBefore \in Nat \ {0}

VARIABLES
  rev,             \* revision() of the command bus
  network,         \* whether WiFi is connected
  open,            \* whether the page has its web socket
  pageShown,       \* what the page shows
  pageDue,         \* statePending_ of WebService
  hookOn,          \* settings.webhook.enabled
  due, dueRev,     \* pending_ and pendingState_ of WebhookService
  flight,          \* Nothing, or the delivery in flight: [rev, got]
  failures,        \* consecutiveFailures_, up to FailuresBefore
  pausing,         \* retryNotBefore_ lies ahead
  spaced,          \* the interval since lastSentAt_ has passed
  hookShown,       \* the last revision the server was told
  missed,          \* history: a change was not delivered, and no other since
  plcOn,           \* settings.modbus.enabled, at the last reconfigure or start
  plc,             \* started_ of ModbusService
  registers        \* the revision in the registers

watchers == <<rev, network, open, pageShown, pageDue, hookOn, due, dueRev,
              flight, failures, pausing, spaced, hookShown, missed, plcOn, plc,
              registers>>
pageVars == <<open, pageShown, pageDue>>
hookVars == <<hookOn, due, dueRev, flight, failures, pausing, spaced, hookShown,
          missed>>
plcVars == <<plcOn, plc, registers>>

Revision == 0..MaxRev
Delivery == [rev : Revision, got : BOOLEAN]

ASSUME NothingAssumption == Nothing \notin Delivery

WatchersFlags ==
  /\ network \in BOOLEAN /\ open \in BOOLEAN /\ pageDue \in BOOLEAN
  /\ hookOn \in BOOLEAN /\ due \in BOOLEAN
  /\ pausing \in BOOLEAN /\ spaced \in BOOLEAN /\ missed \in BOOLEAN
  /\ plcOn \in BOOLEAN /\ plc \in BOOLEAN

WatchersOK ==
  /\ WatchersFlags
  /\ rev \in Revision /\ pageShown \in Revision
  /\ dueRev \in Revision /\ hookShown \in Revision
  /\ flight \in Delivery \cup {Nothing}
  /\ failures \in 0..FailuresBefore
  /\ registers \in Revision

WatchersInit ==
  /\ rev = 0 /\ network = TRUE
  /\ open = FALSE /\ pageShown = 0 /\ pageDue = FALSE
  /\ hookOn = TRUE /\ due = FALSE /\ dueRev = 0 /\ flight = Nothing
  /\ failures = 0 /\ pausing = FALSE /\ spaced = TRUE /\ hookShown = 0
  /\ missed = FALSE
  /\ plcOn = FALSE /\ plc = FALSE /\ registers = 0

----------------------------------------------------------------------------
(* The bus tells its listeners, one after the other.                       *)

\* Mutant: publish is taken for the PLC.
StoredUnflagged(value, publishing) == registers

\* The handler of a register: what publish writes is stored; what the PLC
\* writes is applied, and the register keeps what publish made of it.
Stored(value, publishing) == IF publishing THEN value ELSE registers

\* publish, in the registers there are.
Published(r) == IF plc THEN Stored(r, TRUE) ELSE registers

\* WebhookService::onStateChanged: only the newest state is kept.
HookNotes(r) ==
  IF hookOn THEN due' = TRUE /\ dueRev' = r /\ UNCHANGED missed
            ELSE missed' = TRUE /\ UNCHANGED <<due, dueRev>>

\* The state has changed, and every listener is told.
Notify ==
  /\ rev < MaxRev /\ rev' = rev + 1
  /\ pageDue' = TRUE /\ HookNotes(rev') /\ registers' = Published(rev')
  /\ UNCHANGED <<network, open, pageShown, hookOn, flight, failures, pausing,
                 spaced, hookShown, plcOn, plc>>

----------------------------------------------------------------------------
(* The page.                                                               *)

\* Mutant: the page is empty until the state is sent to everybody.
PageConnectsEmpty ==
  /\ network /\ open' = TRUE /\ pageShown' = 0 /\ pageDue' = TRUE
  /\ UNCHANGED <<rev, network, hookVars, plcVars>>

\* Mutant: the page waits for the next change.
PageConnectsSilent ==
  /\ network /\ open' = TRUE
  /\ UNCHANGED <<rev, network, pageShown, pageDue, hookVars, plcVars>>

\* WS_EVT_CONNECT: the new page is told at once.
PageConnects ==
  /\ network /\ open' = TRUE /\ pageShown' = rev
  /\ UNCHANGED <<rev, network, pageDue, hookVars, plcVars>>

PageLost ==
  /\ open /\ open' = FALSE
  /\ UNCHANGED <<rev, network, pageShown, pageDue, hookVars, plcVars>>

\* The state as it is now goes to whoever is connected, once for a burst of
\* changes.
PageLoop ==
  /\ pageDue /\ pageDue' = FALSE
  /\ pageShown' = IF open THEN rev ELSE pageShown
  /\ UNCHANGED <<rev, network, open, hookVars, plcVars>>

----------------------------------------------------------------------------
(* The webhook.                                                            *)

\* finish(true), and finish(false): a delivery that failed is not made again,
\* and a row of them, after a pause of `pause` or none, makes the next wait.
HookTold ==
  /\ failures' = 0 /\ spaced' = FALSE
  /\ missed' = (missed /\ hookShown < rev)
  /\ UNCHANGED pausing

HookFailed(pause) ==
  /\ failures' = IF failures < FailuresBefore THEN failures + 1 ELSE failures
  /\ pausing' = (pause \/ failures' = FailuresBefore)
  /\ spaced' = FALSE /\ missed' = TRUE

\* The address in the settings is none: nothing is sent, and nothing counted.
NoAddress(pause, space) ==
  /\ missed' = TRUE /\ pausing' = pause /\ spaced' = space
  /\ UNCHANGED <<flight, failures>>

\* dispatch of the state `r`; the connection may not even start.
HookDispatch(r, pause, space) ==
  \/ /\ flight' = [rev |-> r, got |-> FALSE]
     /\ pausing' = pause /\ spaced' = space
     /\ UNCHANGED <<failures, missed>>
  \/ NoAddress(pause, space)
  \/ HookFailed(pause) /\ UNCHANGED flight

\* loop.
HookLoop ==
  /\ due /\ flight = Nothing /\ due' = FALSE
  /\ \/ /\ ~hookOn /\ missed' = TRUE
        /\ UNCHANGED <<flight, failures, pausing, spaced>>
     \/ /\ hookOn /\ network /\ ~pausing /\ spaced
        /\ HookDispatch(dueRev, FALSE, TRUE)
  /\ UNCHANGED <<rev, network, pageVars, hookOn, dueRev, hookShown, plcVars>>

\* Mutant: what was pending goes out after the test.
SendNowBefore ==
  /\ hookOn /\ flight = Nothing
  /\ HookDispatch(rev, FALSE, TRUE)
  /\ UNCHANGED <<rev, network, pageVars, hookOn, due, dueRev, hookShown, plcVars>>

\* sendNow: the test button sends the state as it is, without a wait.
SendNow ==
  /\ hookOn /\ flight = Nothing
  /\ due' = FALSE /\ dueRev' = rev
  /\ HookDispatch(rev, FALSE, TRUE)
  /\ UNCHANGED <<rev, network, pageVars, hookOn, hookShown, plcVars>>

\* The request reaches the server.
Arrives ==
  /\ network /\ flight # Nothing /\ ~flight.got
  /\ flight' = [flight EXCEPT !.got = TRUE]
  /\ hookShown' = flight.rev
  /\ UNCHANGED <<rev, network, pageVars, hookOn, due, dueRev, failures, pausing,
                 spaced, missed, plcVars>>

\* Mutant: what was noted during the delivery is taken for delivered.
HookAnsweredForgetful(ok) ==
  /\ flight # Nothing /\ flight' = Nothing /\ due' = FALSE
  /\ IF ok THEN flight.got /\ HookTold ELSE HookFailed(pausing)
  /\ UNCHANGED <<rev, network, pageVars, hookOn, dueRev, hookShown, plcVars>>

\* Mutant: a delivery that failed stays in flight.
HookAnsweredStuck(ok) ==
  /\ flight # Nothing
  /\ IF ok THEN flight.got /\ HookTold /\ flight' = Nothing
           ELSE HookFailed(pausing) /\ UNCHANGED flight
  /\ UNCHANGED <<rev, network, pageVars, hookOn, due, dueRev, hookShown, plcVars>>

\* onDisconnect with the status, onError, or onTimeout: also of a request that
\* did arrive.
HookAnswered(ok) ==
  /\ flight # Nothing /\ flight' = Nothing
  /\ IF ok THEN flight.got /\ HookTold ELSE HookFailed(pausing)
  /\ UNCHANGED <<rev, network, pageVars, hookOn, due, dueRev, hookShown, plcVars>>

PauseOver ==
  /\ \/ pausing /\ pausing' = FALSE /\ UNCHANGED spaced
     \/ ~spaced /\ spaced' = TRUE /\ UNCHANGED pausing
  /\ UNCHANGED <<rev, network, pageVars, hookOn, due, dueRev, flight, failures,
                 hookShown, missed, plcVars>>

----------------------------------------------------------------------------
(* The settings and the PLC.                                               *)

\* Mutant: the server of registers can be stopped, and they are gone.
ReconfiguredCleared(h, p) ==
  /\ hookOn' = h /\ failures' = 0 /\ pausing' = FALSE
  /\ plcOn' = p /\ plc' = p /\ registers' = IF p THEN rev ELSE 0
  /\ UNCHANGED <<rev, network, pageVars, due, dueRev, flight, spaced, hookShown,
                 missed>>

\* handleConfigSet, which makes all three start over.  A server of registers,
\* once started, is not stopped.
Reconfigured(h, p) ==
  /\ hookOn' = h /\ failures' = 0 /\ pausing' = FALSE
  /\ plcOn' = p /\ plc' = (plc \/ p)
  /\ registers' = IF ~plc /\ p THEN rev ELSE registers
  /\ UNCHANGED <<rev, network, pageVars, due, dueRev, flight, spaced, hookShown,
                 missed>>

\* The PLC writes what is not so: the bus may take it, and then tells
\* everybody, or refuse it, and then nobody hears of it.
PlcWrites ==
  /\ plc
  /\ \/ Notify
     \/ /\ registers' = Stored(rev + 1, FALSE)
        /\ UNCHANGED <<rev, network, pageVars, hookVars, plcOn, plc>>

NetworkChanges ==
  /\ network' = ~network /\ open' = (open /\ network')
  /\ UNCHANGED <<rev, pageShown, pageDue, hookVars, plcVars>>

WatchersNext ==
  \/ Notify
  \/ PageConnects \/ PageLost \/ PageLoop
  \/ HookLoop \/ SendNow \/ Arrives \/ PauseOver
  \/ \E ok \in BOOLEAN : HookAnswered(ok)
  \/ \E h, p \in BOOLEAN : Reconfigured(h, p)
  \/ PlcWrites \/ NetworkChanges

----------------------------------------------------------------------------
(* Properties.                                                             *)

Page == INSTANCE Follower WITH actual <- rev, shown <- pageShown
Hook == INSTANCE Follower WITH actual <- rev, shown <- hookShown
Plc == INSTANCE Follower WITH actual <- rev, shown <- registers

\* The page never shows a state older than one it has shown, however its
\* greeting and the states sent to everybody follow each other.
PageFollows == Page!Spec

\* Nor is the server told of an older state after a newer one, whatever is
\* pending or in flight when a change, a test or a new setting comes.
HookFollows == Hook!Spec

\* The registers hold what the air conditioner is in and never what a PLC
\* merely asked for.
PlcFollows == Plc!Spec

\* Once the registers are there they are never behind: a PLC that reads after
\* a change reads the change, whether or not it made it (ModbusService::
\* publish, under publishing_).
PlcCurrent == plc => registers = rev

\* A webhook with nothing to do has told the server everything, unless a
\* delivery failed or it was off (WebhookService: a burst is one delivery, of
\* where it ended up, also when part of it came during a delivery).
HookComplete ==
  hookOn /\ ~due /\ flight = Nothing /\ ~missed => hookShown = rev

\* An open page with nothing on its way shows the state that is.
PageComplete == open /\ ~pageDue => pageShown = rev

\* Whoever has nothing on its way to it knows the newest state, and no one is
\* ever shown an older one after it.
EveryoneTold == PageComplete /\ HookComplete /\ PlcCurrent
EveryoneFollows == PageFollows /\ HookFollows /\ PlcFollows

\* With the network there a change is tried sooner or later: no row of
\* failures or changes keeps the webhook from trying the next one.
DeliveryTried == <>[]network => []<>~due
=============================================================================
