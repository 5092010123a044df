-------------------------------- MODULE Mqtt --------------------------------
(***************************************************************************)
(* net/MqttService.cpp between the command bus and Home Assistant: the     *)
(* connection with its back-off, the publications that the bus, a command, *)
(* a heartbeat or a connection cause, and the last will, over a broker     *)
(* that may lose the connection without either end noticing at once.       *)
(*                                                                         *)
(* The bus's states are numbered by its revision: what is published, kept  *)
(* or shown is the revision of the state it tells.                         *)
(***************************************************************************)
EXTENDS Integers

CONSTANTS
  Heartbeat,      \* kHeartbeatMs, in ticks
  FirstDelay,     \* the first retry delay, 5 s
  MaxDelay,       \* kMaxRetryDelayMs
  MaxRevision,    \* bound: the changes of state made
  Nothing         \* no message

ASSUME DelayAssumption ==
  /\ Heartbeat \in Nat \ {0}
  /\ FirstDelay \in Nat \ {0} /\ MaxDelay \in Nat /\ FirstDelay <= MaxDelay
  /\ MaxRevision \in Nat

VARIABLES
  rev,        \* bus::commands.revision()
  sent,       \* lastRevision_
  age,        \* millis() - lastPublishAt_, at most Heartbeat
  wait,       \* until the next attempt to connect may be made
  delay,      \* retryDelayMs_
  link,       \* the connection: "up", "dead" with nobody noticing, or "down"
  asked,      \* the command on its way from Home Assistant, or Nothing
  will,       \* the last will of a lost connection, "none" once it is published
  kept,       \* the retained messages: state and availability
  shown,      \* what Home Assistant shows of them
  wifi,       \* WiFi.status() == WL_CONNECTED
  conf        \* the settings: whether to connect, whether to retain

device == <<rev, sent, age, wait, delay>>
broker == <<will, kept>>
vars == <<device, link, asked, broker, shown, wifi, conf>>

Wish == -1    \* what was asked for, before the device has answered

Revisions == 0..MaxRevision
Commands == {"applied", "refused", "unread"}
Settings == [enabled : BOOLEAN, retain : BOOLEAN]
Wills == {"retained", "passing"}
Blank == [state |-> Nothing, online |-> Nothing]

TypeOK ==
  /\ rev \in Revisions
  /\ sent \in Revisions \cup {Nothing} /\ (sent # Nothing => sent <= rev)
  /\ age \in 0..Heartbeat
  /\ delay \in FirstDelay..MaxDelay /\ wait \in 0..delay
  /\ link \in {"up", "dead", "down"}
  /\ asked \in Commands \cup {Nothing} /\ (asked # Nothing => link # "down")
  /\ will \in Wills \cup {"none"} /\ (will # "none" => link # "up")
  /\ kept.state \in Revisions \cup {Nothing}
  /\ shown.state \in Revisions \cup {Nothing, Wish}
  /\ {kept.online, shown.online} \subseteq BOOLEAN \cup {Nothing}
  /\ wifi \in BOOLEAN /\ (link = "up" => wifi)
  /\ conf \in Settings

----------------------------------------------------------------------------
(* The broker (external): a message it gets reaches the subscriber at once. *)

Kept(topic, value) ==
  IF conf.retain THEN [kept EXCEPT ![topic] = value] ELSE kept

Told(topic, value) ==
  kept' = Kept(topic, value) /\ shown' = [shown EXCEPT ![topic] = value]

----------------------------------------------------------------------------
(* Publishing.                                                              *)

\* PubSubClient says so until its own keep-alive has run out.
Connected == link # "down"

\* publishState(force) of the state r: not connected, it does nothing; what
\* goes into a dead connection is lost, and counts as published.
Publish(r) ==
  IF Connected
  THEN /\ sent' = r /\ age' = 0
       /\ IF link = "up" THEN Told("state", r) ELSE UNCHANGED <<kept, shown>>
  ELSE UNCHANGED <<sent, age, kept, shown>>

\* The bus's listener, whoever changed the state.
Changed ==
  /\ rev < MaxRevision
  /\ rev' = rev + 1
  /\ Publish(rev + 1)
  /\ UNCHANGED <<wait, delay, link, asked, will, wifi, conf>>

----------------------------------------------------------------------------
(* Commands.                                                                *)

\* Home Assistant sends one, and shows the wish until it hears otherwise.
Ask(c) ==
  /\ asked = Nothing
  /\ shown' = [shown EXCEPT !.state = Wish]
  /\ asked' = IF link = "up" THEN c ELSE asked
  /\ UNCHANGED <<device, link, broker, wifi, conf>>

\* Mutant: a refused command is only logged.
AnswerLogged(c) ==
  CASE c = "applied" /\ rev < MaxRevision -> rev' = rev + 1 /\ Publish(rev + 1)
    [] OTHER -> UNCHANGED <<rev, sent, age, kept, shown>>

\* handleCommand: applied, and told by the bus's listener; refused or held, and
\* the state told again; or a payload that cannot be read, or changes nothing.
\* (Scenes and Homie's commands tell it again whatever the outcome.)
Answer(c) ==
  CASE c = "applied" /\ rev < MaxRevision -> rev' = rev + 1 /\ Publish(rev + 1)
    [] c = "refused" -> Publish(rev) /\ UNCHANGED rev
    [] OTHER -> UNCHANGED <<rev, sent, age, kept, shown>>

Received == link = "up" /\ asked # Nothing

Command ==
  /\ Received
  /\ asked' = Nothing
  /\ Answer(asked)
  /\ UNCHANGED <<wait, delay, link, will, wifi, conf>>

----------------------------------------------------------------------------
(* loop().                                                                  *)

\* Mutant: without the heartbeat.
DueChanged == wifi /\ Connected /\ sent # rev

Due == wifi /\ Connected /\ (sent # rev \/ age = Heartbeat)

Republish ==
  /\ Due
  /\ Publish(rev)
  /\ UNCHANGED <<rev, wait, delay, link, asked, will, wifi, conf>>

MayTry == conf.enabled /\ wifi /\ ~Connected /\ wait = 0

\* Mutant: a connection does not announce the device again.
ConnectUnannounced ==
  /\ MayTry
  /\ link' = "up" /\ will' = "none" /\ delay' = FirstDelay /\ wait' = delay'
  /\ sent' = rev /\ age' = 0
  /\ kept' = [Kept("state", rev) EXCEPT
                !.online = IF will = "retained" THEN FALSE ELSE @]
  /\ shown' = [state |-> rev,
               online |-> IF will = "none" THEN shown.online ELSE FALSE]
  /\ UNCHANGED <<rev, asked, wifi, conf>>

\* Mutant: a connection leaves the state to the next change or heartbeat.
ConnectSilent ==
  /\ MayTry
  /\ link' = "up" /\ will' = "none" /\ delay' = FirstDelay /\ wait' = delay'
  /\ kept' = Kept("online", TRUE) /\ shown' = [shown EXCEPT !.online = TRUE]
  /\ UNCHANGED <<rev, sent, age, asked, wifi, conf>>

\* connect(): availability, then the state.  The broker publishes the will of
\* the connection this one replaces first, if it had not noticed.
Connect ==
  /\ MayTry
  /\ link' = "up" /\ will' = "none" /\ delay' = FirstDelay /\ wait' = delay'
  /\ sent' = rev /\ age' = 0
  /\ kept' = IF conf.retain THEN [state |-> rev, online |-> TRUE]
             ELSE IF will = "retained" THEN [kept EXCEPT !.online = FALSE]
             ELSE kept
  /\ shown' = [state |-> rev, online |-> TRUE]
  /\ UNCHANGED <<rev, asked, wifi, conf>>

Earlier(a, b) == IF a < b THEN a ELSE b

\* Each failure doubles the delay that the next attempt waits for.
ConnectFails ==
  /\ MayTry
  /\ delay' = Earlier(2 * delay, MaxDelay)
  /\ wait' = delay'
  /\ UNCHANGED <<rev, sent, age, link, asked, broker, shown, wifi, conf>>

\* Nothing the loop has to do is left when time goes on.
Tick ==
  /\ ~Due /\ ~Received /\ ~MayTry
  /\ age' = Earlier(age + 1, Heartbeat)
  /\ wait' = IF wait > 0 THEN wait - 1 ELSE 0
  /\ UNCHANGED <<rev, sent, delay, link, asked, broker, shown, wifi, conf>>

----------------------------------------------------------------------------
(* What the network, the user and Home Assistant do.                        *)

\* The will is as it was left at the connection, and new settings end that
\* connection.
Lost ==
  /\ link' = "dead" /\ asked' = Nothing
  /\ will' = IF conf.retain THEN "retained" ELSE "passing"

\* The connection dies; neither end knows yet.
Break ==
  /\ link = "up"
  /\ Lost
  /\ UNCHANGED <<device, kept, shown, wifi, conf>>

\* So does Wi-Fi, which the loop waits for.
WifiDown ==
  /\ wifi
  /\ wifi' = FALSE
  /\ IF link = "up" THEN Lost ELSE UNCHANGED <<link, will, asked>>
  /\ UNCHANGED <<device, kept, shown, conf>>

WifiUp == ~wifi /\ wifi' = TRUE
          /\ UNCHANGED <<device, link, asked, broker, shown, conf>>

\* The device's keep-alive has run out.
Notice ==
  /\ link = "dead"
  /\ link' = "down"
  /\ UNCHANGED <<device, asked, broker, shown, wifi, conf>>

\* The broker's has: it publishes the last will.
LastWill ==
  /\ will # "none"
  /\ will' = "none"
  /\ shown' = [shown EXCEPT !.online = FALSE]
  /\ kept' = IF will = "retained" THEN [kept EXCEPT !.online = FALSE] ELSE kept
  /\ UNCHANGED <<device, link, asked, wifi, conf>>

\* The broker restarts without what it kept.
BrokerRestart ==
  /\ kept' = Blank /\ will' = "none" /\ asked' = Nothing
  /\ link' = IF link = "up" THEN "dead" ELSE link
  /\ UNCHANGED <<device, shown, wifi, conf>>

\* Home Assistant restarts, and is told what was retained.
Subscribe ==
  /\ shown' = kept
  /\ UNCHANGED <<device, link, asked, broker, wifi, conf>>

\* reconfigure(), with the new settings in place: the device signs off, where
\* the new ones decide whether that is retained, and starts over.
Reconfigure(c) ==
  /\ conf' = c
  /\ kept' = IF link = "up" /\ c.retain THEN [kept EXCEPT !.online = FALSE]
                                       ELSE kept
  /\ shown' = IF link = "up" THEN [shown EXCEPT !.online = FALSE] ELSE shown
  /\ link' = "down" /\ asked' = Nothing
  /\ wait' = 0 /\ delay' = FirstDelay
  /\ UNCHANGED <<rev, sent, age, will, wifi>>

Init ==
  /\ rev = 0 /\ sent = Nothing /\ age = 0
  /\ delay = FirstDelay /\ wait = delay
  /\ link = "down" /\ asked = Nothing
  /\ will = "none" /\ kept = Blank /\ shown = Blank
  /\ wifi = FALSE
  /\ conf \in Settings

\* Once everything works and nobody asks for anything, this is what goes on.
Loop == Republish \/ Connect \/ Command
Calm == Loop \/ Tick \/ Notice \/ LastWill

Next ==
  \/ Calm \/ ConnectFails
  \/ Changed \/ \E c \in Commands : Ask(c)
  \/ Break \/ BrokerRestart \/ Subscribe \/ WifiDown \/ WifiUp
  \/ \E c \in Settings : Reconfigure(c)

\* The loop keeps turning, time passes, and keep-alives run out.  Nothing makes
\* an attempt to connect succeed.
Fairness ==
  WF_vars(Loop) /\ WF_vars(Tick) /\ WF_vars(Notice) /\ WF_vars(LastWill)

Spec == Init /\ [][Next]_vars /\ Fairness

----------------------------------------------------------------------------
(* Properties.                                                              *)

Settled == <>[][Calm]_vars /\ <>[](wifi /\ conf.enabled)

\* Once the network has settled Home Assistant shows the bus's state, whatever
\* was lost, refused, misread, restarted or reconfigured before, retained or
\* not: "a broker restart or a late-joining subscriber does not sit there with
\* no state" (kHeartbeatMs, connect).
HomeAssistantFollows ==
  Settled => <>[](shown.state = rev)

\* And it shows the device as available, if availability is retained: it is
\* told only on connecting, and no heartbeat repeats it (connect).
HomeAssistantSeesDevice ==
  Settled /\ <>[](conf.retain) => <>[](shown.online = TRUE)

\* While the connection works nothing but a command of its own makes Home
\* Assistant show anything but the state the bus has, not even for a moment and
\* not even if it restarts, where states are retained (publishState, connect).
UpToDate ==
  link = "up" /\ conf.retain => shown.state \in {rev, Wish}
=============================================================================
