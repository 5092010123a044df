------------------------------ MODULE Telegram ------------------------------
(***************************************************************************)
(* net/TelegramService.cpp: a bot that asks the server for updates over    *)
(* one connection, with one request at a time, and sends its replies over  *)
(* the same.  The first who writes to it becomes its owner.                *)
(***************************************************************************)
EXTENDS Naturals, Sequences, FiniteSets

CONSTANTS
  Chat,          \* those who may write to the bot
  FarChat,       \* those of them whose id is not within 32 bits
  MaxUpdates,    \* bound: the updates that are explored
  PerPoll,       \* the `limit` of getUpdates
  MaxQueue,      \* the replies that may wait
  MaxFaults      \* bound: failed requests, posted settings and restarts

ASSUME TelegramAssumption ==
  /\ {MaxUpdates, PerPoll, MaxQueue, MaxFaults} \subseteq Nat /\ PerPoll > 0
  /\ IsFiniteSet(Chat) /\ FarChat \subseteq Chat

VARIABLES
  phase,            \* phase_
  request,          \* inFlight_: "none", "poll" or "send"
  waiting,          \* how many replies queue_ holds
  offset,           \* updateOffset_
  batch,            \* the updates of a response that are still to be handled
  sent,             \* the server: all updates so far, each [chat, long]
  unread,           \* the server: the first update it would still deliver
  handled,          \* history: the updates that have been handled
  heard,            \* history: those of them that led to anything
  since,            \* history: those of them since the last start
  enabled,          \* settings.telegram.enabled, with a token
  allowed, door,    \* settings.telegram.allowed and openEnrolment
  saved,            \* the same two in the file
  form,             \* the same two as a page last read them
  owners,           \* history: who enrolled since the door was last opened
  faults

chat == <<phase, request, waiting, offset, batch, sent, unread, handled, heard, since,
          enabled, allowed, door, saved, form, owners, faults>>
connection == <<phase, request, waiting>>
server == <<sent, unread>>
access == <<enabled, allowed, door, saved, form, owners>>

Update == 1..MaxUpdates
Phase == {"disabled", "backoff", "connecting", "idle", "reading"}
Access == [allowed : SUBSET Chat, door : BOOLEAN]

TelegramOK ==
  /\ phase \in Phase /\ request \in {"none", "poll", "send"}
  /\ phase = "reading" <=> request # "none"
  /\ waiting \in 0..MaxQueue
  /\ offset \in 0..MaxUpdates + 1
  /\ batch \in Seq(Update) /\ Len(batch) <= PerPoll
  /\ sent \in Seq([chat : Chat, long : BOOLEAN]) /\ Len(sent) <= MaxUpdates
  /\ unread \in 1..Len(sent) + 1
  /\ handled \subseteq Update /\ since \subseteq handled /\ heard \subseteq handled
  /\ {enabled, door} \subseteq BOOLEAN
  /\ allowed \subseteq Chat /\ owners \subseteq Chat
  /\ {saved, form} \subseteq Access
  /\ faults \in 0..MaxFaults

NewAccess == [allowed |-> {}, door |-> TRUE]

TelegramInit ==
  /\ phase = "backoff" /\ request = "none" /\ waiting = 0
  /\ offset = 0 /\ batch = << >>
  /\ sent = << >> /\ unread = 1
  /\ handled = {} /\ heard = {} /\ since = {}
  /\ enabled = TRUE /\ allowed = {} /\ door = TRUE
  /\ saved = NewAccess /\ form = NewAccess
  /\ owners = {} /\ faults = 0

Larger(a, b) == IF a < b THEN b ELSE a
Smaller(a, b) == IF a < b THEN a ELSE b

\* Mutant: everything is kept.
EnqueuedAll(n) == waiting + n

\* enqueue: what does not fit is dropped.
Enqueued(n) == Smaller(waiting + n, MaxQueue)

Fault == faults < MaxFaults /\ faults' = faults + 1

----------------------------------------------------------------------------
(* Outside.                                                                *)

\* Somebody writes, or presses a key under a message; a long text makes a
\* response longer than kMaxResponseBytes.
Write(c, long) ==
  /\ Len(sent) < MaxUpdates
  /\ sent' = Append(sent, [chat |-> c, long |-> long])
  /\ UNCHANGED <<connection, offset, batch, unread, handled, heard, since, access, faults>>

\* onStateChanged: a change that did not come from the bot is reported to
\* every owner.
Report ==
  /\ phase # "disabled" /\ waiting' = Enqueued(Cardinality(allowed))
  /\ UNCHANGED <<phase, request, offset, batch, server, handled, heard, since, access,
                 faults>>

----------------------------------------------------------------------------
(* The loop.                                                               *)

BackoffOver ==
  /\ phase = "backoff" /\ phase' = "connecting"
  /\ UNCHANGED <<request, waiting, offset, batch, server, handled, heard, since, access,
                 faults>>

\* openConnection, which may fail: for want of memory too.
Connect ==
  /\ phase = "connecting"
  /\ \/ phase' = "idle" /\ UNCHANGED faults
     \/ phase' = "backoff" /\ Fault
  /\ UNCHANGED <<request, waiting, offset, batch, server, handled, heard, since, access>>

\* The connection is found closed.
Dropped ==
  /\ phase = "idle" /\ batch = << >> /\ phase' = "backoff" /\ Fault
  /\ UNCHANGED <<request, waiting, offset, batch, server, handled, heard, since, access>>

\* A reply goes first; updates are asked for when none waits.
Ask ==
  /\ phase = "idle" /\ batch = << >> /\ phase' = "reading"
  /\ IF waiting > 0 THEN request' = "send" /\ waiting' = waiting - 1
                    ELSE request' = "poll" /\ UNCHANGED waiting
  /\ UNCHANGED <<offset, batch, server, handled, heard, since, access, faults>>

\* readResponse of a reply: not even its status is looked at.
Replied ==
  /\ request = "send" /\ phase' = "idle" /\ request' = "none"
  /\ UNCHANGED <<waiting, offset, batch, server, handled, heard, since, access, faults>>

\* What the server has for a poll: it forgets what is older than the offset.
FirstUnread == Larger(unread, offset)
Batch == FirstUnread..Smaller(FirstUnread + PerPoll - 1, Len(sent))

\* readResponse and handleResponse: a body that was cut short does not parse,
\* and nothing of it is handled.
Polled ==
  /\ request = "poll" /\ phase' = "idle" /\ request' = "none"
  /\ unread' = FirstUnread
  /\ batch' = IF \E u \in Batch : sent[u].long THEN << >>
              ELSE [i \in 1..Cardinality(Batch) |-> FirstUnread + i - 1]
  /\ UNCHANGED <<waiting, offset, sent, handled, heard, since, access, faults>>

\* The response does not come, or the connection closes before its end; the
\* server may have the request.
NoResponse ==
  /\ phase = "reading" /\ Fault
  /\ phase' \in {"backoff", "idle"} /\ request' = "none"
  /\ unread' \in {unread, IF request = "poll" THEN FirstUnread ELSE unread}
  /\ UNCHANGED <<waiting, offset, batch, sent, handled, heard, since, access>>

----------------------------------------------------------------------------
(* handleUpdate.                                                           *)

\* authorise: whoever says hello first owns the bot, and shuts the door.
Enrols(c) == c \notin allowed /\ door /\ allowed = {}

\* Mutant: the door stays open.
MessageOpen(c, n) ==
  /\ n = 1
  /\ IF Enrols(c)
     THEN allowed' = {c} /\ owners' = owners \cup {c} /\ UNCHANGED door
     ELSE UNCHANGED <<allowed, door, owners>>

\* handleMessage: a greeting, a refusal, or what came of the command.
Message(c, n) ==
  /\ n = 1
  /\ IF Enrols(c)
     THEN allowed' = {c} /\ door' = FALSE /\ owners' = owners \cup {c}
     ELSE UNCHANGED <<allowed, door, owners>>

\* handleCallback: the key is answered and the message under it redrawn, for
\* those who are allowed; nobody enrols by a key.
KeyPress(c, n) ==
  /\ n \in IF c \in allowed THEN 0..2 ELSE 0..1
  /\ UNCHANGED <<allowed, door, owners>>

\* handleUpdate: the id of a chat is read as an int, and one that is too large for
\* it is 0, which neither a message nor a key is heard from.
Heeded(u, c, n) ==
  IF c \in FarChat THEN n = 0 /\ UNCHANGED <<heard, allowed, door, owners>>
  ELSE heard' = heard \cup {u} /\ (Message(c, n) \/ KeyPress(c, n))

\* Mutant: the next update is the one that was just handled.
HandleAgain(n) ==
  /\ batch # << >> /\ batch' = Tail(batch)
  /\ LET u == Head(batch) c == sent[u].chat IN
     /\ offset' = IF u >= offset THEN u ELSE offset
     /\ handled' = handled \cup {u} /\ since' = since \cup {u}
     /\ Heeded(u, c, n)
  /\ waiting' = Enqueued(n)
  /\ UNCHANGED <<phase, request, server, enabled, saved, form, faults>>

\* One update, with the replies it leads to: the offset is past it before it is
\* carried out.
Handle(n) ==
  /\ batch # << >> /\ batch' = Tail(batch)
  /\ LET u == Head(batch) c == sent[u].chat IN
     /\ offset' = IF u >= offset THEN u + 1 ELSE offset
     /\ handled' = handled \cup {u} /\ since' = since \cup {u}
     /\ Heeded(u, c, n)
  /\ waiting' = Enqueued(n)
  /\ UNCHANGED <<phase, request, server, enabled, saved, form, faults>>

----------------------------------------------------------------------------
(* The settings and starts.                                                *)

\* touch and Settings::loop: an enrolment is saved a moment later.
SaveAccess ==
  /\ saved # [allowed |-> allowed, door |-> door]
  /\ saved' = [allowed |-> allowed, door |-> door]
  /\ UNCHANGED <<connection, offset, batch, server, handled, heard, since, enabled,
                 allowed, door, form, owners, faults>>

ReadForm ==
  /\ form' = [allowed |-> allowed, door |-> door]
  /\ UNCHANGED <<connection, offset, batch, server, handled, heard, since, enabled,
                 allowed, door, saved, owners, faults>>

\* What somebody makes of the page: one taken off the list, or the bot off.
Forms ==
  {form} \cup {[form EXCEPT !.allowed = @ \ {c}] : c \in Chat}

\* Mutant: a bot that is off is left alone.
PostFormOff(f, on) ==
  /\ batch = << >> /\ Fault
  /\ enabled' = on
  /\ allowed' = f.allowed /\ door' = f.door /\ saved' = f /\ form' = f
  /\ owners' = IF f.door /\ ~door THEN {} ELSE owners
  /\ waiting' = 0 /\ request' = "none"
  /\ phase' = IF on /\ phase # "disabled" THEN "backoff" ELSE "disabled"
  /\ UNCHANGED <<offset, batch, server, handled, heard, since>>

\* handleConfigSet and reconfigure: everything starts over but the offset, and
\* what was waiting to be sent is dropped.
PostForm(f, on) ==
  /\ batch = << >> /\ Fault
  /\ enabled' = on
  /\ allowed' = f.allowed /\ door' = f.door /\ saved' = f /\ form' = f
  /\ owners' = IF f.door /\ ~door THEN {} ELSE owners
  /\ waiting' = 0 /\ request' = "none"
  /\ phase' = IF on THEN "backoff" ELSE "disabled"
  /\ UNCHANGED <<offset, batch, server, handled, heard, since>>

\* The power is cut: the offset is lost, and an enrolment that was not saved.
CutBot ==
  /\ Fault
  /\ offset' = 0 /\ batch' = << >> /\ since' = {}
  /\ waiting' = 0 /\ request' = "none"
  /\ phase' = IF enabled THEN "backoff" ELSE "disabled"
  /\ allowed' = saved.allowed /\ door' = saved.door
  /\ owners' = IF saved.door /\ ~door THEN {} ELSE owners
  /\ UNCHANGED <<server, handled, heard, enabled, saved, form>>

BotLoop ==
  BackoffOver \/ Connect \/ Ask \/ Replied \/ Polled
  \/ \E n \in 0..2 : Handle(n)

TelegramNext ==
  \/ \E c \in Chat, long \in BOOLEAN : Write(c, long)
  \/ Report \/ BotLoop \/ Dropped \/ NoResponse
  \/ SaveAccess \/ ReadForm
  \/ \E f \in Forms, on \in BOOLEAN : PostForm(f, on)
  \/ CutBot

----------------------------------------------------------------------------
(* Properties.                                                             *)

\* The server forgets no update that was not handled, whatever is cut off
\* between asking for a batch and carrying out the last of it
\* (handleResponse, updateOffset_).
NoneForgotten == \A u \in 1..unread - 1 : u \in handled

\* Nothing is carried out twice, a key that toggles the power least of all,
\* except that a start forgets what had been done.
NoneHandledTwice == [][\A n \in 0..2 : Handle(n) => Head(batch) \notin since]_chat

\* An enrolment shuts the door behind it (authorise): of those who write, however
\* close together, one at most becomes the owner.  That is all it says: an old page
\* that is posted, and a cut that loses the enrolment, do open the door again, and
\* then the owners are counted anew.
OneOwner == Cardinality(owners) <= 1

\* The bot hears everything while it is on, whatever its replies and the faults of
\* the connection, if the reports of changes, which go first, let up (Ask,
\* NoResponse and the backoff); but for two things: nobody whose id is larger than
\* 32 bits is ever heard, though authorise and the settings would take the id, and
\* a text too long for the response keeps all from being heard.
AllHeard ==
  \A u \in Update :
    /\ <>[][~Report]_chat
    /\ <>[](/\ enabled /\ Len(sent) >= u /\ sent[u].chat \notin FarChat
            /\ \A v \in 1..Len(sent) : ~sent[v].long)
    => <>[](u \in heard)
=============================================================================
