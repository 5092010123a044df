# A verified model of the SLWF-12 infrared bridge

The firmware in `src/` turns an ESP8266 into a bridge between an air conditioner
that only understands infrared and everything else: a web page, a REST API,
MQTT and Home Assistant, Telegram, webhooks, Modbus, a UART host, paired devices
and the owner's own handset. Its promise is that all of them can command the unit
at once "with every one of those staying in sync" (`src/README.md:6`), and that
the compressor survives it: "a start requested too soon after a stop is held, not
refused" (`src/README.md:32`).

This directory models the parts of the firmware where that promise is kept or
lost, model-checks them with TLC, and proves the compressor guarantee and every other
safety property of the passing runs with TLAPS, for every value of the constants that
meets the stated assumptions. `PROJECT.json` says which definition models which lines,
which properties each run checks, and which hazards they are for.

## 1. The system

### How it runs

`main.cpp` sets the services up and then runs one cooperative loop. Every turn
calls each service's `loop()` in a fixed order: infrared, button, UART, Wi-Fi,
web, MQTT, Telegram, webhook, Modbus, OTA, learning wizard, scheduler,
statistics, peers, automations, command bus, settings.

Two contexts exist. The *loop task* runs the services, one at a time; it gives way
only where it calls `delay()` or `yield()`, in particular in the 40 ms pauses
between the repeats of a frame. The *web server* (ESPAsyncWebServer) calls its
handlers between the steps of the loop and inside those pauses, where a `delay()`
does not pause. So a web call is atomic, and it can run in the middle of a call of
the loop task.

Every client builds an `ac::Delta`, a partial update, and calls
`bus::commands.apply(delta, source)`. The bus merges, clamps, transmits, saves, and
calls one subscriber (`main.cpp:85-99`) that tells statistics, web, MQTT, Telegram,
webhook, Modbus and UART. What the handset sends comes in through the receiver and
`observe()`, which adopts it without transmitting.

### Components

| Component | State | Operations | What is hard | What makes it correct |
|---|---|---|---|---|
| State and deltas (`core/AcState`) | none | merge, clamp, convert, to and from JSON | rounding, two units, fields implied by others | target in range, unit changes do not drift, the file loses nothing but the mode of a unit that is off |
| Command bus (`core/CommandBus`) | state, held start, guard timer, dirty flag, RTC copy, state file | apply, resend, setUnit, observe, loop, flush, begin | nested calls, a held start against newer commands, failures after assignment, restarts | compressor protected, everyone in sync, copies current, held starts run |
| Infrared (`ir/IrService`) | protocol, capture, repeats | send, sendAs, sendRaw, receive | the pauses between repeats, deafness while sending | as part of the bus |
| Automations (`app/Automations`) | rules with match episode, sequence, cooldown, guard window | loop, start, advance, fire, fromJson, load | rules that trigger each other, episodes across sleeps and sequences | rates bounded, holds honoured, rules fire, sequences end, else undoes only what was done |
| MQTT (`net/MqttService`) | connection, retry delay, last revision and time published | loop, connect, handleCommand, publishState, reconfigure | unnoticed disconnections, the last will, refused commands, late subscribers | Home Assistant ends up with the truth |
| Settings (`core/Settings`) | all settings, dirty flag, file and temporary file | save, load, fromJson, touch, factoryReset | power cut while saving, refusal half-way, masked secrets | what was saved is what a start finds, what is not saved is known to be |
| Scheduler (`app/Scheduler`) | rules, last day fired, clock synchronised, file | loop, fire, fromJson, load, save | restart between firing and saving, edits from stale pages, a clock that is not known | once per occurrence, no countdown left behind |
| Statistics (`app/Stats`) | totals, today, run in progress, file | onStateChanged, loop, save, reset | run across midnight, saves and resets within a run, power cut | never more than the time on, in all and today, and no less without a cut, but for the day of a run over midnight |
| Peers (`app/PeerClient`, `app/Peers`) | list, queue, request in flight, cached readings | poll, command, wake, finish, reconfigure | full queue, devices that come and go, removal in flight, answers that are cut off | commands once and in order, readings that come true, of documents that are short enough |
| Scenes (`app/Scenes`) | list | apply, save | none of its own | as the bus |
| Learning (`ir/Learning`, `ir/CodeStore`, `ir/RemoteMap`) | wizard phase, candidate, sweep, targets, codes, bindings | start, capture, confirm, skip, cancel, timeout, store, resolve, bind, find | captures, answers and timeouts in any order; codes and bindings replaced and removed; a flash that is full | the wizard ends, adopts what works; the nearest code; a button does what it was last taught |
| Button (`io/ButtonService`) | press timing, clicks | click, double click, two holds | clicks before a hold, a loop that was away | one gesture, one effect |
| UART (`io/UartService`) | line buffer | read a line, answer | none of its own | as the bus |
| Web (`net/WebService`, `net/ApiRoutes`, `net/TasmotaCompat`) | sockets, pending broadcast | handlers, greeting, broadcast | runs inside the loop's pauses; greeting against broadcast | a page shows the truth and never goes back |
| Webhook (`net/WebhookService`) | pending state, delivery in flight, back-off | onStateChanged, loop, finish, sendNow, reconfigure | failures, changes in flight, the test button | the receiver gets the newest and never goes back |
| Modbus (`net/ModbusService`) | registers | handlers, publish, reconfigure | publication inside a write's handler | registers tell the state |
| Telegram (`net/TelegramService`) | connection phase, offset, queue of replies, access list | loop, handleResponse, handleUpdate, authorise, reconfigure | lost or unreadable responses, ids of chats wider than an int, enrolments close together | each update once, none forgotten, an enrolment shuts the door |
| Wi-Fi (`net/WifiService`) | connection state machine, portal | loop, startPortal, beginConnect, connectTo | states that wait for each other's timers, an access point that does not start | always comes back |
| Updates (`net/OtaService`) | update in progress, image begun and staged, restart due | upload, scheduleRestart, loop | uploads that break off or are turned away, the unmounted file system | a restart is onto one whole image |
| Log, sources, web page, build tools | - | - | - | not modelled |

Section 7 says what is left out for good; `PROJECT.json` lists each component with
its status, and the hazards at the line where each one bites. Where a property
covers a hazard only in part, or none does, a note says what is left and why.

## 2. The modules

| Module | What it is |
|---|---|
| `AcState` | the pure operators on states and deltas |
| `UnitSwitch`, `UnitSwitchProofs` | a device switched between the units for ever, over ranges of targets, explored as part of `Household`; the lemmas of its proofs |
| `Compressor` | the abstract specification: what the bus promises the compressor |
| `CommandBus` | the bus, the transmitter below it, the handset, the two saved copies, restarts |
| `MCCommandBus` | values for its constants |
| `CommandBusProofs` | type correctness, the compressor guarantee, and the agreement of all copies within a session and across restarts, proved |
| `Automations`, `MCAutomations`, `AutomationsProofs` | the rules engine; its types, rates and hold times, proved |
| `Mqtt`, `MqttProofs` | the MQTT client, a broker and Home Assistant |
| `Settings`, `Wifi`, `Ota`, `Button`, `Teaching` | the settings and their file; the connection and the portal; firmware; the button; the wizard, recorded codes and bound buttons |
| `Upkeep`, `MCUpkeep` | those five composed: handlers and gestures that reach several of them, the loop, restarts and power cuts |
| `UpkeepProofs` | the safety properties of `Upkeep`, proved |
| `MCTeaching` | `Teaching` alone |
| `Clock`, `Scheduler`, `Stats` | the wall clock; the schedules; the counters |
| `Follower` | the abstract specification: what everyone who follows the bus's state promises |
| `Watchers` | the web page, the webhook and Modbus; each implements `Follower` |
| `Telegram`, `PeerClient` | the bot; the paired devices and their client |
| `Household`, `MCHousehold` | those five composed, and `UnitSwitch` |
| `ClockProofs`, `ServicesProofs` | the invariants of `Scheduler` and `Stats`, and of `Watchers`, `Telegram` and `PeerClient`, each under the steps of its own module |
| `HouseholdProofs` | the safety properties of `Household`, proved from those |

In every module an operator whose comment begins "Mutant:" is not part of the
model: it is a plausible bug in the operator that follows it, kept to show that a
property would notice.

### AcState

A state is `[power, mode, fan, degrees, celsius]`; `fan` stands for every field the
code copies without reading it. A delta is a record with only the fields its client
set. Temperatures are integers in ninetieths of a degree: every value the bus keeps
(multiples of a step in Celsius, whole degrees Fahrenheit) and both conversions are
exact, so `Clamp` and `UnitDelta` compute what the `float` code computes.
`Clamp` bounds first and rounds after, as the bus's `clamp` does, halves away from
zero. `FromJson` keeps the code's dependencies between fields: an `hvac_mode` of
"off" says nothing about the mode, and a mode without `power` turns the unit on.

In `UnitSwitch` the owner changes the unit over and over: `SetUnit` is the bus's
`setUnit`, and `first` remembers the target before any change.

### CommandBus

| Variable | Code |
|---|---|
| `state` | `state_` |
| `pending` | `pendingStart_`, `pendingState_`, `pendingSource_` |
| `sawOff`, `offAge` | `sawPowerOff_`, `millis() - poweredOffAt_` modulo `ClockWrap` |
| `dirty`, `dirtyAge` | `statePending_`, `millis() - statePendingAt_` |
| `rtc`, `file` | the RTC memory block, `/state.json` |
| `cfg` | the settings the bus reads: enabled clients, transmitter, unit, limits |
| `told` | what the subscriber was last called with |
| `call` | a call of the loop task that is in a pause between two repeats |
| `ac`, `run`, `offFor` | the air conditioner: last frame heard, who started the run, time since the last |

| Action | Code |
|---|---|
| `Apply` | `apply` with every early return (disabled, empty, held, no change, not ready) |
| `Resend`, `SetConfig` | `resend`; `handleConfigSet` with the `setUnit` it ends in |
| `HandsetPress` | what the handset does to the unit, and `observe` if it was heard |
| `Repeat`, `Return` | the next frame of a suspended call, and the rest of its caller |
| `RunPendingStart`, `FlushFile` | the two halves of `loop` |
| `Tick` | time, once nothing is due |
| `Crash`, `Restart`, `PowerCut` | `begin` from RTC memory; after `flush`; from the file alone |

The order of assignments in the code is kept where a pause separates them:
`sendState` may be suspended between the assignment of `state_` and the saving and
telling, and `Return` saves and tells the state *then*, not the one that was sent.
A failed transmission leaves `state` assigned and nothing else, as the code does.
`Persist` clears the dirty flag before the file is opened.

### Automations

Time is in seconds, the period of `loop`. After every `Tick` one pass runs: first
each rule's sequence (`Resume`), then each rule's conditions (`Evaluate`), in list
order; `turn` is the place in the pass. A condition is the set of values its
comparison accepts. A rule acts on `house` while the pass goes on, so a later rule
sees it. A command may come to nothing (refused, held, dropped by the queue), any
subset of a branch's commands takes effect. `Test` is the test button, at any moment
between passes and any number of times, `Save` the replacement of the list, `Restart` a
restart. `held`, `starts` (the ages of the latest starts, one more than can fall into a
window) and `acted` are history variables for the properties; no guard reads them.

### Mqtt

States are numbered by the bus's revision, so "older" has a meaning: what is
published, retained and shown is a revision. `link` is "dead" after a connection has
been lost and before the device notices; messages sent then are lost and count as
sent, as in `publishState`, which ignores the outcome. `will` is the last will that
the broker has not published, because it has not noticed either. `shown` is Home Assistant: it shows a `Wish` from the moment
it asks until it is told otherwise. The broker, the network and Home Assistant are
external: their actions are what the code relies on.

### Settings, Wifi, Ota, Button

A section of the configuration is one value: as the factory left it, set, or "bad", a
combination its check refuses. A document is a function from some sections to such
values, or to "hidden", the mask shown instead of a secret. `Merge` writes section by
section in the order the code reads them (`Rank`) and stops after the first refused one,
whose fields are in force by then; this is what `fromJson` does for a post, a backup and
a file alike. The variables are `ram` (`cfg::settings`), `live` and `tmp` (the two
files), `dirty`, `mounted`; `promised` and `refused` are history. `Save` is one step;
`CutSaving` is a power cut at any of its four moments. `Touch` marks a change that
`SaveDirty` writes later, `ConfigSet` is the handler that saves at once.
`promised` is what the device has said it saved, or that it erased at a factory reset; no
start changes it, so one that does not find it is seen.

`Wifi` has `wifi` (`state_`), `portal` (`apActive_`) and the `router`, which is outside.
Its timers elapse at any time. `PortalTried` is `startPortal` past its first line: the
access point starts, or it does not (`aired`), and then the mode of the radio has been
changed all the same and a station that was connected is gone ("dropped").

`Ota` follows an upload from its first chunk to its last, or to a connection that breaks,
which nobody tells the device; `owner` says whose chunks the begun image has, `staged`
what the next start finds in the place of the program and of the files: nothing new, an
image that is whole, or a torn one. A program is copied at the next start; an image of
the file system is written in place from its first chunk on. `FirstRefused` is the first
chunk of one who has not logged in: nothing is begun, but the later chunks are written
if another image is being written (`authorised`, `Ended`).

`Button` keeps of the time of a press only which threshold it has passed.

### Teaching

`phase`, `candidate`, `sweep`, `targets` are the wizard's variables (what is left of the
two lists, where the code has a list and an index); `model` is the adopted protocol and
whether codes are used; `codes` are the keys with a file, `bindings` the list of buttons.
`unit` and `dialect` are the air conditioner and what it speaks, `reacted` whether it
reacted to the last probe. The user answers truthfully, presses any button of the own
handset (`PressOwn`) or of another remote (`BindButton`), and may start, skip, confirm and
cancel at any moment. `Resolve` returns the set of keys that may be replayed, since the
code takes the first of the nearest in the order the file system lists them.
`torn` are the codes whose file is short. `Stored` has three outcomes, since `store` looks
only at whether the file opens: a whole file, a short one in the place of the old, or,
where littlefs did not commit what it could not finish, the old one still there. In each
of them but a refused open the answer is that the code was stored. `Resolve` follows the
three steps of the code: the exact file and those of its temperature must load, while the
last step picks the nearest name, and if that is a short file nothing is sent.

### Upkeep

`Next` explores four kinds of visit one at a time (`session`): settings are changed under
power cuts; the device and its network come and go; firmware is sent; the wizard is
used. They share the variables but exercise different ones, and their product would
only multiply the states. What crosses the services is in `Upkeep` itself: `ConnectTo`
saves and connects, `Upload` unmounts, `Erase` forgets settings, codes and protocol and
schedules a restart, `Boot` starts everything, on the staged image if there is one. With an
image of the file system every file is gone: settings, codes and bindings (`LoseTaught`).

### Clock, Scheduler, Stats

Time is in minutes; `known` is whether the device knows it, which it does not after a
start. `rules`, `file` and `page` are the list in memory, in the file and as a page has
it; `Ring` is a countdown that ends, with the save after it, `Strike` a daily rule in its
minute, whose `last` day is in memory only; `PostSchedules` replaces the whole list by
what a page made of the list it had read. `CutRinging` is a cut between the command and
the save. `spent` is history: what has rung.

`Stats` has `total`, `today`, `starts`, `stamp` and the run in progress (`running`, `ran`),
the file `kept`, and the real time on (`onTime`, `onCount`, `onToday`) as history. `Save`
adds the run to the counters and starts it over, if the file can be opened. `CutMeter` is
a power cut between steps; `CutSavingMeter` one inside a save, which opens the only file for
writing, so that the next start finds no counters (`NoCounts`). `RollDay` leaves a run in
progress as it is; `carried` is how much of it was not saved by then.

### Watchers

States are revisions, as in `Mqtt`. `Notify` is the fan-out of `main.cpp`: it marks the
page's broadcast as due, notes the state for the webhook, and writes the registers, all
in one step of the bus. The webhook has a state noted (`due`, `dueRev`) and a delivery in
flight; the request may reach the server (`Arrives`) and be answered or not, so a
delivery that failed may have arrived. A PLC's write runs the handler, which either ends
in `Notify` or leaves the register as it was.

### Telegram

The server keeps the updates from `unread` on, and forgets what is older than the offset
of a poll it has received, also when its answer is lost. `Polled` takes up to `PerPoll` of
them, or none when one is too long for the buffer; `Handle` carries out one and moves the
offset first. `waiting` counts the replies in the queue, which go before the next poll.
`form` is the access list a page has read and may post much later. `Heeded` is where the id
of a chat is read as an `int`: one of `FarChat` is read as 0, and nothing comes of its
update, which is `handled` but not `heard`.

### PeerClient

`jobs` is the queue, `job` the request in flight with what was answered so far; a command
has its number (`order`), a poll has 0. `Reaches` is the moment a device acts on a
request, `PeerAnswers` and `PeerLost` the two ends the client sees. `states` is what is
known of each device, `answering` and `lamp` what is so. `After` is `finish`: any good status
puts the device online, and the value is stored only if `absorb` gets through (`Absorbs`),
which it does not for a device whose document is longer than the buffer (`Verbose`).

### Household

`Next` explores one of six sessions at a time, as in `Upkeep`: schedules, counters,
followers, the chat, the paired devices, the unit of temperature. Schedules and counters
move the same clock. The others share no state that a property is about: what a message
or an automation does to the air conditioner is the bus's, and modelled there.

## 3. The runs

| Run | Module | Expect | Question |
|---|---|---|---|
| `bus_session` | MCCommandBus | pass | Without restarts or faults, is the compressor protected, is everyone in sync, is the stale file marked, do held starts run? |
| `bus_faults` | MCCommandBus | pass | With failing transmissions and file writes, missed frames, disabled clients: does the guard keep what it knows, and does every hold end? |
| `bus_restarts` | MCCommandBus | pass | With repeats, web calls inside the pauses, and crashes anywhere: do clients and the RTC copy end up with the bus's state? |
| `bus_cancel` | MCCommandBus | violation | Does asking for off drop a held start? |
| `bus_forget` | MCCommandBus | violation | Is the compressor protected across restarts? |
| `automations` | MCAutomations | pass | Two rules that trigger each other: rates, hold times, firing, ends of sequences |
| `automations_again` | MCAutomations | violation | Does a rule fire again whenever its conditions go from false to true? |
| `automations_else` | MCAutomations | violation | Does the else branch undo only what was done? |
| `mqtt` | Mqtt | pass | Does Home Assistant come to show the truth? |
| `upkeep` | MCUpkeep | pass | Are settings kept, firmware whole, codes and buttons as taught; does the network come back and the wizard end? |
| `handset_probe` | MCTeaching | violation | Does the wizard leave the unit as the handset set it? |
| `household` | MCHousehold | pass | Do schedules, counters, followers, the bot and the paired devices keep what they promise through cuts, losses and edits? For every target in a range, do unit changes keep it in range and near, and does the file keep it? |

### What the passing runs show

* `ProtectsCompressor` is a refinement: `CommandBus` implements `Compressor`, with
  `run` and `offFor`, the air conditioner's own view, as its variables. Four paths
  lead to a start (a command, a held start, a resend, a change of unit), and a stop
  may come from a client or the handset; the guard has to know them all.
* `InSync` and `CopiesCurrent` relate what the subscriber was told, what the unit
  heard, what the RTC memory holds and the state. `InSync` also says what the unit was
  told; it holds without repeats only. With repeats and a web call inside a pause,
  the unit ends up with the outer call's frame while the bus holds the inner call's
  state. That is why the run with repeats claims less.
* `StaleFileMarked` and `CrashKeepsState` are about what a restart finds.
* `HeldStartRuns` and `HoldEnds` are the liveness of the guard. A start may be
  dropped when the transmitter is taken away; the hold still ends.
* `NoStartWhileHolding` is what remains of the guarantee with faults: the bus never
  sends a start that it knows to be too early. What it does not know (a missed
  frame, a failed transmission) it cannot guard.
* `RateBounded` bounds every window of time, though the code counts in windows that
  begin with the first start and are not sliding: twice the allowance. A rule that
  somebody tests by hand while it sleeps can add one allowance more.
* `HeldLongEnough` and `SequencesEnd` say that "for" times are never cut short by an
  episode left over from before a sleep or a sequence, and that sequences end. `RuleFires`
  says that a rule that does not count as fired does fire while its conditions stay true,
  or is stopped by the guard. A rule that counts as fired from an episode that is over is
  outside it, and is what `FiresAgain` is about.
* `UpToDate`, `HomeAssistantFollows` and `HomeAssistantSeesDevice` say that with
  retained messages Home Assistant never shows an old state over a live connection,
  and that it always ends up with the truth, whatever was lost. Availability is
  told once per connection and repeated by no heartbeat: without retained messages
  a Home Assistant that subscribes later does not learn of it, so the last property
  assumes retention to stay on.

* `Kept` is an action property over every moment of a save: what the device said it had
  saved is what a start finds. The one thing a cut can do is to come between the removal
  of the old file and the renaming of the new; then the new one, whole, is beside the place
  where it is looked for, and no code looks there. A start on an image of the file system
  (`StartsOnNewFiles`) loses all that was saved, and the formula says so. `src/README.md:151-152`
  warns of it ("Reflashing `littlefs.bin` erases all of it"); `src/docs/08-settings.md:159`
  says of firmware and interface images alike "Your settings survive both", which is not
  what happens.
* `SettingsAgree` has three parts: a saved file passes its own checks (`LoadsWhatWasSaved`),
  settings that a start would not find are marked (`UnsavedIsKnown`), and the masks survive
  a round trip through the page (`PageChangesNothing`). The first half of a refused
  document is in force and unsaved: the first two except it.
* `RestartsOnWholeImage`: an upload that is answered with a restart has put one whole image
  in place, and never the end of it on the beginning of another, though an upload that
  broke off leaves its image begun and one that was turned away still sends its chunks. It
  holds for one uploader; two
  at a time share one `Updater`.
* `ComesBack` is the liveness of the connection: always connected or with a portal again
  (`Reachable`), and a network that is back is joined (`Rejoins`). The first excepts an
  access point that did not start when it was asked for: with no network named nothing
  asks for it again.
* `AdoptedWorks` (what the wizard adopts is what made the unit react), `WizardEnds` and
  `Recalls` hold in any order of captures, answers, skips and timeouts. `Recalls` says that
  a command replays the nearest recording (`NearestReplayed`) and that a button does what
  it was taught (`DoesWhatWasTaught`). Short files are the limit of the first: one is never
  preferred to a recording of the state's own temperature, or to one that is nearer than
  all the short ones, but one that is as near as any other can hide the rest, and then
  nothing is sent. "Lookup degrades gracefully" (`CodeStore.h:13`) holds up to that.
* `NoneTwice` says of every countdown and daily rule that what has rung is not due again,
  with the exceptions the code has: a page that brings a countdown back, a cut between
  ringing and saving, and a list that is replaced or read again within a daily rule's
  minute. `CountdownRings` says that none is left behind.
* `CountersRight` relates the counters, the run in progress and the file to the time the
  unit really was on. In all (`Metered`): what is counted is what happened, and after a cut
  never more. Today (`TodayRight`): what the unit has run since midnight, plus, of a run
  that went on over midnight, exactly what had not been saved by then; "how long the air
  conditioner has run today" (`src/docs/08-settings.md:68`) leaves that out. In the file
  (`RestIsKept`): all but the run in progress and its start, unless the file could not be
  written. A cut inside a save loses everything, and the property allows it.
* `EveryoneFollows` is three refinements of `Follower`, one for each reader of the state
  (`PageFollows`, `HookFollows`, `PlcFollows`): nobody shows a state older than one already
  shown, and nobody shows what never was. `EveryoneTold` says that each has the newest once
  nothing is under way (`PageComplete`, `HookComplete`, `PlcCurrent`), `DeliveryTried` that
  something noted for the webhook is always tried. A delivery that failed is not
  repeated, so the webhook's receiver may stay behind until the next
  change; `missed` is that exception.
* `AllHeard` and `NoneHandledTwice` say that each update is carried out, once.
  `NoneHandledTwice` is up to a restart, which forgets the offset. `AllHeard` leaves
  out updates whose texts make a response too long: that response is asked for again for
  ever, and the bot hears nothing more. It leaves out chats whose id is not within 32 bits,
  supergroups and many newer accounts: nothing they write is heard, although the settings and
  `authorise` take 64 bits. `OneOwner` says that an enrolment shuts the door, however close
  together people write. A page that was read while the door was open, and a cut before
  the enrolment was saved, open it again; the owners are then counted anew.
* `OnceInOrder`, `CommandsLeave` and `KnowsDevices` are what an automation relies on when it
  commands or reads a paired device: what it wishes reaches the device once and in order,
  every command leaves the queue, and what is known of a device comes to be what is so, its
  state (`SeesDevice`) and its silence (`NoticesSilence`). Of a device with a long document
  (the comment at `PeerClient.cpp:21-24` names WLED) only that it is online is ever known.
* `WithinLimits`, `NoDrift` and `FileKeepsState` are about unit changes without end. The file
  keeps the mode of a unit that is on; of one that is off it says "off" only, and the
  property leaves that mode out. The comment at `CommandBus.h:85` promises the last known
  state, which is more than what the file gives back.

### What the violations show

* `StopCancelsHeldStart`. The line commented "an explicit stop cancels any held
  start" (`CommandBus.cpp:225`) is inside a condition on the unit having been on; a
  unit whose start is held is off. The stop is answered "no change" and the unit
  starts when the wait is over.
* `ProtectsCompressor` under `Spec`. The guard's timer is kept in RAM only; after
  any restart a start goes out at once (`README.md:32` says it is held).
* `HandsetObeyed`. While the wizard identifies the remote, the state it hears is sent back
  with the power set (`Learning.cpp:294`): pressing off turns the unit on again, against
  the comment above it ("the AC is left exactly as the user set it", lines 291-292). The
  probe does not go through the bus, so the compressor guard does not see it either.
* `FiresAgain`. A rule in the middle of its sequence is not evaluated, so conditions that go
  false and true again meanwhile leave `firedThisEpisode` set, and the rule does not fire
  for the new episode, however long it lasts. `src/docs/09-troubleshooting.md:122-123` says of a
  rule that has fired "it will fire again next time the conditions go from false to true".
  A sleep has the same effect; the property leaves sleeps out, to show that the sequence
  alone is enough.
* `ElseUndoes`. `firedThisEpisode` is set before the runaway guard is asked, so a
  rule that was stopped by it still runs its else branch later, against the comment
  at `Automations.cpp:230-232`.

### Bounds

| Constant | Value | Why it is enough |
|---|---|---|
| `MinOff` | 2 ticks | too early, just in time and late are three different ages |
| `ClockWrap` | 4 ticks | greater than `MinOff`, so the hold can be left, and wraps within a run |
| `FlushAfter` | 1 or 2 ticks | a change can fall before, at and after the flush |
| `Repeats` | 0 or 1 | one pause is enough to be inside one |
| `Sources` | Web, MQTT, IrRemote, System | one from the web context, one from the loop, the receiver, and the one that is never disabled; the others differ by name only |
| `Deltas`, `Frames` | power, two targets, a beep; off and on | a change, no change, and a change while a start is held |
| `Def` | two rules | with a hold, a wait, a cooldown, an else branch, each triggering the other |
| `MaxFires`, `Window`, `Suppression` | 2, 2, 3 | the guard can trip within a window, across two, and be slept out |
| `Edits` | both rules or one | bound: what `Save` switches on |
| `Heartbeat`, `FirstDelay`, `MaxDelay` | 3, 1, 3 | two doublings reach the limit, not exactly |
| `MaxRevision` | 2 | bound: an old, a current and a newer state; after it commands change nothing |
| `Section`, `Checked`, `Secret` | wifi, auth, ac; auth; wifi and auth | a section before the refused one, the refused one, one after it, a secret that may and one that may not be refused |
| `Posted` | five documents | a section set, cleared, refused, and a whole backup with masks |
| `Uploader` | one | uploads one after the other |
| `MaxClicks` | 2 | bound: a click, a double click, clicks before a hold |
| `Supported`, dialects | two protocols; either or none of them | the first of a sweep, a later one, and a unit that reacts to nothing |
| `Temperature`, `Plans`, `PutKeys` | 20, 21, 22; a plan that is empty and one with "off" and two fan speeds; one key | nearer, equally near and farther codes; plans that are empty, and cut to `MaxTargets` |
| `MaxTorn` | 1 | bound: one short file beside whole ones |
| `MaxBindings`, `MaxTargets` | 1, 2 | two buttons for one place; three targets for two places |
| `DayLength`, `Horizon` | 2, 4 | bound: two minutes to the day and two changes of the day |
| `Rule`, `MaxRules` | 2, 2 | a countdown beside a daily rule, two of each |
| `SaveInterval`, `MaxStarts` | 2, 2 | a save inside a run and across midnight; bound: a run after a run |
| `MaxRev` | 2 | bound: one state shown, one in flight, one noted |
| `FailuresBefore`, `FailuresBeforeOffline` | 2 | one failure, and one that makes the difference |
| `Chat`, `FarChat` | 3, one of them | two who may become the owner, and one who is never heard |
| `MaxUpdates`, `PerPoll`, `MaxQueue` | 2 each | bound on updates: a batch with something after what is handled; a queue that is full |
| `MaxFaults` | 2 | bound: failed requests, posted settings and restarts together |
| `DeviceCount`, `Sleeper`, `Verbose` | 3, the third, the second | a device that answers beside one that does not, one that is never asked, one whose document is too long |
| `MaxPending`, `MaxOrders`, `MaxEvents` | 2 each | a queue that is full of commands, or holds a poll before one; bounds: two commands to put in order, and changes of devices, list and connection |
| `Targets` of `household` | 10-35 C and 50-95 F in tenths | beyond both limits on each side |

Other bounds in the guards: an age that no comparison tells apart any more is kept at
its limit (`dirtyAge`, `offFor`, `age`, the ages of `Automations`), and Home Assistant
has one command under way at a time (`asked`).

The switching covers steps of half a degree, one and two, from 16 to 30 degrees. With a
step that does not divide a limit, rounding after bounding can leave the range (a hazard
of the list); the run's `EvenSteps` names that restriction, and section 4 the whole of it.

### Fairness

The loop turns thousands of times in a tick, so each spec has weak fairness on what
the loop does (`BusLoop`, `Sending`; `Loop`) and on time (`Tick`); a tick happens
only when nothing is due. Nothing a person, a broker, a network or the handset does is
fair. `Automations` and `Mqtt` state liveness under a premise, `<>[][Quiet]_vars` or
`<>[][Calm]_vars`: from some time on nobody edits, tests or breaks anything. In
`Mqtt` the premise includes that attempts to connect stop failing; keep-alives that
run out (`Notice`, `LastWill`) are fair because they are timers of the two ends.

In `Upkeep` the network's step of the loop, the wizard's timeout and a restart that is
due are fair; in `Household` each rule's own step, the webhook's loop with its timers and
the library's answer or timeout, the bot's loop with the library's responses, and the
client's loop with its requests. Each of these is a timer of the device, a step of its
loop, or a callback that the network library makes within its timeout. `WizardEnds` is
conditional on nobody starting the wizard again for ever, the second half of `ComesBack` on the network being
there, `DeliveryTried` on the network, `AllHeard` on reports of changes letting up (they
go before polls) and on no text that is too long. `CommandsLeave` and `KnowsDevices`
have no premise but the one they state; a device that answers does so
before the client's timeout and with a good status, though its document may be cut off.

## 4. What is proved

The proofs are for every value of the constants, from the ASSUMEs of the modules and the
assumptions a theorem states, and nothing else.

### The bus (`CommandBusProofs`)

* **`TypeCorrect`**: `Spec => []TypeOK`, with restarts, repeats, and faults. The
  lemmas say that `Clamp`, `Merge`, `UnitDelta`, `ToJson` and `Restored` return what
  they should; the last is the one that matters, since a boot merges whatever
  fields the file names onto the defaults.
* **`CompressorProtected`**: `SessionSpec => ProtectsCompressor`, the bus implements
  `Compressor`, if `Undisturbed`: no pauses inside a transmission, no failing
  transmission, and a handset that is always heard by a client that is never
  switched off. Session means no restart; `bus_forget` shows it to be needed.
* **`NeverStartsWhileHolding`**: `Spec => NoStartWhileHolding` if `Repeats = 0`, with
  restarts, failing transmissions and writes, missed frames and disabled clients. What
  the bus gets wrong under faults is what it knows, never what it does about it. Type
  correctness and the absence of suspended calls (`Idle`) are invariant enough.
* **`ClientsCurrent`** and **`StaleFileIsMarked`**: `SessionSpec => []CopiesCurrent` and
  `[]StaleFileMarked`, for any number of repeats and the calls nested in their pauses, if
  transmissions do not fail (and, for the second, writes do not).
* **`AllStayInSync`**: `SessionSpec => []InSync` if `Undisturbed`.

`ProtectsCompressor` is not inductive. `GuardInv` adds what the bus must know for its
comparison to mean anything: `state`, the unit and the run agree on power; while the
unit has been off for less than the minimum, `sawOff` is set and `offAge` is exactly
`offFor` (which is where the wrap of the clock must be beyond the minimum: afterwards
`offAge` may wrap, and only hold a start that could go out); and a held start is a
start. `FrameKeepsGuard` is the heart: a frame that is not blocked keeps both the
knowledge and the promise. `GuardStep` has one step per action.

* **`CopiesSurviveRestarts`** and **`CrashesLoseNothing`**: `Spec => []CopiesCurrent` and
  `Spec => CrashKeepsState`, with crashes, planned restarts and power cuts anywhere, also
  inside a call's pauses, and writes that fail.

The theorems on copies rest on `CopyInv`: while a call is suspended, only a call that is going
to save may leave the copies behind, and the state is within its limits under every
configuration. That needs **`SteadyLimits`**: the limits of no configuration change a
state that the limits of another one leave. Without it a command that asks for nothing
new moves a state which the new limits exclude, and is taken for no change: nothing is
sent, saved or told (`CommandBus.cpp:210`). `AllStayInSync` also needs **`FramesWithin`**, the
same of what the handset sends.

Across restarts the copy that is read back must mean what was written. `RestartInv` adds
to `CopyInv` that the state, a held start and the copy in RTC memory are in one unit and
within the limits, so that `begin()`, which takes the unit from the settings and does not
convert the degrees (`CommandBus.cpp:61`), reads the copy unchanged. That needs
**`OneUnit`**: settings, handset and clients all speak the same unit. It is the code's
requirement, not the proof's: with a client in the other unit a restart comes back at
another temperature (a hazard of the list). `RestoreOnBoot` is the setting that the
promise is about. All four assumptions hold in `bus_restarts`.

### Units (lemmas in `UnitSwitchProofs`, theorems in `HouseholdProofs`)

**`TargetsStayWithin`** (`[]WithinLimits`) and **`SwitchesDoNotAddUp`** (`[]NoDrift`) hold for
every target, and every step and range with **`EvenLimits`**: limits that are multiples of
the step, and that round inwards to whole degrees Fahrenheit. The second half is a finding
of the proof: a minimum of 18 degrees is 64.4 F, which `clamp` rounds to 64 F, 17.8
degrees. **`FileKeeps`** (`[]FileKeepsState`) needs no assumption;
`RestoredIs` says exactly what is read back, the mode of a stopped unit being the default one.

That errors do not add up is not an induction on a bound: each switch may add one. The
invariant `SwitchInv` says that only two targets are ever reached in each unit, the first
one and what it becomes after a switch there and back. From then on one of the two
directions is exact: Fahrenheit to Celsius and back for a step below one degree
Fahrenheit (`FineRoundTrip`), Celsius to Fahrenheit and back for the others
(`CoarseRoundTrip`).

### Automations (`AutomationsProofs`)

For any number of rules, any conditions, steps, times and edits:

* **`AutomationsTypeCorrect`**: `Spec => []TypeOK`. The part that is not a type is that a
  running sequence is at a wait of the branch it runs. `StopsThere` says that `Stop`
  finds one, `AdvanceDoes`, `StartDoes` and `EvaluateDoes` what the three layers of the
  code leave of a rule.
* **`NoRuleLoops`**: `Spec => []RateBounded`. The code counts starts in windows that begin
  with a start, and the property is about every window. `Paced` relates count, window,
  sleep and the ages of the latest starts: the window in progress has counted every start
  made in it and the one before at most an allowance (`WindowsCount`), and a sleep
  outlasts the window it began in, so that the count may be cleared at its end without
  forgetting a start (`SleepsOutlast`, which is where `Suppression > Window` matters). A
  test starts a rule that sleeps in windows of its own, hence the third allowance.
  Saying how old the n-th latest start is, instead of counting those within a
  window, is what makes this provable without sums.
* **`HoldsAreKept`**: `Spec => HeldLongEnough`. `Episode` says of a rule nobody tests: an
  episode that has not fired is one in which the rule never slept, ran or was off, and its
  age is at most the time its conditions were found true, or a second more between
  a tick and the rule's turn in the pass (`Behind`).

### MQTT (`MqttProofs`)

**`MqttTypeCorrect`** and **`NothingOldOnShow`**: `Spec => []TypeOK` and `[]UpToDate`. What is
on show is not inductive: `MqttInv` adds that over a working connection with retention
what the broker retains is the current state (`RetainedCurrent`), and that a command is
on its way only over a working link, so that no wish is left behind by a lost one.

### Upkeep (`UpkeepProofs`)

All about `Upkeep`'s `Spec`, for any sections, documents, protocols, keys and buttons. The
five modules' variables are disjoint, and a lemma for each (`SettingsSteps`,
`TeachingSteps`, ...) says which of its actions a step of `Upkeep` can be.

* **`SettingsStayTrue`** (`[]SettingsAgree`). `SettingsInv` adds that, while no document was
  refused, neither what is in force nor the file holds a section its check would refuse
  (`Clean`).
* **`SavesAreKept`** (`Kept`): an action property, by cases on where a save was cut and on
  what a start finds; a start on a file-system image is the formula's exception, and no
  history variable is reset for it.
* **`RestartsAreWhole`** (`RestartsOnWholeImage`), for one upload at a time (`OneUpload`).
  `OwnImage`: an upload that was let in and that nothing is known to be wrong with is the
  one the image was begun for. With two at once it is not, as they share one `Updater`.
* **`RecallsWhatWasTaught`** (`[]Recalls`). `TaughtInv` says that no button is bound twice
  and that each binding is the last one taught. That a nearest key exists is `LeastNumber`; that a finite set of keys can be put in order (`CanBeSorted`) is by the
  least size for which it could not. Both use the well-foundedness of numbers in place
  of an induction that the provers cannot instantiate.
* **`AdoptsWhatWorks`** (`AdoptedWorks`). `WizardInv`: if the unit reacted, it was to the
  protocol that an answer would adopt, and what is being asked about exists.
* **`UpkeepTypeCorrect`** (`[]TypeOK`).

### The household

`HouseholdProofs` is about `Household`'s `Spec`. `ClockProofs` and `ServicesProofs` prove
each module's types and invariant inductive under the steps of its own module;
`StepOfEach` says that a step of the household is a step of each or leaves it alone, and
`HouseInv` is the conjunction. The one thing the modules share is the clock, which the
schedules and the counters both move: `ScheduleKept` and `MeterKept` are that.

* `HouseholdTypeCorrect` (`[]TypeOK`).
* `FileIsCurrent` (`[]FileHasSchedule`: a start finds the list in force) and
  `NothingRingsTwice` (`[]NoneTwice`). `ScheduleInv` adds that no countdown still to
  ring is spent, that what is spent is of no later day than today, and that a daily rule
  spent today carries today's mark (`TimersUnspent`, `StrikesMarked`).
* `CountersAddUp` (`[]CountersRight`). `MeterInv` adds that the written file never exceeds
  the time on, in all and today (`FileIsTrue`), that a run in progress is one of a unit that
  is on (`RunsAreSeen`), and that without a cut a new day is noticed before a minute of it
  is over (`DaysAreSeen`).
* `AllImplement` (`EveryoneFollows`: the page, the webhook's server and the registers
  implement `Follower`, one lemma for each) and `NobodyIsBehind` (`[]EveryoneTold`).
  `WatchersInv` orders what the server was told, what is in flight and what is noted
  (`HookInOrder`) and says where the newest is (`HookHasNewest`).
* `UpdatesNotForgotten` (`[]NoneForgotten`: what is behind the offset was handled),
  `OwnedByOne` (`[]OneOwner`), `UpdatesHandledOnce` (`NoneHandledTwice`). `BotInv` says that
  a batch is in order and begins at or after the offset, that all before the batch and
  before the offset has been handled, and that while the door is open nobody has come
  through it (`BatchInOrder`, `OffsetIsNext`, `DoorKept`).
* `CommandsOnceInOrder` (`OnceInOrder`). `PeerInv` says that commands in the queue are in
  order, behind the one in flight, and all of them after the last that reached a device
  (`QueueInOrder`, `FlightFirst`).

## 5. What is only model-checked

* Liveness: `HeldStartRuns`, `HoldEnds`, `RuleFires`, `SequencesEnd`, `HomeAssistantFollows`,
  `HomeAssistantSeesDevice`, `ComesBack`, `WizardEnds`, `CountdownRings`, `DeliveryTried`,
  `AllHeard`, `CommandsLeave`, `KnowsDevices`. Fairness is beyond the prover.
* That the properties fail where an assumption of a theorem does not hold: restarts for
  the compressor (`bus_forget`), the off request (`bus_cancel`), the stopped rule
  (`automations_else`), the new episode (`automations_again`), the probe (`handset_probe`).

Every invariant and action property of the passing runs is a theorem. The constants'
assumptions that the proofs use are the named `ASSUME`s of the modules, which TLC
evaluates in every run; those only some behaviours need (`SteadyLimits`, `OneUnit`,
`EvenLimits`, `OneUpload`, no failed sends) are hypotheses of the theorems.

## 6. Plan

Done: the bus, automations, MQTT, storage and firmware, learning and network, the household
and its followers, and the proofs of section 4. What would come next:

1. `ProtectsCompressor` with repeats: which part of it survives calls nested in pauses.
2. Two uploads at a time in `Ota`, with what the library's `Updater` makes of chunks from both.
3. Refinement of `Mqtt` to a specification like `Follower`, for the broker's retained state.

## 7. What is not modelled, and why

* Infrared protocols and timings, the text of payloads, pages, discovery messages and
  menus, TLS, HTTP routing: no property is about them.
* What a nested call does to a list that the loop is iterating over (`Automations`,
  hazard list): undefined, with no set of outcomes to choose from. The model lets the
  list be saved only between passes; likewise the settings of the bot are posted only
  between batches.
* Wrap-around of `millis()` is modelled in the bus (`ClockWrap`) and nowhere else: ages
  are counted, or timers left to elapse.
* A restart of the device while MQTT is connected: to the broker it is a lost
  connection, and the revision begins again from 0, which the numbering of `Mqtt`
  cannot show. For the same reason `Watchers` has no restart.
* Scenes and the UART have no state between calls but a list and a line: to the bus their
  commands are deltas of one more source. `Scheduler::addTimer` and `Wizard::retry` are called
  from nowhere.
* Files of the scheduler are taken to open; those of the statistics, the bus and the
  settings may not. Of the file of a recorded code only whether it is whole is kept; the
  file of the bindings is the list in memory.
* Updates fetched from an address and those of the development tool, searches for other
  devices, scans for networks, the stream of log lines: calls of libraries whose outcome
  changes no state a property is about.
* The section of the settings for the compatibility endpoints, which `applyDefaults` leaves as
  it is, and the readers of older files.
* The web page and the build scripts.
