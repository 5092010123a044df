------------------------------- MODULE Upkeep -------------------------------
(***************************************************************************)
(* The settings, the network, the firmware, the button and the wizard of   *)
(* one device together: the handlers of net/ApiRoutes.cpp and the button's gestures   *)
(* that reach more than one of them, the loop of main.cpp that turns them  *)
(* over, and the starts that put them all back.                            *)
(***************************************************************************)
EXTENDS Settings, Wifi, Ota, Button, Teaching

\* The section of the network is there, and not one that a check refuses.
ASSUME NetworkAssumption == "wifi" \in Section /\ "wifi" \notin Checked

VARIABLE session    \* what is being done to the device, see Next

vars == <<settings, radio, update, button, teaching, session>>

Named == ram["wifi"] # "default"
Usable == ram["wifi"] = "set"

TypeOK == SettingsOK /\ WifiOK /\ OtaOK /\ ButtonOK /\ TeachingOK

Init ==
  /\ ram = Defaults /\ promised = Defaults
  /\ live = Missing /\ tmp = Missing
  /\ dirty = FALSE /\ mounted = TRUE /\ refused = "never"
  /\ wifi = "portal" /\ portal = TRUE /\ aired = TRUE /\ router = TRUE
  /\ sending = [u \in Uploader |-> FALSE] /\ authorised = [u \in Uploader |-> FALSE]
  /\ writing = FALSE /\ failed = FALSE /\ restarting = FALSE
  /\ opened = "nothing" /\ owner = Nobody /\ staged = NoImage
  /\ press = "up" /\ clicks = 0
  /\ TeachingInit
  /\ session \in {"configuring", "roaming", "updating", "teaching"}
  /\ session # "teaching" => ~unit /\ dialect = NoProtocol

----------------------------------------------------------------------------
(* The pages and the button.                                               *)

\* handleConfigSet.
PostConfig(doc) == ConfigSet(doc) /\ UNCHANGED <<radio, update, button, teaching>>

\* handleWifiConnect and connectTo: saved at once, and tried at once.
ConnectTo(v) ==
  /\ ram' = [ram EXCEPT !["wifi"] = v]
  /\ IF mounted THEN Save(ram')
                ELSE dirty' = TRUE /\ UNCHANGED <<live, tmp, promised, refused>>
  /\ BeginConnect
  /\ UNCHANGED <<mounted, router, update, button, teaching>>

\* The wizard adopts a protocol.
Adopt(v) == Touch("ac", v) /\ UNCHANGED <<radio, update, button, teaching>>

\* handleFactoryReset and handleRestart.
Erase == FactoryReset /\ ForgetTaught(mounted) /\ ScheduleRestart
PostReset == Erase /\ UNCHANGED <<radio, button>>
PostRestart == ScheduleRestart /\ UNCHANGED <<settings, radio, button, teaching>>

\* onHold: the setup portal after three seconds, a reset after ten.
Pressing ==
  (PressDown \/ Release) /\ UNCHANGED <<settings, radio, update, teaching>>

\* onClick toggles the power, which is the command bus's; onDoubleClick starts
\* the wizard.
Clicked ==
  /\ ResolveClicks
  /\ IF clicks = 1 THEN UNCHANGED teaching ELSE StartIdentify
  /\ UNCHANGED <<settings, radio, update>>

HoldForPortal ==
  /\ HeldThree
  /\ \/ StartPortal(wifi)
     \/ UNCHANGED <<wifi, portal, aired>>    \* the loop was away
  /\ UNCHANGED <<settings, router, update, teaching>>

HoldForReset == HeldTen /\ Erase /\ UNCHANGED radio

\* An upload begins; for an image of the file system, that is unmounted first.
Upload(u, part, fits) ==
  /\ FirstChunk(u, part, fits)
  /\ mounted' = (mounted /\ part # "files")
  /\ UNCHANGED <<ram, live, tmp, dirty, promised, refused, radio, button, teaching>>

TurnUploadAway(u) == FirstRefused(u) /\ UNCHANGED <<settings, radio, button, teaching>>
FinishUpload(u, ok) == LastChunk(u, ok) /\ UNCHANGED <<settings, radio, button, teaching>>
BreakUpload(u) == Broken(u) /\ UNCHANGED <<settings, radio, button, teaching>>

----------------------------------------------------------------------------
(* The loop.                                                               *)

FlushSettings == SaveDirty /\ UNCHANGED <<radio, update, button, teaching>>

WifiLoop ==
  /\ \/ Join(Usable) \/ JoinTimeout(Usable) \/ LinkLost \/ ClosePortal
     \/ Retry(Named)
  /\ UNCHANGED <<settings, update, button, teaching>>

WizardLoop == Timeout /\ UNCHANGED <<settings, radio, update, button>>

Outside == RouterChanges /\ UNCHANGED <<settings, update, button, teaching>>

----------------------------------------------------------------------------
(* Starts.                                                                 *)

\* setup(), on the file that is found.
SetUp(file) ==
  /\ BootSettings(file)
  /\ BootWifi(ram'["wifi"] # "default")
  /\ BootOta /\ BootButton /\ BootWizard
  /\ UNCHANGED router

\* An image of the file system takes the place of every file; one that was
\* broken off may have, depending on how far it came.  A damaged program does
\* not get here.
FilesReplaced == staged["files"] # "none"

Boot ==
  /\ staged["program"] # "torn"
  /\ \/ FilesReplaced /\ live' = Missing /\ tmp' = Missing /\ LoseTaught
     \/ staged["files"] # "whole" /\ UNCHANGED <<live, tmp>> /\ KeepTaught
  /\ UNCHANGED promised
  /\ SetUp(live')

Restart == restarting /\ Boot
PowerCut == Boot

\* What a step may be in the middle of saving.
BeingSaved ==
  (IF dirty THEN {ram} ELSE {})
  \cup {Merge(ram, doc) : doc \in {d \in Posted : Accepted(ram, d)}}
  \cup {[ram EXCEPT !["wifi"] = v] : v \in {"set", "bad"}}

PowerCutSaving ==
  /\ mounted /\ staged = NoImage
  /\ \E c \in BeingSaved : CutSaving(c)
  /\ KeepTaught
  /\ SetUp(live')

----------------------------------------------------------------------------
(* Four kinds of visit to the device, which exercise different parts of   *)
(* it and are explored one at a time.                                      *)

\* Somebody changes settings, while the power comes and goes and an image of
\* the file system may be refused.
Configuring ==
  \/ \E doc \in Posted : PostConfig(doc)
  \/ Adopt("set")
  \/ \E v \in {"set", "bad"} : ConnectTo(v)
  \/ PostReset
  \/ \E u \in Uploader : Upload(u, "files", FALSE)
  \/ FlushSettings
  \/ Restart \/ PowerCut \/ PowerCutSaving

\* Somebody moves the device, or the network goes.
Roaming ==
  \/ \E v \in {"set", "bad"} : ConnectTo(v)
  \/ Pressing \/ Clicked \/ HoldForPortal \/ HoldForReset
  \/ WifiLoop \/ WizardLoop \/ Outside
  \/ Restart

\* Somebody sends new firmware to a device that was set up.
Updating ==
  \/ \E u \in Uploader, part \in Part, fits \in BOOLEAN : Upload(u, part, fits)
  \/ \E u \in Uploader : TurnUploadAway(u)
  \/ \E u \in Uploader, ok \in BOOLEAN : FinishUpload(u, ok)
  \/ \E u \in Uploader : BreakUpload(u)
  \/ PostRestart
  \/ Adopt("set") \/ FlushSettings
  \/ Restart \/ PowerCut

\* Somebody teaches the device; what the wizard changes in the settings is
\* Adopt above.
Learning == TeachingNext /\ UNCHANGED <<settings, radio, update, button>>

Next ==
  /\ \/ session = "configuring" /\ Configuring
     \/ session = "roaming" /\ Roaming
     \/ session = "updating" /\ Updating
     \/ session = "teaching" /\ Learning
  /\ UNCHANGED session

\* The loop runs for ever: the network's timers and the wizard's elapse, and a
\* restart that was scheduled is made.
Spec ==
  /\ Init /\ [][Next]_vars
  /\ WF_vars(WizardLoop /\ session \in {"roaming", "teaching"} /\ UNCHANGED session)
  /\ WF_vars(WifiLoop /\ session = "roaming" /\ UNCHANGED session)
  /\ WF_vars(Restart /\ session = "roaming" /\ UNCHANGED session)

----------------------------------------------------------------------------
(* Properties.                                                             *)

\* A document that turned the checks off its own fields was not promised.
Holds ==
  (\A s \in Checked : promised[s] # "bad") => Loaded(live) = promised

\* A start on an image of the file system, whole or broken off.
StartsOnNewFiles == FilesReplaced /\ staged' = NoImage

\* What the device said it had saved is what the next start finds, whatever
\* cuts the power in the middle of whatever save; all a cut can do is to leave
\* the whole of it beside the place where it is looked for (Settings::save,
\* whose comment promises the file is never half written).  A start on an image
\* of the file system finds nothing at all: README.md says so of littlefs.bin,
\* and docs/08-settings.md, that settings survive it, is not what happens.
Kept ==
  [][Holds => \/ Holds'
              \/ live' = Missing /\ tmp' = promised'
              \/ StartsOnNewFiles]_vars

\* While no document was refused, the file in place is one that loads in full:
\* its own checks never stop half-way through what save wrote
\* (Settings::toJson and fromJson agree).
LoadsWhatWasSaved ==
  live \notin {Missing, Partial} /\ refused = "never" => Loaded(live) = live

\* With a file system, settings in force that the next start would not find
\* are known to be unsaved, except for the first half of a refused document.
UnsavedIsKnown ==
  mounted /\ refused # "pending" => dirty \/ ram = live \/ ram = Loaded(live)

\* The page, posted back as it was shown, changes nothing: the masks it holds in
\* the place of passwords leave them alone (toJson, readSecret).
PageChangesNothing == Merge(ram, Shown(ram)) = ram

\* The settings in force, the file and the page agree, or are known not to.
SettingsAgree == LoadsWhatWasSaved /\ UnsavedIsKnown /\ PageChangesNothing

\* An upload that is answered with a restart has put one whole image in place,
\* and not the end of it on another one's beginning, while one upload is made
\* at a time (OtaService's handler).
RestartsOnWholeImage ==
  [][\A u \in Uploader :
       sending[u] /\ ~sending'[u] /\ ~restarting /\ restarting'
         => opened # "nothing" /\ staged'[opened] = "whole"]_vars

\* Wherever the device is moved and whatever is typed or held, it keeps coming
\* back to being connected or showing its portal (WifiService::loop), but for
\* an access point that does not start when it is asked for.
Reachable == []<>(session = "roaming" /\ aired => wifi = "connected" \/ portal)

\* A network that is back for good is joined again, and again after every
\* attempt the user makes the device give up.
Rejoins ==
  <>[](router /\ Usable /\ session = "roaming") => []<>(wifi = "connected")

\* The device comes back: to its network if it can, and else to its portal.
ComesBack == Reachable /\ Rejoins

\* A wizard that nobody starts any more ends, whatever it was waiting for: the
\* answers and presses that give it five minutes more are finitely many
\* (Wizard::loop, enter).
WizardEnds == []<><<LearnStart>>_vars \/ []<>~Active
=============================================================================
