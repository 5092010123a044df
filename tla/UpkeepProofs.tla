---------------------------- MODULE UpkeepProofs ----------------------------
(***************************************************************************)
(* Proofs about Upkeep: settings, firmware, recorded codes, bound buttons  *)
(* and the wizard keep what they promise, for any sections, documents,     *)
(* protocols, temperatures, buttons and plans.                             *)
(***************************************************************************)
EXTENDS Upkeep, WellFoundedInduction, FiniteSetTheorems, SequenceTheorems, TLAPS

----------------------------------------------------------------------------
(* The settings.                                                           *)

\* No check would refuse it.
Clean(c) == \A s \in Checked : c[s] # "bad"

IsDocument(doc) == \A s \in DOMAIN doc : doc[s] \in Value \cup {"hidden"}

LEMMA PostedDocuments == \A doc \in Posted : IsDocument(doc)
<1> SUFFICES ASSUME NEW doc \in Posted PROVE IsDocument(doc)
  OBVIOUS
<1>1. PICK S \in SUBSET Section : doc \in [S -> {"default", "set", "bad", "hidden"}]
  BY SectionAssumption DEF SectionAssumption
<1> QED BY <1>1 DEF IsDocument, Value

LEMMA DefaultsType == Defaults \in Config /\ Clean(Defaults)
BY SectionAssumption DEF SectionAssumption, Defaults, Config, Value, Clean

LEMMA NoFile == Missing \notin Config /\ Partial \notin Config
BY SectionAssumption DEF SectionAssumption, Config, Value

\* Merging a document leaves a configuration; an accepted one, a clean one.
LEMMA MergeType ==
  ASSUME NEW c \in Config, NEW doc, IsDocument(doc)
  PROVE  /\ Merge(c, doc) \in Config
         /\ Clean(c) /\ Accepted(c, doc) => Clean(Merge(c, doc))
<1>1. ASSUME NEW s \in Section, s \in DOMAIN doc
      PROVE  Read(c[s], doc[s]) \in Value
  BY <1>1 DEF IsDocument, Read, Value, Config
<1>2. Merge(c, doc) \in Config
  BY <1>1 DEF Merge, Config
<1>3. ASSUME Clean(c), Accepted(c, doc), NEW s \in Checked
      PROVE  Merge(c, doc)[s] # "bad"
  <2>1. s \in Section
    BY SectionAssumption DEF SectionAssumption
  <2>2. s \in DOMAIN doc => Read(c[s], doc[s]) # "bad"
    BY <1>3 DEF Accepted, Stops
  <2>3. c[s] # "bad"
    BY <1>3 DEF Clean
  <2> QED BY <2>1, <2>2, <2>3 DEF Merge
<1> QED BY <1>2, <1>3 DEF Clean

LEMMA LoadedType == \A file : Loaded(file) \in Config
<1> SUFFICES ASSUME NEW file PROVE Loaded(file) \in Config
  OBVIOUS
<1>1. CASE file \in Config
  <2>1. IsDocument(file)
    BY <1>1 DEF IsDocument, Config, Value
  <2> QED BY <1>1, <2>1, MergeType, DefaultsType DEF Loaded
<1>2. CASE file \notin Config
  BY <1>2, DefaultsType DEF Loaded
<1> QED BY <1>1, <1>2

\* A clean file loads in full.
LEMMA CleanLoads ==
  ASSUME NEW c \in Config, Clean(c)
  PROVE  Loaded(c) = c
<1>1. \A s \in Section : Read(Defaults[s], c[s]) = c[s]
  BY DEF Read, Config, Value
<1>2. Stops(Defaults, c) = {}
  BY <1>1, SectionAssumption DEF Stops, Clean, SectionAssumption
<1>3. DOMAIN c = Section /\ c = [s \in Section |-> c[s]]
  BY DEF Config
<1>4. Merge(Defaults, c) = [s \in Section |-> c[s]]
  BY <1>1, <1>2, <1>3 DEF Merge
<1> QED BY <1>3, <1>4 DEF Loaded

\* The masks say what they hide.
LEMMA MasksHide ==
  ASSUME NEW c \in Config
  PROVE  Merge(c, Shown(c)) = c
<1>1. \A s \in Section : Read(c[s], Shown(c)[s]) = c[s]
  BY DEF Read, Shown, Config, Value
<1>2. c = [s \in Section |-> c[s]]
  BY DEF Config
<1>3. Merge(c, Shown(c)) = [s \in Section |-> c[s]]
  BY <1>1 DEF Merge
<1> QED BY <1>2, <1>3

\* What each step of the device may do to the settings.
Joins(v) ==
  /\ ram' = [ram EXCEPT !["wifi"] = v]
  /\ IF mounted THEN Save(ram')
                ELSE dirty' = TRUE /\ UNCHANGED <<live, tmp, promised, refused>>
  /\ UNCHANGED mounted

Unmounts ==
  mounted' \in {mounted, FALSE} /\ UNCHANGED <<ram, live, tmp, dirty, promised, refused>>

Replaced == live' = Missing /\ tmp' = Missing /\ promised' = promised /\ StartsOnNewFiles

Starts ==
  /\ \/ UNCHANGED <<live, tmp, promised>>
     \/ Replaced
     \/ \E c \in BeingSaved : CutSaving(c)
  /\ BootSettings(live')

SettingsStep ==
  \/ \E doc \in Posted : ConfigSet(doc)
  \/ Touch("ac", "set")
  \/ \E v \in {"set", "bad"} : Joins(v)
  \/ FactoryReset
  \/ Unmounts
  \/ SaveDirty
  \/ Starts
  \/ UNCHANGED settings

LEMMA SettingsSteps == [Next]_vars => SettingsStep
<1> SUFFICES ASSUME [Next]_vars PROVE SettingsStep
  OBVIOUS
<1> USE DEF SettingsStep
<1>1. ASSUME Boot PROVE SettingsStep
  <2>1. BootSettings(live')
    BY <1>1 DEF Boot, SetUp
  <2>2. UNCHANGED <<live, tmp, promised>> \/ Replaced
    BY <1>1 DEF Boot, SetUp, BootOta, Replaced, StartsOnNewFiles
  <2> QED BY <2>1, <2>2 DEF Starts
<1>2. ASSUME PowerCutSaving PROVE SettingsStep
  BY <1>2 DEF PowerCutSaving, SetUp, Starts
<1>3. ASSUME Erase PROVE SettingsStep
  BY <1>3 DEF Erase
<1>4. ASSUME NEW u \in Uploader, NEW part, NEW fits, Upload(u, part, fits)
      PROVE  SettingsStep
  <2>1. mounted' = (mounted /\ part # "files")
    BY <1>4 DEF Upload
  <2>2. mounted' = mounted \/ mounted' = FALSE
    <3>1. CASE part = "files"
      BY <2>1, <3>1
    <3>2. CASE part # "files" /\ mounted = TRUE
      BY <2>1, <3>2
    <3>3. CASE part # "files" /\ mounted # TRUE
      BY <2>1, <3>3
    <3> QED BY <3>1, <3>2, <3>3
  <2> QED BY <1>4, <2>2 DEF Upload, Unmounts
<1>5. CASE Configuring
  <2>1. CASE \E v \in {"set", "bad"} : ConnectTo(v)
    BY <2>1 DEF ConnectTo, Joins
  <2> QED BY <1>1, <1>2, <1>3, <1>4, <1>5, <2>1
          DEF Configuring, PostConfig, Adopt, PostReset, FlushSettings, Restart, PowerCut
<1>6. CASE Roaming
  <2>1. CASE \E v \in {"set", "bad"} : ConnectTo(v)
    BY <2>1 DEF ConnectTo, Joins
  <2> QED BY <1>1, <1>3, <1>6, <2>1
          DEF Roaming, Pressing, Clicked, HoldForPortal, HoldForReset, WifiLoop,
              WizardLoop, Outside, Restart
<1>7. CASE Updating
  BY <1>1, <1>4, <1>7
     DEF Updating, TurnUploadAway, FinishUpload, BreakUpload, PostRestart, Adopt,
         FlushSettings, Restart, PowerCut
<1>8. CASE Learning
  BY <1>8 DEF Learning
<1>9. CASE UNCHANGED vars
  BY <1>9 DEF vars
<1> QED BY <1>5, <1>6, <1>7, <1>8, <1>9 DEF Next

\* The inductive invariant: while no document was refused, what is in force and
\* what is in the file would pass the checks.
SettingsInv ==
  /\ SettingsOK /\ UnsavedIsKnown
  /\ refused = "never" => Clean(ram) /\ (live \in Config => Clean(live))

LEMMA SettingsInvInit == Init => SettingsInv
<1> SUFFICES ASSUME Init PROVE SettingsInv
  OBVIOUS
<1>1. /\ ram = Defaults /\ promised = Defaults /\ live = Missing /\ tmp = Missing
      /\ dirty = FALSE /\ mounted = TRUE /\ refused = "never"
  BY DEF Init
<1>2. Loaded(live) = ram
  BY <1>1, NoFile DEF Loaded
<1> QED BY <1>1, <1>2, DefaultsType, NoFile DEF SettingsInv, SettingsOK, UnsavedIsKnown

\* A save of what is in force.
LEMMA SaveKeeps ==
  ASSUME SettingsInv, ram' \in Config, mounted, Save(ram'), mounted' = mounted,
         refused = "never" => Clean(ram')
  PROVE  SettingsInv'
<1>1. /\ live' = ram' /\ tmp' = Missing /\ dirty' = FALSE /\ promised' = ram'
      /\ refused' = Settled
  BY DEF Save
<1>2. refused' \in {"never", "before"} /\ (refused' = "never" => refused = "never")
  BY <1>1 DEF Settled, SettingsInv, SettingsOK
<1>3. SettingsOK'
  BY <1>1, <1>2 DEF SettingsInv, SettingsOK
<1>4. UnsavedIsKnown'
  BY <1>1 DEF UnsavedIsKnown
<1> QED BY <1>1, <1>2, <1>3, <1>4 DEF SettingsInv

\* A change of the settings that is marked, or that no file system could take.
LEMMA ChangeKeeps ==
  ASSUME SettingsInv, ram' \in Config, dirty' \in BOOLEAN, dirty' \/ ~mounted,
         UNCHANGED <<live, tmp, mounted, promised, refused>>,
         refused = "never" => Clean(ram')
  PROVE  SettingsInv'
<1>1. SettingsOK'
  BY DEF SettingsInv, SettingsOK
<1>2. UnsavedIsKnown'
  <2>1. CASE dirty'
    BY <2>1 DEF UnsavedIsKnown
  <2>2. CASE ~mounted
    <3>1. ~mounted'
      BY <2>2, Zenon
    <3> QED BY <3>1 DEF UnsavedIsKnown
  <2> QED BY <2>1, <2>2
<1> QED BY <1>1, <1>2 DEF SettingsInv

\* What a step may be saving passes the checks, as far as those before did.
LEMMA BeingSavedType ==
  ASSUME SettingsInv, NEW c \in BeingSaved
  PROVE  c \in Config /\ (refused = "never" => Clean(c))
<1>1. CASE dirty /\ c = ram
  BY <1>1 DEF SettingsInv, SettingsOK
<1>2. ASSUME NEW doc \in Posted, Accepted(ram, doc), c = Merge(ram, doc)
      PROVE  c \in Config /\ (refused = "never" => Clean(c))
  BY <1>2, MergeType, PostedDocuments DEF SettingsInv, SettingsOK
<1>3. ASSUME NEW v \in {"set", "bad"}, c = [ram EXCEPT !["wifi"] = v]
      PROVE  c \in Config /\ (refused = "never" => Clean(c))
  <2>1. c \in Config
    BY <1>3 DEF SettingsInv, SettingsOK, Config, Value
  <2>2. \A s \in Checked : c[s] = ram[s]
    BY <1>3, NetworkAssumption, SectionAssumption
       DEF NetworkAssumption, SectionAssumption, SettingsInv, SettingsOK, Config
  <2> QED BY <2>1, <2>2 DEF SettingsInv, Clean
<1> QED BY <1>1, <1>2, <1>3 DEF BeingSaved

LEMMA SettingsInvStep == SettingsInv /\ [Next]_vars => SettingsInv'
<1> SUFFICES ASSUME SettingsInv, [Next]_vars PROVE SettingsInv'
  OBVIOUS
<1>1. ASSUME NEW doc \in Posted, ConfigSet(doc) PROVE SettingsInv'
  <2>1. ram' = Merge(ram, doc) /\ mounted' = mounted
    BY <1>1 DEF ConfigSet
  <2>2. ram' \in Config /\ (Accepted(ram, doc) /\ Clean(ram) => Clean(ram'))
    BY <2>1, MergeType, PostedDocuments DEF SettingsInv, SettingsOK
  <2>3. CASE Accepted(ram, doc) /\ mounted
    BY <1>1, <2>1, <2>2, <2>3, SaveKeeps DEF ConfigSet, SettingsInv
  <2>4. CASE Accepted(ram, doc) /\ ~mounted
    <3>1. UNCHANGED <<live, tmp, dirty, promised, refused>>
      BY <1>1, <2>4 DEF ConfigSet, Save
    <3> QED BY <2>1, <2>2, <2>4, <3>1, ChangeKeeps DEF SettingsInv, SettingsOK
  <2>5. CASE ~Accepted(ram, doc)
    <3>1. refused' = "pending" /\ UNCHANGED <<live, tmp, dirty, promised>>
      BY <1>1, <2>5 DEF ConfigSet
    <3> QED BY <2>1, <2>2, <3>1 DEF SettingsInv, SettingsOK, UnsavedIsKnown
  <2> QED BY <2>3, <2>4, <2>5
<1>2. ASSUME Touch("ac", "set") PROVE SettingsInv'
  <2>1. /\ ram' = [ram EXCEPT !["ac"] = "set"] /\ dirty' = TRUE
        /\ UNCHANGED <<live, tmp, mounted, promised, refused>>
    BY <1>2 DEF Touch
  <2>2. ram' \in Config /\ (Clean(ram) => Clean(ram'))
    BY <2>1, SectionAssumption
       DEF SettingsInv, SettingsOK, Config, Value, Clean, SectionAssumption
  <2> QED BY <2>1, <2>2, ChangeKeeps DEF SettingsInv
<1>3. ASSUME NEW v \in {"set", "bad"}, Joins(v) PROVE SettingsInv'
  <2>1. ram' = [ram EXCEPT !["wifi"] = v] /\ mounted' = mounted
    BY <1>3 DEF Joins
  <2>2. ram' \in BeingSaved
    BY <2>1 DEF BeingSaved
  <2>3. ram' \in Config /\ (refused = "never" => Clean(ram'))
    BY <2>2, BeingSavedType
  <2>4. CASE mounted
    BY <1>3, <2>1, <2>3, <2>4, SaveKeeps DEF Joins
  <2>5. CASE ~mounted
    <3>1. dirty' = TRUE /\ UNCHANGED <<live, tmp, promised, refused>>
      BY <1>3, <2>5 DEF Joins
    <3> QED BY <2>1, <2>3, <2>5, <3>1, ChangeKeeps
  <2> QED BY <2>4, <2>5
<1>4. ASSUME FactoryReset PROVE SettingsInv'
  <2>1. /\ ram' = Defaults /\ dirty' = FALSE /\ refused' = Settled
        /\ tmp' = tmp /\ mounted' = mounted
        /\ IF mounted THEN live' = Missing /\ promised' = Defaults
                      ELSE live' = live /\ promised' = promised
    BY <1>4 DEF FactoryReset
  <2>2. refused' \in {"never", "before"} /\ (refused' = "never" => refused = "never")
    BY <2>1 DEF Settled, SettingsInv, SettingsOK
  <2>3. SettingsOK'
    BY <2>1, <2>2, DefaultsType DEF SettingsInv, SettingsOK
  <2>4. UnsavedIsKnown'
    <3>1. mounted => ram' = Loaded(live')
      BY <2>1, NoFile DEF Loaded
    <3> QED BY <2>1, <3>1 DEF UnsavedIsKnown
  <2>5. live' = live \/ live' = Missing
    BY <2>1
  <2> QED BY <2>1, <2>2, <2>3, <2>4, <2>5, DefaultsType, NoFile DEF SettingsInv
<1>5. ASSUME Unmounts PROVE SettingsInv'
  <2>1. mounted' = mounted \/ mounted' = FALSE
    BY <1>5 DEF Unmounts
  <2>2. UNCHANGED <<ram, live, tmp, dirty, promised, refused>>
    BY <1>5 DEF Unmounts
  <2>3. CASE mounted' = mounted
    BY <2>2, <2>3 DEF SettingsInv, SettingsOK, UnsavedIsKnown
  <2>4. CASE mounted' = FALSE
    <3>1. UnsavedIsKnown'
      BY <2>4 DEF UnsavedIsKnown
    <3>2. SettingsOK'
      BY <2>2, <2>4 DEF SettingsInv, SettingsOK
    <3> QED BY <2>2, <3>1, <3>2 DEF SettingsInv
  <2> QED BY <2>1, <2>3, <2>4
<1>6. ASSUME SaveDirty PROVE SettingsInv'
  <2>1. CASE mounted
    BY <1>6, <2>1, SaveKeeps DEF SaveDirty, SettingsInv, SettingsOK
  <2>2. CASE ~mounted
    BY <1>6, <2>2 DEF SaveDirty, Save, SettingsInv, SettingsOK, UnsavedIsKnown
  <2> QED BY <2>1, <2>2
<1>7. ASSUME Starts PROVE SettingsInv'
  <2>1. /\ ram' = Loaded(live') /\ dirty' = FALSE /\ mounted' = TRUE
        /\ refused' = Settled
    BY <1>7 DEF Starts, BootSettings
  <2>2. refused' \in {"never", "before"} /\ (refused' = "never" => refused = "never")
    BY <2>1 DEF Settled, SettingsInv, SettingsOK
  <2>3. /\ live' \in Config \cup {Missing, Partial}
        /\ tmp' \in Config \cup {Missing, Partial}
        /\ promised' \in Config
        /\ refused = "never" => (live' \in Config => Clean(live'))
    <3>1. CASE UNCHANGED <<live, tmp, promised>>
      BY <3>1 DEF SettingsInv, SettingsOK
    <3>2. CASE Replaced
      BY <3>2, NoFile DEF Replaced, SettingsInv, SettingsOK
    <3>3. ASSUME NEW c \in BeingSaved, CutSaving(c)
          PROVE  /\ live' \in {live, Missing, c} /\ tmp' \in {Partial, Missing, c}
                 /\ promised' \in {promised, c}
      BY <3>3 DEF CutSaving
    <3> QED BY <1>7, <3>1, <3>2, <3>3, NoFile, BeingSavedType
            DEF Starts, SettingsInv, SettingsOK
  <2>4. refused' = "never" => Clean(ram')
    <3>1. CASE live' \in Config
      BY <2>1, <2>2, <2>3, <3>1, CleanLoads
    <3>2. CASE live' \notin Config
      BY <2>1, <3>2, DefaultsType DEF Loaded
    <3> QED BY <3>1, <3>2
  <2> QED BY <2>1, <2>2, <2>3, <2>4, LoadedType
          DEF SettingsInv, SettingsOK, UnsavedIsKnown
<1>8. CASE UNCHANGED settings
  BY <1>8 DEF settings, SettingsInv, SettingsOK, UnsavedIsKnown
<1> QED BY <1>1, <1>2, <1>3, <1>4, <1>5, <1>6, <1>7, <1>8, SettingsSteps
        DEF SettingsStep

LEMMA SettingsInvariant == Spec => []SettingsInv
BY SettingsInvInit, SettingsInvStep, PTL DEF Spec

\* The settings in force, the file and the page agree, or are known not to
\* (Settings::save, load, fromJson, toJson and readSecret, whatever is posted
\* and wherever a start comes).
THEOREM SettingsStayTrue == Spec => []SettingsAgree
<1>1. SettingsInv => SettingsAgree
  <2> SUFFICES ASSUME SettingsInv PROVE SettingsAgree
    OBVIOUS
  <2>1. LoadsWhatWasSaved
    BY CleanLoads DEF LoadsWhatWasSaved, SettingsInv, SettingsOK
  <2>2. PageChangesNothing
    BY MasksHide DEF PageChangesNothing, SettingsInv, SettingsOK
  <2> QED BY <2>1, <2>2 DEF SettingsAgree, SettingsInv
<1> QED BY SettingsInvariant, <1>1, PTL

\* What a step leaves in the file is what it promises, or what was there, or
\* nothing with the whole of it beside, unless every file was replaced.
LEMMA SavesWhole ==
  ASSUME SettingsInv, [Next]_vars
  PROVE  \/ UNCHANGED <<live, promised>>
         \/ live' = promised' /\ promised' \in Config
         \/ live' = Missing /\ promised' = Defaults
         \/ live' = Missing /\ tmp' = promised'
         \/ StartsOnNewFiles
<1>1. ASSUME NEW c \in Config, Save(c)
      PROVE  UNCHANGED <<live, promised>> \/ (live' = promised' /\ promised' \in Config)
  BY <1>1 DEF Save
<1>2. ASSUME NEW doc \in Posted, ConfigSet(doc)
      PROVE  UNCHANGED <<live, promised>> \/ (live' = promised' /\ promised' \in Config)
  <2>1. ram' \in Config
    BY <1>2, MergeType, PostedDocuments DEF ConfigSet, SettingsInv, SettingsOK
  <2> QED BY <1>1, <1>2, <2>1 DEF ConfigSet
<1>3. ASSUME NEW v \in {"set", "bad"}, Joins(v)
      PROVE  UNCHANGED <<live, promised>> \/ (live' = promised' /\ promised' \in Config)
  <2>1. ram' \in BeingSaved
    BY <1>3 DEF Joins, BeingSaved
  <2> QED BY <1>1, <1>3, <2>1, BeingSavedType DEF Joins
<1>4. ASSUME SaveDirty
      PROVE  UNCHANGED <<live, promised>> \/ (live' = promised' /\ promised' \in Config)
  BY <1>1, <1>4 DEF SaveDirty, SettingsInv, SettingsOK
<1>5. ASSUME FactoryReset
      PROVE  UNCHANGED <<live, promised>> \/ (live' = Missing /\ promised' = Defaults)
  BY <1>5 DEF FactoryReset
<1>6. ASSUME NEW c \in BeingSaved, CutSaving(c)
      PROVE  \/ UNCHANGED <<live, promised>>
             \/ live' = promised' /\ promised' \in Config
             \/ live' = Missing /\ tmp' = promised'
  BY <1>6, BeingSavedType DEF CutSaving
<1>7. CASE UNCHANGED settings
  BY <1>7 DEF settings
<1> QED BY <1>2, <1>3, <1>4, <1>5, <1>6, <1>7, SettingsSteps
        DEF SettingsStep, Touch, Unmounts, Starts, Replaced

\* What the device said it had saved is what the next start finds (Settings::save
\* with its two files, load, factoryReset), wherever the power is cut, unless it
\* starts on an image of the file system.
THEOREM SavesAreKept == Spec => Kept
<1>1. ASSUME SettingsInv, [Next]_vars, Holds
      PROVE  Holds' \/ (live' = Missing /\ tmp' = promised') \/ StartsOnNewFiles
  <2>1. ASSUME live' = promised', promised' \in Config PROVE Holds'
    <3>1. ASSUME Clean(promised') PROVE Loaded(live') = promised'
      BY <2>1, <3>1, CleanLoads
    <3> QED BY <3>1 DEF Holds, Clean
  <2>2. ASSUME live' = Missing, promised' = Defaults PROVE Holds'
    BY <2>2, NoFile DEF Holds, Loaded
  <2>3. ASSUME UNCHANGED <<live, promised>> PROVE Holds'
    BY <1>1, <2>3 DEF Holds
  <2> QED BY <1>1, <2>1, <2>2, <2>3, SavesWhole
<1>2. SettingsInv /\ [Next]_vars
        => [Holds => \/ Holds'
                     \/ live' = Missing /\ tmp' = promised'
                     \/ StartsOnNewFiles]_vars
  BY <1>1
<1> QED BY SettingsInvariant, <1>2, PTL DEF Spec, Kept

----------------------------------------------------------------------------
(* Firmware.                                                               *)

UpdateStep ==
  \/ \E u \in Uploader, part \in Part, fits \in BOOLEAN : FirstChunk(u, part, fits)
  \/ \E u \in Uploader : FirstRefused(u)
  \/ \E u \in Uploader, ok \in BOOLEAN : LastChunk(u, ok)
  \/ \E u \in Uploader : Broken(u)
  \/ ScheduleRestart
  \/ BootOta
  \/ UNCHANGED update

LEMMA UpdateSteps == [Next]_vars => UpdateStep
<1> SUFFICES ASSUME [Next]_vars PROVE UpdateStep
  OBVIOUS
<1> USE DEF UpdateStep
<1>1. ASSUME NEW u \in Uploader, NEW part \in Part, NEW fits \in BOOLEAN,
             Upload(u, part, fits)
      PROVE  UpdateStep
  BY <1>1 DEF Upload
<1>2. CASE Configuring
  <2>1. "files" \in Part
    BY DEF Part
  <2> QED BY <1>1, <1>2, <2>1
          DEF Configuring, PostConfig, Adopt, ConnectTo, PostReset, Erase, FlushSettings,
              Restart, PowerCut, PowerCutSaving, Boot, SetUp
<1>3. CASE Roaming
  BY <1>3 DEF Roaming, ConnectTo, Pressing, Clicked, HoldForPortal, HoldForReset, Erase,
              WifiLoop, WizardLoop, Outside, Restart, Boot, SetUp
<1>4. CASE Updating
  BY <1>1, <1>4
     DEF Updating, Adopt, FlushSettings, TurnUploadAway, FinishUpload, BreakUpload,
         PostRestart, Restart, PowerCut, Boot, SetUp
<1>5. CASE Learning
  BY <1>5 DEF Learning
<1>6. CASE UNCHANGED vars
  BY <1>6 DEF vars
<1> QED BY <1>2, <1>3, <1>4, <1>5, <1>6 DEF Next

\* With one upload at a time, an upload nothing is known to be wrong with is
\* the one that the image was begun for.
OneUpload == \A u, v \in Uploader : u = v

OwnImage ==
  \A u \in Uploader : sending[u] /\ authorised[u] /\ ~failed => writing /\ owner = u

LEMMA OtaOKStep == OtaOK /\ [Next]_vars => OtaOK'
<1> SUFFICES ASSUME OtaOK, [Next]_vars PROVE OtaOK'
  OBVIOUS
<1> USE DEF OtaOK
<1>1. /\ writing \in BOOLEAN /\ failed \in BOOLEAN /\ restarting \in BOOLEAN
  OBVIOUS
<1>2. ASSUME NEW u \in Uploader, NEW part \in Part, NEW fits \in BOOLEAN,
             FirstChunk(u, part, fits)
      PROVE  OtaOK'
  <2>1. /\ sending' \in [Uploader -> BOOLEAN] /\ authorised' \in [Uploader -> BOOLEAN]
        /\ restarting' = restarting
    BY <1>2 DEF FirstChunk, Sending, Admitted
  <2>2. CASE fits /\ opened = "nothing"
    <3>1. /\ writing' = TRUE /\ failed' = FALSE /\ opened' = part /\ owner' = u
          /\ staged' = IF part = "files" THEN [staged EXCEPT ![part] = "torn"] ELSE staged
      BY <1>2, <2>2 DEF FirstChunk
    <3>2. staged' \in Images
      BY <3>1 DEF Images
    <3> QED BY <2>1, <3>1, <3>2
  <2>3. CASE ~(fits /\ opened = "nothing")
    BY <1>2, <2>1, <2>3 DEF FirstChunk
  <2> QED BY <2>2, <2>3
<1>3. ASSUME NEW u \in Uploader, NEW ok \in BOOLEAN, LastChunk(u, ok)
      PROVE  OtaOK'
  <2>1. sending' \in [Uploader -> BOOLEAN] /\ authorised' \in [Uploader -> BOOLEAN]
    BY <1>3 DEF LastChunk, Sent
  <2>2. ASSUME NEW bad \in BOOLEAN, Ended(u, bad)
        PROVE  writing' \in BOOLEAN /\ restarting' \in BOOLEAN
    <3>1. CASE authorised[u]
      <4>1. writing' = FALSE /\ restarting' = (restarting \/ ~bad)
        BY <2>2, <3>1, Zenon DEF Ended, Answered
      <4> QED BY <1>1, <4>1, Zenon
    <3>2. CASE ~authorised[u]
      <4>1. restarting' = restarting /\ (writing' = writing \/ writing' = (writing /\ ~bad))
        BY <2>2, <3>2, Zenon DEF Ended
      <4>2. (writing /\ ~bad) \in BOOLEAN
        BY Zenon
      <4> QED BY <1>1, <4>1, <4>2, Zenon
    <3> QED BY <3>1, <3>2
  <2>3. CASE ~writing
    <3>1. UNCHANGED <<failed, opened, owner, staged>> /\ Ended(u, failed)
      BY <1>3, <2>3 DEF LastChunk
    <3> QED BY <1>1, <2>1, <2>2, <3>1
  <2>4. CASE writing
    <3> DEFINE done == ok /\ opened # "nothing"
    <3>1. /\ opened' = "nothing" /\ owner' = Nobody
          /\ staged' = IF ~done THEN staged
                       ELSE [staged EXCEPT ![opened] = IF owner = u THEN "whole" ELSE "torn"]
      BY <1>3, <2>4, Zenon DEF LastChunk
    <3>2. failed' = (failed \/ ~done) /\ Ended(u, failed \/ ~done)
      BY <1>3, <2>4, Zenon DEF LastChunk
    <3>3. failed' \in BOOLEAN /\ (failed \/ ~done) \in BOOLEAN
      BY <3>2, Zenon
    <3>4. writing' \in BOOLEAN /\ restarting' \in BOOLEAN
      BY <2>2, <3>2, <3>3
    <3>5. staged' \in Images
      BY <3>1 DEF Images
    <3> QED BY <2>1, <3>1, <3>3, <3>4, <3>5
  <2> QED BY <2>3, <2>4
<1>4. ASSUME NEW u \in Uploader, Broken(u) PROVE OtaOK'
  BY <1>4 DEF Broken, Sent
<1>5. CASE ScheduleRestart
  BY <1>5 DEF ScheduleRestart
<1>6. CASE BootOta
  BY <1>6 DEF BootOta, Images, NoImage
<1>7. CASE UNCHANGED update
  BY <1>7 DEF update
<1>8. ASSUME NEW u \in Uploader, FirstRefused(u) PROVE OtaOK'
  BY <1>8 DEF FirstRefused, Sending, Admitted
<1> QED BY <1>2, <1>3, <1>4, <1>5, <1>6, <1>7, <1>8, UpdateSteps DEF UpdateStep

LEMMA OwnImageStep ==
  ASSUME OneUpload, OtaOK, OwnImage, [Next]_vars
  PROVE  OwnImage'
<1> USE DEF OwnImage
<1>1. ASSUME NEW u \in Uploader, NEW part \in Part, NEW fits \in BOOLEAN,
             FirstChunk(u, part, fits)
      PROVE  OwnImage'
  <2>1. CASE fits /\ opened = "nothing"
    BY <1>1, <2>1 DEF FirstChunk, OneUpload
  <2>2. CASE ~(fits /\ opened = "nothing")
    BY <1>1, <2>2 DEF FirstChunk
  <2> QED BY <2>1, <2>2
<1>2. ASSUME NEW u \in Uploader, NEW ok \in BOOLEAN, LastChunk(u, ok)
      PROVE  OwnImage'
  <2>1. \A v \in Uploader : ~sending'[v]
    BY <1>2 DEF LastChunk, Sent, OneUpload, OtaOK
  <2> QED BY <2>1
<1>3. ASSUME NEW u \in Uploader, Broken(u) PROVE OwnImage'
  <2>1. \A v \in Uploader : ~sending'[v]
    BY <1>3 DEF Broken, Sent, OneUpload, OtaOK
  <2> QED BY <2>1
<1>4. CASE ScheduleRestart
  BY <1>4 DEF ScheduleRestart
<1>5. CASE BootOta
  BY <1>5 DEF BootOta
<1>6. CASE UNCHANGED update
  BY <1>6 DEF update
<1>7. ASSUME NEW u \in Uploader, FirstRefused(u) PROVE OwnImage'
  <2>1. \A v \in Uploader : ~authorised'[v]
    BY <1>7 DEF FirstRefused, Admitted, OneUpload, OtaOK
  <2> QED BY <2>1
<1> QED BY <1>1, <1>2, <1>3, <1>4, <1>5, <1>6, <1>7, UpdateSteps DEF UpdateStep

LEMMA OtaInit == Init => OtaOK /\ OwnImage
<1> SUFFICES ASSUME Init PROVE OtaOK /\ OwnImage
  OBVIOUS
<1>1. /\ sending = [u \in Uploader |-> FALSE] /\ authorised = [u \in Uploader |-> FALSE]
      /\ writing = FALSE /\ failed = FALSE /\ restarting = FALSE
      /\ opened = "nothing" /\ owner = Nobody /\ staged = NoImage
  BY DEF Init
<1>2. staged \in Images
  BY <1>1 DEF Images, NoImage
<1> QED BY <1>1, <1>2 DEF OtaOK, OwnImage

\* With one upload at a time, a restart that answers an upload has one whole
\* image to start (OtaService's handler: lastError_, inProgress_ and the
\* library's Updater tell of the same upload).
THEOREM RestartsAreWhole == OneUpload => (Spec => RestartsOnWholeImage)
<1> SUFFICES ASSUME OneUpload PROVE Spec => RestartsOnWholeImage
  OBVIOUS
<1> DEFINE I == OtaOK /\ OwnImage
           A == \A u \in Uploader :
                  sending[u] /\ ~sending'[u] /\ ~restarting /\ restarting'
                    => opened # "nothing" /\ staged'[opened] = "whole"
<1>1. Init => I
  BY OtaInit
<1>2. I /\ [Next]_vars => I'
  BY OtaOKStep, OwnImageStep
<1>3. I /\ [Next]_vars => A
  <2> SUFFICES ASSUME I, [Next]_vars, NEW u \in Uploader,
                      sending[u], ~sending'[u], ~restarting, restarting'
               PROVE  opened # "nothing" /\ staged'[opened] = "whole"
    OBVIOUS
  <2>1. ASSUME NEW v \in Uploader, NEW ok \in BOOLEAN, LastChunk(v, ok)
        PROVE  opened # "nothing" /\ staged'[opened] = "whole"
    <3>0. authorised[v]
      BY <2>1, Zenon DEF LastChunk, Ended
    <3>1. u = v /\ (~failed => writing /\ owner = u)
      BY <2>1, <3>0 DEF OneUpload, OwnImage
    <3>2. CASE ~writing
      BY <2>1, <3>0, <3>1, <3>2, Zenon DEF LastChunk, Ended, Answered
    <3>3. CASE writing
      <4>1. ~failed /\ ok /\ opened # "nothing"
        BY <2>1, <3>0, <3>3, Zenon DEF LastChunk, Ended, Answered
      <4>2. staged' = [staged EXCEPT ![opened] = IF owner = v THEN "whole" ELSE "torn"]
        BY <2>1, <3>3, <4>1 DEF LastChunk
      <4>3. staged \in Images /\ opened \in Part
        BY <4>1 DEF OtaOK
      <4> QED BY <3>1, <4>1, <4>2, <4>3 DEF Images
    <3> QED BY <3>2, <3>3
  <2>2. ASSUME NEW v \in Uploader, NEW part \in Part, NEW fits \in BOOLEAN,
               FirstChunk(v, part, fits)
        PROVE  FALSE
    BY <2>2 DEF FirstChunk
  <2>3. ASSUME NEW v \in Uploader, Broken(v) PROVE FALSE
    BY <2>3 DEF Broken
  <2>4. CASE ScheduleRestart
    BY <2>4 DEF ScheduleRestart
  <2>5. CASE BootOta
    BY <2>5 DEF BootOta
  <2>6. CASE UNCHANGED update
    BY <2>6 DEF update
  <2>7. ASSUME NEW v \in Uploader, FirstRefused(v) PROVE FALSE
    BY <2>7 DEF FirstRefused
  <2> QED BY <2>1, <2>2, <2>3, <2>4, <2>5, <2>6, <2>7, UpdateSteps DEF UpdateStep
<1>4. I /\ [Next]_vars => [A]_vars
  BY <1>3
<1> HIDE DEF I, A
<1>5. Spec => [][A]_vars
  BY <1>1, <1>2, <1>4, PTL DEF Spec
<1> QED BY <1>5 DEF RestartsOnWholeImage, A

----------------------------------------------------------------------------
(* The network and the button.                                             *)

\* A press that may still become a click has room to be counted.
ButtonInv == ButtonOK /\ (press = "short" => clicks < MaxClicks)

LEMMA ButtonStep == ButtonInv /\ [Next]_vars => ButtonInv'
<1> SUFFICES ASSUME ButtonInv, [Next]_vars PROVE ButtonInv'
  OBVIOUS
<1> USE ClickAssumption DEF ClickAssumption, ButtonInv, ButtonOK, Press
<1>1. CASE PressDown
  BY <1>1 DEF PressDown
<1>2. CASE Release
  BY <1>2 DEF Release
<1>3. CASE HeldThree
  BY <1>3 DEF HeldThree
<1>4. CASE HeldTen
  BY <1>4 DEF HeldTen
<1>5. CASE ResolveClicks
  BY <1>5 DEF ResolveClicks
<1>6. CASE BootButton
  BY <1>6 DEF BootButton
<1>7. CASE UNCHANGED button
  BY <1>7 DEF button
<1>8. PressDown \/ Release \/ HeldThree \/ HeldTen \/ ResolveClicks \/ BootButton
      \/ UNCHANGED button
  <2>1. CASE Configuring
    BY <2>1 DEF Configuring, PostConfig, Adopt, ConnectTo, PostReset, Upload,
                FlushSettings, Restart, PowerCut, PowerCutSaving, Boot, SetUp
  <2>2. CASE Roaming
    BY <2>2 DEF Roaming, ConnectTo, Pressing, Clicked, HoldForPortal, HoldForReset,
                WifiLoop, WizardLoop, Outside, Restart, Boot, SetUp
  <2>3. CASE Updating
    BY <2>3 DEF Updating, Adopt, FlushSettings, Upload, TurnUploadAway, FinishUpload,
                BreakUpload, PostRestart, Restart, PowerCut, Boot, SetUp
  <2>4. CASE Learning
    BY <2>4 DEF Learning
  <2>5. CASE UNCHANGED vars
    BY <2>5 DEF vars
  <2> QED BY <2>1, <2>2, <2>3, <2>4, <2>5 DEF Next
<1> QED BY <1>1, <1>2, <1>3, <1>4, <1>5, <1>6, <1>7, <1>8

RadioStep ==
  \/ BeginConnect /\ UNCHANGED router
  \/ \E state \in WifiState : StartPortal(state) /\ UNCHANGED router
  \/ \E named : BootWifi(named) /\ UNCHANGED router
  \/ Join(Usable) \/ LinkLost \/ ClosePortal \/ RouterChanges
  \/ UNCHANGED radio

LEMMA RadioSteps == WifiOK /\ [Next]_vars => RadioStep
<1> SUFFICES ASSUME WifiOK, [Next]_vars PROVE RadioStep
  OBVIOUS
<1> USE DEF RadioStep
<1>1. CASE Configuring
  BY <1>1 DEF Configuring, PostConfig, Adopt, ConnectTo, PostReset, Upload,
              FlushSettings, Restart, PowerCut, PowerCutSaving, Boot, SetUp
<1>2. CASE Roaming
  <2>1. CASE HoldForPortal
    <3>1. wifi \in WifiState
      BY DEF WifiOK
    <3>2. CASE StartPortal(wifi)
      BY <2>1, <3>1, <3>2 DEF HoldForPortal
    <3>3. CASE UNCHANGED <<wifi, portal, aired>>
      BY <2>1, <3>3 DEF HoldForPortal, radio
    <3> QED BY <2>1, <3>2, <3>3 DEF HoldForPortal
  <2>2. CASE WifiLoop
    <3>1. "failed" \in WifiState
      BY DEF WifiState
    <3> QED BY <2>2, <3>1 DEF WifiLoop, JoinTimeout, Retry
  <2>3. CASE Restart
    BY <2>3 DEF Restart, Boot, SetUp
  <2> QED BY <1>2, <2>1, <2>2, <2>3
          DEF Roaming, ConnectTo, Pressing, Clicked, HoldForReset, WizardLoop, Outside
<1>3. CASE Updating
  BY <1>3 DEF Updating, Adopt, FlushSettings, Upload, TurnUploadAway, FinishUpload,
              BreakUpload, PostRestart, Restart, PowerCut, Boot, SetUp
<1>4. CASE Learning
  BY <1>4 DEF Learning
<1>5. CASE UNCHANGED vars
  BY <1>5 DEF vars
<1> QED BY <1>1, <1>2, <1>3, <1>4, <1>5 DEF Next

LEMMA WifiStep == WifiOK /\ [Next]_vars => WifiOK'
<1> SUFFICES ASSUME WifiOK, [Next]_vars PROVE WifiOK'
  OBVIOUS
<1>1. RadioStep
  BY RadioSteps
<1>2. wifi' \in WifiState
  BY <1>1 DEF RadioStep, WifiOK, WifiState, BeginConnect, StartPortal, PortalTried,
              BootWifi, Join, LinkLost, ClosePortal, RouterChanges, radio
<1>3. /\ portal' = portal \/ portal' = TRUE \/ portal' = FALSE
      /\ aired' = aired \/ aired' = TRUE \/ aired' = FALSE
  BY <1>1 DEF RadioStep, BeginConnect, StartPortal, PortalTried, BootWifi, Join,
              LinkLost, ClosePortal, RouterChanges, radio
<1>4. router' = router \/ router' = ~router
  BY <1>1 DEF RadioStep, BootWifi, Join, LinkLost, ClosePortal, RouterChanges, radio
<1>5. portal \in BOOLEAN /\ aired \in BOOLEAN /\ router \in BOOLEAN
  BY DEF WifiOK
<1>6. portal' \in BOOLEAN /\ aired' \in BOOLEAN /\ router' \in BOOLEAN
  BY <1>3, <1>4, <1>5, Zenon
<1> QED BY <1>2, <1>6 DEF WifiOK

----------------------------------------------------------------------------
(* What the wizard's lists are made of.                                    *)

LEMMA LeastNumber ==
  ASSUME NEW T \in SUBSET Nat, T # {}
  PROVE  \E m \in T : \A k \in T : m <= k
<1>1. PICK m \in T : \A k \in T : <<k, m>> \notin OpToRel(<, Nat)
  BY NatLessThanWellFounded, WFMin
<1>2. \A k \in T : ~(k < m)
  BY <1>1 DEF OpToRel
<1> QED BY <1>2

Sorted(s) == \A i, j \in DOMAIN s : i < j => s[i] < s[j]

\* Finitely many numbers can be put in order.  Among the sizes of sets for which
\* that fails there would be a least one.
LEMMA CanBeSorted ==
  ASSUME NEW S \in SUBSET Nat, IsFiniteSet(S)
  PROVE  \E s \in [1..Cardinality(S) -> S] : Sorted(s)
<1> DEFINE Fails(T) == ~ \E s \in [1..Cardinality(T) -> T] : Sorted(s)
           Sizes == {n \in Nat : \E T \in SUBSET Nat :
                                   IsFiniteSet(T) /\ Cardinality(T) = n /\ Fails(T)}
<1>1. SUFFICES ASSUME Fails(S) PROVE FALSE
  OBVIOUS
<1>2. Cardinality(S) \in Sizes
  BY <1>1, FS_CardinalityType
<1>3. PICK n \in Sizes : \A k \in Sizes : n <= k
  BY <1>2, LeastNumber
<1>4. PICK T \in SUBSET Nat : IsFiniteSet(T) /\ Cardinality(T) = n /\ Fails(T)
  BY <1>3
<1>5. T # {}
  <2>1. SUFFICES ASSUME T = {} PROVE FALSE
    OBVIOUS
  <2>2. n = 0
    BY <1>4, <2>1, FS_EmptySet
  <2>3. [i \in 1..0 |-> 0] \in [1..0 -> T] /\ Sorted([i \in 1..0 |-> 0])
    BY DEF Sorted
  <2> QED BY <1>4, <2>2, <2>3
<1>6. PICK m \in T : \A k \in T : m <= k
  BY <1>5, LeastNumber
<1> DEFINE Rest == T \ {m}
<1>7. IsFiniteSet(Rest) /\ Cardinality(Rest) = n - 1 /\ n - 1 \in Nat
  <2>1. IsFiniteSet(Rest) /\ Cardinality(Rest) = Cardinality(T) - 1
    BY <1>4, <1>6, FS_RemoveElement
  <2>2. Cardinality(Rest) \in Nat
    BY <2>1, FS_CardinalityType
  <2> QED BY <1>4, <2>1, <2>2
<1>8. n - 1 \notin Sizes
  BY <1>3, <1>7
<1>9. PICK s \in [1..n - 1 -> Rest] : Sorted(s)
  BY <1>7, <1>8
<1> DEFINE all == [i \in 1..n |-> IF i = 1 THEN m ELSE s[i - 1]]
<1>10. all \in [1..n -> T]
  BY <1>6, <1>7, <1>9
<1>11. ASSUME NEW i \in 1..n, NEW j \in 1..n, i < j
       PROVE  all[i] < all[j]
  <2>1. j - 1 \in 1..n - 1 /\ all[j] = s[j - 1] /\ s[j - 1] \in Rest
    BY <1>7, <1>9, <1>11
  <2>2. CASE i = 1
    <3>1. all[i] = m
      BY <1>11, <2>2
    <3>2. m \in Nat /\ s[j - 1] \in Nat /\ m <= s[j - 1] /\ m # s[j - 1]
      BY <1>6, <2>1
    <3> QED BY <2>1, <3>1, <3>2
  <2>3. CASE i # 1
    <3>1. i - 1 \in 1..n - 1 /\ all[i] = s[i - 1]
      BY <1>7, <1>11, <2>3
    <3>2. s[i - 1] < s[j - 1]
      BY <1>9, <1>11, <2>1, <3>1 DEF Sorted
    <3> QED BY <2>1, <3>1, <3>2
  <2> QED BY <2>2, <2>3
<1>12. Sorted(all)
  BY <1>11 DEF Sorted
<1> QED BY <1>4, <1>10, <1>12

\* The list the sweep goes through names protocols that can be synthesised.
LEMMA SweepFromType ==
  ASSUME NEW first \in Protocol
  PROVE  SweepFrom(first) \in Seq(Supported)
<1> DEFINE n == Cardinality(Supported)
           order == CHOOSE s \in [1..n -> Supported] :
                      \A i, j \in DOMAIN s : i < j => s[i] < s[j]
           at == {i \in DOMAIN order : order[i] = first}
<1>1. n \in Nat
  BY TeachingAssumption, FS_CardinalityType DEF TeachingAssumption
<1>2. order \in [1..n -> Supported]
  BY TeachingAssumption, CanBeSorted DEF TeachingAssumption, Sorted
<1> HIDE DEF n, order
<1>3. \A i \in 1..n :
        (IF at = {} THEN order[i] ELSE IF i = 1 THEN first
         ELSE IF i \in at THEN order[1] ELSE order[i]) \in Supported
  BY <1>1, <1>2
<1>4. SweepFrom(first) =
        [i \in DOMAIN order |->
           IF at = {} THEN order[i] ELSE IF i = 1 THEN first
           ELSE IF i \in at THEN order[1] ELSE order[i]]
  BY DEF SweepFrom, order, n
<1>5. SweepFrom(first) \in [1..n -> Supported]
  BY <1>2, <1>3, <1>4
<1> QED BY <1>1, <1>5, SeqDef

LEMMA FirstOfType ==
  ASSUME NEW keys \in Seq(Key)
  PROVE  FirstOf(keys) \in Seq(Key)
<1> DEFINE m == IF Len(keys) < MaxTargets THEN Len(keys) ELSE MaxTargets
<1>1. m \in Int /\ m <= Len(keys) /\ Len(keys) \in Nat
  BY TeachingAssumption, LenProperties DEF TeachingAssumption
<1>2. \A i \in 1..m : keys[i] \in Key
  BY <1>1, ElementOfSeq
<1> HIDE DEF m
<1>3. SubSeq(keys, 1, m) \in Seq(Key)
  BY <1>1, <1>2, SubSeqProperties
<1> QED BY <1>3 DEF FirstOf, m

LEMMA Division ==
  ASSUME NEW n \in Nat, NEW d \in Nat, d > 0
  PROVE  n \div d \in Nat /\ n % d \in 0..d - 1 /\ d * (n \div d) <= n
OBVIOUS

\* The targets of a plan are keys that recordings can have.
LEMMA PlanTargetsType ==
  ASSUME NEW plan \in Plans, plan.low <= plan.high
  PROVE  PlanTargets(plan) \in Seq(Key)
<1> DEFINE fans == plan.fans
           L == Len(fans)
           steps == IF plan.high < plan.low THEN 0 ELSE plan.high - plan.low + 1
           key(i) == [temp |-> plan.low + ((i - 1) \div L),
                      fan |-> fans[((i - 1) % L) + 1]]
           head == IF plan.off THEN <<Off>> ELSE << >>
           rest == [i \in 1..steps * L |-> key(i)]
<1>1. /\ plan.low \in Nat /\ plan.high \in Nat
      /\ plan.low..plan.high \subseteq Temperature
      /\ fans \in Seq({"auto", "high"})
  BY ClientAssumption DEF ClientAssumption
<1>2. L \in Nat /\ steps \in Nat /\ steps = plan.high - plan.low + 1
  BY <1>1, LenProperties
<1>3. ASSUME NEW j \in 0..steps - 1 PROVE plan.low + j \in Temperature
  <2>1. plan.low + j \in plan.low..plan.high
    BY <1>1, <1>2
  <2> QED BY <1>1, <2>1
<1> HIDE DEF L, steps
<1>4. ASSUME NEW i \in 1..steps * L
      PROVE  key(i) \in Key
  <2>1. L > 0 /\ steps * L \in Nat
    BY <1>2, <1>4
  <2> DEFINE k == (i - 1) \div L
             q == (i - 1) % L
  <2>2. k \in Nat /\ q \in 0..L - 1 /\ L * k <= i - 1
    <3>1. i - 1 \in Nat
      BY <2>1
    <3> QED BY <1>2, <2>1, <3>1, Division
  <2> HIDE DEF k, q
  <2>3. k < steps
    <3>1. SUFFICES ASSUME steps <= k PROVE FALSE
      BY <1>2, <2>2
    <3>2. L * steps <= L * k
      BY <1>2, <2>1, <2>2, <3>1
    <3>3. L * steps = steps * L /\ L * steps \in Nat /\ L * k \in Nat
      BY <1>2, <2>2
    <3> QED BY <2>1, <2>2, <3>2, <3>3
  <2>4. plan.low + k \in Temperature
    <3>1. k \in 0..steps - 1
      BY <1>2, <2>2, <2>3
    <3> QED BY <1>3, <3>1
  <2>5. fans[q + 1] \in {"auto", "high"}
    <3>1. q + 1 \in 1..Len(fans)
      BY <1>2, <2>2 DEF L
    <3> QED BY <1>1, <3>1, ElementOfSeq
  <2>6. key(i) = [temp |-> plan.low + k, fan |-> fans[q + 1]]
    BY DEF k, q
  <2> QED BY <2>4, <2>5, <2>6 DEF Key, OnKey
<1>5. steps * L \in Nat
  BY <1>2
<1> HIDE DEF key
<1>6. rest \in Seq(Key)
  <2>1. rest \in [1..steps * L -> Key]
    BY <1>4
  <2> QED BY <1>5, <2>1, SeqDef
<1>7. head \in Seq(Key)
  <2>1. Off \in Key
    BY DEF Key
  <2> QED BY <2>1, EmptySeq
<1>8. head \o rest \in Seq(Key)
  BY <1>6, <1>7, ConcatProperties
<1>9. PlanTargets(plan) = FirstOf(head \o rest)
  BY DEF PlanTargets, key, steps, L
<1> QED BY <1>8, <1>9, FirstOfType

----------------------------------------------------------------------------
(* The wizard.                                                             *)

TeachingStep ==
  \/ TeachingNext
  \/ ForgetTaught(mounted)
  \/ BootWizard /\ (KeepTaught \/ LoseTaught)
  \/ UNCHANGED teaching

LEMMA TeachingSteps == [Next]_vars => TeachingStep
<1> SUFFICES ASSUME [Next]_vars PROVE TeachingStep
  OBVIOUS
<1> USE DEF TeachingStep
<1>1. CASE Configuring
  BY <1>1 DEF Configuring, PostConfig, Adopt, ConnectTo, PostReset, Erase, Upload,
              FlushSettings, Restart, PowerCut, PowerCutSaving, Boot, SetUp
<1>2. CASE Roaming
  <2>1. CASE Clicked
    BY <2>1 DEF Clicked, TeachingNext, LearnStart
  <2>2. CASE WizardLoop
    BY <2>2 DEF WizardLoop, TeachingNext
  <2> QED BY <1>2, <2>1, <2>2
          DEF Roaming, ConnectTo, Pressing, HoldForPortal, HoldForReset, Erase,
              WifiLoop, Outside, Restart, Boot, SetUp
<1>3. CASE Updating
  BY <1>3 DEF Updating, Adopt, FlushSettings, Upload, TurnUploadAway, FinishUpload,
              BreakUpload, PostRestart, Restart, PowerCut, Boot, SetUp
<1>4. CASE Learning
  BY <1>4 DEF Learning
<1>5. CASE UNCHANGED vars
  BY <1>5 DEF vars
<1> QED BY <1>1, <1>2, <1>3, <1>4, <1>5 DEF Next

\* While something is being asked, there is something it is asked of; and the
\* unit, if it reacted, did to the protocol that an honest answer would adopt.
WizardInv ==
  /\ phase = "sweep" => sweep # << >> /\ (reacted => sweep[1] = dialect)
  /\ phase = "confirm" /\ reacted => candidate = dialect
  /\ phase = "record" => targets # << >>

LEMMA ProbeReacts ==
  ASSUME TeachingOK, NEW protocol, Probe(protocol)
  PROVE  reacted' \in BOOLEAN /\ unit' \in BOOLEAN /\ (reacted' => protocol = dialect)
<1>1. reacted' = (protocol = dialect) /\ unit' = (unit \/ protocol = dialect)
  BY Zenon DEF Probe
<1> QED BY <1>1, Zenon

\* The types that a step of the wizard need not disturb, apart from its variables.
LEMMA WizardTypes ==
  TeachingOK <=>
    /\ phase \in Phase /\ candidate \in Protocol
    /\ sweep \in Seq(Supported) /\ targets \in Seq(Key)
    /\ reacted \in BOOLEAN /\ unit \in BOOLEAN
    /\ model \in [protocol : Protocol, learned : BOOLEAN]
    /\ codes \subseteq Key /\ torn \subseteq codes
    /\ bindings \in Seq([button : OtherButton, action : Action])
    /\ Len(bindings) <= MaxBindings
    /\ taught \in [OtherButton -> Action \cup {Untaught}]
    /\ dialect \in Protocol
BY DEF TeachingOK

WizardOK == TeachingOK /\ WizardInv

LEMMA StartKeeps ==
  ASSUME WizardOK, LearnStart
  PROVE  WizardOK'
<1> USE WizardTypes DEF WizardOK, WizardInv
<1>1. CASE StartIdentify
  BY <1>1, EmptySeq DEF StartIdentify, TeachingOK, Phase, Protocol
<1>2. CASE StartSweep
  <2>1. sweep' \in Seq(Supported) /\ targets' = << >>
        /\ UNCHANGED <<candidate, model, codes, torn, bindings, taught, dialect>>
    BY <1>2, SweepFromType DEF StartSweep, TeachingOK
  <2>2. CASE sweep' = << >>
    <3>1. phase' = "idle" /\ UNCHANGED <<reacted, unit>>
      BY <1>2, <2>2 DEF StartSweep, NoProbe
    <3> QED BY <2>1, <3>1, EmptySeq DEF TeachingOK, Phase
  <2>3. CASE sweep' # << >>
    <3>1. phase' = "sweep" /\ Probe(sweep'[1])
      BY <1>2, <2>3 DEF StartSweep
    <3>2. reacted' \in BOOLEAN /\ unit' \in BOOLEAN /\ (reacted' => sweep'[1] = dialect)
      BY <3>1, ProbeReacts
    <3> QED BY <2>1, <2>3, <3>1, <3>2, EmptySeq DEF TeachingOK, Phase
  <2> QED BY <2>2, <2>3
<1>3. ASSUME NEW keys \in Seq(Key), targets' = keys, sweep' = << >>,
             phase' = "idle" \/ (phase' = "record" /\ targets' # << >>),
             UNCHANGED <<candidate, reacted, model, codes, torn, bindings, taught, unit, dialect>>
      PROVE  WizardOK'
  BY <1>3, EmptySeq DEF TeachingOK, Phase
<1>4. ASSUME NEW plan \in Plans, StartRecord(plan) PROVE WizardOK'
  <2>1. targets' = PlanTargets(plan) /\ PlanTargets(plan) \in Seq(Key)
    BY <1>4, PlanTargetsType DEF StartRecord
  <2>2. phase' = "idle" \/ (phase' = "record" /\ targets' # << >>)
    BY <1>4 DEF StartRecord
  <2>3. /\ sweep' = << >>
        /\ UNCHANGED <<candidate, reacted, model, codes, torn, bindings, taught, unit, dialect>>
    BY <1>4 DEF StartRecord
  <2> QED BY <1>3, <2>1, <2>2, <2>3
<1>5. ASSUME NEW key \in PutKeys, StartRecordKeys(<<key>>) PROVE WizardOK'
  <2>1. <<key>> \in Seq(Key)
    BY ClientAssumption DEF ClientAssumption
  <2>2. FirstOf(<<key>>) \in Seq(Key)
    BY <2>1, FirstOfType
  <2>3. FirstOf(<<key>>) # << >>
    <3>1. Len(<<key>>) = 1 /\ MaxTargets \in Nat /\ MaxTargets > 0
      BY TeachingAssumption DEF TeachingAssumption
    <3>2. FirstOf(<<key>>) = SubSeq(<<key>>, 1, 1)
      BY <3>1 DEF FirstOf
    <3>3. \A i \in 1..1 : <<key>>[i] \in {key}
      OBVIOUS
    <3>4. Len(SubSeq(<<key>>, 1, 1)) = 1
      BY <3>3, SubSeqProperties
    <3> QED BY <3>2, <3>4, EmptySeq
  <2> QED BY <1>3, <1>5, <2>2, <2>3 DEF StartRecordKeys
<1>6. CASE StartBind
  BY <1>6, EmptySeq DEF StartBind, TeachingOK, Phase
<1> QED BY <1>1, <1>2, <1>4, <1>5, <1>6 DEF LearnStart

\* A target that is done with gives way to the next one, or the wizard ends.
LEMMA AdvanceKeeps ==
  ASSUME WizardOK, phase = "record", AdvanceTarget,
         UNCHANGED <<candidate, sweep, reacted, bindings, taught, dialect>>,
         codes' \subseteq Key, torn' \subseteq codes', unit' \in BOOLEAN
  PROVE  WizardOK'
<1> USE DEF WizardOK, WizardInv
<1>1. targets # << >> /\ targets \in Seq(Key)
  BY DEF TeachingOK
<1>2. /\ targets' = Tail(targets) /\ targets' \in Seq(Key)
      /\ Len(targets') = Len(targets) - 1 /\ Len(targets) \in Nat
  BY <1>1, HeadTailProperties, LenProperties DEF AdvanceTarget
<1>3. CASE Len(targets) > 1
  <2>1. targets' # << >>
    <3>1. Len(targets') > 0
      BY <1>2, <1>3
    <3> QED BY <3>1, EmptySeq
  <2>2. UNCHANGED <<phase, model>>
    BY <1>3 DEF AdvanceTarget
  <2> QED BY <1>2, <2>1, <2>2, WizardTypes DEF TeachingOK
<1>4. CASE ~(Len(targets) > 1)
  <2>1. phase' = "done" /\ model' = [model EXCEPT !.learned = TRUE]
    BY <1>4 DEF AdvanceTarget, Finish
  <2> QED BY <1>2, <2>1, WizardTypes DEF TeachingOK, Phase
<1> QED BY <1>3, <1>4

LEMMA SweepKeeps ==
  ASSUME WizardOK, NEW worked \in BOOLEAN, ConfirmSweep(worked),
         UNCHANGED <<candidate, targets, codes, torn, bindings, taught, dialect>>
  PROVE  WizardOK'
<1> USE DEF WizardOK, WizardInv
<1>1. /\ sweep # << >> /\ sweep \in Seq(Supported) /\ sweep[1] \in Supported
      /\ Tail(sweep) \in Seq(Supported)
  <2>1. sweep # << >> /\ sweep \in Seq(Supported)
    BY DEF TeachingOK, ConfirmSweep
  <2>2. 1 \in 1..Len(sweep)
    BY <2>1, EmptySeq
  <2> QED BY <2>1, <2>2, ElementOfSeq, HeadTailProperties
<1>2. CASE worked
  <2>1. /\ model' = [protocol |-> sweep[1], learned |-> FALSE] /\ phase' = "done"
        /\ UNCHANGED <<reacted, unit, sweep>>
    BY <1>2 DEF ConfirmSweep, AdoptProtocol, Finish, NoProbe
  <2>2. model' \in [protocol : Protocol, learned : BOOLEAN]
    BY <1>1, <2>1 DEF Protocol
  <2> QED BY <2>1, <2>2, WizardTypes DEF TeachingOK, Phase
<1>3. CASE ~worked
  <2>1. sweep' = Tail(sweep) /\ model' = model
    BY <1>3 DEF ConfirmSweep
  <2>2. CASE sweep' = << >>
    <3>1. phase' = "failed" /\ UNCHANGED <<reacted, unit>>
      BY <1>3, <2>2 DEF ConfirmSweep, Finish, NoProbe
    <3> QED BY <1>1, <2>1, <3>1, WizardTypes DEF TeachingOK, Phase
  <2>3. CASE sweep' # << >>
    <3>1. Probe(sweep'[1]) /\ phase' = "sweep"
      BY <1>3, <2>3 DEF ConfirmSweep
    <3>2. reacted' \in BOOLEAN /\ unit' \in BOOLEAN /\ (reacted' => sweep'[1] = dialect)
      BY <3>1, ProbeReacts
    <3> QED BY <1>1, <2>1, <2>3, <3>1, <3>2, WizardTypes DEF TeachingOK, Phase
  <2> QED BY <2>2, <2>3
<1> QED BY <1>2, <1>3

\* The bindings are those of distinct buttons, and say what was last taught.
Binding == [button : OtherButton, action : Action]

TaughtInv ==
  /\ \A i, j \in DOMAIN bindings : bindings[i].button = bindings[j].button => i = j
  /\ \A i \in DOMAIN bindings : taught[bindings[i].button] = bindings[i].action
  /\ \A b \in OtherButton :
       (\A i \in DOMAIN bindings : bindings[i].button # b) => taught[b] = Untaught

LEMMA PressKeeps ==
  ASSUME WizardOK, NEW on \in BOOLEAN, PressOwn(on)
  PROVE  WizardOK' /\ UNCHANGED <<bindings, taught>>
<1> USE WizardTypes DEF WizardOK, WizardInv
<1>1. dialect' = dialect /\ {FirstCapture} \cup codes \subseteq Key
  BY DEF PressOwn, TeachingOK, Key
<1>2. CASE Identified(on)
  <2>1. /\ phase' = "confirm" /\ candidate' = dialect
        /\ UNCHANGED <<sweep, targets, model, bindings, taught>>
    BY <1>2 DEF Identified
  <2>2. codes' \subseteq Key /\ torn' \subseteq codes'
    BY <1>1, <1>2 DEF Identified, Stored
  <2>3. reacted' \in BOOLEAN /\ unit' \in BOOLEAN
    <3>1. CASE dialect \in Supported
      BY <1>2, <3>1, ProbeReacts DEF Identified
    <3>2. CASE dialect \notin Supported
      BY <1>2, <3>2 DEF Identified
    <3> QED BY <3>1, <3>2
  <2> QED BY <1>1, <2>1, <2>2, <2>3 DEF TeachingOK, Phase
<1>3. ASSUME Recorded(on)
      PROVE  WizardOK' /\ UNCHANGED <<bindings, taught>>
  <2>1. /\ phase = "record" /\ unit' = on /\ AdvanceTarget
        /\ UNCHANGED <<candidate, sweep, reacted, bindings, taught>>
    BY <1>3 DEF Recorded
  <2>2. Head(targets) \in Key
    BY <2>1, HeadTailProperties DEF TeachingOK
  <2>3. codes' \subseteq Key /\ torn' \subseteq codes'
    BY <1>1, <1>3, <2>2 DEF Recorded, Stored
  <2> QED BY <1>1, <2>1, <2>3, AdvanceKeeps
<1>4. CASE /\ phase = "bind" /\ Finish(FALSE) /\ unit' = on
           /\ UNCHANGED <<candidate, sweep, targets, reacted, model,
                          codes, torn, bindings, taught>>
  <2>1. phase' = "failed"
    BY <1>4 DEF Finish
  <2> QED BY <1>1, <1>4, <2>1 DEF TeachingOK, Phase
<1>5. CASE /\ unit' = on
           /\ UNCHANGED <<phase, candidate, sweep, targets, reacted,
                          model, codes, torn, bindings, taught>>
  BY <1>1, <1>5 DEF TeachingOK
<1> QED BY <1>2, <1>3, <1>4, <1>5 DEF PressOwn

\* Whatever is taught, a button has one entry at most, and it is the last.
LEMMA BindKeeps ==
  ASSUME TeachingOK, TaughtInv, NEW b \in Binding, BindButton(b)
  PROVE  /\ bindings' \in Seq(Binding) /\ Len(bindings') <= MaxBindings
         /\ taught' \in [OtherButton -> Action \cup {Untaught}]
         /\ TaughtInv'
<1> DEFINE known == \E i \in DOMAIN bindings : bindings[i].button = b.button
<1>1. /\ bindings \in Seq(Binding) /\ Len(bindings) \in Nat /\ Len(bindings) <= MaxBindings
      /\ bindings \in [1..Len(bindings) -> Binding]
      /\ DOMAIN bindings = 1..Len(bindings)
      /\ taught \in [OtherButton -> Action \cup {Untaught}]
      /\ MaxBindings \in Nat
      /\ b.button \in OtherButton /\ b.action \in Action
  BY TeachingAssumption, LenProperties DEF TeachingOK, Binding, TeachingAssumption
<1> USE DEF TaughtInv
<1>2. CASE known
  <2>1. /\ bindings' = [i \in DOMAIN bindings |->
                          IF bindings[i].button = b.button THEN b ELSE bindings[i]]
        /\ taught' = [taught EXCEPT ![b.button] = b.action]
    BY <1>2, Zenon DEF BindButton, Bound
  <2>2. bindings' \in [1..Len(bindings) -> Binding] /\ DOMAIN bindings' = 1..Len(bindings)
    BY <1>1, <2>1
  <2>3. bindings' \in Seq(Binding) /\ Len(bindings') = Len(bindings)
    BY <1>1, <2>2, SeqDef, LenProperties
  <2>4. \A i \in 1..Len(bindings) :
          /\ bindings'[i].button = bindings[i].button
          /\ taught'[bindings'[i].button] = bindings'[i].action
    BY <1>1, <2>1 DEF Binding
  <2>5. TaughtInv'
    <3>1. \A c \in OtherButton : (\A i \in DOMAIN bindings' : bindings'[i].button # c)
                                   => taught'[c] = Untaught
      BY <1>1, <1>2, <2>1, <2>2, <2>4
    <3>2. \A i, j \in DOMAIN bindings' :
            bindings'[i].button = bindings'[j].button => i = j
      BY <1>1, <2>2, <2>4
    <3> QED BY <2>2, <2>4, <3>1, <3>2
  <2> QED BY <1>1, <2>1, <2>3, <2>5
<1>3. CASE ~known /\ Len(bindings) < MaxBindings
  <2>1. /\ bindings' = Append(bindings, b)
        /\ taught' = [taught EXCEPT ![b.button] = b.action]
    BY <1>3, Zenon DEF BindButton, Bound
  <2>2. /\ bindings' \in Seq(Binding) /\ Len(bindings') = Len(bindings) + 1
        /\ \A i \in 1..Len(bindings) : bindings'[i] = bindings[i]
        /\ bindings'[Len(bindings) + 1] = b
    BY <1>1, <2>1, AppendProperties
  <2>3. DOMAIN bindings' = 1..Len(bindings) + 1
    BY <2>2, LenProperties
  <2>4. \A i \in 1..Len(bindings) : bindings[i].button # b.button
    BY <1>1, <1>3
  <2>5. \A i \in DOMAIN bindings' : i \in 1..Len(bindings) \/ i = Len(bindings) + 1
    BY <1>1, <2>3
  <2>6. \A i \in DOMAIN bindings' : taught'[bindings'[i].button] = bindings'[i].action
    <3> SUFFICES ASSUME NEW i \in DOMAIN bindings'
                 PROVE  taught'[bindings'[i].button] = bindings'[i].action
      OBVIOUS
    <3>1. CASE i = Len(bindings) + 1
      BY <1>1, <2>1, <2>2, <3>1
    <3>2. CASE i \in 1..Len(bindings)
      <4>1. bindings[i].button \in OtherButton
        BY <1>1, <3>2 DEF Binding
      <4> QED BY <1>1, <2>1, <2>2, <2>4, <3>2, <4>1
    <3> QED BY <2>5, <3>1, <3>2
  <2>7. \A i, j \in DOMAIN bindings' :
          bindings'[i].button = bindings'[j].button => i = j
    BY <1>1, <2>2, <2>4, <2>5
  <2>8. \A c \in OtherButton : (\A i \in DOMAIN bindings' : bindings'[i].button # c)
                                 => taught'[c] = Untaught
    <3> SUFFICES ASSUME NEW c \in OtherButton,
                        \A i \in DOMAIN bindings' : bindings'[i].button # c
                 PROVE  taught'[c] = Untaught
      OBVIOUS
    <3>1. c # b.button
      <4>1. Len(bindings) + 1 \in DOMAIN bindings'
        BY <1>1, <2>3
      <4> QED BY <2>2, <4>1
    <3>2. \A i \in DOMAIN bindings : bindings[i].button # c
      <4>1. \A i \in 1..Len(bindings) : i \in DOMAIN bindings'
        BY <1>1, <2>3
      <4> QED BY <1>1, <2>2, <4>1
    <3> QED BY <1>1, <2>1, <3>1, <3>2
  <2> QED BY <1>1, <1>3, <2>1, <2>2, <2>6, <2>7, <2>8
<1>4. CASE ~known /\ ~(Len(bindings) < MaxBindings)
  <2>1. bindings' = bindings /\ taught' = taught
    BY <1>4, Zenon DEF BindButton, Bound
  <2> QED BY <1>1, <2>1
<1> QED BY <1>2, <1>3, <1>4

LEMMA DropKeeps ==
  ASSUME TeachingOK, TaughtInv, NEW d \in DOMAIN bindings, DropBinding(d)
  PROVE  /\ bindings' \in Seq(Binding) /\ Len(bindings') <= MaxBindings
         /\ taught' \in [OtherButton -> Action \cup {Untaught}]
         /\ TaughtInv'
<1> DEFINE n == Len(bindings)
           at(j) == IF j < d THEN j ELSE j + 1
<1>1. /\ bindings \in [1..n -> Binding] /\ n \in Nat /\ n <= MaxBindings
      /\ DOMAIN bindings = 1..n /\ d \in 1..n
      /\ taught \in [OtherButton -> Action \cup {Untaught}]
      /\ MaxBindings \in Nat
  BY TeachingAssumption, LenProperties DEF TeachingOK, Binding, TeachingAssumption
<1>2. /\ bindings' = [j \in 1..n - 1 |-> IF j < d THEN bindings[j] ELSE bindings[j + 1]]
      /\ taught' = [taught EXCEPT ![bindings[d].button] = Untaught]
  BY DEF DropBinding
<1> HIDE DEF n
<1>3. \A j \in 1..n - 1 : at(j) \in 1..n /\ at(j) # d /\ bindings'[j] = bindings[at(j)]
  BY <1>1, <1>2
<1>4. bindings' \in [1..n - 1 -> Binding] /\ DOMAIN bindings' = 1..n - 1 /\ n - 1 \in Nat
  BY <1>1, <1>2
<1>5. bindings' \in Seq(Binding) /\ Len(bindings') = n - 1
  BY <1>4, SeqDef, LenProperties
<1>6. taught' \in [OtherButton -> Action \cup {Untaught}]
  BY <1>1, <1>2
<1> USE DEF TaughtInv
<1>7. \A i, j \in DOMAIN bindings' : bindings'[i].button = bindings'[j].button => i = j
  <2> SUFFICES ASSUME NEW i \in 1..n - 1, NEW j \in 1..n - 1,
                      bindings'[i].button = bindings'[j].button
               PROVE  i = j
    BY <1>4
  <2>1. at(i) = at(j)
    BY <1>1, <1>3
  <2> QED BY <1>1, <2>1
<1>8. \A i \in DOMAIN bindings' : taught'[bindings'[i].button] = bindings'[i].action
  <2> SUFFICES ASSUME NEW i \in 1..n - 1
               PROVE  taught'[bindings'[i].button] = bindings'[i].action
    BY <1>4
  <2>1. bindings'[i] = bindings[at(i)] /\ at(i) \in 1..n /\ at(i) # d
    BY <1>3
  <2>2. bindings[at(i)].button # bindings[d].button /\ bindings[at(i)].button \in OtherButton
    BY <1>1, <2>1 DEF Binding
  <2> QED BY <1>1, <1>2, <2>1, <2>2
<1>9. \A c \in OtherButton : (\A i \in DOMAIN bindings' : bindings'[i].button # c)
                               => taught'[c] = Untaught
  <2> SUFFICES ASSUME NEW c \in OtherButton, c # bindings[d].button,
                      \A i \in 1..n - 1 : bindings'[i].button # c
               PROVE  taught'[c] = Untaught
    BY <1>1, <1>2, <1>4
  <2>1. ASSUME NEW i \in 1..n PROVE bindings[i].button # c
    <3>1. CASE i < d
      <4>1. i \in 1..n - 1 /\ bindings'[i] = bindings[i]
        BY <1>1, <1>2, <3>1
      <4> QED BY <4>1
    <3>2. CASE i > d
      <4>1. i - 1 \in 1..n - 1 /\ bindings'[i - 1] = bindings[i]
        BY <1>1, <1>2, <3>2
      <4> QED BY <4>1
    <3>3. CASE i = d
      BY <3>3
    <3> QED BY <1>1, <3>1, <3>2, <3>3
  <2> QED BY <1>1, <1>2, <2>1
<1> QED BY <1>1, <1>5, <1>6, <1>7, <1>8, <1>9

TeachingInv == TeachingOK /\ WizardInv /\ TaughtInv

LEMMA TeachingInvInit == Init => TeachingInv
<1> SUFFICES ASSUME Init PROVE TeachingInv
  OBVIOUS
<1>1. /\ phase = "idle" /\ candidate = NoProtocol
      /\ sweep = << >> /\ targets = << >> /\ reacted = FALSE
      /\ model = NoModel /\ codes = {} /\ torn = {} /\ bindings = << >>
      /\ taught = [b \in OtherButton |-> Untaught]
      /\ unit \in BOOLEAN /\ dialect \in Protocol
  BY DEF Init, TeachingInit
<1>2. MaxBindings \in Nat
  BY TeachingAssumption DEF TeachingAssumption
<1>3. TeachingOK
  <2>1. model \in [protocol : Protocol, learned : BOOLEAN]
    BY <1>1 DEF Protocol, NoModel
  <2>2. taught \in [OtherButton -> Action \cup {Untaught}]
    BY <1>1
  <2>3. phase \in Phase /\ candidate \in Protocol /\ reacted \in BOOLEAN /\ codes \subseteq Key
        /\ torn \subseteq codes
    BY <1>1 DEF Phase, Protocol
  <2>4. sweep \in Seq(Supported) /\ targets \in Seq(Key)
    BY <1>1, EmptySeq
  <2>5. bindings \in Seq([button : OtherButton, action : Action])
    BY <1>1, EmptySeq
  <2>6. Len(bindings) <= MaxBindings
    <3>1. Len(bindings) = 0
      BY <1>1
    <3> QED BY <1>2, <3>1
  <2> QED BY <1>1, <2>1, <2>2, <2>3, <2>4, <2>5, <2>6, WizardTypes
<1>4. TaughtInv
  BY <1>1, EmptySeq DEF TaughtInv
<1> QED BY <1>1, <1>3, <1>4 DEF TeachingInv, WizardInv

\* Nothing but the lists of bindings and of what was taught matters to TaughtInv.
LEMMA TaughtUnchanged ==
  ASSUME TaughtInv, UNCHANGED <<bindings, taught>>
  PROVE  TaughtInv'
BY DEF TaughtInv

LEMMA TeachingInvStep == TeachingInv /\ [Next]_vars => TeachingInv'
<1> SUFFICES ASSUME TeachingInv, [Next]_vars PROVE TeachingInv'
  OBVIOUS
<1>0. WizardOK
  BY DEF WizardOK, TeachingInv
<1>1. ASSUME LearnStart PROVE TeachingInv'
  <2>1. UNCHANGED <<bindings, taught>>
    BY <1>1 DEF LearnStart, StartIdentify, StartSweep, StartBind, StartRecord,
                StartRecordKeys
  <2> QED BY <1>0, <1>1, <2>1, StartKeeps, TaughtUnchanged DEF WizardOK, TeachingInv
<1>2. ASSUME Cancel PROVE TeachingInv'
  <2>1. /\ phase' = "idle" /\ sweep' = << >> /\ targets' = << >>
        /\ UNCHANGED <<candidate, reacted, model, codes, torn, bindings, taught, unit, dialect>>
    BY <1>2 DEF Cancel
  <2>2. TeachingOK' /\ WizardInv'
    BY <1>0, <2>1, EmptySeq DEF WizardOK, WizardInv, TeachingOK, Phase
  <2> QED BY <2>1, <2>2, TaughtUnchanged DEF TeachingInv
<1>3. ASSUME Timeout PROVE TeachingInv'
  <2>1. /\ phase' = "failed"
        /\ UNCHANGED <<candidate, sweep, targets, reacted, model, codes, torn,
                       bindings, taught, unit, dialect>>
    BY <1>3 DEF Timeout, Finish
  <2>2. TeachingOK' /\ WizardInv'
    BY <1>0, <2>1 DEF WizardOK, WizardInv, TeachingOK, Phase
  <2> QED BY <2>1, <2>2, TaughtUnchanged DEF TeachingInv
<1>4. ASSUME Confirm \/ Skip PROVE TeachingInv'
  <2>1. UNCHANGED <<bindings, taught>>
    BY <1>4 DEF Confirm, Skip
  <2>2. reacted \in BOOLEAN
    BY WizardTypes DEF TeachingInv
  <2>3. ASSUME ConfirmHeard(reacted),
               UNCHANGED <<candidate, targets, codes, torn, bindings, taught, dialect>>
        PROVE  WizardOK'
    <3>1. /\ phase' \in {"done", "failed"} /\ UNCHANGED <<reacted, unit, sweep>>
          /\ model' = model \/ model' = [protocol |-> candidate, learned |-> FALSE]
      BY <2>3 DEF ConfirmHeard, Finish, AdoptProtocol, NoProbe
    <3>2. model' \in [protocol : Protocol, learned : BOOLEAN]
      <4>1. candidate \in Protocol /\ model \in [protocol : Protocol, learned : BOOLEAN]
        BY <1>0 DEF WizardOK, TeachingOK
      <4>2. [protocol |-> candidate, learned |-> FALSE]
              \in [protocol : Protocol, learned : BOOLEAN]
        BY <4>1
      <4> QED BY <3>1, <4>1, <4>2
    <3> QED BY <1>0, <2>3, <3>1, <3>2, WizardTypes
            DEF WizardOK, WizardInv, TeachingOK, Phase
  <2>4. ASSUME phase = "record" /\ AdvanceTarget, NoProbe,
               UNCHANGED <<candidate, sweep, codes, torn, bindings, taught, dialect>>
        PROVE  WizardOK'
    <3>1. codes' \subseteq Key /\ torn' \subseteq codes' /\ unit' \in BOOLEAN
          /\ reacted' = reacted
      BY <2>4, WizardTypes DEF NoProbe, TeachingInv
    <3> QED BY <1>0, <2>4, <3>1, AdvanceKeeps
  <2>5. WizardOK'
    BY <1>0, <1>4, <2>2, <2>3, <2>4, SweepKeeps DEF Confirm, Skip
  <2> QED BY <2>1, <2>5, TaughtUnchanged DEF TeachingInv, WizardOK
<1>5. ASSUME model' \in [protocol : Protocol, learned : BOOLEAN], codes' \subseteq Key,
             torn' \subseteq codes',
             UNCHANGED <<phase, candidate, sweep, targets, reacted, bindings, taught,
                         unit, dialect>>
      PROVE  TeachingInv'
  <2>1. TeachingOK' /\ WizardInv'
    BY <1>0, <1>5 DEF WizardOK, WizardInv, TeachingOK
  <2> QED BY <1>5, <2>1, TaughtUnchanged DEF TeachingInv
<1>6. /\ codes \subseteq Key /\ torn \subseteq codes /\ model \in [protocol : Protocol, learned : BOOLEAN]
      /\ PutKeys \subseteq Key /\ NoModel \in [protocol : Protocol, learned : BOOLEAN]
  BY ClientAssumption DEF ClientAssumption, TeachingInv, TeachingOK, NoModel, Protocol
<1>7. ASSUME NEW key \in PutKeys, PutCode(key) PROVE TeachingInv'
  BY <1>5, <1>6, <1>7 DEF PutCode, Stored
<1>8. ASSUME NEW gone, DropCodes(gone) PROVE TeachingInv'
  BY <1>5, <1>6, <1>8 DEF DropCodes
<1>9. CASE ForgetTaught(mounted)
  BY <1>5, <1>6, <1>9 DEF ForgetTaught
<1>10. ASSUME NEW on \in BOOLEAN, PressOwn(on) PROVE TeachingInv'
  BY <1>0, <1>10, PressKeeps, TaughtUnchanged DEF TeachingInv, WizardOK
<1>11. ASSUME \/ \E b \in OtherButton, a \in Action : BindButton([button |-> b, action |-> a])
              \/ \E i \in DOMAIN bindings : DropBinding(i)
       PROVE  TeachingInv'
  <2>1. \A b \in OtherButton, a \in Action : [button |-> b, action |-> a] \in Binding
    BY DEF Binding
  <2>2. /\ bindings' \in Seq(Binding) /\ Len(bindings') <= MaxBindings
        /\ taught' \in [OtherButton -> Action \cup {Untaught}]
        /\ TaughtInv'
    BY <1>11, <2>1, BindKeeps, DropKeeps DEF TeachingInv
  <2>3. /\ UNCHANGED <<candidate, sweep, targets, reacted, model, codes, torn, unit, dialect>>
        /\ phase' = phase \/ phase' = "done" \/ phase' = "failed"
    BY <1>11 DEF BindButton, DropBinding, Finish
  <2>4. TeachingOK' /\ WizardInv'
    BY <1>0, <2>2, <2>3 DEF WizardOK, WizardInv, TeachingOK, Binding, Phase
  <2> QED BY <2>2, <2>4 DEF TeachingInv
<1>12. CASE BootWizard /\ (KeepTaught \/ LoseTaught)
  <2>1. /\ phase' = "idle" /\ candidate' = NoProtocol
        /\ sweep' = << >> /\ targets' = << >>
        /\ UNCHANGED <<reacted, unit, dialect>>
    BY <1>12 DEF BootWizard
  <2>2. CASE KeepTaught
    <3>1. UNCHANGED <<model, codes, torn, bindings, taught>>
      BY <2>2 DEF KeepTaught
    <3>2. TeachingOK' /\ WizardInv'
      BY <1>0, <2>1, <3>1, EmptySeq DEF WizardOK, WizardInv, TeachingOK, Phase, Protocol
    <3> QED BY <3>1, <3>2, TaughtUnchanged DEF TeachingInv
  <2>3. CASE LoseTaught
    <3>1. /\ model' = NoModel /\ codes' = {} /\ torn' = {}
          /\ bindings' = << >> /\ taught' = [b \in OtherButton |-> Untaught]
      BY <2>3 DEF LoseTaught
    <3>2. /\ bindings' \in Seq([button : OtherButton, action : Action])
          /\ Len(bindings') <= MaxBindings
          /\ taught' \in [OtherButton -> Action \cup {Untaught}]
      <4>1. MaxBindings \in Nat /\ Len(bindings') = 0
        BY <3>1, TeachingAssumption DEF TeachingAssumption
      <4> QED BY <3>1, <4>1, EmptySeq
    <3>3. TaughtInv'
      BY <3>1, EmptySeq DEF TaughtInv
    <3>4. TeachingOK' /\ WizardInv'
      BY <1>0, <1>6, <2>1, <3>1, <3>2, EmptySeq
         DEF WizardOK, WizardInv, TeachingOK, Phase, Protocol
    <3> QED BY <3>3, <3>4 DEF TeachingInv
  <2> QED BY <1>12, <2>2, <2>3
<1>13. CASE UNCHANGED teaching
  BY <1>13 DEF teaching, TeachingInv, TeachingOK, WizardInv, TaughtInv
<1> QED BY <1>1, <1>2, <1>3, <1>4, <1>7, <1>8, <1>9, <1>10, <1>11, <1>12, <1>13,
           TeachingSteps DEF TeachingStep, TeachingNext

LEMMA TeachingInvariant == Spec => []TeachingInv
BY TeachingInvInit, TeachingInvStep, PTL DEF Spec

\* The nearest names are of least distance, and there is always a least.
LEMMA ReplaysNearest == TeachingOK => NearestReplayed
<1> SUFFICES ASSUME TeachingOK PROVE NearestReplayed
  OBVIOUS
<1>1. Resolve(Off) \subseteq Playable \cap {Off}
  BY DEF Resolve
<1> DEFINE known == codes \cap OnKey
           near(state) == {k \in known : \A j \in known :
                             Distance(k.temp, state.temp) <= Distance(j.temp, state.temp)}
<1>2. ASSUME NEW a \in OnKey, NEW b \in OnKey
      PROVE  Distance(a.temp, b.temp) \in Nat /\ (a.temp = b.temp => Distance(a.temp, b.temp) = 0)
  <2>1. a.temp \in Nat /\ b.temp \in Nat
    BY TeachingAssumption DEF TeachingAssumption, OnKey
  <2> QED BY <2>1 DEF Distance
<1>3. ASSUME NEW state \in OnKey, known # {}
      PROVE  near(state) # {}
  <2> DEFINE all == {Distance(k.temp, state.temp) : k \in known}
  <2>1. all \in SUBSET Nat /\ all # {}
    BY <1>2, <1>3
  <2>2. PICK m \in all : \A d \in all : m <= d
    BY <2>1, LeastNumber
  <2>3. PICK k \in known : m = Distance(k.temp, state.temp)
    BY <2>2
  <2>4. k \in near(state)
    BY <2>2, <2>3
  <2> QED BY <2>4
<1> DEFINE loads == Playable \cap OnKey
<1>4. Playable \subseteq codes /\ loads \subseteq known /\ known \ torn = loads
  BY DEF Playable
<1>5. ASSUME NEW state \in OnKey
      PROVE  /\ Resolve(state) \subseteq known
             /\ loads # {} => Resolve(state) # {}
             /\ \A k \in Resolve(state), j \in loads :
                  Distance(k.temp, state.temp) <= Distance(j.temp, state.temp)
             /\ (\E j \in loads :
                   \/ Distance(j.temp, state.temp) = 0
                   \/ \A t \in torn \cap OnKey :
                        Distance(j.temp, state.temp) < Distance(t.temp, state.temp))
                => Resolve(state) \subseteq Playable
  <2> DEFINE same == {k \in known \ torn : k.temp = state.temp}
             far(k) == Distance(k.temp, state.temp)
  <2>0. \A k \in known : far(k) \in Nat
    BY <1>2
  <2>1. CASE state \in Playable
    <3>1. Resolve(state) = {state}
      BY <2>1 DEF Resolve
    <3>2. far(state) = 0
      BY <1>2
    <3>3. \A j \in known : far(state) <= far(j)
      BY <2>0, <3>2
    <3> HIDE DEF far
    <3> QED BY <1>4, <2>1, <3>1, <3>3 DEF far
  <2>2. state # Off
    BY OffAssumption DEF OffAssumption
  <2>3. CASE state \notin Playable /\ same # {}
    <3>1. Resolve(state) = same
      BY <2>2, <2>3 DEF Resolve
    <3>2. \A k \in same : k \in loads /\ far(k) = 0
      BY <1>2, <1>4
    <3>3. \A k \in same, j \in loads : far(k) <= far(j)
      BY <1>4, <2>0, <3>2
    <3> HIDE DEF same
    <3> QED BY <1>4, <2>3, <3>1, <3>2, <3>3
  <2>4. CASE state \notin Playable /\ same = {}
    <3>1. Resolve(state) = near(state)
      BY <2>2, <2>4 DEF Resolve
    <3>2. loads # {} => near(state) # {}
      BY <1>3, <1>4
    <3>3. \A k \in near(state), j \in known : far(k) <= far(j)
      OBVIOUS
    <3>4. ASSUME NEW j \in loads, far(j) = 0
          PROVE  FALSE
      <4>1. j \in known \ torn /\ j.temp \in Nat /\ state.temp \in Nat
        BY <1>4, <3>4, TeachingAssumption DEF TeachingAssumption, OnKey
      <4>2. j.temp = state.temp
        BY <3>4, <4>1 DEF Distance
      <4> QED BY <2>4, <4>1, <4>2
    <3>5. ASSUME NEW j \in loads, \A t \in torn \cap OnKey : far(j) < far(t)
          PROVE  near(state) \subseteq Playable
      <4>1. SUFFICES ASSUME NEW k \in near(state), k \in torn PROVE FALSE
        BY DEF Playable
      <4>2. k \in known /\ j \in known /\ far(k) <= far(j) /\ far(j) < far(k)
        BY <1>4, <3>3, <3>5, <4>1
      <4> QED BY <2>0, <4>2
    <3> HIDE DEF near
    <3>6. near(state) \subseteq known
      BY DEF near
    <3> QED BY <1>4, <3>1, <3>2, <3>3, <3>4, <3>5, <3>6
  <2> QED BY <2>1, <2>3, <2>4
<1>6. Resolve(Off) \subseteq Playable \cap {Off}
  BY <1>1
<1> QED BY <1>5, <1>6 DEF NearestReplayed

LEMMA FindsTaught == TeachingOK /\ TaughtInv => DoesWhatWasTaught
<1> SUFFICES ASSUME TeachingOK, TaughtInv, NEW b \in OtherButton
             PROVE  Found(b) = taught[b]
  BY DEF DoesWhatWasTaught
<1> DEFINE at == {i \in DOMAIN bindings : bindings[i].button = b}
<1>1. CASE at = {}
  BY <1>1 DEF Found, TaughtInv
<1>2. CASE at # {}
  <2>1. PICK i \in at : TRUE
    BY <1>2
  <2>2. at = {i}
    BY <2>1 DEF TaughtInv
  <2>3. i \in Int
    BY <2>1, LenProperties DEF TeachingOK
  <2>4. (CHOOSE k \in at : \A j \in at : k <= j) = i
    BY <2>2, <2>3
  <2>5. Found(b) = bindings[i].action
    BY <1>2, <2>4 DEF Found
  <2> QED BY <2>1, <2>5 DEF TaughtInv
<1> QED BY <1>1, <1>2

\* No recording is replayed while a nearer one loads, none is missed but for a
\* torn file as near, and a button does what it was last taught
\* (CodeStore::resolve and store, RemoteMap::bind, find and remove), for any remote.
THEOREM RecallsWhatWasTaught == Spec => []Recalls
<1>1. TeachingInv => Recalls
  BY ReplaysNearest, FindsTaught DEF TeachingInv, Recalls
<1> QED BY TeachingInvariant, <1>1, PTL

\* What the wizard adopts made the unit react (Wizard::confirm, skip and the
\* probes of onCapture and startSweep), for any set of protocols.
THEOREM AdoptsWhatWorks == Spec => AdoptedWorks
<1> DEFINE A == phase' = "done" /\ phase \in {"confirm", "sweep"}
                  => model'.protocol = dialect /\ ~model'.learned
<1>1. TeachingInv /\ [Next]_vars => [A]_teaching
  <2> SUFFICES ASSUME TeachingInv, [Next]_vars, teaching' # teaching,
                      phase' = "done", phase \in {"confirm", "sweep"}
               PROVE  model'.protocol = dialect /\ ~model'.learned
    OBVIOUS
  <2>1. ASSUME ConfirmSweep(reacted) PROVE model'.protocol = dialect /\ ~model'.learned
    <3>1. reacted
      BY <2>1 DEF ConfirmSweep, Finish, Probe
    <3>2. model' = [protocol |-> sweep[1], learned |-> FALSE]
      BY <2>1, <3>1 DEF ConfirmSweep, AdoptProtocol
    <3>3. sweep[1] = dialect
      BY <2>1, <3>1 DEF TeachingInv, WizardInv, ConfirmSweep
    <3> QED BY <3>2, <3>3
  <2>2. ASSUME ConfirmHeard(reacted) PROVE model'.protocol = dialect /\ ~model'.learned
    <3>1. reacted /\ candidate \in Supported
      BY <2>2 DEF ConfirmHeard, Finish
    <3>2. model' = [protocol |-> candidate, learned |-> FALSE]
      BY <2>2, <3>1 DEF ConfirmHeard, AdoptProtocol
    <3>3. candidate = dialect
      BY <2>2, <3>1 DEF TeachingInv, WizardInv, ConfirmHeard
    <3> QED BY <3>2, <3>3
  <2>3. ~Skip
    BY DEF Skip, ConfirmSweep, Finish
  <2>4. ~LearnStart /\ ~Cancel /\ ~Timeout /\ ~BootWizard
    BY DEF LearnStart, StartIdentify, StartSweep, StartBind, StartRecord, StartRecordKeys,
           Cancel, Timeout, Finish, BootWizard
  <2>5. \A on \in BOOLEAN : ~PressOwn(on)
    BY DEF PressOwn, Identified, Recorded, Finish
  <2>6. \A b : ~BindButton(b)
    BY DEF BindButton
  <2>7. phase' # phase
    OBVIOUS
  <2> QED BY <2>1, <2>2, <2>3, <2>4, <2>5, <2>6, <2>7, TeachingSteps
          DEF TeachingStep, TeachingNext, Confirm, PutCode, DropCodes, DropBinding,
              ForgetTaught
<1> HIDE DEF A
<1>2. Spec => [][A]_teaching
  BY TeachingInvariant, <1>1, PTL DEF Spec
<1> QED BY <1>2 DEF A, AdoptedWorks

----------------------------------------------------------------------------
\* Every variable holds what its comment says, through every visit and start.
THEOREM UpkeepTypeCorrect == Spec => []TypeOK
<1> DEFINE I == SettingsInv /\ WifiOK /\ OtaOK /\ ButtonInv /\ TeachingInv
<1>1. Init => I
  <2> SUFFICES ASSUME Init PROVE I
    OBVIOUS
  <2>1. WifiOK
    BY DEF Init, WifiOK, WifiState
  <2>2. ButtonInv
    BY ClickAssumption DEF Init, ButtonInv, ButtonOK, Press, ClickAssumption
  <2> QED BY <2>1, <2>2, SettingsInvInit, OtaInit, TeachingInvInit
<1>2. I /\ [Next]_vars => I'
  BY SettingsInvStep, WifiStep, OtaOKStep, ButtonStep, TeachingInvStep
<1>3. I => TypeOK
  BY DEF TypeOK, SettingsInv, ButtonInv, TeachingInv
<1> HIDE DEF I
<1> QED BY <1>1, <1>2, <1>3, PTL DEF Spec
=============================================================================
