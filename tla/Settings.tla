------------------------------ MODULE Settings ------------------------------
(***************************************************************************)
(* core/Settings.cpp and the handlers that change it: the settings in      *)
(* force, a document merged over them field by field, and the file that    *)
(* must bring them back.                                                   *)
(*                                                                         *)
(* A section of the document is one value: as the factory left it, set by  *)
(* the user, or "bad", a combination that its check refuses (access        *)
(* control without a password, MQTT without a broker).  A document may     *)
(* also carry "hidden", the mask the device shows instead of a password.   *)
(***************************************************************************)
EXTENDS Naturals

CONSTANTS
  Section,     \* the sections of a document
  Rank,        \* the order in which fromJson reads them
  Checked,     \* those it may refuse
  Secret,      \* those that hold a password
  Posted,      \* the documents that clients send
  Missing,     \* no file
  Partial      \* a file cut off while it was written

ASSUME SectionAssumption ==
  /\ Rank \in [Section -> Nat]
  /\ Missing \notin [Section -> {"default", "set", "bad"}]
  /\ Partial \notin [Section -> {"default", "set", "bad"}]
  /\ Posted \subseteq UNION {[S -> {"default", "set", "bad", "hidden"}] :
                            S \in SUBSET Section}
  /\ Checked \subseteq Section /\ Secret \subseteq Section

VARIABLES
  ram,        \* cfg::settings
  live,       \* /config.json: a configuration, Partial, or Missing
  tmp,        \* /config.tmp: likewise
  dirty,      \* dirty_
  mounted,    \* whether LittleFS is
  promised,   \* history: the settings the device last said it had saved
  refused     \* history: a document was refused never, before the last save
              \* or start, or since ("pending": its first half is in force)

settings == <<ram, live, tmp, dirty, mounted, promised, refused>>

Value == {"default", "set", "bad"}
Config == [Section -> Value]

SettingsOK ==
  /\ ram \in Config /\ promised \in Config
  /\ live \in Config \cup {Missing, Partial}
  /\ tmp \in Config \cup {Missing, Partial}
  /\ {dirty, mounted} \subseteq BOOLEAN
  /\ refused \in {"never", "before", "pending"}

----------------------------------------------------------------------------
(* Documents.                                                              *)

\* applyDefaults, which leaves out the section of the compatibility endpoints:
\* that is not among the sections here.
Defaults == [s \in Section |-> "default"]

\* toJson without the secrets: what the page shows, and a backup is.
Shown(c) ==
  [s \in Section |->
     IF s \in Secret /\ c[s] = "set" THEN "hidden" ELSE c[s]]

\* Mutant: the mask is a password like any other.
ReadMask(old, new) == IF new # "hidden" THEN new ELSE "bad"

\* readSecret: the mask leaves the password that is there; with none, the
\* section has the user's other fields and no password.
Read(old, new) ==
  IF new # "hidden" THEN new ELSE IF old = "default" THEN "bad" ELSE old

\* The checks fromJson stops at.
Stops(c, doc) == {s \in DOMAIN doc \cap Checked : Read(c[s], doc[s]) = "bad"}

\* Mutant: the checks are left to the pages.
AcceptedAlways(c, doc) == TRUE

Accepted(c, doc) == Stops(c, doc) = {}

\* fromJson writes as it reads: up to and including the section it refuses.
Merge(c, doc) ==
  [s \in Section |->
     IF s \in DOMAIN doc /\ \A b \in Stops(c, doc) : Rank[s] <= Rank[b]
     THEN Read(c[s], doc[s]) ELSE c[s]]

\* load: no file, or one that cannot be parsed, leaves the defaults; one that
\* is refused half-way leaves the half read before.
Loaded(file) == IF file \in Config THEN Merge(Defaults, file) ELSE Defaults

\* What is left of a refused document once the settings are saved or reloaded.
Settled == IF refused = "pending" THEN "before" ELSE refused

----------------------------------------------------------------------------
(* The files.                                                              *)

\* save of c: written beside the live file, which is then removed and
\* replaced.  With no file system it fails, and nothing is changed.
Save(c) ==
  IF mounted
  THEN /\ live' = c /\ tmp' = Missing
       /\ dirty' = FALSE /\ promised' = c /\ refused' = Settled
  ELSE UNCHANGED <<live, tmp, dirty, promised, refused>>

\* Mutant: the live file itself is opened for writing.
CutInPlace(c) ==
  /\ live' \in {Partial, c} /\ tmp' = Missing
  /\ promised' = IF live' = c THEN c ELSE promised

\* The power fails during save of c: while the temporary file is written, once
\* it is, once the live file is removed, or once it is replaced.
CutSaving(c) ==
  \/ tmp' = Partial /\ UNCHANGED <<live, promised>>
  \/ tmp' = c /\ UNCHANGED <<live, promised>>
  \/ tmp' = c /\ live' = Missing /\ promised' = c
  \/ tmp' = Missing /\ live' = c /\ promised' = c

\* begin: mount, take the defaults, load.
BootSettings(file) ==
  /\ ram' = Loaded(file)
  /\ dirty' = FALSE /\ mounted' = TRUE /\ refused' = Settled

----------------------------------------------------------------------------
(* What changes the settings.                                              *)

\* handleConfigSet: saved whether or not save succeeds; refused, what was read
\* stays in force and is not saved.
ConfigSet(doc) ==
  /\ ram' = Merge(ram, doc)
  /\ IF Accepted(ram, doc)
     THEN Save(ram')
     ELSE refused' = "pending" /\ UNCHANGED <<live, tmp, dirty, promised>>
  /\ UNCHANGED mounted

\* Mutant: the change is not marked.
TouchUnmarked(s, v) ==
  /\ ram[s] # v
  /\ ram' = [ram EXCEPT ![s] = v]
  /\ UNCHANGED <<dirty, live, tmp, mounted, promised, refused>>

\* touch: the wizard, the bot or a handler changes a section of its own and
\* leaves the saving to the loop.
Touch(s, v) ==
  /\ ram[s] # v
  /\ ram' = [ram EXCEPT ![s] = v]
  /\ dirty' = TRUE
  /\ UNCHANGED <<live, tmp, mounted, promised, refused>>

\* loop: once nothing was touched for kSaveDebounceMs; a save that fails is
\* tried again on the next turn.
SaveDirty == dirty /\ Save(ram) /\ UNCHANGED <<ram, mounted>>

\* factoryReset: with no file system the removals fail.
FactoryReset ==
  /\ ram' = Defaults
  /\ IF mounted THEN live' = Missing /\ promised' = Defaults
                ELSE UNCHANGED <<live, promised>>
  /\ dirty' = FALSE /\ refused' = Settled
  /\ UNCHANGED <<tmp, mounted>>

=============================================================================
