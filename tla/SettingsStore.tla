---------------------------- MODULE SettingsStore ----------------------------
(***************************************************************************)
(* The preferences file: Load and Save of internal/settings/settings.go,   *)
(* and the settings in memory (internal/gui/app_settings_windows.go).  A   *)
(* document is staged beside the file, written, closed and renamed over    *)
(* it, without a sync; every step may fail.  Load takes anything that is   *)
(* not a document of this schema for the defaults.  A user without a       *)
(* profile directory, for whom nothing is ever stored, is left out.        *)
(***************************************************************************)
EXTENDS Naturals

CONSTANTS
  Folders, NoFolder,
  Placements,    \* window bounds that Valid accepts
  NoPlacement,   \* a nil *WindowPlacement
  Implausible    \* window bounds that it refuses

ASSUME SettingsAssumption ==
  /\ NoFolder \notin Folders
  /\ NoPlacement \notin Placements /\ Implausible \notin Placements
  /\ NoPlacement # Implausible

\* What a settings file holds: "torn" is a part of a document, "foreign" one of
\* another schema, too large or damaged.
Kinds == {"absent", "document", "torn", "foreign"}

Settings == [folder : Folders \cup {NoFolder},
             window : Placements \cup {NoPlacement, Implausible}]

Defaults == [folder |-> NoFolder, window |-> NoPlacement]

\* A file that is not a document has nothing to say; what was there before the
\* first session is durable.
Contents == [kind : Kinds, settings : Settings, durable : BOOLEAN]
Content(kind) == [kind |-> kind, settings |-> Defaults, durable |-> FALSE]
Document(s) == [kind |-> "document", settings |-> s, durable |-> FALSE]
Durable(s) == [Document(s) EXCEPT !.durable = TRUE]

VARIABLES
  disk,        \* settings.json
  temp,        \* the staging file of the Save at work
  settings,    \* windowsApp.settings
  step,        \* of persistSettings; "none" before it, "saved", "failed" after
  leftover,    \* a staging file that nobody will remove
  lastSaved    \* what the last Save that succeeded was given

storeVars == <<disk, temp, settings, step, leftover, lastSaved>>

Saving == {"create", "write", "close", "rename", "remove"}

\* Load: a placement that is not plausible is dropped.
Loaded ==
  LET read == disk.settings IN
  IF disk.kind # "document" THEN Defaults
  ELSE [read EXCEPT !.window = IF @ = Implausible THEN NoPlacement ELSE @]

\* There is no file yet, or one with a placement that Load drops; the files that
\* a Save or another program leaves come later.
StoreInit ==
  /\ disk \in {Content("absent"), Durable([folder |-> NoFolder, window |-> Implausible])}
  /\ temp = Content("absent")
  /\ settings = Loaded
  /\ step = "none"
  /\ leftover = FALSE
  /\ lastSaved = disk.settings

\* selectFolder remembers the folder it has accepted.
RememberFolder(f) ==
  /\ settings' = [settings EXCEPT !.folder = f]
  /\ UNCHANGED <<disk, temp, step, leftover, lastSaved>>

-----------------------------------------------------------------------------
(* persistSettings and Save.                                               *)

\* The bounds are those the main window has at this moment.
PersistSettings ==
  /\ \E bounds \in Placements \cup {Implausible} :
       settings' = [settings EXCEPT !.window = IF bounds = Implausible THEN @ ELSE bounds]
  /\ step' = "create"
  /\ UNCHANGED <<disk, temp, leftover, lastSaved>>

StagingCreated ==
  /\ step = "create"
  /\ temp' = Content("torn")
  /\ step' = "write"
  /\ UNCHANGED <<disk, settings, leftover, lastSaved>>

StagingWritten ==
  /\ step = "write"
  /\ temp' = Document(settings)
  /\ step' = "close"
  /\ UNCHANGED <<disk, settings, leftover, lastSaved>>

\* Mutant: the document is written to the file itself, which is opened first.
OpenedInPlace ==
  /\ step = "close"
  /\ disk' = Content("torn")
  /\ step' = "rename"
  /\ UNCHANGED <<temp, settings, leftover, lastSaved>>

StagingClosed ==
  /\ step = "close"
  /\ step' = "rename"
  /\ UNCHANGED <<disk, temp, settings, leftover, lastSaved>>

StagingRenamed ==
  /\ step = "rename"
  /\ disk' = temp
  /\ temp' = Content("absent")
  /\ lastSaved' = settings
  /\ step' = "saved"
  /\ UNCHANGED <<settings, leftover>>

SaveFails ==
  /\ step \in Saving \ {"remove"}
  /\ step' = IF step = "create" THEN "failed" ELSE "remove"
  /\ UNCHANGED <<disk, temp, settings, leftover, lastSaved>>

\* An error of the Remove is ignored.
StagingRemoved ==
  /\ step = "remove"
  /\ temp' = Content("absent")
  /\ leftover' \in {leftover, TRUE}
  /\ step' = "failed"
  /\ UNCHANGED <<disk, settings, lastSaved>>

Save ==
  \/ StagingCreated \/ StagingWritten \/ StagingClosed \/ StagingRenamed
  \/ SaveFails \/ StagingRemoved

-----------------------------------------------------------------------------
(* The world outside.                                                      *)

\* Another instance of the program saves, or the user touches the file.
OtherWriter(content) ==
  /\ disk' = content
  /\ UNCHANGED <<temp, settings, step, leftover, lastSaved>>

\* The process ends without a Save, or in one: the staging file stays.
StoreStops ==
  /\ step' = "none"
  /\ temp' = Content("absent")
  /\ leftover' = (leftover \/ temp.kind # "absent")
  /\ UNCHANGED <<settings, lastSaved>>

\* Without power a document renamed without a sync may be lost in part; if the
\* system has written its buffers by then, nothing is.
StoreSurvivors ==
  IF disk.kind = "document" /\ ~disk.durable THEN {disk, Content("torn")} ELSE {disk}

\* The program starts again; a placement off the screen is not applied.
StoreStarts ==
  /\ settings' = Loaded
  /\ step' = "none"
  /\ UNCHANGED <<disk, temp, leftover, lastSaved>>

StoreTypeOK ==
  /\ disk \in Contents /\ temp \in Contents
  /\ settings \in Settings /\ settings.window # Implausible
  /\ step \in Saving \cup {"none", "saved", "failed"}
  /\ leftover \in BOOLEAN
  /\ lastSaved \in Settings
=============================================================================
