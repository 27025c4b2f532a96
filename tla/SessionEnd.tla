----------------------------- MODULE SessionEnd -----------------------------
(***************************************************************************)
(* The end of a session, in which the report export of module ReportExport *)
(* and the preferences file of module SettingsStore meet: handleWindow-    *)
(* Closing of internal/gui/app_windows.go lets a running export end before *)
(* it saves the settings and grants the close.  The process or the machine *)
(* may stop at every step, and the program is started again.               *)
(***************************************************************************)
EXTENDS ReportExport, SettingsStore

CONSTANT MaxStarts   \* bound on the times the program is started

ASSUME SessionAssumption == MaxStarts \in Nat \ {0}

VARIABLES
  session,       \* "running", "closing" (deferred), "saving", "exited",
                 \* "crashed"
  starts,
  touched,       \* somebody else has written the settings file
  powerFailed

sessionVars == <<session, starts, touched, powerFailed>>
allVars == <<vars, storeVars, sessionVars>>

SessionInit ==
  /\ Init
  /\ StoreInit
  /\ session = "running"
  /\ starts = 1
  /\ touched = FALSE
  /\ powerFailed = FALSE

-----------------------------------------------------------------------------
(* The running session.                                                    *)

\* The user's part of the export needs a window that is not closing.
ExportDialogs ==
  /\ session = "running"
  /\ Declined \/ DestinationChosen \/ OverwriteConfirmed \/ Cancel
  /\ UNCHANGED <<storeVars, sessionVars>>

ExportWorks ==
  /\ session \in {"running", "closing"}
  /\ Worker
  /\ UNCHANGED <<storeVars, sessionVars>>

\* The folder can be changed in the idle phases only.
FolderSelected(f) ==
  /\ session = "running"
  /\ pc \notin Working
  /\ RememberFolder(f)
  /\ UNCHANGED <<vars, sessionVars>>

-----------------------------------------------------------------------------
(* The close.                                                              *)

\* requestClose defers the close and cancels the export.
CloseDeferred ==
  /\ session = "running"
  /\ pc \in Working
  /\ cancelled' = TRUE
  /\ session' = "closing"
  /\ UNCHANGED <<files, staging, stuck, final, agreed, pc, encoded, outcome, changes,
                 storeVars, starts, touched, powerFailed>>

\* Mutant: a close during an export is granted at once, like that during a scan.
CloseGrantedAnyway ==
  /\ session = "running" /\ step = "none"
  /\ PersistSettings
  /\ session' = "saving"
  /\ UNCHANGED <<vars, starts, touched, powerFailed>>

\* The close is granted at once, or by the completion of the export.
CloseGranted ==
  /\ \/ session = "running" /\ pc \notin Working
     \/ session = "closing" /\ pc = "returned"
  /\ PersistSettings
  /\ session' = "saving"
  /\ UNCHANGED <<vars, starts, touched, powerFailed>>

SaveStep ==
  /\ session = "saving"
  /\ Save
  /\ UNCHANGED <<vars, sessionVars>>

\* The handler returns whether or not the settings are saved; dialogs that were
\* still up go with the window.
Exit ==
  /\ session = "saving"
  /\ step \in {"saved", "failed"}
  /\ session' = "exited"
  /\ UNCHANGED <<vars, storeVars, starts, touched, powerFailed>>

-----------------------------------------------------------------------------
(* Faults, other programs, and the next session.                           *)

Alive == session \in {"running", "closing", "saving"}

\* The export stops with the process, unless an earlier crash has ended it.
ExportStops == IF pc = "off" THEN UNCHANGED vars ELSE Crash

\* The process is killed: every write that was made is kept.
ProcessCrash ==
  /\ Alive
  /\ ExportStops /\ files' = files /\ staging' = staging
  /\ StoreStops /\ disk' = disk
  /\ session' = "crashed"
  /\ UNCHANGED <<starts, touched, powerFailed>>

PowerFailure ==
  /\ Alive
  /\ ExportStops
  /\ StoreStops /\ disk' \in StoreSurvivors
  /\ session' = "crashed"
  /\ powerFailed' = TRUE
  /\ UNCHANGED <<starts, touched>>

SettingsTouched(content) ==
  /\ changes < MaxChanges
  /\ changes' = changes + 1
  /\ OtherWriter(content)
  /\ touched' = TRUE
  /\ UNCHANGED <<files, staging, stuck, final, agreed, pc, encoded, cancelled, outcome,
                 session, starts, powerFailed>>

DestinationTouched(p, kind) ==
  /\ OtherProgram(p, kind)
  /\ UNCHANGED <<storeVars, sessionVars>>

\* An export that no session has begun may be that of the next one.
Restart ==
  /\ session \in {"exited", "crashed"}
  /\ starts < MaxStarts
  /\ starts' = starts + 1
  /\ StoreStarts
  /\ session' = "running"
  /\ pc' = IF pc = "confirm" THEN "off" ELSE pc
  /\ UNCHANGED <<files, staging, stuck, final, agreed, encoded, cancelled, outcome,
                 changes, touched, powerFailed>>

Over == session \in {"exited", "crashed"} /\ starts = MaxStarts /\ UNCHANGED allVars

SessionNext ==
  \/ ExportDialogs
  \/ ExportWorks
  \/ \E f \in Folders : FolderSelected(f)
  \/ CloseDeferred
  \/ CloseGranted
  \/ SaveStep
  \/ Exit
  \/ ProcessCrash
  \/ PowerFailure
  \/ \E content \in {Content("absent"), Content("foreign")}
                      \cup {Document([folder |-> f, window |-> NoPlacement]) : f \in Folders} :
       SettingsTouched(content)
  \/ \E p \in Paths, kind \in {"absent", "other"} : DestinationTouched(p, kind)
  \/ Restart
  \/ Over

SessionSpec == SessionInit /\ [][SessionNext]_allVars

-----------------------------------------------------------------------------
(* Properties.                                                             *)

\* The types of the export's, the store's and the session's variables.
SessionTypeOK ==
  /\ TypeOK /\ StoreTypeOK
  /\ session \in {"running", "closing", "saving", "exited", "crashed"}
  /\ starts \in 1..MaxStarts
  /\ touched \in BOOLEAN /\ powerFailed \in BOOLEAN

\* Unless the power failed, the settings file is never torn, whenever the
\* process is killed and whatever fails; and unless somebody else wrote it, it
\* is at every moment what the last completed Save was given.
SettingsAreWhole ==
  /\ ~powerFailed => disk.kind # "torn"
  /\ ~powerFailed /\ ~touched /\ disk.kind = "document" => disk.settings = lastSaved

\* A session that ends in order leaves no export at work and, but for a file
\* that could not be removed, no staging file of either kind; and the folder
\* and placement of the session are on the disk, unless the Save failed or
\* somebody else wrote the file.
ExitIsOrderly ==
  /\ SessionTypeOK
  /\ session = "exited" =>
       /\ pc \notin Working
       /\ pc = "returned" => (staging.kind = "absent" \/ stuck)
       /\ temp.kind = "absent"
       /\ \/ step = "failed" \/ touched
          \/ disk.kind = "document" /\ disk.settings = settings
=============================================================================
