---------------------------- MODULE ReportExport ----------------------------
(***************************************************************************)
(* One report export: exportReport and the dialogs it shows                *)
(* (internal/gui/app_report_windows.go), then Write and WriteFileAtomic of *)
(* internal/report/report.go on a goroutine.  The dialog returns the path  *)
(* the user typed; the format selected may change its extension, so the    *)
(* file that is replaced can be another one.  Meanwhile the user may cancel *)
(* the export, any file operation may fail, other programs change the two  *)
(* paths, and the process or the machine may stop.                         *)
(***************************************************************************)
EXTENDS Naturals

CONSTANTS
  Rows,        \* the records of the report
  MaxChanges   \* bound on changes by other programs

ASSUME ReportAssumption == Rows \in Nat /\ MaxChanges \in Nat

\* The path in the dialog, and that path with another extension.
Paths == {"typed", "normalized"}

\* What a file is: "old" was there when the export began, "other" came from
\* another program since, a "report" holds rows, possibly not yet on the disk.
Files == [kind : {"absent", "old", "other", "report"}, rows : 0..Rows, synced : BOOLEAN]
File(kind) == [kind |-> kind, rows |-> 0, synced |-> FALSE]

VARIABLES
  files,
  staging,     \* the staging file
  stuck,       \* its removal failed
  final,       \* the path to write to
  agreed,      \* the paths the user agreed to replace
  pc, encoded, \* the records given to the encoder so far
  cancelled,
  outcome,     \* what the completion is told
  changes

vars == <<files, staging, stuck, final, agreed, pc, encoded, cancelled, outcome,
          changes>>

Init ==
  /\ files \in [Paths -> {File("absent"), File("old")}]
  /\ staging = File("absent") /\ stuck = FALSE
  /\ final = "typed"
  /\ agreed = {}
  /\ pc = "dialog" /\ encoded = 0
  /\ cancelled = FALSE
  /\ outcome = "none"
  /\ changes = 0

Working == {"create", "write", "sync", "close", "rename", "cleanup"}

-----------------------------------------------------------------------------
(* The environment.                                                        *)

OtherProgram(p, kind) ==
  /\ pc # "off"
  /\ changes < MaxChanges
  /\ changes' = changes + 1
  /\ files' = [files EXCEPT ![p] = File(kind)]
  /\ UNCHANGED <<staging, stuck, final, agreed, pc, encoded, cancelled, outcome>>

Cancel ==
  /\ pc \in Working /\ ~cancelled
  /\ cancelled' = TRUE
  /\ UNCHANGED <<files, staging, stuck, final, agreed, pc, encoded, outcome, changes>>

\* What a file may be after the power failed: rows not synced may be lost.
Survivors(f) ==
  IF f.kind # "report" \/ f.synced THEN {f} ELSE {[f EXCEPT !.rows = n] : n \in 0..f.rows}

\* The process is killed (nothing is lost) or the power fails.
Crash ==
  /\ pc # "off"
  /\ pc' = "off"
  /\ \E s \in Survivors(staging) : staging' = s
  /\ \E t \in Survivors(files.typed), n \in Survivors(files.normalized) :
       files' = [typed |-> t, normalized |-> n]
  /\ UNCHANGED <<stuck, final, agreed, encoded, cancelled, outcome, changes>>

-----------------------------------------------------------------------------
(* The dialogs, on the UI thread.                                          *)

Declined ==
  /\ pc \in {"dialog", "confirm"}
  /\ pc' = "returned"
  /\ UNCHANGED <<files, staging, stuck, final, agreed, encoded, cancelled, outcome,
                 changes>>

\* The user agrees to replace the file p, if there is one.
Agrees(p) == agreed' = IF files[p].kind = "absent" THEN agreed ELSE agreed \cup {p}

\* Mutant: the prompt of the dialog is taken for consent to the final path.
DestinationTaken ==
  /\ pc = "dialog"
  /\ Agrees("typed")
  /\ final' \in Paths
  /\ pc' = "create"
  /\ UNCHANGED <<files, staging, stuck, encoded, cancelled, outcome, changes>>

\* The dialog prompts for the typed path; resolveReportDestination may change it.
DestinationChosen ==
  /\ pc = "dialog"
  /\ Agrees("typed")
  /\ final' \in Paths
  /\ pc' = IF final' = "typed" THEN "create" ELSE "confirm"
  /\ UNCHANGED <<files, staging, stuck, encoded, cancelled, outcome, changes>>

\* confirmNormalizedReportOverwrite.
OverwriteConfirmed ==
  /\ pc = "confirm"
  /\ Agrees(final)
  /\ pc' = "create"
  /\ UNCHANGED <<files, staging, stuck, final, encoded, cancelled, outcome, changes>>

-----------------------------------------------------------------------------
(* WriteFileAtomic, on the goroutine.                                      *)

\* What the completion is told of an error: a cancelled context is recognized,
\* but the error of a step that fails after the cancellation is another one.
FailureOutcome ==
  \/ cancelled /\ outcome' = "canceled"
  \/ outcome' = "failed"

\* Mutant: a failure returns without the deferred cleanup.
FailsUncleaned(at) ==
  /\ pc = at
  /\ FailureOutcome
  /\ pc' = "returned"
  /\ UNCHANGED <<files, staging, stuck, final, agreed, encoded, cancelled, changes>>

\* The context is checked before every step, and the step itself may fail.  The
\* deferred cleanup follows.
Fails(at) ==
  /\ pc = at
  /\ FailureOutcome
  /\ pc' = IF at = "create" THEN "returned" ELSE "cleanup"
  /\ UNCHANGED <<files, staging, stuck, final, agreed, encoded, cancelled, changes>>

Proceeds(at, next) ==
  /\ pc = at /\ ~cancelled
  /\ pc' = next
  /\ UNCHANGED <<stuck, final, agreed, cancelled, changes>>

Create ==
  /\ Proceeds("create", "write")
  /\ staging' = File("report")
  /\ UNCHANGED <<files, encoded, outcome>>

\* The CSV encoder buffers; what it has passed on so far is in the file.
WriteRow ==
  /\ encoded < Rows
  /\ Proceeds("write", "write")
  /\ encoded' = encoded + 1
  /\ \E n \in staging.rows..encoded' : staging' = [staging EXCEPT !.rows = n]
  /\ UNCHANGED <<files, outcome>>

WriteEnds ==
  /\ encoded = Rows
  /\ Proceeds("write", "sync")
  /\ staging' = [staging EXCEPT !.rows = encoded]
  /\ UNCHANGED <<files, encoded, outcome>>

\* Mutant: the staging file is not synced.
SyncLeftOut ==
  /\ Proceeds("sync", "close")
  /\ UNCHANGED <<files, staging, encoded, outcome>>

Sync ==
  /\ Proceeds("sync", "close")
  /\ staging' = [staging EXCEPT !.synced = TRUE]
  /\ UNCHANGED <<files, encoded, outcome>>

Close ==
  /\ Proceeds("close", "rename")
  /\ UNCHANGED <<files, staging, encoded, outcome>>

\* A cancellation after the last check of the context comes too late.
Rename ==
  /\ pc = "rename"
  /\ pc' = "returned"
  /\ files' = [files EXCEPT ![final] = staging]
  /\ staging' = File("absent")
  /\ outcome' = "ok"
  /\ UNCHANGED <<stuck, final, agreed, encoded, cancelled, changes>>

\* The deferred function; an error of its Remove is ignored.
Cleanup ==
  /\ pc = "cleanup"
  /\ pc' = "returned"
  /\ \/ staging' = File("absent") /\ UNCHANGED stuck
     \/ stuck' = TRUE /\ UNCHANGED staging
  /\ UNCHANGED <<files, final, agreed, encoded, cancelled, outcome, changes>>

Worker ==
  \/ Create \/ WriteRow \/ WriteEnds \/ Sync \/ Close \/ Rename \/ Cleanup
  \/ \E at \in Working \ {"cleanup"} : Fails(at)

\* The export is over, or the process is.
Terminated == pc \in {"returned", "off"} /\ UNCHANGED vars

Next ==
  \/ \E p \in Paths, kind \in {"absent", "other"} : OtherProgram(p, kind)
  \/ Cancel
  \/ Crash
  \/ Declined \/ DestinationChosen \/ OverwriteConfirmed
  \/ Worker
  \/ Terminated

Spec == Init /\ [][Next]_vars

-----------------------------------------------------------------------------
(* Properties.                                                             *)

\* The types of the variables; a staging file exists while the worker needs it
\* and longer only if it could not be removed.
TypeOK ==
  /\ files \in [Paths -> Files]
  /\ staging \in Files
  /\ stuck \in BOOLEAN /\ cancelled \in BOOLEAN
  /\ final \in Paths /\ agreed \in SUBSET Paths
  /\ pc \in Working \cup {"dialog", "confirm", "returned", "off"}
  /\ encoded \in 0..Rows
  /\ outcome \in {"none", "ok", "canceled", "failed"}
  /\ changes \in 0..MaxChanges
  /\ pc \in Working \ {"create"} => staging.kind = "report"
  /\ pc = "returned" => (staging.kind = "report" <=> stuck)

\* A report under its final name is complete and on the disk: neither a
\* failure, nor a cancellation, nor a crash of the process or of the machine
\* ever leaves a part of one there.
DestinationIsWhole ==
  \A p \in Paths :
    files[p].kind = "report" => files[p].rows = Rows /\ files[p].synced

\* What the completion is told is true: after a success the report is in place
\* (unless another program has changed it), after a failure or a cancellation
\* no report is, and nothing remains of the staging file but what could not be
\* removed.
OutcomeIsHonest ==
  /\ outcome = "ok" => changes > 0 \/ files[final].kind = "report"
  /\ outcome \in {"canceled", "failed"} =>
       /\ \A p \in Paths : files[p].kind # "report"
       /\ pc = "returned" => staging.kind = "absent" \/ stuck

\* A file that was there when the export began is replaced only if the user
\* was asked about this very path, whatever extension the typed path had.
ReplacesOnlyAgreed ==
  [][\A p \in Paths :
       files[p].kind = "old" /\ files'[p].kind = "report"
         => p = final /\ p \in agreed]_vars
=============================================================================
