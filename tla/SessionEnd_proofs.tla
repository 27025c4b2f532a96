------------------------- MODULE SessionEnd_proofs -------------------------
(***************************************************************************)
(* Proofs about ReportExport, alone and in the sessions of SessionEnd, and *)
(* about the settings file, for every number of records, of changes by     *)
(* other programs and of sessions.                                         *)
(***************************************************************************)
EXTENDS SessionEnd, TLAPS

\* Each step of the worker finds the staging file as the step before left it:
\* none before it is created, whole before it is synced, synced before it is
\* closed and renamed.
StagingProgress ==
  /\ staging.kind \in {"absent", "report"}
  /\ pc \in {"dialog", "confirm", "create"} => staging.kind = "absent"
  /\ pc \in {"sync", "close", "rename"} => staging.rows = Rows
  /\ pc \in {"close", "rename"} => staging.synced
  /\ pc \notin {"returned", "off"} => ~stuck

\* From the end of the dialogs on, the user has agreed to replace the file under
\* the final path if it is still the one that was there.
ConsentGiven ==
  /\ pc \in Working /\ files[final].kind = "old" => final \in agreed
  /\ pc = "dialog" => final = "typed"

\* No report has a final name before the export has succeeded.
NoEarlyReport ==
  /\ outcome # "ok" => \A p \in Paths : files[p].kind # "report"
  /\ outcome # "none" => pc \in {"cleanup", "returned", "off"}
  /\ outcome = "ok" => pc # "cleanup"

\* The inductive invariant.
ExportInv ==
  /\ TypeOK
  /\ DestinationIsWhole
  /\ OutcomeIsHonest
  /\ StagingProgress
  /\ ConsentGiven
  /\ NoEarlyReport

USE ReportAssumption DEF ReportAssumption

\* Reading a field of a file.
LEMMA FileFields ==
  ASSUME NEW kind \in {"absent", "old", "other", "report"}
  PROVE  /\ File(kind) \in Files
         /\ File(kind).kind = kind /\ File(kind).rows = 0 /\ ~File(kind).synced
BY DEF File, Files

\* A synced file, and anything but a report, survives a crash as it is; a report
\* remains a report.
LEMMA SurvivorsAreFiles ==
  ASSUME NEW f \in Files, NEW g \in Survivors(f)
  PROVE  /\ g \in Files
         /\ g.kind = f.kind
         /\ f.synced \/ f.kind # "report" => g = f
BY DEF Survivors, Files

\* At the beginning there is no report and no consent.
LEMMA InitEstablishes == Init => ExportInv
<1> SUFFICES ASSUME Init PROVE ExportInv
  OBVIOUS
<1>1. /\ File("absent") \in Files /\ File("old") \in Files
      /\ File("absent").kind = "absent" /\ File("old").kind = "old"
  BY FileFields
<1>2. TypeOK
  <2>1. files \in [Paths -> Files]
    BY <1>1 DEF Init
  <2>2. pc = "dialog" /\ final = "typed" /\ staging.kind = "absent"
    BY <1>1 DEF Init
  <2>3. encoded \in 0..Rows /\ changes \in 0..MaxChanges
    BY DEF Init
  <2>4. stuck \in BOOLEAN /\ cancelled \in BOOLEAN
    BY DEF Init
  <2>5. final \in Paths /\ agreed \in SUBSET Paths
    BY DEF Init, Paths
  <2>6. staging \in Files
    BY <1>1 DEF Init
  <2>7. QED
    BY <2>1, <2>2, <2>3, <2>4, <2>5, <2>6 DEF Init, TypeOK, Working
<1>3. \A p \in Paths : files[p].kind # "report"
  BY <1>1 DEF Init
<1>4. QED
  BY <1>1, <1>2, <1>3 DEF Init, ExportInv, DestinationIsWhole, OutcomeIsHonest,
     StagingProgress, ConsentGiven, NoEarlyReport, Working

\* Giving up in a dialog.
LEMMA DeclinedPreserves ==
  ASSUME ExportInv, Declined PROVE ExportInv'
<1> USE DEF ExportInv
<1>1. TypeOK'
  BY DEF Declined, TypeOK, StagingProgress, Working
<1>2. DestinationIsWhole'
  BY DEF Declined, TypeOK, DestinationIsWhole, StagingProgress, Working
<1>3. OutcomeIsHonest'
  BY DEF Declined, TypeOK, OutcomeIsHonest, NoEarlyReport, StagingProgress, Working
<1>4. StagingProgress'
  BY DEF Declined, TypeOK, StagingProgress, Working
<1>5. ConsentGiven'
  BY DEF Declined, TypeOK, ConsentGiven, Working
<1>6. NoEarlyReport'
  BY DEF Declined, TypeOK, NoEarlyReport, Working
<1>7. QED
  BY <1>1, <1>2, <1>3, <1>4, <1>5, <1>6

\* The dialog returns: a file under the typed path has been agreed to.
LEMMA ChosenPreserves ==
  ASSUME ExportInv, DestinationChosen PROVE ExportInv'
<1> USE DEF ExportInv
<1>1. TypeOK'
  BY DEF DestinationChosen, Agrees, Paths, TypeOK, StagingProgress, Working
<1>2. DestinationIsWhole'
  BY DEF DestinationChosen, Agrees, Paths, TypeOK, DestinationIsWhole, StagingProgress, Working
<1>3. OutcomeIsHonest'
  BY DEF DestinationChosen, Agrees, Paths, TypeOK, OutcomeIsHonest, NoEarlyReport, StagingProgress, Working
<1>4. StagingProgress'
  BY DEF DestinationChosen, Agrees, Paths, TypeOK, StagingProgress, Working
<1>5. ConsentGiven'
  BY DEF DestinationChosen, Agrees, Paths, TypeOK, ConsentGiven, Working
<1>6. NoEarlyReport'
  BY DEF DestinationChosen, Agrees, Paths, TypeOK, NoEarlyReport, Working
<1>7. QED
  BY <1>1, <1>2, <1>3, <1>4, <1>5, <1>6

\* The user agrees to the normalized path.
LEMMA ConfirmedPreserves ==
  ASSUME ExportInv, OverwriteConfirmed PROVE ExportInv'
<1> USE DEF ExportInv
<1>1. TypeOK'
  BY DEF OverwriteConfirmed, Agrees, TypeOK, StagingProgress, Working
<1>2. DestinationIsWhole'
  BY DEF OverwriteConfirmed, Agrees, TypeOK, DestinationIsWhole, StagingProgress, Working
<1>3. OutcomeIsHonest'
  BY DEF OverwriteConfirmed, Agrees, TypeOK, OutcomeIsHonest, NoEarlyReport, StagingProgress, Working
<1>4. StagingProgress'
  BY DEF OverwriteConfirmed, Agrees, TypeOK, StagingProgress, Working
<1>5. ConsentGiven'
  BY DEF OverwriteConfirmed, Agrees, TypeOK, ConsentGiven, Working
<1>6. NoEarlyReport'
  BY DEF OverwriteConfirmed, Agrees, TypeOK, NoEarlyReport, Working
<1>7. QED
  BY <1>1, <1>2, <1>3, <1>4, <1>5, <1>6

\* A cancellation changes nothing but the flag.
LEMMA CancelPreserves ==
  ASSUME ExportInv, Cancel PROVE ExportInv'
<1> USE DEF ExportInv
<1>1. TypeOK'
  BY DEF Cancel, TypeOK, StagingProgress, Working
<1>2. DestinationIsWhole'
  BY DEF Cancel, TypeOK, DestinationIsWhole, StagingProgress, Working
<1>3. OutcomeIsHonest'
  BY DEF Cancel, TypeOK, OutcomeIsHonest, NoEarlyReport, StagingProgress, Working
<1>4. StagingProgress'
  BY DEF Cancel, TypeOK, StagingProgress, Working
<1>5. ConsentGiven'
  BY DEF Cancel, TypeOK, ConsentGiven, Working
<1>6. NoEarlyReport'
  BY DEF Cancel, TypeOK, NoEarlyReport, Working
<1>7. QED
  BY <1>1, <1>2, <1>3, <1>4, <1>5, <1>6

\* Other programs never make an old file nor a report.
LEMMA OtherProgramPreserves ==
  ASSUME ExportInv, NEW p \in Paths, NEW kind \in {"absent", "other"}, OtherProgram(p, kind) PROVE ExportInv'
<1> USE DEF ExportInv
<1>1. TypeOK'
  BY FileFields DEF OtherProgram, TypeOK, StagingProgress, Working
<1>2. DestinationIsWhole'
  BY FileFields DEF OtherProgram, TypeOK, DestinationIsWhole, StagingProgress, Working
<1>3. OutcomeIsHonest'
  BY FileFields DEF OtherProgram, TypeOK, OutcomeIsHonest, NoEarlyReport, StagingProgress, Working
<1>4. StagingProgress'
  BY FileFields DEF OtherProgram, TypeOK, StagingProgress, Working
<1>5. ConsentGiven'
  BY FileFields DEF OtherProgram, TypeOK, ConsentGiven, Working
<1>6. NoEarlyReport'
  BY FileFields DEF OtherProgram, TypeOK, NoEarlyReport, Working
<1>7. QED
  BY <1>1, <1>2, <1>3, <1>4, <1>5, <1>6

\* A step that fails leaves the rest to the cleanup.
LEMMA FailsPreserves ==
  ASSUME ExportInv, NEW at \in Working \ {"cleanup"}, Fails(at) PROVE ExportInv'
<1> USE DEF ExportInv
<1>1. TypeOK'
  BY DEF Fails, FailureOutcome, TypeOK, StagingProgress, Working
<1>2. DestinationIsWhole'
  BY DEF Fails, FailureOutcome, TypeOK, DestinationIsWhole, StagingProgress, Working
<1>3. OutcomeIsHonest'
  BY DEF Fails, FailureOutcome, TypeOK, OutcomeIsHonest, NoEarlyReport, StagingProgress, Working
<1>4. StagingProgress'
  BY DEF Fails, FailureOutcome, TypeOK, StagingProgress, Working
<1>5. ConsentGiven'
  BY DEF Fails, FailureOutcome, TypeOK, ConsentGiven, Working
<1>6. NoEarlyReport'
  BY DEF Fails, FailureOutcome, TypeOK, NoEarlyReport, Working
<1>7. QED
  BY <1>1, <1>2, <1>3, <1>4, <1>5, <1>6

\* The staging file is created.
LEMMA CreatePreserves ==
  ASSUME ExportInv, Create PROVE ExportInv'
<1> USE DEF ExportInv
<1>1. TypeOK'
  BY FileFields DEF Create, Proceeds, TypeOK, StagingProgress, Working
<1>2. DestinationIsWhole'
  BY FileFields DEF Create, Proceeds, TypeOK, DestinationIsWhole, StagingProgress, Working
<1>3. OutcomeIsHonest'
  BY FileFields DEF Create, Proceeds, TypeOK, OutcomeIsHonest, NoEarlyReport, StagingProgress, Working
<1>4. StagingProgress'
  BY FileFields DEF Create, Proceeds, TypeOK, StagingProgress, Working
<1>5. ConsentGiven'
  BY FileFields DEF Create, Proceeds, TypeOK, ConsentGiven, Working
<1>6. NoEarlyReport'
  BY FileFields DEF Create, Proceeds, TypeOK, NoEarlyReport, Working
<1>7. QED
  BY <1>1, <1>2, <1>3, <1>4, <1>5, <1>6

\* A record is written.
LEMMA WriteRowPreserves ==
  ASSUME ExportInv, WriteRow PROVE ExportInv'
<1> USE DEF ExportInv
<1>1. TypeOK'
  BY DEF WriteRow, Proceeds, Files, TypeOK, StagingProgress, Working
<1>2. DestinationIsWhole'
  BY DEF WriteRow, Proceeds, Files, TypeOK, DestinationIsWhole, StagingProgress, Working
<1>3. OutcomeIsHonest'
  BY DEF WriteRow, Proceeds, Files, TypeOK, OutcomeIsHonest, NoEarlyReport, StagingProgress, Working
<1>4. StagingProgress'
  BY DEF WriteRow, Proceeds, Files, TypeOK, StagingProgress, Working
<1>5. ConsentGiven'
  BY DEF WriteRow, Proceeds, Files, TypeOK, ConsentGiven, Working
<1>6. NoEarlyReport'
  BY DEF WriteRow, Proceeds, Files, TypeOK, NoEarlyReport, Working
<1>7. QED
  BY <1>1, <1>2, <1>3, <1>4, <1>5, <1>6

\* The encoder is flushed.
LEMMA WriteEndsPreserves ==
  ASSUME ExportInv, WriteEnds PROVE ExportInv'
<1> USE DEF ExportInv
<1>1. TypeOK'
  BY DEF WriteEnds, Proceeds, Files, TypeOK, StagingProgress, Working
<1>2. DestinationIsWhole'
  BY DEF WriteEnds, Proceeds, Files, TypeOK, DestinationIsWhole, StagingProgress, Working
<1>3. OutcomeIsHonest'
  BY DEF WriteEnds, Proceeds, Files, TypeOK, OutcomeIsHonest, NoEarlyReport, StagingProgress, Working
<1>4. StagingProgress'
  BY DEF WriteEnds, Proceeds, Files, TypeOK, StagingProgress, Working
<1>5. ConsentGiven'
  BY DEF WriteEnds, Proceeds, Files, TypeOK, ConsentGiven, Working
<1>6. NoEarlyReport'
  BY DEF WriteEnds, Proceeds, Files, TypeOK, NoEarlyReport, Working
<1>7. QED
  BY <1>1, <1>2, <1>3, <1>4, <1>5, <1>6

\* The staging file is synced.
LEMMA SyncPreserves ==
  ASSUME ExportInv, Sync PROVE ExportInv'
<1> USE DEF ExportInv
<1>1. TypeOK'
  BY DEF Sync, Proceeds, Files, TypeOK, StagingProgress, Working
<1>2. DestinationIsWhole'
  BY DEF Sync, Proceeds, Files, TypeOK, DestinationIsWhole, StagingProgress, Working
<1>3. OutcomeIsHonest'
  BY DEF Sync, Proceeds, Files, TypeOK, OutcomeIsHonest, NoEarlyReport, StagingProgress, Working
<1>4. StagingProgress'
  BY DEF Sync, Proceeds, Files, TypeOK, StagingProgress, Working
<1>5. ConsentGiven'
  BY DEF Sync, Proceeds, Files, TypeOK, ConsentGiven, Working
<1>6. NoEarlyReport'
  BY DEF Sync, Proceeds, Files, TypeOK, NoEarlyReport, Working
<1>7. QED
  BY <1>1, <1>2, <1>3, <1>4, <1>5, <1>6

\* The staging file is closed.
LEMMA ClosePreserves ==
  ASSUME ExportInv, Close PROVE ExportInv'
<1> USE DEF ExportInv
<1>1. TypeOK'
  BY DEF Close, Proceeds, TypeOK, StagingProgress, Working
<1>2. DestinationIsWhole'
  BY DEF Close, Proceeds, TypeOK, DestinationIsWhole, StagingProgress, Working
<1>3. OutcomeIsHonest'
  BY DEF Close, Proceeds, TypeOK, OutcomeIsHonest, NoEarlyReport, StagingProgress, Working
<1>4. StagingProgress'
  BY DEF Close, Proceeds, TypeOK, StagingProgress, Working
<1>5. ConsentGiven'
  BY DEF Close, Proceeds, TypeOK, ConsentGiven, Working
<1>6. NoEarlyReport'
  BY DEF Close, Proceeds, TypeOK, NoEarlyReport, Working
<1>7. QED
  BY <1>1, <1>2, <1>3, <1>4, <1>5, <1>6

\* The staging file, whole and synced, takes the final name.
LEMMA RenamePreserves ==
  ASSUME ExportInv, Rename PROVE ExportInv'
<1> USE DEF ExportInv
<1>1. TypeOK'
  BY FileFields DEF Rename, TypeOK, StagingProgress, Working
<1>2. DestinationIsWhole'
  BY FileFields DEF Rename, TypeOK, DestinationIsWhole, StagingProgress, Working
<1>3. OutcomeIsHonest'
  BY FileFields DEF Rename, TypeOK, OutcomeIsHonest, NoEarlyReport, StagingProgress, Working
<1>4. StagingProgress'
  BY FileFields DEF Rename, TypeOK, StagingProgress, Working
<1>5. ConsentGiven'
  BY FileFields DEF Rename, TypeOK, ConsentGiven, Working
<1>6. NoEarlyReport'
  BY FileFields DEF Rename, TypeOK, NoEarlyReport, Working
<1>7. QED
  BY <1>1, <1>2, <1>3, <1>4, <1>5, <1>6

\* The staging file is removed or stuck.
LEMMA CleanupPreserves ==
  ASSUME ExportInv, Cleanup PROVE ExportInv'
<1> USE DEF ExportInv
<1>1. TypeOK'
  <2>1. staging.kind = "report" /\ stuck = FALSE
    BY DEF Cleanup, TypeOK, StagingProgress, Working
  <2>2. CASE staging' = File("absent") /\ UNCHANGED stuck
    BY <2>1, <2>2, FileFields DEF Cleanup, TypeOK, Working
  <2>3. CASE stuck' = TRUE /\ UNCHANGED staging
    BY <2>1, <2>3 DEF Cleanup, TypeOK, Working
  <2>4. QED
    BY <2>2, <2>3 DEF Cleanup
<1>2. DestinationIsWhole'
  BY FileFields DEF Cleanup, TypeOK, DestinationIsWhole, StagingProgress, Working
<1>3. OutcomeIsHonest'
  BY FileFields DEF Cleanup, TypeOK, OutcomeIsHonest, NoEarlyReport, StagingProgress, Working
<1>4. StagingProgress'
  BY FileFields DEF Cleanup, TypeOK, StagingProgress, Working
<1>5. ConsentGiven'
  BY FileFields DEF Cleanup, TypeOK, ConsentGiven, Working
<1>6. NoEarlyReport'
  BY FileFields DEF Cleanup, TypeOK, NoEarlyReport, Working
<1>7. QED
  BY <1>1, <1>2, <1>3, <1>4, <1>5, <1>6

\* A crash may cut short a staging file that is not synced, never a report under
\* a final name, which is.
LEMMA CrashPreserves ==
  ASSUME ExportInv, Crash PROVE ExportInv'
<1> USE DEF ExportInv
<1>1. /\ pc' = "off"
      /\ UNCHANGED <<stuck, final, agreed, encoded, cancelled, outcome, changes>>
  BY DEF Crash
<1>2. staging' \in Files /\ staging'.kind = staging.kind
  BY SurvivorsAreFiles DEF Crash, TypeOK
<1>3. \A p \in Paths : files'[p] = files[p]
  <2>1. PICK t \in Survivors(files.typed), n \in Survivors(files.normalized) :
          files' = [typed |-> t, normalized |-> n]
    BY DEF Crash
  <2>2. /\ files.typed \in Files /\ files.normalized \in Files
        /\ files.typed.kind # "report" \/ files.typed.synced
        /\ files.normalized.kind # "report" \/ files.normalized.synced
    BY DEF TypeOK, DestinationIsWhole, Paths
  <2>3. t = files.typed /\ n = files.normalized
    BY <2>2, SurvivorsAreFiles
  <2>4. QED
    BY <2>1, <2>3 DEF Paths
<1>4. files' \in [Paths -> Files]
  <2>1. PICK t \in Survivors(files.typed), n \in Survivors(files.normalized) :
          files' = [typed |-> t, normalized |-> n]
    BY DEF Crash
  <2>2. t \in Files /\ n \in Files
    BY SurvivorsAreFiles DEF TypeOK, Paths
  <2>3. files' = [p \in Paths |-> IF p = "typed" THEN t ELSE n]
    BY <2>1 DEF Paths
  <2>4. QED
    BY <2>2, <2>3
<1>5. TypeOK'
  BY <1>1, <1>2, <1>4 DEF TypeOK, Working
<1>6. DestinationIsWhole'
  BY <1>3 DEF DestinationIsWhole
<1>7. OutcomeIsHonest' /\ NoEarlyReport'
  BY <1>1, <1>3 DEF OutcomeIsHonest, NoEarlyReport, TypeOK
<1>8. StagingProgress' /\ ConsentGiven'
  BY <1>1, <1>2 DEF StagingProgress, ConsentGiven, Working
<1>9. QED
  BY <1>5, <1>6, <1>7, <1>8

-----------------------------------------------------------------------------
(* The theorems.                                                           *)

LEMMA ExportStep ==
  ASSUME ExportInv, [Next]_vars PROVE ExportInv'
<1>1. CASE UNCHANGED vars
  BY <1>1 DEF vars, ExportInv, TypeOK, DestinationIsWhole, OutcomeIsHonest,
     StagingProgress, ConsentGiven, NoEarlyReport, Working
<1>2. CASE \E p \in Paths, kind \in {"absent", "other"} : OtherProgram(p, kind)
  BY <1>2, OtherProgramPreserves
<1>3. CASE Cancel \/ Crash
  BY <1>3, CancelPreserves, CrashPreserves
<1>4. CASE Declined \/ DestinationChosen \/ OverwriteConfirmed
  BY <1>4, DeclinedPreserves, ChosenPreserves, ConfirmedPreserves
<1>5. CASE Worker
  BY <1>5, CreatePreserves, WriteRowPreserves, WriteEndsPreserves, SyncPreserves,
     ClosePreserves, RenamePreserves, CleanupPreserves, FailsPreserves DEF Worker
<1>6. QED
  BY <1>1, <1>2, <1>3, <1>4, <1>5 DEF Next, Terminated

\* The invariant holds in every reachable state.
THEOREM ExportInvariant == Spec => []ExportInv
BY ExportStep, InitEstablishes, PTL DEF Spec

\* The export is type correct, and its staging file exists while it is needed.
THEOREM ExportTypeCorrect == Spec => []TypeOK
<1>1. ExportInv => TypeOK
  BY DEF ExportInv
<1>2. QED
  BY <1>1, ExportInvariant, PTL

\* A report under its final name is whole and synced, whatever failed or crashed.
THEOREM DestinationAlwaysWhole == Spec => []DestinationIsWhole
<1>1. ExportInv => DestinationIsWhole
  BY DEF ExportInv
<1>2. QED
  BY <1>1, ExportInvariant, PTL

\* What the completion is told of the export is true.
THEOREM OutcomeAlwaysHonest == Spec => []OutcomeIsHonest
<1>1. ExportInv => OutcomeIsHonest
  BY DEF ExportInv
<1>2. QED
  BY <1>1, ExportInvariant, PTL

LEMMA ReplacesAgreed ==
  ASSUME ExportInv, [Next]_vars, NEW p \in Paths,
         files[p].kind = "old", files'[p].kind = "report"
  PROVE  p = final /\ p \in agreed
<1>1. CASE Rename
  BY <1>1 DEF Rename, ExportInv, TypeOK, ConsentGiven, Working
<1>2. CASE UNCHANGED files
  BY <1>2
<1>3. CASE \E q \in Paths, kind \in {"absent", "other"} : OtherProgram(q, kind)
  BY <1>3, FileFields DEF OtherProgram, ExportInv, TypeOK
<1>4. CASE Crash
  <2>1. PICK t \in Survivors(files.typed), n \in Survivors(files.normalized) :
          files' = [typed |-> t, normalized |-> n]
    BY <1>4 DEF Crash
  <2>2. t.kind = files.typed.kind /\ n.kind = files.normalized.kind
    BY SurvivorsAreFiles DEF ExportInv, TypeOK, Paths
  <2>3. QED
    BY <2>1, <2>2 DEF Paths
<1>5. QED
  BY <1>1, <1>2, <1>3, <1>4
  DEF Next, Worker, Terminated, vars, Cancel, Declined, DestinationChosen,
      OverwriteConfirmed, Create, WriteRow, WriteEnds, Sync, Close, Cleanup, Fails

\* A file that was there is replaced only with the user's consent to its path.
THEOREM OnlyAgreedReplaced == Spec => ReplacesOnlyAgreed
<1> DEFINE Replaces ==
      \A p \in Paths :
        files[p].kind = "old" /\ files'[p].kind = "report" => p = final /\ p \in agreed
<1>1. ExportInv /\ [Next]_vars => Replaces
  BY ReplacesAgreed
<1>2. QED
  BY <1>1, ExportInvariant, PTL DEF Spec, ReplacesOnlyAgreed

-----------------------------------------------------------------------------
(* The export in the sessions.                                             *)

\* A session does to the export what the export does by itself; only the settings
\* file may use up a change by other programs, and a restart ends a dialog.
LEMMA SessionMovesExport ==
  ASSUME [SessionNext]_allVars
  PROVE  \/ [Next]_vars
         \/ /\ changes < MaxChanges /\ changes' = changes + 1
            /\ UNCHANGED <<files, staging, stuck, final, agreed, pc, encoded, cancelled, outcome>>
         \/ /\ pc' = IF pc = "confirm" THEN "off" ELSE pc
            /\ UNCHANGED <<files, staging, stuck, final, agreed, encoded, cancelled, outcome,
                           changes>>
<1>1. CASE UNCHANGED allVars \/ Over
  BY <1>1 DEF allVars, Over
<1>2. CASE ExportDialogs \/ ExportWorks
  BY <1>2 DEF ExportDialogs, ExportWorks, Next
<1>3. CASE \E f \in Folders : FolderSelected(f)
  BY <1>3 DEF FolderSelected
<1>4. CASE CloseDeferred
  <2>1. CASE cancelled
    BY <1>4, <2>1 DEF CloseDeferred, vars
  <2>2. CASE cancelled = FALSE
    BY <1>4, <2>2 DEF CloseDeferred, Cancel, Next
  <2>3. CASE cancelled \notin BOOLEAN
    BY <1>4, <2>3 DEF CloseDeferred, Cancel, Next
  <2>4. QED
    BY <2>1, <2>2, <2>3
<1>5. CASE CloseGranted \/ SaveStep \/ Exit
  BY <1>5 DEF CloseGranted, SaveStep, Exit
<1>6. CASE ProcessCrash \/ PowerFailure
  BY <1>6 DEF ProcessCrash, PowerFailure, ExportStops, Next
<1>7. ASSUME NEW content, SettingsTouched(content)
      PROVE  /\ changes < MaxChanges /\ changes' = changes + 1
             /\ UNCHANGED <<files, staging, stuck, final, agreed, pc, encoded, cancelled, outcome>>
  BY <1>7 DEF SettingsTouched
<1>8. CASE \E p \in Paths, kind \in {"absent", "other"} : DestinationTouched(p, kind)
  BY <1>8 DEF DestinationTouched, Next
<1>9. CASE Restart
  BY <1>9 DEF Restart
<1>10. QED
  BY <1>1, <1>2, <1>3, <1>4, <1>5, <1>6, <1>7, <1>8, <1>9 DEF SessionNext

LEMMA SessionKeepsExport ==
  ASSUME ExportInv, [SessionNext]_allVars PROVE ExportInv'
<1>1. CASE [Next]_vars
  BY <1>1, ExportStep
<1>2. CASE /\ changes < MaxChanges /\ changes' = changes + 1
           /\ UNCHANGED <<files, staging, stuck, final, agreed, pc, encoded, cancelled, outcome>>
  BY <1>2 DEF ExportInv, TypeOK, DestinationIsWhole, OutcomeIsHonest, StagingProgress,
     ConsentGiven, NoEarlyReport
<1>3. CASE /\ pc' = IF pc = "confirm" THEN "off" ELSE pc
           /\ UNCHANGED <<files, staging, stuck, final, agreed, encoded, cancelled, outcome,
                          changes>>
  BY <1>3 DEF ExportInv, TypeOK, DestinationIsWhole, OutcomeIsHonest, StagingProgress,
     ConsentGiven, NoEarlyReport, Working
<1>4. QED
  BY <1>1, <1>2, <1>3, SessionMovesExport

\* Whatever sessions begin, end, crash or lose their power around an export: a
\* report under its final name is whole, what its completion was told is true,
\* and only files the user agreed to replace are replaced.
THEOREM SessionsKeepReports ==
  SessionSpec => []DestinationIsWhole /\ []OutcomeIsHonest /\ ReplacesOnlyAgreed
<1> DEFINE Replaces ==
      \A p \in Paths :
        files[p].kind = "old" /\ files'[p].kind = "report" => p = final /\ p \in agreed
<1>1. SessionInit => ExportInv
  BY InitEstablishes DEF SessionInit
<1>2. ExportInv /\ [SessionNext]_allVars => ExportInv'
  BY SessionKeepsExport
<1>3. ExportInv => DestinationIsWhole /\ OutcomeIsHonest
  BY DEF ExportInv
<1>4. ExportInv /\ [SessionNext]_allVars => [Replaces]_vars
  <2> SUFFICES ASSUME ExportInv, [SessionNext]_allVars PROVE Replaces \/ UNCHANGED vars
    OBVIOUS
  <2>1. CASE [Next]_vars
    BY <2>1, ReplacesAgreed
  <2>2. CASE UNCHANGED files
    BY <2>2
  <2>3. QED
    BY <2>1, <2>2, SessionMovesExport
<1>5. QED
  BY <1>1, <1>2, <1>3, <1>4, PTL DEF SessionSpec, ReplacesOnlyAgreed

-----------------------------------------------------------------------------
(* The settings file.                                                      *)

USE SettingsAssumption, SessionAssumption DEF SettingsAssumption, SessionAssumption

LEMMA SettingsFiles ==
  /\ Defaults \in Settings /\ Defaults.window # Implausible
  /\ \A kind \in Kinds : /\ Content(kind) \in Contents /\ Content(kind).kind = kind
                         /\ Content(kind).settings = Defaults
  /\ \A s \in Settings : /\ Document(s) \in Contents /\ Document(s).kind = "document"
                         /\ Document(s).settings = s
                         /\ Durable(s) \in Contents /\ Durable(s).kind = "document"
                         /\ Durable(s).settings = s
BY DEF Defaults, Settings, Content, Document, Durable, Contents, Kinds

\* What the session, its Save and the staging file of it have to do with each other.
SaveProgress ==
  /\ session \in {"running", "closing", "crashed"} => step = "none"
  /\ session = "saving" => step # "none"
  /\ session = "exited" => step \in {"saved", "failed"}
  /\ session \in {"saving", "exited"} => pc \notin Working
  /\ step \in {"none", "create", "saved", "failed"} => temp.kind = "absent"
  /\ step \in {"close", "rename"} => temp = Document(settings)
  /\ step = "saved" /\ ~touched => disk.kind = "document" /\ disk.settings = settings

\* The types of the session and the store.
SessionTypes ==
  /\ StoreTypeOK
  /\ session \in {"running", "closing", "saving", "exited", "crashed"}
  /\ starts \in 1..MaxStarts
  /\ touched \in BOOLEAN /\ powerFailed \in BOOLEAN

\* The inductive invariant.
SessionInv == ExportInv /\ SessionTypes /\ SaveProgress /\ SettingsAreWhole

LEMMA LoadedTyped ==
  ASSUME disk \in Contents
  PROVE  Loaded \in Settings /\ Loaded.window # Implausible
<1>1. disk.settings \in Settings
  BY DEF Contents
<1>2. CASE disk.kind # "document"
  BY <1>2, SettingsFiles DEF Loaded
<1>3. CASE disk.kind = "document"
  <2> DEFINE w == IF disk.settings.window = Implausible THEN NoPlacement
                  ELSE disk.settings.window
  <2>1. Loaded = [disk.settings EXCEPT !.window = w]
    BY <1>3 DEF Loaded
  <2>2. w \in Placements \cup {NoPlacement}
    BY <1>1 DEF Settings
  <2> HIDE DEF w
  <2>3. QED
    BY <1>1, <2>1, <2>2 DEF Settings
<1>4. QED
  BY <1>2, <1>3

LEMMA SessionBegins == SessionInit => SessionInv
<1> SUFFICES ASSUME SessionInit PROVE SessionInv
  OBVIOUS
<1>1. ExportInv
  BY InitEstablishes DEF SessionInit
<1>2. [folder |-> NoFolder, window |-> Implausible] \in Settings
  BY DEF Settings
<1>3. /\ disk \in Contents /\ disk.settings \in Settings /\ disk.kind # "torn"
      /\ temp \in Contents /\ temp.kind = "absent"
      /\ settings = Loaded /\ step = "none" /\ leftover = FALSE /\ lastSaved = disk.settings
  BY <1>2, SettingsFiles DEF SessionInit, StoreInit, Kinds
<1>4. settings \in Settings /\ settings.window # Implausible
  BY <1>3, LoadedTyped
<1>5. SessionTypes
  <2>1. StoreTypeOK
    BY <1>3, <1>4 DEF StoreTypeOK
  <2>2. session = "running" /\ touched = FALSE /\ powerFailed = FALSE /\ starts = 1
    BY DEF SessionInit
  <2>3. starts \in 1..MaxStarts
    BY <2>2
  <2>4. QED
    BY <2>1, <2>2, <2>3 DEF SessionTypes
<1>6. SaveProgress
  BY <1>3 DEF SessionInit, SaveProgress
<1>7. SettingsAreWhole
  BY <1>3 DEF SettingsAreWhole
<1>8. QED
  BY <1>1, <1>5, <1>6, <1>7 DEF SessionInv

\* What the parts of the invariant about the settings speak of.
storeSession == <<disk, temp, settings, step, leftover, lastSaved, session, starts, touched,
                  powerFailed>>

LEMMA StoreUndisturbed ==
  ASSUME SessionInv, UNCHANGED storeSession, pc' \notin Working \/ pc \in Working
  PROVE  SessionTypes' /\ SaveProgress' /\ SettingsAreWhole'
BY DEF storeSession, SessionInv, SessionTypes, StoreTypeOK, SaveProgress, SettingsAreWhole

LEMMA ExportStepsKeepStore ==
  ASSUME SessionInv, ExportDialogs \/ ExportWorks
                       \/ \E p \in Paths, kind \in {"absent", "other"} : DestinationTouched(p, kind)
  PROVE  SessionTypes' /\ SaveProgress' /\ SettingsAreWhole'
<1>1. UNCHANGED storeSession
  BY DEF ExportDialogs, ExportWorks, DestinationTouched, storeVars, sessionVars, storeSession
<1>2. CASE session \in {"running", "closing"}
  BY <1>1, <1>2 DEF storeSession, SessionInv, SessionTypes, StoreTypeOK, SaveProgress,
     SettingsAreWhole
<1>3. CASE session \notin {"running", "closing"}
  <2>1. pc' = pc
    BY <1>3 DEF ExportDialogs, ExportWorks, DestinationTouched, OtherProgram
  <2>2. QED
    BY <1>1, <2>1, StoreUndisturbed
<1>4. QED
  BY <1>2, <1>3

LEMMA FolderKeepsStore ==
  ASSUME SessionInv, NEW f \in Folders, FolderSelected(f)
  PROVE  SessionTypes' /\ SaveProgress' /\ SettingsAreWhole'
<1>1. /\ session = "running" /\ step = "none" /\ temp.kind = "absent"
      /\ settings' = [settings EXCEPT !.folder = f]
      /\ UNCHANGED <<disk, temp, step, leftover, lastSaved, session, starts, touched, powerFailed, pc>>
  BY DEF FolderSelected, RememberFolder, SessionInv, SaveProgress, sessionVars, vars
<1>2. settings' \in Settings /\ settings'.window # Implausible
  BY <1>1 DEF SessionInv, SessionTypes, StoreTypeOK, Settings
<1>3. QED
  BY <1>1, <1>2 DEF SessionInv, SessionTypes, StoreTypeOK, SaveProgress, SettingsAreWhole

LEMMA CloseKeepsStore ==
  ASSUME SessionInv, CloseDeferred \/ CloseGranted \/ Exit
  PROVE  SessionTypes' /\ SaveProgress' /\ SettingsAreWhole'
<1>1. CASE CloseDeferred \/ Exit
  BY <1>1 DEF CloseDeferred, Exit, storeVars, vars, SessionInv, SessionTypes, StoreTypeOK,
     SaveProgress, SettingsAreWhole
<1>2. CASE CloseGranted
  <2>1. PICK bounds \in Placements \cup {Implausible} :
          settings' = [settings EXCEPT !.window = IF bounds = Implausible THEN @ ELSE bounds]
    BY <1>2 DEF CloseGranted, PersistSettings
  <2>2. /\ step' = "create" /\ session' = "saving" /\ pc' = pc /\ pc \notin Working
        /\ UNCHANGED <<disk, temp, leftover, lastSaved, starts, touched, powerFailed>>
    BY <1>2 DEF CloseGranted, PersistSettings, vars, Working
  <2>3. settings' \in Settings /\ settings'.window # Implausible
    BY <2>1 DEF SessionInv, SessionTypes, StoreTypeOK, Settings
  <2>4. temp.kind = "absent"
    BY <1>2 DEF CloseGranted, SessionInv, SaveProgress
  <2>5. QED
    BY <2>2, <2>3, <2>4 DEF SessionInv, SessionTypes, StoreTypeOK, Saving, SaveProgress,
       SettingsAreWhole
<1>3. QED
  BY <1>1, <1>2

LEMMA SaveKeepsStore ==
  ASSUME SessionInv, SaveStep
  PROVE  SessionTypes' /\ SaveProgress' /\ SettingsAreWhole'
<1>1. /\ session = "saving" /\ Save /\ pc \notin Working
      /\ UNCHANGED <<session, starts, touched, powerFailed, pc>>
  BY DEF SaveStep, SessionInv, SaveProgress, vars, sessionVars
<1>2. /\ Content("absent") \in Contents /\ Content("absent").kind = "absent"
      /\ Content("torn") \in Contents
      /\ Document(settings) \in Contents /\ Document(settings).kind = "document"
      /\ Document(settings).settings = settings
  BY SettingsFiles DEF Kinds, SessionInv, SessionTypes, StoreTypeOK
<1> USE DEF SessionInv, SessionTypes, StoreTypeOK, SaveProgress, SettingsAreWhole
<1>3. CASE StagingCreated
  BY <1>1, <1>2, <1>3 DEF StagingCreated, Saving
<1>4. CASE StagingWritten
  BY <1>1, <1>2, <1>4 DEF StagingWritten, Saving
<1>5. CASE StagingClosed
  BY <1>1, <1>5 DEF StagingClosed, Saving
<1>6. CASE StagingRenamed
  <2>1. temp = Document(settings)
    BY <1>6 DEF StagingRenamed
  <2>2. /\ disk' = Document(settings) /\ lastSaved' = settings /\ temp' = Content("absent")
        /\ step' = "saved" /\ settings' = settings /\ leftover' = leftover
    BY <1>6, <2>1 DEF StagingRenamed
  <2>3. SessionTypes'
    BY <1>1, <1>2, <2>2
  <2>4. SaveProgress'
    BY <1>1, <1>2, <2>2
  <2>5. SettingsAreWhole'
    BY <1>1, <1>2, <2>2
  <2>6. QED
    BY <2>3, <2>4, <2>5
<1>7. CASE SaveFails
  BY <1>1, <1>7 DEF SaveFails, Saving
<1>8. CASE StagingRemoved
  BY <1>1, <1>2, <1>8 DEF StagingRemoved, Saving
<1>9. QED
  BY <1>1, <1>3, <1>4, <1>5, <1>6, <1>7, <1>8 DEF Save

\* The process or the machine stops: the staging file is left behind, and only
\* without power can a document be torn.
LEMMA CrashKeepsStore ==
  ASSUME SessionInv, ProcessCrash \/ PowerFailure
  PROVE  SessionTypes' /\ SaveProgress' /\ SettingsAreWhole'
<1>1. /\ step' = "none" /\ temp' = Content("absent") /\ session' = "crashed"
      /\ leftover' = (leftover \/ temp.kind # "absent")
      /\ UNCHANGED <<settings, lastSaved, starts, touched>>
  BY DEF ProcessCrash, PowerFailure, StoreStops
<1>2. /\ Content("absent") \in Contents /\ Content("absent").kind = "absent"
      /\ Content("torn") \in Contents
  BY SettingsFiles DEF Kinds
<1>3. CASE ProcessCrash
  BY <1>1, <1>2, <1>3 DEF ProcessCrash, SessionInv, SessionTypes, StoreTypeOK, SaveProgress,
     SettingsAreWhole
<1>4. CASE PowerFailure
  <2>1. disk' = disk \/ disk' = Content("torn")
    BY <1>4 DEF PowerFailure, StoreSurvivors
  <2>2. powerFailed' = TRUE
    BY <1>4 DEF PowerFailure
  <2>3. QED
    BY <1>1, <1>2, <2>1, <2>2 DEF SessionInv, SessionTypes, StoreTypeOK, SaveProgress,
       SettingsAreWhole
<1>5. QED
  BY <1>3, <1>4

LEMMA OthersKeepStore ==
  ASSUME SessionInv,
         NEW content \in {Content("absent"), Content("foreign")}
                           \cup {Document([folder |-> f, window |-> NoPlacement]) : f \in Folders},
         SettingsTouched(content)
  PROVE  SessionTypes' /\ SaveProgress' /\ SettingsAreWhole'
<1>1. \A f \in Folders : [folder |-> f, window |-> NoPlacement] \in Settings
  BY DEF Settings
<1>2. content \in Contents /\ content.kind # "torn"
  BY <1>1, SettingsFiles DEF Kinds
<1>3. /\ disk' = content /\ touched' = TRUE
      /\ UNCHANGED <<temp, settings, step, leftover, lastSaved, session, starts, powerFailed, pc>>
  BY DEF SettingsTouched, OtherWriter
<1>4. QED
  BY <1>2, <1>3 DEF SessionInv, SessionTypes, StoreTypeOK, SaveProgress, SettingsAreWhole

LEMMA RestartKeepsStore ==
  ASSUME SessionInv, Restart
  PROVE  SessionTypes' /\ SaveProgress' /\ SettingsAreWhole'
<1>1. /\ session \in {"exited", "crashed"} /\ starts < MaxStarts /\ starts' = starts + 1
      /\ settings' = Loaded /\ step' = "none" /\ session' = "running"
      /\ UNCHANGED <<disk, temp, leftover, lastSaved, touched, powerFailed>>
  BY DEF Restart, StoreStarts
<1>2. settings' \in Settings /\ settings'.window # Implausible
  BY <1>1, LoadedTyped DEF SessionInv, SessionTypes, StoreTypeOK
<1>3. temp.kind = "absent"
  BY <1>1 DEF SessionInv, SaveProgress
<1>4. starts' \in 1..MaxStarts
  BY <1>1 DEF SessionInv, SessionTypes
<1>5. QED
  BY <1>1, <1>2, <1>3, <1>4 DEF SessionInv, SessionTypes, StoreTypeOK, SaveProgress,
     SettingsAreWhole

\* The settings in memory, the staging file and the settings file agree at every
\* step of a Save, in every session and after every crash.
THEOREM SessionInvariant == SessionSpec => []SessionInv
<1>1. ASSUME SessionInv, [SessionNext]_allVars PROVE SessionInv'
  <2>1. ExportInv'
    BY <1>1, SessionKeepsExport DEF SessionInv
  <2>2. SessionTypes' /\ SaveProgress' /\ SettingsAreWhole'
    <3>1. CASE UNCHANGED allVars \/ Over
      <4>1. UNCHANGED storeSession /\ pc' = pc
        BY <3>1 DEF Over, allVars, vars, storeVars, sessionVars, storeSession
      <4>2. QED
        BY <1>1, <4>1, StoreUndisturbed
    <3>2. QED
      BY <1>1, <3>1, ExportStepsKeepStore, FolderKeepsStore, CloseKeepsStore, SaveKeepsStore,
         CrashKeepsStore, OthersKeepStore, RestartKeepsStore DEF SessionNext
  <2>3. QED
    BY <2>1, <2>2 DEF SessionInv
<1>2. QED
  BY <1>1, SessionBegins, PTL DEF SessionSpec

\* Unless the power failed the settings file is never torn, and unless another
\* program wrote it, it is what the last completed Save was given.
THEOREM SettingsAlwaysWhole == SessionSpec => []SettingsAreWhole
<1>1. SessionInv => SettingsAreWhole
  BY DEF SessionInv
<1>2. QED
  BY <1>1, SessionInvariant, PTL

\* A session that ends in order leaves no export at work, no staging file that it
\* could remove, and its folder and placement on the disk if the Save succeeded.
THEOREM ExitAlwaysOrderly == SessionSpec => []ExitIsOrderly
<1>1. SessionInv => ExitIsOrderly
  BY DEF SessionInv, SessionTypes, SaveProgress, ExportInv, TypeOK, StagingProgress,
     ExitIsOrderly, SessionTypeOK
<1>2. QED
  BY <1>1, SessionInvariant, PTL
=============================================================================
