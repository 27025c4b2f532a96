SPECIFICATION WorkflowSpec
CONSTANTS
  f1 = f1
  f2 = f2
  Folders <- OneFolder
  NoFolder = NoFolder
  MaxGeneration = 4
  MaxRevision = 2
  RecycleSupported = TRUE
  ProgressCapacity = 1
  MaxPosted = 1
INVARIANTS
  OpSafety
  ResultsMatchPhase
  OneWorkerAtATime
  AcknowledgementPending
  NoProtectedWorkerAtExit
  LabelsAreCurrent
  CapturedStaysFresh
PROPERTIES
  StaleForever
  CancelledNeverPublishes
