SPECIFICATION FairWorkflowSpec
CONSTANTS
  f1 = f1
  f2 = f2
  Folders <- OneFolder
  NoFolder = NoFolder
  MaxGeneration = 4
  MaxRevision = 1
  RecycleSupported = TRUE
  ProgressCapacity = 0
  MaxPosted = 1
PROPERTIES
  OperationsRetire
  DeferredCloseCompletes
  KeepsContract
