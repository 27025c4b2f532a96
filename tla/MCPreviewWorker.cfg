SPECIFICATION FairSpec
CONSTANTS
  MaxGeneration = 9
  MaxFolderRevision = 1
INVARIANTS
  NothingLost
PROPERTIES
  RequestsAnswered
