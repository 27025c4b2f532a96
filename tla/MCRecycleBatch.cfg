SPECIFICATION FairSpec
CONSTANTS
  f1 = f1
  f2 = f2
  f3 = f3
  g1 = g1
  g2 = g2
  h1 = h1
  h2 = h2
  h3 = h3
  kf = kf
  kg = kg
  kh = kh
  Files <- MCFiles
  Keys <- MCKeys
  KeyOf <- MCKeyOf
  IdentityOf <- MCIdentityOf
  ModifiedAt <- MCModifiedAt
  Scans <- MCScans
  Statuses <- MCStatuses
  MaxEntries = 4
  MaxBatches = 2
  MaxChanges = 1
INVARIANTS
  RowsWellFormed
  TableIsTrue
  QuietBatchIsCarriedOut
PROPERTIES
  RecycledAsConfirmed
  UncertainRowsStay
  BatchEnds
