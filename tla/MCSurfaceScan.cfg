SPECIFICATION Spec
CONSTANTS
  root = root
  sub = sub
  leaf = leaf
  f1 = f1
  f2 = f2
  f3 = f3
  w1 = w1
  w2 = w2
  w3 = w3
  NoItem = NoItem
  Workers <- ThreeWorkers
  Dirs <- MCDirs
  Files <- MCFiles
  Entries <- MCEntries
  Classifications <- MCClassifications
  Scans <- MCScans
SYMMETRY WorkerSymmetry
INVARIANTS
  QueueIsSound
  BudgetMatchesReport
  VerdictIsHonest
