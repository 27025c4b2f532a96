SPECIFICATION Spec
CONSTANTS
  p1 = p1
  p2 = p2
  p3 = p3
  p4 = p4
  i1 = i1
  i2 = i2
  i3 = i3
  i4 = i4
  a = a
  b = b
  NoInode = NoInode
  Paths <- MCPaths
  Inodes <- MCInodes
  Contents <- MCContents
  InitialFiles <- MCInitialFiles
  Groups <- MCGroups
  Adapters <- Obedient
  Cancellable = FALSE
  MaxChanges = 1
INVARIANTS
  UnrecycledRemainInPlace
