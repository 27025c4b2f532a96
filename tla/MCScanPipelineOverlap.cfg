SPECIFICATION Spec
CONSTANTS
  p1 = p1
  p2 = p2
  p3 = p3
  i1 = i1
  i2 = i2
  i3 = i3
  i4 = i4
  NoInode = NoInode
  Paths <- MCPaths
  Inodes <- MCInodes
  Contents <- MCContents
  InitialContents <- MCInitialContents
  InitialFiles <- MCInitialFiles
  Input <- OverlappingRoots
  MaxChanges = 1
INVARIANTS
  GroupsHaveDistinctFiles
