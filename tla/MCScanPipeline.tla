--------------------------- MODULE MCScanPipeline ---------------------------
(* Three paths; three contents of one size, two of which have equal edges,  *)
(* and one of another size.  To begin with the paths name three files, or  *)
(* two of them are links to one; a fourth file may come.                   *)
EXTENDS ScanPipeline, TLC

CONSTANTS p1, p2, p3, i1, i2, i3, i4

MCPaths == {p1, p2, p3}
MCInodes == {i1, i2, i3, i4}
ContentsInOrder == <<[size |-> 1, edge |-> "a", body |-> "x"],
                     [size |-> 1, edge |-> "a", body |-> "y"],
                     [size |-> 1, edge |-> "b", body |-> "y"],
                     [size |-> 2, edge |-> "a", body |-> "x"]>>
MCContents == Range(ContentsInOrder)
\* The choices of contents up to an exchange of the files; without those that
\* only repeat another one with the second or the third content.
MCInitialContents ==
  LET content(n) == ContentsInOrder[n]
      choices == {n \in (1..4) \X (1..4) \X (1..4) :
                    n[1] = 1 /\ n[2] <= n[3]}
                 \cup {<<2, 2, 3>>, <<2, 3, 3>>, <<2, 3, 4>>, <<3, 3, 4>>} IN
  {i1 :> content(n[1]) @@ i2 :> content(n[2]) @@ i3 :> content(n[3])
     @@ i4 :> content(n[3]) : n \in choices}

Separate == p1 :> i1 @@ p2 :> i2 @@ p3 :> i3
Linked == p1 :> i1 @@ p2 :> i1 @@ p3 :> i3
MCInitialFiles == {Separate, Linked}

ThreePaths == <<p1, p2, p3>>
\* The report of overlapping roots lists a file under each of them.
OverlappingRoots == <<p1, p1>>
=============================================================================
