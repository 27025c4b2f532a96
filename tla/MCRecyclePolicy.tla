-------------------------- MODULE MCRecyclePolicy --------------------------
(* Three files and a free path.  The groups: all three files, a file listed *)
(* twice, and two hard links to one file beside another file.              *)
EXTENDS RecyclePolicy, TLC

CONSTANTS p1, p2, p3, p4, i1, i2, i3, i4, a, b

MCPaths == {p1, p2, p3, p4}
MCInodes == {i1, i2, i3, i4}
MCContents == {a, b}

Separate == p1 :> i1 @@ p2 :> i2 @@ p3 :> i3 @@ p4 :> NoInode
Linked == p1 :> i1 @@ p2 :> i1 @@ p3 :> i3 @@ p4 :> NoInode
MCInitialFiles == {Separate, Linked}
MCGroups == {<<p1, p2, p3>>, <<p1, p1>>, <<p1, p2>>}
AnyAdapter == {Outcomes, {"moved"}}
Obedient == {{"moved"}}
=============================================================================
