--------------------------- MODULE MCSurfaceScan ---------------------------
(* Small forests for TLC.  Forest: a root with a file and a subdirectory    *)
(* that holds a file and an empty directory, a file selected on its own,   *)
(* and the root selected a second time.                                    *)
EXTENDS SurfaceScan, TLC

CONSTANTS root, sub, leaf, f1, f2, f3, w1, w2, w3

MCDirs == {root, sub, leaf}
MCFiles == {f1, f2, f3}
MCEntries == root :> {f1, sub} @@ sub :> {f2, leaf} @@ leaf :> {}
AmpleScan == [roots |-> <<f3, root, root>>, maxFiles |-> 2, maxDirectories |-> 3]
TightScan == [roots |-> <<f3, leaf, root, f2>>, maxFiles |-> 1, maxDirectories |-> 1]
TightFiles == [roots |-> <<f3, f2>>, maxFiles |-> 1, maxDirectories |-> 1]
MCScans == {AmpleScan, TightScan, TightFiles}
\* The walk of one root, where a second file is one too many.
LiveScans == {[roots |-> <<root>>, maxFiles |-> 1, maxDirectories |-> 3]}
ThreeWorkers == {w1, w2, w3}

AllPlain == [i \in MCDirs \cup MCFiles |-> "plain"]
MCClassifications == {
  AllPlain,
  [AllPlain EXCEPT ![f1] = "unreadable"],
  [AllPlain EXCEPT ![f1] = "system", ![sub] = "unreadable"],
  [AllPlain EXCEPT ![sub] = "flaky", ![f2] = "reparse", ![f3] = "flaky"],
  [AllPlain EXCEPT ![root] = "reparse"],
  [AllPlain EXCEPT ![root] = "unreadable"],
  [AllPlain EXCEPT ![root] = "system", ![f3] = "unreadable"]}
LiveClassifications == {AllPlain, [AllPlain EXCEPT ![sub] = "flaky", ![f1] = "system"]}
WorkerSymmetry == Permutations(Workers)
=============================================================================
