-------------------------- MODULE MCAppWorkflow --------------------------
(* Small instances of AppWorkflow for TLC.                                 *)
EXTENDS AppWorkflow, TLC

CONSTANTS f1, f2

MCFolders == {f1, f2}
OneFolder == {f1}
FolderSymmetry == Permutations(MCFolders)
=============================================================================
