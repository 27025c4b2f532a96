---------------------------- MODULE MCSessionEnd ----------------------------
(* Two records, one folder to choose besides those on the disk, two starts *)
(* of the program; see the cfg.                                            *)
EXTENDS SessionEnd
=============================================================================
