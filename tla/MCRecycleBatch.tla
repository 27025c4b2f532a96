--------------------------- MODULE MCRecycleBatch ---------------------------
(* Two scans: a group of three files beside a group of two, which together *)
(* are too many for one confirmation; and a group of three names of which  *)
(* two are links to one file.                                              *)
EXTENDS RecycleBatch, TLC

CONSTANTS f1, f2, f3, g1, g2, h1, h2, h3, kf, kg, kh

MCFiles == {f1, f2, f3, g1, g2, h1, h2, h3}
MCKeys == {kf, kg, kh}
MCKeyOf == [f \in MCFiles |-> IF f \in {f1, f2, f3} THEN kf
                              ELSE IF f \in {g1, g2} THEN kg ELSE kh]
MCIdentityOf == [f \in MCFiles |-> IF f = h2 THEN h1 ELSE f]
MCModifiedAt == [f \in MCFiles |-> IF f \in {f2, g1, h2} THEN 2 ELSE 1]
MCScans == {<< <<f1, f2, f3>>, <<g1, g2>> >>, << <<h1, h2, h3>> >>}
MCStatuses == {"recycled", "changed", "failed"}
=============================================================================
