----------------------------- MODULE MCHashPool -----------------------------
(* Three files, two keys and two workers: two files may agree, a third may *)
(* differ, change, or lose its root.                                       *)
EXTENDS HashPool

CONSTANTS f1, f2, f3, k1, k2, w1, w2

MCJobs == <<f1, f2, f3>>
MCKeys == {k1, k2}
TwoWorkers == {w1, w2}
=============================================================================
