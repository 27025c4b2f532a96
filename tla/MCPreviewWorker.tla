-------------------------- MODULE MCPreviewWorker --------------------------
(* The bounds are in the cfg: nine generations are three requests, or fewer *)
(* among messages and operations; two are kept for the end of the last.   *)
EXTENDS PreviewWorker
=============================================================================
