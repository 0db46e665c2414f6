------------------------- MODULE MCUploadProcessing -------------------------
(***************************************************************************)
(* UploadProcessing for TLC: two contents within the size limit and one    *)
(* beyond it, and up to two processors, which covers a processor that runs *)
(* after one that replaced, kept or refused.                               *)
(***************************************************************************)
EXTENDS UploadProcessing, TLC

CONSTANTS c1, c2, large

MCSize == (c1 :> 0) @@ (c2 :> 2) @@ (large :> 3)
=============================================================================
