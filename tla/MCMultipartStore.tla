-------------------------- MODULE MCMultipartStore --------------------------
(***************************************************************************)
(* MultipartStore for TLC.                                                 *)
(***************************************************************************)
EXTENDS MultipartStore, TLC

CONSTANTS w1, w2, w3, a1, c1, c2

(* Every request has a part number of its own.                             *)
MCDistinct == [w \in Parts |-> CASE w = w1 -> 1 [] w = w2 -> 2 [] w = w3 -> 3]

(* w2 uploads part 1 again.                                                *)
MCAgain == [w \in Parts |-> IF w = w3 THEN 2 ELSE 1]

(* MultipartLifecycle::default().                                          *)
MCDefault == {"cleanup_on_startup", "remove_terminal_uploads_on_startup",
              "remove_stale_temp_files_on_startup"}

MCSymmetry == Permutations(Completes)

(* w1 and w2 upload the same part number.                                  *)
MCSymmetryAgain == Permutations(Parts \ {w3})
=============================================================================
