--------------------------- MODULE MCObjectStore ---------------------------
(***************************************************************************)
(* ObjectStore for TLC.                                                    *)
(***************************************************************************)
EXTENDS ObjectStore, TLC

CONSTANTS k1, k2, p1, p2, p3, d1, g1, h1

(* All requests on one key, but for p3 on a second one.                    *)
MCKeyOf == [r \in Requests |-> IF r = p3 THEN k2 ELSE k1]

(* The two uploads to k1 are interchangeable.                              *)
MCSymmetry == Permutations({p1, p2})
=============================================================================
