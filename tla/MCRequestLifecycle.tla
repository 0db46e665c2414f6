------------------------- MODULE MCRequestLifecycle -------------------------
(***************************************************************************)
(* RequestLifecycle for TLC: an upload and a request of any kind, with one *)
(* and with two request permits, and one permit of every other kind.       *)
(***************************************************************************)
EXTENDS RequestLifecycle, TLC

CONSTANTS r1, r2

MCArrivals ==
  (r1 :> [op : {"PutObject", "UploadPart"}, chunked : BOOLEAN]) @@
  (r2 :> ([op : S3Operations \cup {Unrouted}, chunked : {FALSE}]
            \cup [op : {"PutObject", "UploadPart"}, chunked : {TRUE}]))

MCLimits ==
  {[p \in Pools |-> IF p = "s3_requests" THEN n ELSE 1] : n \in 1..2}
=============================================================================
