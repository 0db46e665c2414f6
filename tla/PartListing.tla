---------------------------- MODULE PartListing ----------------------------
(***************************************************************************)
(* ListParts (src/handlers/multipart.rs): a client pages through the parts *)
(* of an upload while other parts are being uploaded and the upload may be *)
(* completed or aborted.  Each page is made from one clone of the session. *)
(***************************************************************************)
EXTENDS Naturals, FiniteSets

CONSTANTS
  PartNumbers,     \* numbers the parts of the upload may have
  MaxPartNumber,   \* 10000, scaled down
  MaxPartsLimit,   \* MAX_PARTS_LIMIT, scaled down
  Listers          \* [maxParts, marker, access]: the query of a first page and the client

VARIABLES
  session,         \* [open, parts, owner]
  before,          \* parts that were there when the listing began
  lister,          \* the client
  marker,          \* {the part-number-marker of its next page}
  listed,          \* part numbers on the pages so far: a number -> how often
  listing          \* "listing", "complete", or an error

listVars == <<session, before, lister, marker, listed, listing>>

SmallestOf(S) == CHOOSE x \in S : \A y \in S : x <= y

(* take(n) of parts, which the session keeps in the order of their number. *)
FirstParts(S, n) == {p \in S : Cardinality({q \in S : q < p}) < n}

ListInit(listers, partSets) ==
  /\ lister \in listers
  /\ \E ps \in partSets : session = [open |-> TRUE, parts |-> ps, owner |-> {"owner"}]
  /\ before = session.parts
  /\ marker = lister.marker
  /\ listed = [n \in PartNumbers |-> 0]
  /\ listing = "listing"

-----------------------------------------------------------------------------
(* ListPartsPageRequest::parse: max-parts and part-number-marker, each {}  *)
(* when the query has none.  What is no number is refused like 0 parts.    *)
ValidPage(maxParts, from) == 0 \notin maxParts /\ \A m \in from : m <= MaxPartNumber

PageSize(maxParts) ==
  IF maxParts = {} THEN MaxPartsLimit
  ELSE LET n == CHOOSE x \in maxParts : TRUE IN IF n < MaxPartsLimit THEN n ELSE MaxPartsLimit

From(m) == IF m = {} THEN 0 ELSE CHOOSE x \in m : TRUE

(* validate_upload_session_target, for the target of the upload.           *)
validate_upload_session_target(access) ==
  session.open /\ (session.owner = {} \/ session.owner = access)

MutantNextMarker(matching, n) ==
  IF Cardinality(matching) > n THEN {SmallestOf(matching \ FirstParts(matching, n))} ELSE {}

(* The marker after a page of n parts, when more are left.                 *)
NextMarker(matching, n) ==
  IF Cardinality(matching) > n
    THEN {CHOOSE x \in FirstParts(matching, n) : \A y \in FirstParts(matching, n) : y <= x}
    ELSE {}

(* The parts beyond the marker, one more than the page holds.              *)
Matching(n) == FirstParts({p \in session.parts : p > From(marker)}, n + 1)

ListPage ==
  /\ listing = "listing"
  /\ IF ~ValidPage(lister.maxParts, marker)
       THEN listing' = "InvalidArgument" /\ UNCHANGED <<marker, listed>>
     ELSE IF ~validate_upload_session_target(lister.access)
       THEN listing' = "NoSuchUpload" /\ UNCHANGED <<marker, listed>>
     ELSE LET n == PageSize(lister.maxParts)
              matching == Matching(n)
          IN  /\ listed' = [p \in PartNumbers |->
                              listed[p] + IF p \in FirstParts(matching, n) THEN 1 ELSE 0]
              /\ marker' = NextMarker(matching, n)
              /\ listing' = IF NextMarker(matching, n) = {} THEN "complete" ELSE "listing"
  /\ UNCHANGED <<session, before, lister>>

(* UploadPart of another client.                                           *)
AddPart ==
  /\ session.open /\ listing = "listing"
  /\ \E p \in PartNumbers \ session.parts : session' = [session EXCEPT !.parts = @ \cup {p}]
  /\ UNCHANGED <<before, lister, marker, listed, listing>>

(* CompleteMultipartUpload or AbortMultipartUpload of another client.      *)
CloseUpload ==
  /\ session.open /\ listing = "listing"
  /\ session' = [session EXCEPT !.open = FALSE]
  /\ UNCHANGED <<before, lister, marker, listed, listing>>

ListNext == ListPage \/ AddPart \/ CloseUpload

-----------------------------------------------------------------------------
(* Pages neither repeat a part nor go back, whatever is uploaded between   *)
(* them, and leave no part out behind them: a part is listed at most once  *)
(* and only beyond the first marker, and every part there that was         *)
(* uploaded before the listing began is on a page once the listing has     *)
(* passed it, and on some page when the listing is complete.               *)
NothingSkipped ==
  \A p \in PartNumbers :
    /\ listed[p] <= 1 /\ (listed[p] = 1 => p > From(lister.marker))
    /\ p \in before /\ p > From(lister.marker)
         /\ (listing = "complete" \/ \E m \in marker : p <= m) => listed[p] = 1
=============================================================================
