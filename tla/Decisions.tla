----------------------------- MODULE Decisions -----------------------------
(***************************************************************************)
(* Four parts of the server that decide from what a client sends, checked  *)
(* beside each other: which request is served as what (Endpoint), which    *)
(* upload has the checksums it claims (Checksums), what a reader is given  *)
(* (ObjectReads) and what a listing shows (PartListing).  They share no    *)
(* state, so a behaviour is one of one part, while the others stay in some *)
(* state they may begin in.                                                *)
(***************************************************************************)
EXTENDS Endpoint, Checksums, ObjectReads, PartListing

VARIABLE part

allVars == <<part, vars, checksumVars, readVars, listVars>>

(* The values a part begins with: any of S when it runs, one at rest.      *)
Start(p, S) == IF part = p THEN S ELSE {CHOOSE x \in S : TRUE}

Init ==
  /\ part \in {"endpoint", "checksums", "reads", "listing"}
  /\ EndpointInit(Start("endpoint", Setups))
  /\ ChecksumInit(Start("checksums", Inputs))
  /\ ReadInit(Start("reads", Readers))
  /\ ListInit(Start("listing", Listers), Start("listing", SUBSET PartNumbers))

Next ==
  /\ UNCHANGED part
  /\ \/ part = "endpoint" /\ EndpointNext /\ UNCHANGED <<checksumVars, readVars, listVars>>
     \/ part = "checksums" /\ ChecksumNext /\ UNCHANGED <<vars, readVars, listVars>>
     \/ part = "reads" /\ ReadNext /\ UNCHANGED <<vars, checksumVars, listVars>>
     \/ part = "listing" /\ ListNext /\ UNCHANGED <<vars, checksumVars, readVars>>

Spec == Init /\ [][Next]_allVars
=============================================================================
