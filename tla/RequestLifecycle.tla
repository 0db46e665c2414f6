-------------------------- MODULE RequestLifecycle --------------------------
(***************************************************************************)
(* One S3 request from the router to its response: handle_s3_request and   *)
(* dispatch (src/handlers/s3.rs), the admission semaphores of AppState     *)
(* (src/lib.rs), the tenant lease (src/hooks.rs), and the order in which   *)
(* each handler checks, takes permits and touches storage.                 *)
(*                                                                         *)
(* The checks themselves are nondeterministic here (any of them may refuse *)
(* a request); Routing, Authentication and Checksums say what they decide. *)
(* A request's task can be dropped, by the tenant timeout or because the   *)
(* client is gone, only where it awaits; permits and the lease are values  *)
(* it owns, so dropping the task gives them back. A client may stop        *)
(* sending its body at any time without closing the connection.            *)
(***************************************************************************)
EXTENDS Naturals, Sequences, FiniteSets

Pools == {"s3_requests", "object_writers", "multipart_part_writers",
          "aws_chunked_decoders"}
Unrouted == "Unrouted"    \* parse error, ListObjectsV2, Unsupported, MethodNotAllowed

CONSTANTS
  Requests,   \* requests that may arrive
  Arrivals,   \* Arrivals[r]: what r may be, records [op, chunked]
  Limits,     \* the configured limits: permits of each semaphore
  MayDrop     \* clients may disconnect

-----------------------------------------------------------------------------
(* The steps of the handlers, in their order.  "body" reads the request    *)
(* body; the steps of Storage are awaited calls of the stores and the      *)
(* processors; the name of a pool is a try_acquire; anything else is a     *)
(* check without an await.                                                 *)

Storage == {"stage", "process", "store"}
HandlerPools == Pools \ {"s3_requests"}

authorize_request == <<"allow_target", "authorize", "authorization_policy">>

HeadBucketSteps == <<"target">> \o authorize_request \o <<"payload_hash">>

HeadObjectSteps ==
  <<"target">> \o authorize_request \o <<"payload_hash", "store", "conditional">>

GetObjectSteps ==
  <<"target">> \o authorize_request
    \o <<"payload_hash", "store", "conditional", "range", "overrides">>

DeleteObjectSteps ==
  <<"target">> \o authorize_request \o <<"payload_hash", "store">>

PutObjectSteps ==
  <<"target", "body_length", "upload_headers">> \o authorize_request
    \o <<"allow_upload", "metadata", "object_writers", "aws_chunked_decoders",
         "stage", "body", "process", "store">>

CreateMultipartUploadSteps ==
  <<"body_length", "upload_headers", "payload_hash", "target">>
    \o authorize_request \o <<"allow_upload", "metadata", "store">>

UploadPartSteps ==
  <<"body_length", "upload_headers", "session">> \o authorize_request
    \o <<"allow_upload", "multipart_part_writers", "aws_chunked_decoders",
         "stage", "body", "store">>

ListPartsSteps ==
  <<"page", "session">> \o authorize_request \o <<"payload_hash">>

AbortMultipartUploadSteps ==
  <<"body_length", "session">> \o authorize_request \o <<"payload_hash", "store">>

CompleteMultipartUploadSteps ==
  <<"session">> \o authorize_request
    \o <<"body", "payload_hash", "part_list", "checksum_request", "store">>

Handlers ==
  [HeadBucket              |-> HeadBucketSteps,
   HeadObject              |-> HeadObjectSteps,
   GetObject               |-> GetObjectSteps,
   DeleteObject            |-> DeleteObjectSteps,
   PutObject               |-> PutObjectSteps,
   CreateMultipartUpload   |-> CreateMultipartUploadSteps,
   UploadPart              |-> UploadPartSteps,
   ListParts               |-> ListPartsSteps,
   AbortMultipartUpload    |-> AbortMultipartUploadSteps,
   CompleteMultipartUpload |-> CompleteMultipartUploadSteps]

S3Operations == DOMAIN Handlers
Uploads == {"PutObject", "CreateMultipartUpload", "UploadPart"}

(* UploadLimits::validated refuses a limit of zero.                        *)
ASSUME LimitsNonZero == Limits \subseteq [Pools -> Nat \ {0}]

ASSUME RequestTypes ==
  /\ IsFiniteSet(Requests)
  /\ MayDrop \in BOOLEAN
  /\ Arrivals \in
       [Requests -> SUBSET [op : S3Operations \cup {Unrouted}, chunked : BOOLEAN]]

-----------------------------------------------------------------------------
VARIABLES
  limit,      \* the limits AdmissionControl was built with
  pc,         \* where the task of r is
  req,        \* req[r]: the request's operation and encoding
  at,         \* at[r]: index of the handler's next step
  passed,     \* passed[r]: the checks r has passed
  available,  \* available[p]: free permits of semaphore p
  held,       \* held[r]: the semaphores r holds a permit of
  lease,      \* lease[r]: "none", "unlimited" or "timeout"
  begun,      \* begun[r]: begin_operation granted r a lease (history)
  reports,    \* reports[r]: outcomes given to finish_operation
  result      \* result[r]: what dispatch returned

vars == <<limit, pc, req, at, passed, available, held, lease, begun, reports, result>>
permits == <<available, held>>
tenant == <<lease, begun, reports>>

Nothing == [op |-> Unrouted, chunked |-> FALSE]
Outcomes == {"ok", "error", "timed_out"}
Ended == {"done", "dropped"}
PCs == {"idle", "observe", "admit", "dispatch", "authenticate", "begin",
        "handler", "finish", "map_error", "map_response"} \cup Ended

HandlerSteps == UNION {{Handlers[o][i] : i \in 1..Len(Handlers[o])} : o \in S3Operations}
Checks == HandlerSteps \cup {"operation", "authenticated"}

TypeOK ==
  /\ limit \in Limits
  /\ pc \in [Requests -> PCs]
  /\ req \in [Requests -> [op : S3Operations \cup {Unrouted}, chunked : BOOLEAN]]
  /\ at \in [Requests -> Nat \ {0}]
  /\ passed \in [Requests -> SUBSET Checks]
  /\ available \in [Pools -> Nat]
  /\ held \in [Requests -> SUBSET Pools]
  /\ lease \in [Requests -> {"none", "unlimited", "timeout"}]
  /\ begun \in [Requests -> BOOLEAN]
  /\ reports \in [Requests -> Seq(Outcomes)]
  /\ result \in [Requests -> Outcomes \cup {"none"}]

Init ==
  /\ limit \in Limits
  /\ pc = [r \in Requests |-> "idle"]
  /\ req = [r \in Requests |-> Nothing]
  /\ at = [r \in Requests |-> 1]
  /\ passed = [r \in Requests |-> {}]
  /\ available = limit
  /\ held = [r \in Requests |-> {}]
  /\ lease = [r \in Requests |-> "none"]
  /\ begun = [r \in Requests |-> FALSE]
  /\ reports = [r \in Requests |-> <<>>]
  /\ result = [r \in Requests |-> "none"]

-----------------------------------------------------------------------------
(* Permits: OwnedSemaphorePermit values, returned when they are dropped.   *)

Goto(r, s) == pc' = [pc EXCEPT ![r] = s]
Passes(r, cs) == passed' = [passed EXCEPT ![r] = @ \cup cs]

MutantPermitNotBound(r, p) ==
  /\ available[p] > 0
  /\ UNCHANGED permits

try_acquire(r, p) ==
  /\ available[p] > 0
  /\ available' = [available EXCEPT ![p] = @ - 1]
  /\ held' = [held EXCEPT ![r] = @ \cup {p}]

GiveBack(r, ps) ==
  /\ available' = [p \in Pools |->
       IF p \in ps \cap held[r] THEN available[p] + 1 ELSE available[p]]
  /\ held' = [held EXCEPT ![r] = @ \ ps]

-----------------------------------------------------------------------------
(* handle_s3_request and dispatch.                                         *)

(* The request is parsed, its operation detected, and the observer called. *)
Arrive(r) ==
  /\ pc[r] = "idle"
  /\ \E a \in Arrivals[r] : req' = [req EXCEPT ![r] = a]
  /\ Goto(r, "observe")
  /\ UNCHANGED <<at, passed, permits, tenant, result>>

observe_request(r) ==
  /\ pc[r] = "observe"
  /\ Goto(r, "admit")
  /\ UNCHANGED <<req, at, passed, permits, tenant, result>>

(* dispatch returned an error before the operation began.                  *)
Refuse(r) ==
  /\ Goto(r, "map_error")
  /\ result' = [result EXCEPT ![r] = "error"]

MutantAwaitPermit(r) ==
  /\ pc[r] = "admit"
  /\ try_acquire(r, "s3_requests")
  /\ Goto(r, "dispatch")
  /\ UNCHANGED <<req, at, passed, tenant, result>>

try_acquire_s3_request(r) ==
  /\ pc[r] = "admit"
  /\ \/ /\ try_acquire(r, "s3_requests")
        /\ Goto(r, "dispatch")
        /\ UNCHANGED result
     \/ /\ available["s3_requests"] = 0
        /\ Refuse(r)
        /\ UNCHANGED permits
  /\ UNCHANGED <<req, at, passed, tenant>>

(* disabled_operations, then the operation policy.                         *)
allow_operation(r) ==
  /\ pc[r] = "dispatch"
  /\ \/ /\ req[r].op \in S3Operations
        /\ Passes(r, {"operation"})
        /\ Goto(r, "authenticate")
        /\ UNCHANGED result
     \/ Refuse(r) /\ UNCHANGED passed
  /\ UNCHANGED <<req, at, permits, tenant>>

(* The provider or the built-in authenticator; then TenantId is derived    *)
(* from the principal, and an invalid custom one is refused.               *)
authenticate_request(r) ==
  /\ pc[r] = "authenticate"
  /\ \/ Passes(r, {"authenticated"}) /\ Goto(r, "begin") /\ UNCHANGED result
     \/ Refuse(r) /\ UNCHANGED passed
  /\ UNCHANGED <<req, at, permits, tenant>>

(* The provider grants a lease, with or without a timeout, or refuses.     *)
begin_tenant_operation(r) ==
  /\ pc[r] = "begin"
  /\ \/ /\ \E l \in {"unlimited", "timeout"} : lease' = [lease EXCEPT ![r] = l]
        /\ begun' = [begun EXCEPT ![r] = TRUE]
        /\ Goto(r, "handler")
        /\ UNCHANGED result
     \/ Refuse(r) /\ UNCHANGED <<lease, begun>>
  /\ UNCHANGED <<req, at, passed, permits, reports>>

-----------------------------------------------------------------------------
(* The handler.                                                            *)

Steps(r) == Handlers[req[r].op]
Step(r) == Steps(r)[at[r]]

(* The handler future ends: what it owned is dropped, and finish_operation *)
(* is called with the outcome.                                             *)
Return(r, outcome) ==
  /\ GiveBack(r, HandlerPools)
  /\ result' = [result EXCEPT ![r] = outcome]
  /\ reports' = [reports EXCEPT ![r] = Append(@, outcome)]
  /\ Goto(r, "finish")
  /\ at' = [at EXCEPT ![r] = 1]
  /\ passed' = [passed EXCEPT ![r] = {}]

(* Go on with step i, those before it having passed.                       *)
Proceed(r, i) ==
  IF i > Len(Steps(r))
    THEN Return(r, "ok")
    ELSE /\ at' = [at EXCEPT ![r] = i]
         /\ Passes(r, {Steps(r)[j] : j \in at[r]..(i - 1)})
         /\ UNCHANGED <<pc, permits, result, reports>>

(* Consecutive checks run without an await and share nothing with other    *)
(* requests: they are one step, which refuses the request or gets past     *)
(* them all.                                                               *)
IsCheck(s) == s \notin HandlerPools \cup Storage \cup {"body"}

checks(r) ==
  /\ pc[r] = "handler"
  /\ IsCheck(Step(r))
  /\ \/ \E i \in (at[r] + 1)..(Len(Steps(r)) + 1) :
          /\ \A j \in at[r]..(i - 1) : IsCheck(Steps(r)[j])
          /\ i <= Len(Steps(r)) => ~IsCheck(Steps(r)[i])
          /\ Proceed(r, i)
     \/ Return(r, "error")
  /\ UNCHANGED <<req, lease, begun>>

(* Only an aws-chunked request takes a decoder permit.                     *)
NeedsPermit(r, p) == p = "aws_chunked_decoders" => req[r].chunked

try_acquire_handler_permit(r) ==
  /\ pc[r] = "handler"
  /\ Step(r) \in HandlerPools
  /\ \/ /\ NeedsPermit(r, Step(r))
        /\ try_acquire(r, Step(r))
        /\ at' = [at EXCEPT ![r] = @ + 1]
        /\ Passes(r, {Step(r)})
        /\ UNCHANGED <<pc, reports, result>>
     \/ ~NeedsPermit(r, Step(r)) /\ Proceed(r, at[r] + 1)
     \/ NeedsPermit(r, Step(r)) /\ available[Step(r)] = 0 /\ Return(r, "error")
  /\ UNCHANGED <<req, lease, begun>>

(* An awaited call of a store or a processor returns.                      *)
storage_call(r) ==
  /\ pc[r] = "handler"
  /\ Step(r) \in Storage
  /\ Proceed(r, at[r] + 1) \/ Return(r, "error")
  /\ UNCHANGED <<req, lease, begun>>

(* The body has been received and validated, or is invalid.                *)
receive_body(r) ==
  /\ pc[r] = "handler"
  /\ Step(r) = "body"
  /\ Proceed(r, at[r] + 1) \/ Return(r, "error")
  /\ UNCHANGED <<req, lease, begun>>

Awaits(r) ==
  \/ pc[r] \in {"observe", "authenticate", "begin", "finish", "map_error", "map_response"}
  \/ pc[r] = "handler" /\ Step(r) \in Storage \cup {"body"}

(* tokio::time::timeout drops the handler future at an await.              *)
timeout(r) ==
  /\ pc[r] = "handler" /\ Awaits(r)
  /\ lease[r] = "timeout"
  /\ Return(r, "timed_out")
  /\ UNCHANGED <<req, lease, begun>>

MutantLeaseKept(r) ==
  /\ pc[r] = "finish"
  /\ \/ result[r] = "ok" /\ GiveBack(r, {"s3_requests"}) /\ Goto(r, "map_response")
        /\ lease' = [lease EXCEPT ![r] = "none"]
     \/ result[r] # "ok" /\ UNCHANGED <<permits, lease>> /\ Goto(r, "map_error")
  /\ UNCHANGED <<req, at, passed, begun, reports, result>>

MutantFinishTwice(r) ==
  /\ pc[r] = "finish"
  /\ \/ /\ result[r] = "timed_out" /\ Len(reports[r]) = 1
        /\ reports' = [reports EXCEPT ![r] = Append(@, "error")]
        /\ UNCHANGED <<pc, permits, lease>>
     \/ /\ result[r] # "timed_out" \/ Len(reports[r]) > 1
        /\ lease' = [lease EXCEPT ![r] = "none"]
        /\ IF result[r] = "ok" THEN GiveBack(r, {"s3_requests"}) /\ Goto(r, "map_response")
                               ELSE UNCHANGED permits /\ Goto(r, "map_error")
        /\ UNCHANGED reports
  /\ UNCHANGED <<req, at, passed, begun, result>>

(* finish_operation returned: the lease is dropped after it, the permit of *)
(* the request with the match arm that dispatched it.                      *)
finish_tenant_operation(r) ==
  /\ pc[r] = "finish"
  /\ lease' = [lease EXCEPT ![r] = "none"]
  /\ \/ result[r] = "ok" /\ GiveBack(r, {"s3_requests"}) /\ Goto(r, "map_response")
     \/ result[r] # "ok" /\ UNCHANGED permits /\ Goto(r, "map_error")
  /\ UNCHANGED <<req, at, passed, begun, reports, result>>

(* error_response runs inside the match arm, before the permit is dropped. *)
error_response(r) ==
  /\ pc[r] = "map_error"
  /\ GiveBack(r, {"s3_requests"})
  /\ Goto(r, "map_response")
  /\ UNCHANGED <<req, at, passed, tenant, result>>

(* Its locals are gone with the task.                                      *)
End(r, how) ==
  /\ Goto(r, how)
  /\ req' = [req EXCEPT ![r] = Nothing]
  /\ at' = [at EXCEPT ![r] = 1]
  /\ passed' = [passed EXCEPT ![r] = {}]

map_response(r) ==
  /\ pc[r] = "map_response"
  /\ End(r, "done")
  /\ UNCHANGED <<permits, tenant, result>>

(* The client is gone: the server drops the task where it awaits.          *)
Drop(r) ==
  /\ MayDrop
  /\ Awaits(r)
  /\ GiveBack(r, Pools)
  /\ lease' = [lease EXCEPT ![r] = "none"]
  /\ End(r, "dropped")
  /\ UNCHANGED <<begun, reports, result>>

-----------------------------------------------------------------------------
(* Everything but the client: the task itself and the hooks it awaits.     *)
Handle(r) ==
  \/ observe_request(r) \/ try_acquire_s3_request(r) \/ allow_operation(r)
  \/ authenticate_request(r) \/ begin_tenant_operation(r)
  \/ checks(r) \/ try_acquire_handler_permit(r) \/ storage_call(r)
  \/ finish_tenant_operation(r) \/ error_response(r) \/ map_response(r)

Next ==
  /\ \E r \in Requests : Arrive(r) \/ Handle(r) \/ receive_body(r) \/ timeout(r) \/ Drop(r)
  /\ UNCHANGED limit

Spec == Init /\ [][Next]_vars

(* tokio polls a woken task, storage calls and hooks return, and timers    *)
(* fire.  Nothing makes a client send its body or disconnect.              *)
FairSpec ==
  /\ Spec
  /\ \A r \in Requests : WF_vars(Handle(r) /\ UNCHANGED limit)
                           /\ WF_vars(timeout(r) /\ UNCHANGED limit)

-----------------------------------------------------------------------------
Holders(p) == {r \in Requests : p \in held[r]}

(* No permit is ever lost or returned twice: what is free and what is held *)
(* make up the configured limit of each semaphore, after any interleaving  *)
(* of refusals, errors, timeouts and disconnects.                          *)
PermitsConserved ==
  \A p \in Pools : available[p] + Cardinality(Holders(p)) = limit[p]

(* A request that was refused admission, has been answered or was dropped  *)
(* owns nothing: no permit of any semaphore and no tenant lease; and the   *)
(* writer permits go with the handler, before finish_operation is awaited. *)
NothingKept ==
  \A r \in Requests :
    /\ pc[r] \in {"map_response"} \cup Ended => held[r] = {}
    /\ pc[r] \in {"finish", "map_error"} => held[r] \subseteq {"s3_requests"}
    /\ pc[r] \in {"map_error", "map_response"} \cup Ended => lease[r] = "none"

InStorage(r) == pc[r] = "handler" /\ Step(r) \in Storage \cup {"body"}
Receiving(o) == {r \in Requests : InStorage(r) /\ req[r].op = o}

(* The limits bound the work and not only the counters: no more object     *)
(* uploads, part uploads and aws-chunked decodings are at their body or at *)
(* a storage call, at any moment, than the limits allow.                   *)
UploadsBounded ==
  /\ Cardinality(Receiving("PutObject")) <= limit["object_writers"]
  /\ Cardinality(Receiving("UploadPart")) <= limit["multipart_part_writers"]
  /\ Cardinality({r \in Receiving("PutObject") \cup Receiving("UploadPart") :
                    req[r].chunked}) <= limit["aws_chunked_decoders"]

(* Before a handler reads a body byte, stages or stores anything, the      *)
(* operation is allowed, the caller is authenticated and authorised for    *)
(* the target, and uploads have passed the upload policy.  Looking up the  *)
(* session of an upload id comes earlier, because it names the target; the *)
(* payload hash, XML and checksums of a completion come after its body.    *)
AuthorizedBeforeStorage ==
  \A r \in Requests : InStorage(r) =>
    /\ {"operation", "authenticated", "allow_target", "authorize",
        "authorization_policy"} \subseteq passed[r]
    /\ req[r].op \in Uploads => "allow_upload" \in passed[r]

(* A tenant limits provider that granted a lease for a request that is     *)
(* answered has been told the outcome exactly once, also when the timeout  *)
(* raced the handler, and it is the outcome the client is answered with.   *)
(* Nobody is told twice, or without a lease.  dispatch_tenant_limited_     *)
(* operation tells nobody of a task the server drops: EveryBegunReported.  *)
ReportedOnce ==
  \A r \in Requests :
    /\ ~begun[r] => reports[r] = <<>>
    /\ Len(reports[r]) <= 1
    /\ begun[r] /\ pc[r] \in {"map_error", "map_response", "done"} =>
         reports[r] = <<result[r]>>

(* docs/server.md: "The crate calls `finish_operation` once for every      *)
(* begun operation with the final status".  The call follows the awaited   *)
(* handler in dispatch_tenant_limited_operation, so it goes with the task  *)
(* when the client disconnects.                                            *)
EveryBegunReported ==
  \A r \in Requests : begun[r] /\ pc[r] \in Ended => Len(reports[r]) = 1

(* Every request whose handler reads no body, and every request whose      *)
(* lease has a timeout, ends: no step waits for a permit or for another    *)
(* request, and the timeout also ends a body its client stopped sending.   *)
BodylessRequestsEnd ==
  \A r \in Requests :
    pc[r] # "idle" /\ (req[r].op \notin {"PutObject", "UploadPart", "CompleteMultipartUpload"}
                        \/ lease[r] = "timeout") ~> pc[r] \in Ended
=============================================================================
