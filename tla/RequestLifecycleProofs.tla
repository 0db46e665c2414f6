----------------------- MODULE RequestLifecycleProofs -----------------------
(***************************************************************************)
(* For any number of requests of any kind, any limits, and any refusals,   *)
(* timeouts and disconnects: permits are neither lost nor returned twice,  *)
(* the limits bound the work in progress, a request that has ended owns    *)
(* nothing, storage is reached only past the checks, and a lease is        *)
(* reported once.                                                          *)
(***************************************************************************)
EXTENDS RequestLifecycle, FiniteSetTheorems, TLAPS

-----------------------------------------------------------------------------
(* What the proofs need to know about the order of the handlers' steps.    *)

Before(s, i, x) == \E j \in 1..(i - 1) : s[j] = x

(* No handler takes a permit twice, or as its last step; it reaches its    *)
(* body and storage past the checks, and an upload with its permits.       *)
Ordered(o, s) ==
  /\ Len(s) \in Nat \ {0}
  /\ \A i, j \in 1..Len(s) : s[i] = s[j] /\ s[i] \in HandlerPools => i = j
  /\ s[Len(s)] \notin HandlerPools
  /\ \A i \in 1..Len(s) : s[i] \in Storage \cup {"body"} =>
       /\ Before(s, i, "allow_target")
       /\ Before(s, i, "authorize")
       /\ Before(s, i, "authorization_policy")
       /\ o \in Uploads => Before(s, i, "allow_upload")
       /\ o = "PutObject" => Before(s, i, "object_writers")
       /\ o = "UploadPart" => Before(s, i, "multipart_part_writers")
       /\ o \in {"PutObject", "UploadPart"} => Before(s, i, "aws_chunked_decoders")

USE DEF Ordered, Before, HandlerPools, Pools, Storage, Uploads, authorize_request

LEMMA HeadBucketOrdered == Ordered("HeadBucket", HeadBucketSteps)
<1> DEFINE s == HeadBucketSteps
<1>1. /\ Len(s) = 5
      /\ s[2] = "allow_target" /\ s[3] = "authorize"
      /\ s[4] = "authorization_policy"
  BY DEF HeadBucketSteps
<1>2. \A i \in 1..5 : s[i] \in Storage \cup {"body"} => i > 5
  BY DEF HeadBucketSteps
<1>3. \A i \in 1..5 : s[i] \in HandlerPools => FALSE
  BY DEF HeadBucketSteps
<1> QED
  BY <1>1, <1>2, <1>3

LEMMA HeadObjectOrdered == Ordered("HeadObject", HeadObjectSteps)
<1> DEFINE s == HeadObjectSteps
<1>1. /\ Len(s) = 7
      /\ s[2] = "allow_target" /\ s[3] = "authorize"
      /\ s[4] = "authorization_policy"
  BY DEF HeadObjectSteps
<1>2. \A i \in 1..7 : s[i] \in Storage \cup {"body"} => i > 5
  BY DEF HeadObjectSteps
<1>3. \A i \in 1..7 : s[i] \in HandlerPools => FALSE
  BY DEF HeadObjectSteps
<1> QED
  BY <1>1, <1>2, <1>3

LEMMA GetObjectOrdered == Ordered("GetObject", GetObjectSteps)
<1> DEFINE s == GetObjectSteps
<1>1. /\ Len(s) = 9
      /\ s[2] = "allow_target" /\ s[3] = "authorize"
      /\ s[4] = "authorization_policy"
  BY DEF GetObjectSteps
<1>2. \A i \in 1..9 : s[i] \in Storage \cup {"body"} => i > 5
  BY DEF GetObjectSteps
<1>3. \A i \in 1..9 : s[i] \in HandlerPools => FALSE
  BY DEF GetObjectSteps
<1> QED
  BY <1>1, <1>2, <1>3

LEMMA DeleteObjectOrdered == Ordered("DeleteObject", DeleteObjectSteps)
<1> DEFINE s == DeleteObjectSteps
<1>1. /\ Len(s) = 6
      /\ s[2] = "allow_target" /\ s[3] = "authorize"
      /\ s[4] = "authorization_policy"
  BY DEF DeleteObjectSteps
<1>2. \A i \in 1..6 : s[i] \in Storage \cup {"body"} => i > 5
  BY DEF DeleteObjectSteps
<1>3. \A i \in 1..6 : s[i] \in HandlerPools => FALSE
  BY DEF DeleteObjectSteps
<1> QED
  BY <1>1, <1>2, <1>3

LEMMA PutObjectOrdered == Ordered("PutObject", PutObjectSteps)
<1> DEFINE s == PutObjectSteps
<1>1. /\ Len(s) = 14
      /\ s[4] = "allow_target" /\ s[5] = "authorize"
      /\ s[6] = "authorization_policy" /\ s[7] = "allow_upload"
      /\ s[9] = "object_writers" /\ s[10] = "aws_chunked_decoders"
  BY DEF PutObjectSteps
<1>2. \A i \in 1..14 : s[i] \in Storage \cup {"body"} => i > 10
  BY DEF PutObjectSteps
<1>3. \A i \in 1..14 : s[i] \in HandlerPools => i \in {9, 10}
  BY DEF PutObjectSteps
<1> QED
  BY <1>1, <1>2, <1>3

LEMMA CreateMultipartUploadOrdered == Ordered("CreateMultipartUpload", CreateMultipartUploadSteps)
<1> DEFINE s == CreateMultipartUploadSteps
<1>1. /\ Len(s) = 10
      /\ s[5] = "allow_target" /\ s[6] = "authorize"
      /\ s[7] = "authorization_policy" /\ s[8] = "allow_upload"
  BY DEF CreateMultipartUploadSteps
<1>2. \A i \in 1..10 : s[i] \in Storage \cup {"body"} => i > 9
  BY DEF CreateMultipartUploadSteps
<1>3. \A i \in 1..10 : s[i] \in HandlerPools => FALSE
  BY DEF CreateMultipartUploadSteps
<1> QED
  BY <1>1, <1>2, <1>3

LEMMA UploadPartOrdered == Ordered("UploadPart", UploadPartSteps)
<1> DEFINE s == UploadPartSteps
<1>1. /\ Len(s) = 12
      /\ s[4] = "allow_target" /\ s[5] = "authorize"
      /\ s[6] = "authorization_policy" /\ s[7] = "allow_upload"
      /\ s[8] = "multipart_part_writers" /\ s[9] = "aws_chunked_decoders"
  BY DEF UploadPartSteps
<1>2. \A i \in 1..12 : s[i] \in Storage \cup {"body"} => i > 9
  BY DEF UploadPartSteps
<1>3. \A i \in 1..12 : s[i] \in HandlerPools => i \in {8, 9}
  BY DEF UploadPartSteps
<1> QED
  BY <1>1, <1>2, <1>3

LEMMA ListPartsOrdered == Ordered("ListParts", ListPartsSteps)
<1> DEFINE s == ListPartsSteps
<1>1. /\ Len(s) = 6
      /\ s[3] = "allow_target" /\ s[4] = "authorize"
      /\ s[5] = "authorization_policy"
  BY DEF ListPartsSteps
<1>2. \A i \in 1..6 : s[i] \in Storage \cup {"body"} => i > 6
  BY DEF ListPartsSteps
<1>3. \A i \in 1..6 : s[i] \in HandlerPools => FALSE
  BY DEF ListPartsSteps
<1> QED
  BY <1>1, <1>2, <1>3

LEMMA AbortMultipartUploadOrdered == Ordered("AbortMultipartUpload", AbortMultipartUploadSteps)
<1> DEFINE s == AbortMultipartUploadSteps
<1>1. /\ Len(s) = 7
      /\ s[3] = "allow_target" /\ s[4] = "authorize"
      /\ s[5] = "authorization_policy"
  BY DEF AbortMultipartUploadSteps
<1>2. \A i \in 1..7 : s[i] \in Storage \cup {"body"} => i > 6
  BY DEF AbortMultipartUploadSteps
<1>3. \A i \in 1..7 : s[i] \in HandlerPools => FALSE
  BY DEF AbortMultipartUploadSteps
<1> QED
  BY <1>1, <1>2, <1>3

LEMMA CompleteMultipartUploadOrdered == Ordered("CompleteMultipartUpload", CompleteMultipartUploadSteps)
<1> DEFINE s == CompleteMultipartUploadSteps
<1>1. /\ Len(s) = 9
      /\ s[2] = "allow_target" /\ s[3] = "authorize"
      /\ s[4] = "authorization_policy"
  BY DEF CompleteMultipartUploadSteps
<1>2. \A i \in 1..9 : s[i] \in Storage \cup {"body"} => i > 4
  BY DEF CompleteMultipartUploadSteps
<1>3. \A i \in 1..9 : s[i] \in HandlerPools => FALSE
  BY DEF CompleteMultipartUploadSteps
<1> QED
  BY <1>1, <1>2, <1>3

HIDE DEF Ordered, Before, HandlerPools, Pools, Storage, Uploads, authorize_request

LEMMA HandlersOrdered == \A o \in S3Operations : Ordered(o, Handlers[o])
<1>1. \A o \in S3Operations :
        \/ o = "HeadBucket" /\ Handlers[o] = HeadBucketSteps
        \/ o = "HeadObject" /\ Handlers[o] = HeadObjectSteps
        \/ o = "GetObject" /\ Handlers[o] = GetObjectSteps
        \/ o = "DeleteObject" /\ Handlers[o] = DeleteObjectSteps
        \/ o = "PutObject" /\ Handlers[o] = PutObjectSteps
        \/ o = "CreateMultipartUpload" /\ Handlers[o] = CreateMultipartUploadSteps
        \/ o = "UploadPart" /\ Handlers[o] = UploadPartSteps
        \/ o = "ListParts" /\ Handlers[o] = ListPartsSteps
        \/ o = "AbortMultipartUpload" /\ Handlers[o] = AbortMultipartUploadSteps
        \/ o = "CompleteMultipartUpload" /\ Handlers[o] = CompleteMultipartUploadSteps
  BY DEF S3Operations, Handlers
<1> QED
  BY ZenonT(30), <1>1, HeadBucketOrdered, HeadObjectOrdered, GetObjectOrdered, DeleteObjectOrdered,
     PutObjectOrdered, CreateMultipartUploadOrdered, UploadPartOrdered, ListPartsOrdered,
     AbortMultipartUploadOrdered, CompleteMultipartUploadOrdered

-----------------------------------------------------------------------------
(* The inductive invariant.  A permit is taken by a request that does not  *)
(* hold it: at admission it holds none, and in its handler exactly those   *)
(* of the steps behind it.                                                 *)

Taken(r) == {p \in HandlerPools : NeedsPermit(r, p) /\ Before(Steps(r), at[r], p)}

AtInv(r) ==
  /\ pc[r] \in {"authenticate", "begin", "handler"} => req[r].op \in S3Operations
  /\ IF pc[r] = "handler" THEN at[r] <= Len(Steps(r)) ELSE at[r] = 1

HeldInv(r) ==
  /\ pc[r] \in {"idle", "observe", "admit", "map_response"} \cup Ended => held[r] = {}
  /\ held[r] \cap HandlerPools = IF pc[r] = "handler" THEN Taken(r) ELSE {}

PassedInv(r) ==
  /\ pc[r] \in {"authenticate", "begin", "handler"} => "operation" \in passed[r]
  /\ pc[r] \in {"begin", "handler"} => "authenticated" \in passed[r]
  /\ pc[r] = "handler" => \A j \in 1..(at[r] - 1) : Steps(r)[j] \in passed[r]

LeaseInv(r) == pc[r] \notin {"handler", "finish"} => lease[r] = "none"

ReportInv(r) ==
  /\ pc[r] \in {"idle", "observe", "admit", "dispatch", "authenticate", "begin"} => ~begun[r]
  /\ pc[r] = "handler" => begun[r]
  /\ ~begun[r] \/ pc[r] = "handler" => reports[r] = <<>>
  /\ begun[r] /\ pc[r] \in {"finish", "map_error", "map_response", "done"} =>
       reports[r] = <<result[r]>>
  /\ Len(reports[r]) <= 1

LInv(r) == AtInv(r) /\ HeldInv(r) /\ PassedInv(r) /\ LeaseInv(r) /\ ReportInv(r)

IInv == TypeOK /\ PermitsConserved /\ \A r \in Requests : LInv(r)

-----------------------------------------------------------------------------
(* Permits.                                                                *)

(* The holders of a semaphore are finitely many.                           *)
LEMMA HoldersFinite ==
  ASSUME NEW p
  PROVE  IsFiniteSet(Holders(p)) /\ Cardinality(Holders(p)) \in Nat
BY Zenon, RequestTypes, FS_Subset, FS_CardinalityType DEF Holders

LEMMA AcquireConserves ==
  ASSUME TypeOK, PermitsConserved, limit' = limit,
         NEW r \in Requests, NEW p \in Pools, p \notin held[r], try_acquire(r, p)
  PROVE  /\ PermitsConserved'
         /\ available' \in [Pools -> Nat]
         /\ held' \in [Requests -> SUBSET Pools]
         /\ held' = [held EXCEPT ![r] = @ \cup {p}]
<1>1. /\ available \in [Pools -> Nat] /\ held \in [Requests -> SUBSET Pools]
      /\ limit \in [Pools -> Nat]
  BY LimitsNonZero DEF TypeOK
<1>2. /\ available[p] > 0
      /\ available' = [available EXCEPT ![p] = @ - 1]
      /\ held' = [held EXCEPT ![r] = @ \cup {p}]
  BY Zenon DEF try_acquire
<1>3. available' \in [Pools -> Nat] /\ held' \in [Requests -> SUBSET Pools]
  BY <1>1, <1>2
<1>4. ASSUME NEW q \in Pools
      PROVE  available'[q] + Cardinality(Holders(q)') = limit'[q]
  <2>1. available[q] + Cardinality(Holders(q)) = limit[q]
    BY Zenon DEF PermitsConserved
  <2>2. CASE q = p
    <3>1. Holders(q)' = Holders(q) \cup {r} /\ r \notin Holders(q)
      BY Zenon, <1>1, <1>2, <2>2 DEF Holders
    <3>2. Cardinality(Holders(q)') = Cardinality(Holders(q)) + 1
      BY Zenon, <3>1, HoldersFinite, FS_AddElement
    <3>3. available'[q] = available[q] - 1
      BY Zenon, <1>1, <1>2, <2>2
    <3> QED
      BY <1>1, <2>1, <3>2, <3>3, HoldersFinite
  <2>3. CASE q # p
    <3>1. Holders(q)' = Holders(q)
      BY Zenon, <1>1, <1>2, <2>3 DEF Holders
    <3>2. available'[q] = available[q]
      BY Zenon, <1>1, <1>2, <2>3
    <3> QED
      BY Zenon, <2>1, <3>1, <3>2
  <2> QED
    BY Zenon, <2>2, <2>3
<1> QED
  BY Zenon, <1>2, <1>3, <1>4 DEF PermitsConserved

LEMMA GiveBackConserves ==
  ASSUME TypeOK, PermitsConserved, limit' = limit,
         NEW r \in Requests, NEW ps \in SUBSET Pools, GiveBack(r, ps)
  PROVE  /\ PermitsConserved'
         /\ available' \in [Pools -> Nat]
         /\ held' \in [Requests -> SUBSET Pools]
         /\ held' = [held EXCEPT ![r] = @ \ ps]
<1>1. /\ available \in [Pools -> Nat] /\ held \in [Requests -> SUBSET Pools]
      /\ limit \in [Pools -> Nat]
  BY Zenon, LimitsNonZero DEF TypeOK
<1>2. /\ available' = [p \in Pools |->
                         IF p \in ps \cap held[r] THEN available[p] + 1 ELSE available[p]]
      /\ held' = [held EXCEPT ![r] = @ \ ps]
  BY Zenon DEF GiveBack
<1>3. available' \in [Pools -> Nat] /\ held' \in [Requests -> SUBSET Pools]
  BY <1>1, <1>2
<1>4. ASSUME NEW q \in Pools
      PROVE  available'[q] + Cardinality(Holders(q)') = limit'[q]
  <2>1. available[q] + Cardinality(Holders(q)) = limit[q]
    BY Zenon DEF PermitsConserved
  <2>2. CASE q \in ps \cap held[r]
    <3>1. Holders(q)' = Holders(q) \ {r} /\ r \in Holders(q)
      BY Zenon, <1>1, <1>2, <2>2 DEF Holders
    <3>2. Cardinality(Holders(q)') = Cardinality(Holders(q)) - 1
      BY ZenonT(30), <3>1, HoldersFinite, FS_RemoveElement
    <3>3. available'[q] = available[q] + 1
      BY Zenon, <1>1, <1>2, <2>2
    <3> QED
      BY <1>1, <2>1, <3>2, <3>3, HoldersFinite
  <2>3. CASE q \notin ps \cap held[r]
    <3>1. Holders(q)' = Holders(q)
      BY Zenon, <1>1, <1>2, <2>3 DEF Holders
    <3>2. available'[q] = available[q]
      BY Zenon, <1>1, <1>2, <2>3
    <3> QED
      BY Zenon, <2>1, <3>1, <3>2
  <2> QED
    BY Zenon, <2>2, <2>3
<1> QED
  BY Zenon, <1>2, <1>3, <1>4 DEF PermitsConserved

-----------------------------------------------------------------------------
(* A step of one request leaves the others alone.                          *)

LEMMA OthersKeep ==
  ASSUME IInv, NEW r \in Requests, NEW q \in Requests \ {r},
         pc'[q] = pc[q], req'[q] = req[q], at'[q] = at[q], passed'[q] = passed[q],
         held'[q] = held[q], lease'[q] = lease[q], begun'[q] = begun[q],
         reports'[q] = reports[q], result'[q] = result[q]
  PROVE  LInv(q)'
<1>1. LInv(q)
  BY Zenon DEF IInv
<1>2. Steps(q)' = Steps(q)
  BY Zenon DEF Steps
<1>3. AtInv(q)'
  BY Zenon, <1>1, <1>2 DEF LInv, AtInv
<1>4. Taken(q)' = Taken(q)
  BY Zenon, <1>2 DEF Taken, NeedsPermit
<1>5. HeldInv(q)'
  BY Zenon, <1>1, <1>4 DEF LInv, HeldInv
<1>6. PassedInv(q)'
  BY Zenon, <1>1, <1>2 DEF LInv, PassedInv
<1>7. LeaseInv(q)' /\ ReportInv(q)'
  BY Zenon, <1>1 DEF LInv, LeaseInv, ReportInv
<1> QED
  BY ZenonT(30), <1>3, <1>5, <1>6, <1>7 DEF LInv

(* The end of a handler, with any outcome.                                 *)
LEMMA ReturnKeeps ==
  ASSUME IInv, limit' = limit, NEW r \in Requests, pc[r] = "handler",
         NEW o \in Outcomes, Return(r, o), UNCHANGED <<req, lease, begun>>
  PROVE  IInv'
<1> USE DEF Return, Goto
<1>1. TypeOK /\ PermitsConserved /\ LInv(r)
  BY Zenon DEF IInv
<1>2. /\ PermitsConserved'
      /\ available' \in [Pools -> Nat]
      /\ held' \in [Requests -> SUBSET Pools]
      /\ held' = [held EXCEPT ![r] = @ \ HandlerPools]
  BY ZenonT(30), <1>1, GiveBackConserves DEF HandlerPools
<1>3. TypeOK'
  BY <1>1, <1>2 DEF TypeOK, PCs, Ended
<1>4. /\ pc'[r] = "finish" /\ at'[r] = 1 /\ held'[r] = held[r] \ HandlerPools
      /\ reports'[r] = Append(reports[r], o) /\ result'[r] = o
      /\ begun'[r] = begun[r]
  BY Zenon, <1>1, <1>2 DEF TypeOK
<1>5. AtInv(r)' /\ PassedInv(r)' /\ LeaseInv(r)'
  BY Zenon, <1>4 DEF AtInv, PassedInv, LeaseInv
<1>6. HeldInv(r)'
  BY Zenon, <1>4 DEF HeldInv, Ended
<1>7. ReportInv(r)'
  <2>1. begun[r] /\ reports[r] = <<>>
    BY Zenon, <1>1 DEF LInv, ReportInv
  <2>2. reports'[r] = <<o>> /\ Len(reports'[r]) = 1
    BY <1>4, <2>1
  <2> QED
    BY <1>4, <2>1, <2>2 DEF ReportInv
<1>8. ASSUME NEW q \in Requests \ {r}
      PROVE  LInv(q)'
  <2>1. /\ pc'[q] = pc[q] /\ req'[q] = req[q] /\ at'[q] = at[q] /\ passed'[q] = passed[q]
        /\ held'[q] = held[q] /\ lease'[q] = lease[q] /\ begun'[q] = begun[q]
        /\ reports'[q] = reports[q] /\ result'[q] = result[q]
    BY Zenon, <1>1, <1>2 DEF TypeOK
  <2> QED
    BY Zenon, <2>1, OthersKeep
<1> QED
  BY Zenon, <1>2, <1>3, <1>5, <1>6, <1>7, <1>8 DEF IInv, LInv

(* The handler's next step is one of its steps.                            *)
LEMMA StepTypes ==
  ASSUME IInv, NEW r \in Requests, pc[r] = "handler"
  PROVE  /\ req[r].op \in S3Operations
         /\ Len(Steps(r)) \in Nat
         /\ at[r] \in 1..Len(Steps(r))
         /\ Ordered(req[r].op, Steps(r))
         /\ \A j \in 1..Len(Steps(r)) : Steps(r)[j] \in Checks
<1>1. req[r].op \in S3Operations /\ at[r] <= Len(Steps(r)) /\ at[r] \in Nat \ {0}
  BY Zenon DEF IInv, LInv, AtInv, TypeOK
<1>2. Ordered(req[r].op, Steps(r)) /\ Len(Steps(r)) \in Nat
  BY Zenon, <1>1, HandlersOrdered DEF Steps, Ordered
<1>3. ASSUME NEW j \in 1..Len(Steps(r))
      PROVE  Steps(r)[j] \in Checks
  <2> DEFINE StepsOf(o) == {Handlers[o][i] : i \in 1..Len(Handlers[o])}
  <2>1. Steps(r)[j] \in StepsOf(req[r].op)
    BY Zenon DEF Steps
  <2>2. StepsOf(req[r].op) \in {StepsOf(o) : o \in S3Operations}
    BY Zenon, <1>1
  <2> QED
    BY Zenon, <2>1, <2>2 DEF Checks, HandlerSteps
<1> QED
  BY <1>1, <1>2, <1>3

(* Going on with step i takes and returns no permit.                       *)
LEMMA ProceedKeeps ==
  ASSUME IInv, limit' = limit, NEW r \in Requests, pc[r] = "handler",
         NEW i \in (at[r] + 1)..(Len(Steps(r)) + 1),
         \A j \in at[r]..(i - 1) :
           Steps(r)[j] \in HandlerPools => ~NeedsPermit(r, Steps(r)[j]),
         Proceed(r, i), UNCHANGED <<req, lease, begun>>
  PROVE  IInv'
<1>1. TypeOK /\ PermitsConserved /\ LInv(r)
  BY Zenon DEF IInv
<1>2. Len(Steps(r)) \in Nat /\ at[r] \in 1..Len(Steps(r)) /\ i \in Nat
  BY StepTypes
<1>3. CASE i > Len(Steps(r))
  BY Zenon, <1>3, ReturnKeeps DEF Proceed, Outcomes
<1>4. CASE ~(i > Len(Steps(r)))
  <2>1. /\ at' = [at EXCEPT ![r] = i]
        /\ passed' = [passed EXCEPT ![r] = @ \cup {Steps(r)[j] : j \in at[r]..(i - 1)}]
        /\ UNCHANGED <<pc, available, held, result, reports>>
    BY Zenon, <1>4 DEF Proceed, Passes, permits
  <2>2. {Steps(r)[j] : j \in at[r]..(i - 1)} \subseteq Checks
    BY <1>2, <1>4, StepTypes
  <2>3. TypeOK'
    BY <1>1, <1>2, <2>1, <2>2 DEF TypeOK
  <2>4. PermitsConserved'
    BY Zenon, <1>1, <2>1 DEF PermitsConserved, Holders
  <2>5. /\ Steps(r)' = Steps(r) /\ at'[r] = i /\ pc'[r] = "handler"
        /\ passed'[r] = passed[r] \cup {Steps(r)[j] : j \in at[r]..(i - 1)}
        /\ \A p : NeedsPermit(r, p)' = NeedsPermit(r, p)
    BY Zenon, <1>1, <2>1 DEF Steps, TypeOK, NeedsPermit
  <2>6. AtInv(r)'
    BY <1>1, <1>2, <1>4, <2>5 DEF LInv, AtInv
  <2>7. Taken(r)' = Taken(r)
    <3>1. ASSUME NEW p \in HandlerPools, NeedsPermit(r, p)
          PROVE  Before(Steps(r), i, p) <=> Before(Steps(r), at[r], p)
      <4>1. \A j \in 1..(i - 1) : j \in 1..(at[r] - 1) \/ j \in at[r]..(i - 1)
        BY SMT, <1>2
      <4>2. \A j \in 1..(at[r] - 1) : j \in 1..(i - 1)
        BY SMT, <1>2
      <4> QED
        BY Zenon, <3>1, <4>1, <4>2 DEF Before
    <3> QED
      BY Zenon, <2>5, <3>1 DEF Taken
  <2>8. HeldInv(r)'
    BY Zenon, <1>1, <2>1, <2>5, <2>7 DEF LInv, HeldInv, Ended
  <2>9. PassedInv(r)'
    <3>1. \A j \in 1..(i - 1) : j \in 1..(at[r] - 1) \/ j \in at[r]..(i - 1)
      BY <1>2
    <3> QED
      BY Zenon, <1>1, <2>5, <3>1 DEF LInv, PassedInv
  <2>10. LeaseInv(r)' /\ ReportInv(r)'
    BY Zenon, <1>1, <2>1 DEF LInv, LeaseInv, ReportInv
  <2>11. ASSUME NEW q \in Requests \ {r}
         PROVE  LInv(q)'
    <3>1. at'[q] = at[q] /\ passed'[q] = passed[q]
      BY Zenon, <1>1, <2>1 DEF TypeOK
    <3> QED
      BY Zenon, <2>1, <3>1, OthersKeep
  <2> QED
    BY ZenonT(30), <2>3, <2>4, <2>6, <2>8, <2>9, <2>10, <2>11 DEF IInv, LInv
<1> QED
  BY Zenon, <1>3, <1>4

LEMMA AdvanceKeeps ==
  ASSUME IInv, limit' = limit, NEW r \in Requests, pc[r] = "handler",
         Step(r) \in HandlerPools => ~NeedsPermit(r, Step(r)),
         Proceed(r, at[r] + 1), UNCHANGED <<req, lease, begun>>
  PROVE  IInv'
<1>1. Len(Steps(r)) \in Nat /\ at[r] \in 1..Len(Steps(r))
  BY Zenon, StepTypes
<1>2. at[r] + 1 \in (at[r] + 1)..(Len(Steps(r)) + 1)
  BY <1>1
<1>3. PICK i \in (at[r] + 1)..(Len(Steps(r)) + 1) : i = at[r] + 1
  BY Zenon, <1>2
<1>4. \A j \in at[r]..(i - 1) : j = at[r]
  BY <1>1, <1>3
<1> QED
  BY Zenon, <1>3, <1>4, ProceedKeeps DEF Step

-----------------------------------------------------------------------------
(* The actions.                                                            *)

Others(r) ==
  \A q \in Requests \ {r} :
    /\ pc'[q] = pc[q] /\ req'[q] = req[q] /\ at'[q] = at[q] /\ passed'[q] = passed[q]
    /\ held'[q] = held[q] /\ lease'[q] = lease[q] /\ begun'[q] = begun[q]
    /\ reports'[q] = reports[q] /\ result'[q] = result[q]

LEMMA StepKeeps ==
  ASSUME IInv, NEW r \in Requests, TypeOK', PermitsConserved', LInv(r)', Others(r)
  PROVE  IInv'
<1>1. ASSUME NEW q \in Requests \ {r}
      PROVE  LInv(q)'
  BY Zenon, OthersKeep DEF Others
<1> QED
  BY Zenon, <1>1 DEF IInv

LEMMA UnchangedPermits ==
  ASSUME PermitsConserved, UNCHANGED <<available, held, limit>>
  PROVE  PermitsConserved'
BY Zenon DEF PermitsConserved, Holders

LEMMA NamedChecks == {"operation", "authenticated"} \subseteq Checks
BY Zenon DEF Checks

USE DEF permits, tenant, Goto, Passes

LEMMA ArriveKeeps ==
  ASSUME IInv, limit' = limit, NEW r \in Requests, Arrive(r)
  PROVE  IInv'
<1>1. TypeOK /\ PermitsConserved /\ LInv(r)
  BY Zenon DEF IInv
<1>2. PermitsConserved'
  BY Zenon, <1>1, UnchangedPermits DEF Arrive
<1>3. PICK a \in Arrivals[r] : req' = [req EXCEPT ![r] = a]
  BY Zenon DEF Arrive
<1>4. a \in [op : S3Operations \cup {Unrouted}, chunked : BOOLEAN]
  BY Zenon, RequestTypes
<1>5. TypeOK'
  BY Zenon, <1>1, <1>3, <1>4 DEF Arrive, TypeOK, PCs
<1>6. pc'[r] = "observe" /\ pc[r] = "idle"
  BY Zenon, <1>1 DEF Arrive, TypeOK
<1>7. LInv(r)'
  BY Zenon, <1>1, <1>6 DEF Arrive, LInv, AtInv, HeldInv, PassedInv, LeaseInv, ReportInv, Ended
<1>8. Others(r)
  BY Zenon, <1>1, <1>3 DEF Arrive, Others, TypeOK
<1> QED
  BY ZenonT(30), <1>2, <1>5, <1>7, <1>8, StepKeeps

LEMMA ObserveKeeps ==
  ASSUME IInv, limit' = limit, NEW r \in Requests, observe_request(r)
  PROVE  IInv'
<1>1. TypeOK /\ PermitsConserved /\ LInv(r)
  BY Zenon DEF IInv
<1>2. PermitsConserved'
  BY Zenon, <1>1, UnchangedPermits DEF observe_request
<1>3. TypeOK'
  BY Zenon, <1>1 DEF observe_request, TypeOK, PCs
<1>4. pc'[r] = "admit" /\ pc[r] = "observe"
  BY Zenon, <1>1 DEF observe_request, TypeOK
<1>5. LInv(r)'
  BY Zenon, <1>1, <1>4
     DEF observe_request, LInv, AtInv, HeldInv, PassedInv, LeaseInv, ReportInv, Ended
<1>6. Others(r)
  BY Zenon, <1>1 DEF observe_request, Others, TypeOK
<1> QED
  BY Zenon, <1>2, <1>3, <1>5, <1>6, StepKeeps

(* A refusal before the operation began.                                   *)
LEMMA RefuseKeeps ==
  ASSUME IInv, limit' = limit, NEW r \in Requests, Refuse(r),
         pc[r] \in {"admit", "dispatch", "authenticate", "begin"},
         UNCHANGED <<req, at, passed, permits, tenant>>
  PROVE  IInv'
<1>1. TypeOK /\ PermitsConserved /\ LInv(r)
  BY Zenon DEF IInv
<1>2. PermitsConserved'
  BY Zenon, <1>1, UnchangedPermits
<1>3. TypeOK'
  BY Zenon, <1>1 DEF Refuse, TypeOK, PCs, Outcomes
<1>4. pc'[r] = "map_error"
  BY Zenon, <1>1 DEF Refuse, TypeOK
<1>5. LInv(r)'
  BY Zenon, <1>1, <1>4 DEF LInv, AtInv, HeldInv, PassedInv, LeaseInv, ReportInv, Ended
<1>6. Others(r)
  BY Zenon, <1>1 DEF Refuse, Others, TypeOK
<1> QED
  BY Zenon, <1>2, <1>3, <1>5, <1>6, StepKeeps

LEMMA AdmitKeeps ==
  ASSUME IInv, limit' = limit, NEW r \in Requests, try_acquire_s3_request(r)
  PROVE  IInv'
<1>1. TypeOK /\ PermitsConserved /\ LInv(r) /\ pc[r] = "admit"
  BY Zenon DEF IInv, try_acquire_s3_request
<1>2. CASE Refuse(r) /\ UNCHANGED permits
  BY Zenon, <1>1, <1>2, RefuseKeeps DEF try_acquire_s3_request
<1>3. CASE try_acquire(r, "s3_requests") /\ pc' = [pc EXCEPT ![r] = "dispatch"]
           /\ UNCHANGED result
  <2>1. held[r] = {} /\ "s3_requests" \in Pools
    BY Zenon, <1>1 DEF LInv, HeldInv, Pools
  <2>2. /\ PermitsConserved'
        /\ available' \in [Pools -> Nat] /\ held' \in [Requests -> SUBSET Pools]
        /\ held' = [held EXCEPT ![r] = @ \cup {"s3_requests"}]
    BY Zenon, <1>1, <1>3, <2>1, AcquireConserves
  <2>3. TypeOK'
    BY Zenon, <1>1, <1>3, <2>2 DEF try_acquire_s3_request, TypeOK, PCs
  <2>4. pc'[r] = "dispatch" /\ held'[r] = {"s3_requests"}
    BY Zenon, <1>1, <1>3, <2>1, <2>2 DEF TypeOK
  <2>5. HeldInv(r)'
    BY Zenon, <2>4 DEF HeldInv, HandlerPools, Ended
  <2>6. AtInv(r)' /\ PassedInv(r)' /\ LeaseInv(r)' /\ ReportInv(r)'
    BY Zenon, <1>1, <1>3, <2>4
       DEF try_acquire_s3_request, LInv, AtInv, PassedInv, LeaseInv, ReportInv
  <2>7. Others(r)
    BY Zenon, <1>1, <1>3, <2>2 DEF try_acquire_s3_request, Others, TypeOK
  <2> QED
    BY Zenon, <2>2, <2>3, <2>5, <2>6, <2>7, StepKeeps DEF LInv
<1> QED
  BY Zenon, <1>2, <1>3 DEF try_acquire_s3_request

LEMMA AllowKeeps ==
  ASSUME IInv, limit' = limit, NEW r \in Requests, allow_operation(r)
  PROVE  IInv'
<1>1. TypeOK /\ PermitsConserved /\ LInv(r) /\ pc[r] = "dispatch"
  BY Zenon DEF IInv, allow_operation
<1>2. CASE Refuse(r) /\ UNCHANGED passed
  BY ZenonT(30), <1>1, <1>2, RefuseKeeps DEF allow_operation
<1>3. CASE /\ req[r].op \in S3Operations
           /\ passed' = [passed EXCEPT ![r] = @ \cup {"operation"}]
           /\ pc' = [pc EXCEPT ![r] = "authenticate"]
           /\ UNCHANGED result
  <2>1. PermitsConserved'
    BY Zenon, <1>1, UnchangedPermits DEF allow_operation
  <2>2. TypeOK'
    BY ZenonT(30), <1>1, <1>3, NamedChecks DEF allow_operation, TypeOK, PCs
  <2>3. pc'[r] = "authenticate" /\ passed'[r] = passed[r] \cup {"operation"}
    BY Zenon, <1>1, <1>3 DEF TypeOK
  <2>4. LInv(r)'
    BY ZenonT(30), <1>1, <1>3, <2>3
       DEF allow_operation, LInv, AtInv, HeldInv, PassedInv, LeaseInv, ReportInv, Ended
  <2>5. Others(r)
    BY Zenon, <1>1, <1>3 DEF allow_operation, Others, TypeOK
  <2> QED
    BY ZenonT(30), <2>1, <2>2, <2>4, <2>5, StepKeeps
<1> QED
  BY Zenon, <1>2, <1>3 DEF allow_operation

LEMMA AuthenticateKeeps ==
  ASSUME IInv, limit' = limit, NEW r \in Requests, authenticate_request(r)
  PROVE  IInv'
<1>1. TypeOK /\ PermitsConserved /\ LInv(r) /\ pc[r] = "authenticate"
  BY Zenon DEF IInv, authenticate_request
<1>2. CASE Refuse(r) /\ UNCHANGED passed
  BY ZenonT(30), <1>1, <1>2, RefuseKeeps DEF authenticate_request
<1>3. CASE /\ passed' = [passed EXCEPT ![r] = @ \cup {"authenticated"}]
           /\ pc' = [pc EXCEPT ![r] = "begin"]
           /\ UNCHANGED result
  <2>1. PermitsConserved'
    BY Zenon, <1>1, UnchangedPermits DEF authenticate_request
  <2>2. TypeOK'
    BY Zenon, <1>1, <1>3, NamedChecks DEF authenticate_request, TypeOK, PCs
  <2>3. pc'[r] = "begin" /\ passed'[r] = passed[r] \cup {"authenticated"}
    BY Zenon, <1>1, <1>3 DEF TypeOK
  <2>4. LInv(r)'
    BY ZenonT(30), <1>1, <1>3, <2>3
       DEF authenticate_request, LInv, AtInv, HeldInv, PassedInv, LeaseInv, ReportInv, Ended
  <2>5. Others(r)
    BY Zenon, <1>1, <1>3 DEF authenticate_request, Others, TypeOK
  <2> QED
    BY ZenonT(30), <2>1, <2>2, <2>4, <2>5, StepKeeps
<1> QED
  BY Zenon, <1>2, <1>3 DEF authenticate_request

LEMMA BeginKeeps ==
  ASSUME IInv, limit' = limit, NEW r \in Requests, begin_tenant_operation(r)
  PROVE  IInv'
<1>1. TypeOK /\ PermitsConserved /\ LInv(r) /\ pc[r] = "begin"
  BY Zenon DEF IInv, begin_tenant_operation
<1>2. CASE Refuse(r) /\ UNCHANGED <<lease, begun>>
  BY ZenonT(30), <1>1, <1>2, RefuseKeeps DEF begin_tenant_operation
<1>3. CASE /\ \E l \in {"unlimited", "timeout"} : lease' = [lease EXCEPT ![r] = l]
           /\ begun' = [begun EXCEPT ![r] = TRUE]
           /\ pc' = [pc EXCEPT ![r] = "handler"]
           /\ UNCHANGED result
  <2>1. PermitsConserved'
    BY Zenon, <1>1, UnchangedPermits DEF begin_tenant_operation
  <2>2. TypeOK'
    BY ZenonT(30), <1>1, <1>3 DEF begin_tenant_operation, TypeOK, PCs
  <2>3. pc'[r] = "handler" /\ begun'[r] = TRUE /\ Steps(r)' = Steps(r) /\ at'[r] = 1
    BY ZenonT(30), <1>1, <1>3 DEF begin_tenant_operation, TypeOK, Steps, LInv, AtInv
  <2>4. AtInv(r)'
    <3>1. req[r].op \in S3Operations
      BY Zenon, <1>1 DEF LInv, AtInv
    <3>2. Len(Steps(r)) \in Nat \ {0}
      BY Zenon, <3>1, HandlersOrdered DEF Steps, Ordered
    <3> QED
      BY <2>3, <3>1, <3>2 DEF AtInv, begin_tenant_operation
  <2>5. HeldInv(r)'
    <3>1. Taken(r)' = {}
      BY <2>3 DEF Taken, Before
    <3> QED
      BY Zenon, <1>1, <2>3, <3>1 DEF begin_tenant_operation, LInv, HeldInv, Ended
  <2>6. PassedInv(r)'
    BY <1>1, <2>3 DEF begin_tenant_operation, LInv, PassedInv
  <2>7. LeaseInv(r)' /\ ReportInv(r)'
    BY Zenon, <1>1, <2>3 DEF begin_tenant_operation, LInv, LeaseInv, ReportInv
  <2>8. Others(r)
    BY Zenon, <1>1, <1>3 DEF begin_tenant_operation, Others, TypeOK
  <2> QED
    BY ZenonT(30), <2>1, <2>2, <2>4, <2>5, <2>6, <2>7, <2>8, StepKeeps DEF LInv
<1> QED
  BY Zenon, <1>2, <1>3 DEF begin_tenant_operation

LEMMA ChecksKeep ==
  ASSUME IInv, limit' = limit, NEW r \in Requests, checks(r)
  PROVE  IInv'
<1>1. pc[r] = "handler" /\ UNCHANGED <<req, lease, begun>>
  BY Zenon DEF checks
<1>2. CASE Return(r, "error")
  BY Zenon, <1>1, <1>2, ReturnKeeps DEF Outcomes
<1>3. ASSUME NEW i \in (at[r] + 1)..(Len(Steps(r)) + 1),
             \A j \in at[r]..(i - 1) : IsCheck(Steps(r)[j]), Proceed(r, i)
      PROVE  IInv'
  <2>1. \A j \in at[r]..(i - 1) : Steps(r)[j] \notin HandlerPools
    BY Zenon, <1>3 DEF IsCheck
  <2> QED
    BY ZenonT(30), <1>1, <1>3, <2>1, ProceedKeeps
<1> QED
  BY Zenon, <1>2, <1>3 DEF checks

LEMMA HandlerPermitKeeps ==
  ASSUME IInv, limit' = limit, NEW r \in Requests, try_acquire_handler_permit(r)
  PROVE  IInv'
<1>1. /\ TypeOK /\ PermitsConserved /\ LInv(r)
      /\ pc[r] = "handler" /\ UNCHANGED <<req, lease, begun>>
      /\ Step(r) \in HandlerPools /\ Step(r) = Steps(r)[at[r]]
  BY Zenon DEF IInv, try_acquire_handler_permit, Step
<1>2. /\ Len(Steps(r)) \in Nat /\ at[r] \in 1..Len(Steps(r))
      /\ Ordered(req[r].op, Steps(r))
      /\ \A j \in 1..Len(Steps(r)) : Steps(r)[j] \in Checks
  BY Zenon, <1>1, StepTypes
<1>3. CASE ~NeedsPermit(r, Step(r)) /\ Proceed(r, at[r] + 1)
  BY Zenon, <1>1, <1>3, AdvanceKeeps
<1>4. CASE NeedsPermit(r, Step(r)) /\ available[Step(r)] = 0 /\ Return(r, "error")
  BY Zenon, <1>1, <1>4, ReturnKeeps DEF Outcomes
<1>5. CASE /\ NeedsPermit(r, Step(r))
           /\ try_acquire(r, Step(r))
           /\ at' = [at EXCEPT ![r] = @ + 1]
           /\ passed' = [passed EXCEPT ![r] = @ \cup {Step(r)}]
           /\ UNCHANGED <<pc, reports, result>>
  <2>1. Step(r) \in Pools /\ Step(r) \notin held[r]
    <3>1. held[r] \cap HandlerPools = Taken(r)
      BY Zenon, <1>1 DEF LInv, HeldInv
    <3>2. ~Before(Steps(r), at[r], Step(r))
      BY <1>1, <1>2, SMTT(30) DEF Ordered, Before
    <3> QED
      BY Zenon, <1>1, <3>1, <3>2 DEF Taken, HandlerPools
  <2>2. /\ PermitsConserved'
        /\ available' \in [Pools -> Nat] /\ held' \in [Requests -> SUBSET Pools]
        /\ held' = [held EXCEPT ![r] = @ \cup {Step(r)}]
    BY Zenon, <1>1, <1>5, <2>1, AcquireConserves
  <2>3. Step(r) \in Checks
    BY Zenon, <1>1, <1>2
  <2>4. TypeOK'
    BY <1>1, <1>5, <2>2, <2>3, SMTT(30) DEF TypeOK
  <2>5. /\ pc'[r] = "handler" /\ at'[r] = at[r] + 1 /\ Steps(r)' = Steps(r)
        /\ held'[r] = held[r] \cup {Step(r)} /\ passed'[r] = passed[r] \cup {Step(r)}
        /\ \A p : NeedsPermit(r, p)' = NeedsPermit(r, p)
    BY Zenon, <1>1, <1>5, <2>2 DEF TypeOK, Steps, NeedsPermit
  <2>6. AtInv(r)'
    <3>1. at[r] # Len(Steps(r))
      BY ZenonT(30), <1>1, <1>2 DEF Ordered
    <3>2. at'[r] <= Len(Steps(r)')
      BY <1>2, <2>5, <3>1
    <3>3. req'[r].op \in S3Operations
      BY ZenonT(30), <1>1, StepTypes
    <3> QED
      BY ZenonT(30), <2>5, <3>2, <3>3 DEF AtInv
  <2>7. Taken(r)' = Taken(r) \cup {Step(r)}
    <3>1. \A p : Before(Steps(r), at[r] + 1, p) <=> (Before(Steps(r), at[r], p) \/ p = Step(r))
      BY <1>1, <1>2 DEF Before
    <3> QED
      BY <1>1, <1>5, <2>5, <3>1, SMTT(30) DEF Taken
  <2>8. HeldInv(r)'
    BY ZenonT(30), <1>1, <2>5, <2>7 DEF LInv, HeldInv, Ended
  <2>9. PassedInv(r)'
    <3>1. \A j \in 1..(at[r] + 1 - 1) : j \in 1..(at[r] - 1) \/ j = at[r]
      BY <1>2
    <3>2. \A j \in 1..(at[r] + 1 - 1) : Steps(r)[j] \in passed'[r]
      BY Zenon, <1>1, <2>5, <3>1 DEF LInv, PassedInv
    <3>3. {"operation", "authenticated"} \subseteq passed'[r]
      BY Zenon, <1>1, <2>5 DEF LInv, PassedInv
    <3> QED
      BY <1>2, <2>5, <3>2, <3>3 DEF PassedInv
  <2>10. LeaseInv(r)' /\ ReportInv(r)'
    BY Zenon, <1>1, <1>5 DEF LInv, LeaseInv, ReportInv
  <2>11. Others(r)
    BY Zenon, <1>1, <1>5, <2>2 DEF Others, TypeOK
  <2> QED
    BY ZenonT(30), <2>2, <2>4, <2>6, <2>8, <2>9, <2>10, <2>11, StepKeeps DEF LInv
<1> QED
  BY Zenon, <1>3, <1>4, <1>5 DEF try_acquire_handler_permit

LEMMA StorageKeeps ==
  ASSUME IInv, limit' = limit, NEW r \in Requests,
         storage_call(r) \/ receive_body(r) \/ timeout(r)
  PROVE  IInv'
<1>1. CASE storage_call(r) \/ receive_body(r)
  <2>1. pc[r] = "handler" /\ UNCHANGED <<req, lease, begun>>
    BY Zenon, <1>1 DEF storage_call, receive_body
  <2>2. Step(r) \notin HandlerPools
    BY Zenon, <1>1 DEF storage_call, receive_body, Storage, HandlerPools, Pools
  <2>3. Proceed(r, at[r] + 1) \/ Return(r, "error")
    BY Zenon, <1>1 DEF storage_call, receive_body
  <2> QED
    BY ZenonT(30), <2>1, <2>2, <2>3, AdvanceKeeps, ReturnKeeps DEF Outcomes
<1>2. CASE timeout(r)
  BY Zenon, <1>2, ReturnKeeps DEF timeout, Outcomes
<1> QED
  BY Zenon, <1>1, <1>2

LEMMA FinishKeeps ==
  ASSUME IInv, limit' = limit, NEW r \in Requests, finish_tenant_operation(r)
  PROVE  IInv'
<1>1. TypeOK /\ PermitsConserved /\ LInv(r) /\ pc[r] = "finish"
  BY Zenon DEF IInv, finish_tenant_operation
<1>2. lease' = [lease EXCEPT ![r] = "none"] /\ UNCHANGED <<req, at, passed, begun, reports, result>>
  BY Zenon DEF finish_tenant_operation
<1>3. CASE GiveBack(r, {"s3_requests"}) /\ pc' = [pc EXCEPT ![r] = "map_response"]
  <2>1. /\ PermitsConserved'
        /\ available' \in [Pools -> Nat] /\ held' \in [Requests -> SUBSET Pools]
        /\ held' = [held EXCEPT ![r] = @ \ {"s3_requests"}]
    BY Zenon, <1>1, <1>3, GiveBackConserves DEF Pools
  <2>2. TypeOK'
    BY Zenon, <1>1, <1>2, <1>3, <2>1 DEF TypeOK, PCs
  <2>3. pc'[r] = "map_response" /\ held'[r] = held[r] \ {"s3_requests"} /\ lease'[r] = "none"
    BY Zenon, <1>1, <1>2, <1>3, <2>1 DEF TypeOK
  <2>4. held'[r] = {}
    BY Zenon, <1>1, <2>3 DEF LInv, HeldInv, TypeOK, HandlerPools
  <2>5. LInv(r)'
    BY ZenonT(30), <1>1, <1>2, <2>3, <2>4
       DEF LInv, AtInv, HeldInv, PassedInv, LeaseInv, ReportInv
  <2>6. Others(r)
    BY Zenon, <1>1, <1>2, <1>3, <2>1 DEF Others, TypeOK
  <2> QED
    BY ZenonT(30), <2>1, <2>2, <2>5, <2>6, StepKeeps
<1>4. CASE UNCHANGED permits /\ pc' = [pc EXCEPT ![r] = "map_error"]
  <2>1. PermitsConserved'
    BY Zenon, <1>1, <1>4, UnchangedPermits
  <2>2. TypeOK'
    BY Zenon, <1>1, <1>2, <1>4 DEF TypeOK, PCs
  <2>3. pc'[r] = "map_error" /\ lease'[r] = "none"
    BY Zenon, <1>1, <1>2, <1>4 DEF TypeOK
  <2>4. LInv(r)'
    BY ZenonT(30), <1>1, <1>2, <1>4, <2>3
       DEF LInv, AtInv, HeldInv, PassedInv, LeaseInv, ReportInv, Ended
  <2>5. Others(r)
    BY ZenonT(30), <1>1, <1>2, <1>4 DEF Others, TypeOK
  <2> QED
    BY Zenon, <2>1, <2>2, <2>4, <2>5, StepKeeps
<1> QED
  BY Zenon, <1>3, <1>4 DEF finish_tenant_operation

LEMMA ErrorResponseKeeps ==
  ASSUME IInv, limit' = limit, NEW r \in Requests, error_response(r)
  PROVE  IInv'
<1>1. TypeOK /\ PermitsConserved /\ LInv(r) /\ pc[r] = "map_error"
  BY Zenon DEF IInv, error_response
<1>2. /\ GiveBack(r, {"s3_requests"}) /\ pc' = [pc EXCEPT ![r] = "map_response"]
      /\ UNCHANGED <<req, at, passed, lease, begun, reports, result>>
  BY Zenon DEF error_response
<1>3. /\ PermitsConserved'
      /\ available' \in [Pools -> Nat] /\ held' \in [Requests -> SUBSET Pools]
      /\ held' = [held EXCEPT ![r] = @ \ {"s3_requests"}]
  BY Zenon, <1>1, <1>2, GiveBackConserves DEF Pools
<1>4. TypeOK'
  BY Zenon, <1>1, <1>2, <1>3 DEF TypeOK, PCs
<1>5. pc'[r] = "map_response" /\ held'[r] = held[r] \ {"s3_requests"}
  BY Zenon, <1>1, <1>2, <1>3 DEF TypeOK
<1>6. held'[r] = {}
  BY Zenon, <1>1, <1>5 DEF LInv, HeldInv, TypeOK, HandlerPools
<1>7. LInv(r)'
  BY ZenonT(30), <1>1, <1>2, <1>5, <1>6
     DEF LInv, AtInv, HeldInv, PassedInv, LeaseInv, ReportInv
<1>8. Others(r)
  BY Zenon, <1>1, <1>2, <1>3 DEF Others, TypeOK
<1> QED
  BY ZenonT(30), <1>3, <1>4, <1>7, <1>8, StepKeeps

LEMMA EndKeeps ==
  ASSUME IInv, limit' = limit, NEW r \in Requests, map_response(r) \/ Drop(r)
  PROVE  IInv'
<1>1. TypeOK /\ PermitsConserved /\ LInv(r)
  BY Zenon DEF IInv
<1>2. PICK how \in Ended : End(r, how) /\ (how = "done" <=> map_response(r))
  <2>1. CASE map_response(r)
    BY Zenon, <2>1 DEF map_response, Ended
  <2>2. CASE ~map_response(r)
    BY Zenon, <2>2 DEF Drop, Ended
  <2> QED
    BY Zenon, <2>1, <2>2
<1>3. /\ PermitsConserved'
      /\ available' \in [Pools -> Nat] /\ held' \in [Requests -> SUBSET Pools]
      /\ held' = [held EXCEPT ![r] = {}]
  <2>1. CASE map_response(r)
    <3>1. held[r] = {} /\ UNCHANGED <<available, held>>
      BY Zenon, <1>1, <2>1 DEF map_response, LInv, HeldInv
    <3> QED
      BY Zenon, <1>1, <3>1, UnchangedPermits DEF TypeOK
  <2>2. CASE Drop(r)
    <3>1. /\ PermitsConserved'
          /\ available' \in [Pools -> Nat] /\ held' \in [Requests -> SUBSET Pools]
          /\ held' = [held EXCEPT ![r] = @ \ Pools]
      BY Zenon, <1>1, <2>2, GiveBackConserves DEF Drop
    <3>2. held[r] \ Pools = {}
      BY Zenon, <1>1 DEF TypeOK
    <3> QED
      BY Zenon, <1>1, <3>1, <3>2 DEF TypeOK
  <2> QED
    BY Zenon, <2>1, <2>2
<1>4. lease' = [lease EXCEPT ![r] = "none"] /\ UNCHANGED <<begun, reports, result>>
  BY Zenon, <1>1 DEF map_response, Drop, LInv, LeaseInv, TypeOK
<1>5. Nothing \in [op : S3Operations \cup {Unrouted}, chunked : BOOLEAN]
  BY Zenon DEF Nothing
<1>6. TypeOK'
  BY <1>1, <1>2, <1>3, <1>4, <1>5 DEF End, TypeOK, PCs
<1>7. pc'[r] = how /\ at'[r] = 1 /\ held'[r] = {} /\ lease'[r] = "none"
  BY Zenon, <1>1, <1>2, <1>3, <1>4 DEF End, TypeOK
<1>8. AtInv(r)' /\ HeldInv(r)' /\ PassedInv(r)' /\ LeaseInv(r)'
  BY Zenon, <1>7 DEF AtInv, HeldInv, PassedInv, LeaseInv, Ended
<1>9. ReportInv(r)'
  <2>1. how = "done" => pc[r] = "map_response"
    BY Zenon, <1>2 DEF map_response
  <2> QED
    BY ZenonT(30), <1>1, <1>4, <1>7, <2>1 DEF LInv, ReportInv, Ended
<1>10. Others(r)
  BY ZenonT(30), <1>1, <1>2, <1>3, <1>4 DEF End, Others, TypeOK
<1> QED
  BY ZenonT(30), <1>3, <1>6, <1>8, <1>9, <1>10, StepKeeps DEF LInv

-----------------------------------------------------------------------------
LEMMA InitIInv == Init => IInv
<1> SUFFICES ASSUME Init PROVE IInv
  BY Zenon
<1>1. TypeOK
  <2>1. Limits \subseteq [Pools -> Nat]
    BY Zenon, LimitsNonZero
  <2>2. /\ limit \in Limits /\ available \in [Pools -> Nat]
        /\ at = [r \in Requests |-> 1] /\ passed = [r \in Requests |-> {}]
        /\ held = [r \in Requests |-> {}] /\ reports = [r \in Requests |-> <<>>]
    BY Zenon, <2>1 DEF Init
  <2>3. req \in [Requests -> [op : S3Operations \cup {Unrouted}, chunked : BOOLEAN]]
    BY Zenon DEF Init, Nothing
  <2>4. <<>> \in Seq(Outcomes)
    OBVIOUS
  <2> QED
    BY <2>2, <2>3, <2>4 DEF Init, TypeOK, PCs
<1>2. PermitsConserved
  <2>1. \A p : Holders(p) = {}
    BY Zenon DEF Init, Holders
  <2>2. \A p \in Pools : available[p] \in Nat /\ limit[p] = available[p]
    BY Zenon, <1>1 DEF Init, TypeOK
  <2>3. \A p : Cardinality(Holders(p)) = 0
    BY ZenonT(30), <2>1, FS_EmptySet
  <2> QED
    BY <2>2, <2>3 DEF PermitsConserved
<1>3. \A r \in Requests : LInv(r)
  BY DEF Init, LInv, AtInv, HeldInv, PassedInv, LeaseInv, ReportInv
<1> QED
  BY Zenon, <1>1, <1>2, <1>3 DEF IInv

LEMMA NextIInv == IInv /\ [Next]_vars => IInv'
<1> SUFFICES ASSUME IInv, [Next]_vars PROVE IInv'
  BY Zenon
<1>1. CASE UNCHANGED vars
  <2>1. TypeOK' /\ PermitsConserved'
    BY Zenon, <1>1, UnchangedPermits DEF IInv, TypeOK, vars
  <2>2. ASSUME NEW r \in Requests
        PROVE  LInv(r)'
    <3>1. Steps(r)' = Steps(r) /\ Taken(r)' = Taken(r)
      BY Zenon, <1>1 DEF vars, Steps, Taken, NeedsPermit
    <3> QED
      BY Zenon, <1>1, <3>1 DEF vars, IInv, LInv, AtInv, HeldInv, PassedInv, LeaseInv, ReportInv
  <2> QED
    BY Zenon, <2>1, <2>2 DEF IInv
<1>2. CASE Next
  <2>1. PICK r \in Requests :
          Arrive(r) \/ Handle(r) \/ receive_body(r) \/ timeout(r) \/ Drop(r)
    BY Zenon, <1>2 DEF Next
  <2>2. limit' = limit
    BY Zenon, <1>2 DEF Next
  <2>3. CASE Handle(r)
    BY ZenonT(30), <2>2, <2>3, ObserveKeeps, AdmitKeeps, AllowKeeps, AuthenticateKeeps, BeginKeeps,
       ChecksKeep, HandlerPermitKeeps, StorageKeeps, FinishKeeps, ErrorResponseKeeps,
       EndKeeps DEF Handle
  <2> QED
    BY ZenonT(30), <2>1, <2>2, <2>3, ArriveKeeps, StorageKeeps, EndKeeps
<1> QED
  BY Zenon, <1>1, <1>2

LEMMA Invariance == Spec => []IInv
BY InitIInv, NextIInv, PTL DEF Spec

(* Every variable keeps its type: the free permits of a semaphore never    *)
(* become negative.                                                        *)
THEOREM TypeCorrect == Spec => []TypeOK
<1>1. IInv => TypeOK
  BY Zenon DEF IInv
<1> QED
  BY <1>1, Invariance, PTL

(* Free and held permits make up the limit of each semaphore.              *)
THEOREM PermitsConservedAlways == Spec => []PermitsConserved
<1>1. IInv => PermitsConserved
  BY Zenon DEF IInv
<1> QED
  BY <1>1, Invariance, PTL

(* A request that is being answered or has ended owns no permit and no     *)
(* lease.                                                                  *)
THEOREM NothingKeptAlways == Spec => []NothingKept
<1>1. IInv => NothingKept
  BY Zenon DEF IInv, TypeOK, LInv, HeldInv, LeaseInv, NothingKept, HandlerPools, Ended
<1> QED
  BY <1>1, Invariance, PTL

(* A granted lease of an answered request is reported once, with the       *)
(* outcome the client gets; no request is reported twice or without one.   *)
THEOREM ReportedOnceAlways == Spec => []ReportedOnce
<1>1. IInv => ReportedOnce
  BY Zenon DEF IInv, LInv, ReportInv, ReportedOnce
<1> QED
  BY <1>1, Invariance, PTL

(* Every handler reaches its body, its staging and its store calls only    *)
(* past the operation policy, the authentication and authorize_request.    *)
THEOREM AuthorizedBeforeStorageAlways == Spec => []AuthorizedBeforeStorage
<1>1. ASSUME IInv, NEW r \in Requests, InStorage(r)
      PROVE  /\ {"operation", "authenticated", "allow_target", "authorize",
                 "authorization_policy"} \subseteq passed[r]
             /\ req[r].op \in Uploads => "allow_upload" \in passed[r]
  <2>1. pc[r] = "handler" /\ Steps(r)[at[r]] \in Storage \cup {"body"} /\ PassedInv(r)
    BY ZenonT(30), <1>1 DEF InStorage, Step, IInv, LInv
  <2>2. at[r] \in 1..Len(Steps(r)) /\ Ordered(req[r].op, Steps(r))
    BY Zenon, <1>1, <2>1, StepTypes
  <2>3. \A x : Before(Steps(r), at[r], x) => x \in passed[r]
    BY Zenon, <2>1 DEF Before, PassedInv
  <2>4. "operation" \in passed[r] /\ "authenticated" \in passed[r]
    BY Zenon, <2>1 DEF PassedInv
  <2> QED
    BY ZenonT(30), <2>1, <2>2, <2>3, <2>4 DEF Ordered
<1>2. IInv => AuthorizedBeforeStorage
  BY Zenon, <1>1 DEF AuthorizedBeforeStorage
<1> QED
  BY <1>2, Invariance, PTL

(* No more uploads are at their body or a storage call than there are      *)
(* permits.                                                                *)
THEOREM UploadsBoundedAlways == Spec => []UploadsBounded
<1>1. ASSUME IInv, NEW p \in Pools, NEW S \in SUBSET Holders(p)
      PROVE  Cardinality(S) <= limit[p]
  <2>1. Cardinality(S) <= Cardinality(Holders(p)) /\ Cardinality(S) \in Nat
    BY ZenonT(30), HoldersFinite, FS_Subset, FS_CardinalityType
  <2>2. available[p] + Cardinality(Holders(p)) = limit[p] /\ available[p] \in Nat
    BY Zenon, <1>1 DEF IInv, PermitsConserved, TypeOK
  <2> QED
    BY <2>1, <2>2, HoldersFinite
<1>2. ASSUME IInv, NEW r \in Requests, InStorage(r), NEW p \in HandlerPools,
             NeedsPermit(r, p), Ordered(req[r].op, Steps(r)) => Before(Steps(r), at[r], p)
      PROVE  r \in Holders(p)
  BY ZenonT(30), <1>2, StepTypes DEF InStorage, IInv, LInv, HeldInv, Taken, Holders
<1>3. ASSUME IInv, NEW r \in Requests, InStorage(r)
      PROVE  /\ req[r].op = "PutObject" => r \in Holders("object_writers")
             /\ req[r].op = "UploadPart" => r \in Holders("multipart_part_writers")
             /\ req[r].op \in {"PutObject", "UploadPart"} /\ req[r].chunked =>
                  r \in Holders("aws_chunked_decoders")
  <2>1. pc[r] = "handler" /\ Steps(r)[at[r]] \in Storage \cup {"body"}
    BY Zenon, <1>3 DEF InStorage, Step
  <2>2. at[r] \in 1..Len(Steps(r))
    BY Zenon, <1>3, <2>1, StepTypes
  <2>3. NeedsPermit(r, "object_writers") /\ NeedsPermit(r, "multipart_part_writers")
    BY Zenon DEF NeedsPermit
  <2>4. req[r].chunked => NeedsPermit(r, "aws_chunked_decoders")
    BY Zenon DEF NeedsPermit
  <2>5. {"object_writers", "multipart_part_writers", "aws_chunked_decoders"} = HandlerPools
    BY Zenon DEF HandlerPools, Pools
  <2> QED
    BY ZenonT(30), <1>2, <1>3, <2>1, <2>2, <2>3, <2>4, <2>5 DEF Ordered
<1>4. IInv => UploadsBounded
  <2> SUFFICES ASSUME IInv PROVE UploadsBounded
    BY Zenon
  <2>1. /\ Receiving("PutObject") \subseteq Holders("object_writers")
        /\ Receiving("UploadPart") \subseteq Holders("multipart_part_writers")
        /\ {r \in Receiving("PutObject") \cup Receiving("UploadPart") : req[r].chunked}
             \subseteq Holders("aws_chunked_decoders")
    BY Zenon, <1>3 DEF Receiving
  <2> QED
    BY ZenonT(30), <1>1, <2>1 DEF UploadsBounded, Pools
<1> QED
  BY <1>4, Invariance, PTL
=============================================================================
