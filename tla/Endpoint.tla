------------------------------ MODULE Endpoint ------------------------------
(***************************************************************************)
(* The server from its settings to its answers: start-up (main of          *)
(* src/main.rs, AppState::from_builder and build_router of src/lib.rs),    *)
(* then a client that signs a request, a proxy that may alter it on the    *)
(* way, the clock, and deliveries, repeated by the client's retries, each  *)
(* decided the way dispatch of src/handlers/s3.rs and                      *)
(* ObjectRequest/BucketRequest of src/handlers/request.rs decide it.       *)
(*                                                                         *)
(* Permits, hooks and storage are in RequestLifecycle; here the question   *)
(* is which operation on which target a delivered request becomes.         *)
(***************************************************************************)
EXTENDS Authentication

CONSTANTS
  Setups,          \* [config, tuning, file, health, embedded, domain]
  Messages(_),     \* what clients of a setup send: [request, mode, signer]
  Rewrites(_),     \* what a request may be turned into on the way
  MaxNow           \* bound on the clock

VARIABLES
  setup,           \* the settings of this process
  boot,            \* "health", "file", "build", "objects", "multipart", "bind", "serving", "failed"
  opened,          \* stores whose start-up has run on the storage root
  config,          \* Config, with the credentials of the file
  state,           \* {AuthState} once built
  now,             \* the clock
  signer,          \* {[id, secret, at, expires]} of the request sent
  sent,            \* {the request as the client signed it}
  wire,            \* {the request as it arrives}
  verdict          \* what the last delivery became

vars == <<setup, boot, opened, config, state, now, signer, sent, wire, verdict>>
client == <<now, signer, sent, wire, verdict>>

Unserved(error) ==
  [error |-> error, mode |-> "none", op |-> "none", upload |-> {}, part |-> {},
   target |-> TargetError("none"), at |-> 0]

EndpointInit(setups) ==
  /\ setup \in setups
  /\ boot = IF setup.embedded THEN "health" ELSE "file"
  /\ opened = {}
  /\ config = setup.config
  /\ state = {}
  /\ now = 0
  /\ signer = {} /\ sent = {} /\ wire = {}
  /\ verdict = Unserved("pending")

-----------------------------------------------------------------------------
(* Start-up.                                                               *)

(* build_router checks the health path before it builds the state.         *)
CheckHealthPath ==
  /\ boot = "health"
  /\ boot' = IF ValidHealthPath(setup.health) THEN "build" ELSE "failed"
  /\ UNCHANGED <<setup, opened, config, state, client>>

LoadCredentials ==
  /\ boot = "file"
  /\ LET loaded == load_credentials_file(setup.file)
     IN  /\ boot' = IF loaded = {} THEN "failed" ELSE "build"
         /\ config' = IF loaded = {} THEN config
                      ELSE [config EXCEPT !.auth.credentials = CHOOSE c \in loaded : TRUE]
  /\ UNCHANGED <<setup, opened, state, client>>

Build ==
  /\ boot = "build"
  /\ IF ValidConfig(config) /\ ValidTuning(setup.tuning)
       THEN boot' = "objects" /\ state' = {AuthState(config.auth)}
       ELSE boot' = "failed" /\ UNCHANGED state
  /\ UNCHANGED <<setup, opened, config, client>>

(* FileObjectStore::new, then FileMultipartStore::new_with_options: each   *)
(* makes its directories and clears what a crash left.                     *)
OpenStores ==
  /\ boot \in {"objects", "multipart"}
  /\ opened' = opened \cup {boot}
  /\ boot' \in {"failed", IF boot = "objects" THEN "multipart" ELSE "bind"}
  /\ UNCHANGED <<setup, config, state, client>>

Bind ==
  /\ boot = "bind"
  /\ boot' \in {"failed", "serving"}
  /\ UNCHANGED <<setup, opened, config, state, client>>

-----------------------------------------------------------------------------
(* The client.  It signs with the region of the server and every x-amz-    *)
(* header it sends.                                                        *)

Scope(s) == [wellFormed |-> TRUE, id |-> s.id, day |-> Day(s.at), region |-> config.auth.region,
             service |-> "s3", terminal |-> "aws4_request"]
SignedNames(r) ==
  SelectSeq(HeaderOrder, LAMBDA n : n = "host" \/ n \in HeaderNames(r) \cap AmzHeaders)

WithHeader(r, name, item) ==
  [r EXCEPT !.headers = [n \in HeaderNames(r) \cup {name} |->
                           IF n = name THEN <<<<item>>>> ELSE r.headers[n]]]

SignHeader(m, s) ==
  LET dated == WithHeader(WithHeader(m.request, "x-amz-date", s.at),
                          "x-amz-content-sha256", "sha256:1")
      r == IF s.token = {} THEN dated
           ELSE WithHeader(dated, "x-amz-security-token", CHOOSE t \in s.token : TRUE)
  IN  [r EXCEPT !.authorization =
         <<[form |-> "ok", credential |-> Scope(s), signed |-> SignedNames(r),
            signature |-> Signature(s.secret, s.at, Scope(s),
                                    canonical_request(r, SignedNames(r), "IncludeAll"))]>>]

SignPresigned(m, s) ==
  LET p == [dup |-> FALSE, algorithm |-> "AWS4-HMAC-SHA256", credential |-> Scope(s),
            date |-> s.at, expires |-> s.expires, signed |-> SignedNames(m.request),
            token |-> s.token, signature |-> BadSignature]
      r == [m.request EXCEPT !.presigned = {p}]
      canonical == canonical_request(r, p.signed, "ExcludePresignedSignature")
  IN  [r EXCEPT !.presigned =
         {[p EXCEPT !.signature = Signature(s.secret, s.at, Scope(s), canonical)]}]

(* The client's clock may be ahead of the server's.                        *)
Send ==
  /\ boot = "serving" /\ sent = {}
  /\ \E m \in Messages(setup) :
       /\ signer' = IF m.mode = "none" THEN {} ELSE {[m.signer EXCEPT !.at = now + @]}
       /\ sent' = {CASE m.mode = "none"      -> m.request
                     [] m.mode = "header"    -> SignHeader(m, [m.signer EXCEPT !.at = now + @])
                     [] m.mode = "presigned" -> SignPresigned(m, [m.signer EXCEPT !.at = now + @])}
       /\ wire' = sent'
  /\ UNCHANGED <<setup, boot, opened, config, state, now, verdict>>

Rewrite ==
  /\ wire # {} /\ wire = sent /\ signer # {}
  /\ verdict.error = "pending"
  /\ \E r \in wire : wire' \in {{w} : w \in Rewrites(r)}
  /\ UNCHANGED <<setup, boot, opened, config, state, now, signer, sent, verdict>>

Tick ==
  /\ wire # {} /\ signer # {} /\ now < MaxNow
  /\ now' = now + 1
  /\ UNCHANGED <<setup, boot, opened, config, state, signer, sent, wire, verdict>>

-----------------------------------------------------------------------------
(* A delivery: dispatch, which answers what is not implemented before it   *)
(* authenticates anyone, then the handler's target and its authorization.  *)

NotDispatched(op) ==
  CASE op = "InvalidRequest"   -> {"InvalidRequest"}
    [] op = "ListObjectsV2"    -> {"NotImplemented"}
    [] op = "Unsupported"      -> {"InvalidArgument"}
    [] op = "MethodNotAllowed" -> {"MethodNotAllowed"}
    [] OTHER                   -> {}

Decide(r) ==
  LET s == CHOOSE x \in state : TRUE
      d == detect_operation(r, setup.domain)
      a == authenticate(s, r, now)
      t == HandlerTarget(r, setup.domain, d.op)
  IN  IF NotDispatched(d.op) # {} THEN Unserved(CHOOSE e \in NotDispatched(d.op) : TRUE)
      ELSE IF a.error # "none" THEN Unserved(a.error)
      ELSE IF t.error # "none" THEN Unserved(t.error)
      ELSE IF ~authorize(s, a, t.bucket, ActionOf(d.op)) THEN Unserved("AccessDenied")
      ELSE [error |-> "none", mode |-> a.mode, op |-> d.op, upload |-> d.upload,
            part |-> d.part, target |-> t, at |-> now]

Deliver ==
  /\ wire # {}
  /\ \E r \in wire : verdict' = Decide(r)
  /\ UNCHANGED <<setup, boot, opened, config, state, now, signer, sent, wire>>

EndpointNext ==
  \/ CheckHealthPath \/ LoadCredentials \/ Build \/ OpenStores \/ Bind
  \/ Send \/ Rewrite \/ Tick \/ Deliver

-----------------------------------------------------------------------------
(* Properties.                                                             *)

Served == verdict.error = "none"
Signed == Served /\ verdict.mode # "Anonymous"

(* has_object_route, which reads the raw path, and the target resolvers,   *)
(* which decode it, agree: an object operation is never refused for lack   *)
(* of a bucket or key, absent or empty, and a bucket operation is never    *)
(* one that names an object.                                               *)
RouteAgreesWithTarget ==
  \A r \in wire :
    LET op == detect_operation(r, setup.domain).op
        target == resolve_s3_target(r, setup.domain)
    IN  /\ op \in {"GetObject", "HeadObject", "DeleteObject"} =>
             target.error \notin {"MissingKey", "MissingBucket", "EmptyBucketName", "EmptyObjectKey"}
        /\ op = "HeadBucket" => target.error # "none"

(* A virtual-hosted request and the path-style request for the same bucket *)
(* and key have the same target and the same operation.                    *)
AddressingStyles ==
  \A r \in wire : \A b \in VirtualBucket(r, setup.domain) :
    LET q == [r EXCEPT !.host = {}, !.path = <<Slash>> \o b \o <<Slash>> \o strip_prefix(r.path)]
    IN  /\ resolve_s3_target(q, setup.domain) = resolve_s3_target(r, setup.domain)
        /\ resolve_bucket_name(q, setup.domain) = resolve_bucket_name(r, setup.domain)
        /\ detect_operation(q, setup.domain) = detect_operation(r, setup.domain)

(* The tenant limits provider is told of the bucket, key, upload and part  *)
(* the handler then works on, although request_log_context finds them by   *)
(* helpers of its own that do not fail.                                    *)
TenantContextMatches ==
  Served => \A r \in wire :
    LET context == request_log_context(r, setup.domain)
    IN  /\ context.target = verdict.target
        /\ verdict.upload \subseteq context.upload
        /\ verdict.part \subseteq context.part

AmzValues(r) == [n \in HeaderNames(r) \cap AmzHeaders |-> FlattenSeq(r.headers[n])]

(* A signed request is served as what its client signed: whatever was      *)
(* altered on the way, the operation, the target and the x-amz- headers    *)
(* are the client's.                                                       *)
ServedAsSigned ==
  Signed => \A r \in wire, c \in sent :
    /\ detect_operation(r, setup.domain) = detect_operation(c, setup.domain)
    /\ resolve_s3_target(r, setup.domain) = resolve_s3_target(c, setup.domain)
    /\ AmzValues(r) = AmzValues(c)

(* A signed request is served only while its client meant it to be: not    *)
(* before its time by more than the skew, not after it by more than the    *)
(* skew, or, presigned, than the seconds it was signed for.                *)
ServedInTime ==
  Signed => \A s \in signer :
    LET skew == config.auth.max_skew_seconds
    IN  verdict.at \in (s.at - skew)..(s.at + IF verdict.mode = "PresignedUrl" THEN s.expires ELSE skew)

(* What is served is within what the configuration grants.  Signed: every  *)
(* entry with the signer's access key id, in the settings or in the        *)
(* credentials file, is active, has the secret the client signed with, and *)
(* allows the bucket and the action.  Anonymous: anonymous access is on    *)
(* and the global list allows the bucket, which is what authorize's own    *)
(* comment says; the global list of actions is AnonymousWithinLists.       *)
ServedWithinGrant ==
  Served =>
    IF verdict.mode = "Anonymous"
      THEN /\ config.auth.allow_anonymous
           /\ LET buckets == config.auth.primary.buckets
              IN  buckets = {} \/ verdict.target.bucket \in buckets
      ELSE \A s \in signer : \A i \in DOMAIN AllKeys(config.auth) :
             LET k == AllKeys(config.auth)[i]
             IN  k.id = s.id =>
                   /\ k.active /\ k.secret = s.secret
                   /\ k.buckets = {} \/ verdict.target.bucket \in k.buckets
                   /\ k.actions = {} \/ ActionOf(verdict.op) \in k.actions

(* AuthConfig::permits: "Returns whether the anonymous/global allow-lists  *)
(* permit an action on a bucket."  What is served to anonymous clients is  *)
(* permitted by both lists.  It is not so: authorize asks                  *)
(* permits_anonymous_bucket alone, and nothing reads the list of actions   *)
(* for an anonymous request.                                               *)
AnonymousWithinLists ==
  Served /\ verdict.mode = "Anonymous" =>
    permits(config.auth, verdict.target.bucket, ActionOf(verdict.op))
=============================================================================
