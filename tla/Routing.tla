------------------------------ MODULE Routing ------------------------------
(***************************************************************************)
(* Which operation a request asks for (detect_operation and the query      *)
(* helpers of src/handlers/s3.rs), which bucket and key it names           *)
(* (src/s3/target.rs, src/s3/types.rs), and what the tenant limits         *)
(* provider is told about it (request_log_context).                        *)
(*                                                                         *)
(* Raw text is a sequence of characters, each written plainly or percent-  *)
(* encoded; NotUtf8 stands for an encoding that is not UTF-8.  A query is  *)
(* a sequence of pairs, whose keys and values are one character each.  An  *)
(* Option is a set with at most one element.                               *)
(***************************************************************************)
EXTENDS Naturals, Sequences, FiniteSets

Plain(c) == [c |-> c, enc |-> FALSE]
Encoded(c) == [c |-> c, enc |-> TRUE]
NotUtf8 == Encoded("notUtf8")
Slash == Plain("/")
Empty == Plain("")

Capitals == [B |-> "b", S3 |-> "s3"]       \* capital letters and their lower case
Decimals == {<<"0", 0>>, <<"1", 1>>, <<"10000", 10000>>, <<"10001", 10001>>}
CanonicalUuids == {"u1", "u2"}
Controls == {"newline"}

-----------------------------------------------------------------------------
(* Text.                                                                   *)

At(raw, c) == {i \in DOMAIN raw : raw[i] = c}
Least(is) == CHOOSE i \in is : \A j \in is : i <= j

percent_decode(raw) ==
  IF At(raw, NotUtf8) = {} THEN {[i \in DOMAIN raw |-> raw[i].c]} ELSE {}

strip_prefix(raw) == IF raw # <<>> /\ raw[1] = Slash THEN Tail(raw) ELSE raw
Before(raw, c) == IF At(raw, c) = {} THEN raw ELSE SubSeq(raw, 1, Least(At(raw, c)) - 1)
After(raw, c) == IF At(raw, c) = {} THEN <<>> ELSE SubSeq(raw, Least(At(raw, c)) + 1, Len(raw))

to_ascii_lowercase(raw) ==
  [i \in DOMAIN raw |->
     IF ~raw[i].enc /\ raw[i].c \in DOMAIN Capitals THEN Plain(Capitals[raw[i].c]) ELSE raw[i]]

-----------------------------------------------------------------------------
(* Targets.                                                                *)

Target(bucket, key) == [error |-> "none", bucket |-> bucket, key |-> key]
TargetError(e) == [error |-> e, bucket |-> <<>>, key |-> <<>>]

(* BucketName::parse and ObjectKey::parse.                                 *)
BucketNameErrors(b) ==
  IF b = <<>> THEN {"EmptyBucketName"}
  ELSE IF \E i \in DOMAIN b : b[i] \in {"/", "\\"} \cup Controls THEN {"InvalidBucketName"} ELSE {}

ObjectKeyErrors(k) ==
  IF k = <<>> THEN {"EmptyObjectKey"}
  ELSE IF \E i \in DOMAIN k : k[i] \in Controls THEN {"InvalidObjectKey"} ELSE {}

(* percent_decode and then parse: the first error, if there is one.        *)
BucketErrors(raw) ==
  IF percent_decode(raw) = {} THEN {"InvalidPercentEncoding"}
                              ELSE UNION {BucketNameErrors(text) : text \in percent_decode(raw)}

KeyErrors(raw) ==
  IF percent_decode(raw) = {} THEN {"InvalidPercentEncoding"}
                              ELSE UNION {ObjectKeyErrors(text) : text \in percent_decode(raw)}

Decoded(raw) == CHOOSE text \in percent_decode(raw) : TRUE
TheError(es) == TargetError(CHOOSE e \in es : TRUE)

ParseTarget(bucket, key) ==
  LET bs == BucketErrors(bucket)
      ks == KeyErrors(key)
  IN  IF bs # {} THEN TheError(bs)
      ELSE IF ks # {} THEN TheError(ks)
      ELSE Target(Decoded(bucket), Decoded(key))

ParseBucket(bucket) ==
  LET bs == BucketErrors(bucket)
  IN  IF bs # {} THEN TheError(bs) ELSE Target(Decoded(bucket), <<>>)

(* The bucket label of a virtual-hosted request, in the case it was        *)
(* written in; ports are ignored and the domain matches in any case.       *)
virtual_host_bucket(host, base) ==
  LET name == Before(host, Plain(":"))
      suffix == <<Plain(".")>> \o to_ascii_lowercase(Before(base, Plain(":")))
      n == Len(name) - Len(suffix)
  IN  IF n > 0 /\ SubSeq(to_ascii_lowercase(name), n + 1, Len(name)) = suffix
        THEN {SubSeq(name, 1, n)} ELSE {}

VirtualBucket(r, domain) ==
  UNION {virtual_host_bucket(h, d) : h \in r.host, d \in domain}

MutantDecodedSlash(path) ==
  LET p == strip_prefix(path)
      at == {i \in DOMAIN p : p[i].c = "/"}
  IN  IF at = {} THEN TargetError("MissingKey")
      ELSE ParseTarget(SubSeq(p, 1, Least(at) - 1), SubSeq(p, Least(at) + 1, Len(p)))

resolve_path_style(path) ==
  LET p == strip_prefix(path)
  IN  IF At(p, Slash) = {} THEN TargetError("MissingKey")
      ELSE ParseTarget(Before(p, Slash), After(p, Slash))

resolve_path_style_bucket(path) ==
  LET p == strip_prefix(path)
  IN  IF p = <<>> THEN TargetError("MissingBucket")
      ELSE IF At(p, Slash) # {} /\ After(p, Slash) # <<>> THEN TargetError("MissingKey")
      ELSE ParseBucket(Before(p, Slash))

MutantKeyWithSlash(r, domain) ==
  IF VirtualBucket(r, domain) = {} THEN resolve_path_style(r.path)
  ELSE ParseTarget(CHOOSE b \in VirtualBucket(r, domain) : TRUE, r.path)

resolve_s3_target(r, domain) ==
  IF VirtualBucket(r, domain) = {} THEN resolve_path_style(r.path)
  ELSE ParseTarget(CHOOSE b \in VirtualBucket(r, domain) : TRUE, strip_prefix(r.path))

resolve_bucket_name(r, domain) ==
  IF VirtualBucket(r, domain) = {} THEN resolve_path_style_bucket(r.path)
  ELSE IF strip_prefix(r.path) # <<>> THEN TargetError("MissingKey")
  ELSE ParseBucket(CHOOSE b \in VirtualBucket(r, domain) : TRUE)

has_object_route(r, domain) ==
  LET p == strip_prefix(r.path)
  IN  IF VirtualBucket(r, domain) # {} THEN p # <<>>
      ELSE Before(p, Slash) # <<>> /\ After(p, Slash) # <<>>

-----------------------------------------------------------------------------
(* Query parameters.                                                       *)

Named(q, name) == {i \in DOMAIN q : q[i].key.c = name}
KeysDecode(q) == \A i \in DOMAIN q : q[i].key # NotUtf8
ValuesOf(q, name) == {q[i].value.c : i \in Named(q, name)}

(* unique_query_param returns Ok: every key is UTF-8, and the parameter    *)
(* appears at most once, with a value that is.                             *)
UniqueParam(q, name) ==
  /\ KeysDecode(q)
  /\ Cardinality(Named(q, name)) <= 1
  /\ \A i \in Named(q, name) : q[i].value # NotUtf8

Flags(q, name) == {i \in Named(q, name) : q[i].value = Empty}
UniqueFlag(q, name) == KeysDecode(q) /\ Cardinality(Flags(q, name)) <= 1

MutantRawKey(q, name) ==
  LET is == {i \in DOMAIN q : q[i].key = Plain(name)}
  IN  IF is = {} THEN {} ELSE {q[Least(is)].value.c}

(* The first decodable value: query_param, which never fails.              *)
query_param(q, name) ==
  LET is == {i \in Named(q, name) : q[i].value # NotUtf8}
  IN  IF is = {} THEN {} ELSE {q[Least(is)].value.c}

parse_part_number(v) == {d[2] : d \in {e \in Decimals : e[1] = v /\ e[2] \in 1..10000}}

-----------------------------------------------------------------------------
(* The operation.                                                          *)

Multipart == {"CreateMultipartUpload", "UploadPart", "CompleteMultipartUpload",
              "AbortMultipartUpload", "ListParts"}
OnObjects == {"PutObject", "GetObject", "HeadObject", "DeleteObject"}
Implemented == Multipart \cup OnObjects \cup {"HeadBucket"}

Detected(op) == [op |-> op, upload |-> {}, part |-> {}]
InvalidRequest == Detected("InvalidRequest")

(* An operation on an upload: parse_upload_id_value refuses other ids.     *)
OnUpload(op, ids) ==
  IF ids \subseteq CanonicalUuids THEN [Detected(op) EXCEPT !.upload = ids] ELSE InvalidRequest

detect_post(q) ==
  IF ~UniqueFlag(q, "uploads") \/ ~UniqueParam(q, "uploadId") THEN InvalidRequest
  ELSE IF Flags(q, "uploads") # {}
    THEN IF ValuesOf(q, "uploadId") = {} THEN Detected("CreateMultipartUpload")
                                         ELSE InvalidRequest
  ELSE IF ValuesOf(q, "uploadId") # {}
    THEN OnUpload("CompleteMultipartUpload", ValuesOf(q, "uploadId"))
  ELSE IF UniqueParam(q, "partNumber") THEN Detected("MethodNotAllowed") ELSE InvalidRequest

detect_put(q) ==
  LET ids == ValuesOf(q, "uploadId")
      values == ValuesOf(q, "partNumber")
      numbers == UNION {parse_part_number(v) : v \in values}
  IN  IF ids = {} /\ values = {} THEN Detected("PutObject")
      ELSE IF ids = {} \/ numbers = {} THEN InvalidRequest
      ELSE IF ids \subseteq CanonicalUuids
        THEN [op |-> "UploadPart", upload |-> ids, part |-> numbers]
      ELSE InvalidRequest

detect_delete(q, object) ==
  IF ValuesOf(q, "uploadId") # {} THEN OnUpload("AbortMultipartUpload", ValuesOf(q, "uploadId"))
  ELSE Detected(IF object THEN "DeleteObject" ELSE "MethodNotAllowed")

detect_get(q, object) ==
  IF ValuesOf(q, "uploadId") # {} THEN OnUpload("ListParts", ValuesOf(q, "uploadId"))
  ELSE IF ~UniqueParam(q, "list-type") THEN InvalidRequest
  ELSE IF ValuesOf(q, "list-type") # {}
    THEN Detected(IF ValuesOf(q, "list-type") = {"2"} THEN "ListObjectsV2" ELSE "Unsupported")
  ELSE Detected(IF object THEN "GetObject" ELSE "MethodNotAllowed")

detect_operation(r, domain) ==
  LET object == has_object_route(r, domain)
      q == r.query
  IN  CASE r.method = "HEAD" -> Detected(IF object THEN "HeadObject" ELSE "HeadBucket")
        [] r.method = "POST" -> detect_post(q)
        [] r.method \notin {"HEAD", "POST"} /\ ~(UniqueParam(q, "partNumber")
             /\ UniqueParam(q, "uploadId")) -> InvalidRequest
        [] OTHER ->
             CASE r.method = "PUT"    -> detect_put(q)
               [] r.method = "DELETE" -> detect_delete(q, object)
               [] r.method = "GET"    -> detect_get(q, object)
               [] OTHER               -> Detected("MethodNotAllowed")

(* What the handler of the operation resolves: the bucket, or the target.  *)
HandlerTarget(r, domain, op) ==
  IF op = "HeadBucket" THEN resolve_bucket_name(r, domain) ELSE resolve_s3_target(r, domain)

(* request_log_context: what the observer and the tenant limits provider   *)
(* are given.                                                              *)
request_log_context(r, domain) ==
  LET target == resolve_s3_target(r, domain)
  IN  [target |-> IF target.error = "none" THEN target ELSE resolve_bucket_name(r, domain),
       upload |-> query_param(r.query, "uploadId") \cap CanonicalUuids,
       part   |-> UNION {parse_part_number(v) : v \in query_param(r.query, "partNumber")}]
=============================================================================
