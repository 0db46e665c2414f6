--------------------------- MODULE Authentication --------------------------
(***************************************************************************)
(* src/auth.rs: how a request is authenticated, by an Authorization        *)
(* header, by the X-Amz- fields of a presigned query, or not at all, and   *)
(* what it is then allowed to do.                                          *)
(*                                                                         *)
(* A request is [method, host, path, query, headers, authorization,        *)
(* presigned].  A header name maps to the sequence of its values, a value  *)
(* is a sequence of its comma-separated items, so that joining the values  *)
(* of a header is concatenation; runs of white space are one space.  The   *)
(* Authorization headers and the X-Amz- fields of the query are parsed     *)
(* records, kept apart: [form, credential, signed, signature] and          *)
(* [dup, algorithm, credential, date, expires, signed, token, signature].  *)
(* Times are seconds, NoTime a text that is not a time.  A signature is    *)
(* the record of everything that entered the HMAC.                         *)
(***************************************************************************)
EXTENDS Configuration, SequencesExt

CONSTANT DayLength                         \* seconds of a day, scaled down
ASSUME DayAssumption == DayLength \in Nat \ {0}

MaxExpires == 604800
NoTime == 0 - 1
Day(t) == IF t = NoTime THEN NoTime ELSE t \div DayLength
Unreserved == {"b", "B", "k", "u1", "u2", "1", "2", "uploadId", "partNumber", "uploads"}
HeaderOrder == <<"host", "range", "x-amz-content-sha256", "x-amz-date", "x-amz-meta-a",
                 "x-amz-security-token">>
AmzHeaders == {"x-amz-content-sha256", "x-amz-date", "x-amz-meta-a", "x-amz-security-token"}
Singletons == {"x-amz-date", "x-amz-content-sha256", "x-amz-security-token"}
PayloadHashes == {"UNSIGNED-PAYLOAD", "STREAMING-AWS4-HMAC-SHA256-PAYLOAD", "sha256:1", "sha256:2"}

BadSignature == [form |-> "notHex"]

-----------------------------------------------------------------------------
(* The canonical request.                                                  *)

MutantUriDecoded(path) == [i \in DOMAIN path |-> Plain(path[i].c)]

canonical_uri(path) ==
  [i \in DOMAIN path |->
     IF path[i].enc \/ path[i].c \in Unreserved \cup {"/"} THEN path[i] ELSE Encoded(path[i].c)]

(* The sorted decoded pairs are the bag of them.  IncludeAll also signs    *)
(* X-Amz- fields; ExcludePresignedSignature all but the signature.         *)
canonical_query(r, mode) ==
  LET pair(i) == <<r.query[i].key.c, r.query[i].value.c>>
  IN  [pairs |-> {<<pair(i), Cardinality({j \in DOMAIN r.query : pair(j) = pair(i)})>> :
                  i \in DOMAIN r.query},
       fields |-> {IF mode = "IncludeAll" THEN p ELSE [p EXCEPT !.signature = BadSignature] :
                   p \in r.presigned}]

QueryDecodes(q) == \A i \in DOMAIN q : NotUtf8 \notin {q[i].key, q[i].value}

HeaderNames(r) == DOMAIN r.headers
Present(r, name) == IF name = "host" THEN r.host # {} ELSE name \in HeaderNames(r)
canonical_headers(r, signed) ==
  [name \in ToSet(signed) \ {"host"} |-> FlattenSeq(r.headers[name])]

Position(name) == IF name \in ToSet(HeaderOrder)
                    THEN CHOOSE i \in DOMAIN HeaderOrder : HeaderOrder[i] = name ELSE 0
validate_signed_headers(signed) ==
  /\ signed # <<>>
  /\ \A i \in DOMAIN signed : Position(signed[i]) > 0
  /\ \A i \in 2..Len(signed) : Position(signed[i - 1]) < Position(signed[i])
  /\ "host" \in ToSet(signed)

validate_amz_headers_are_signed(r, signed) == HeaderNames(r) \cap AmzHeaders \subseteq ToSet(signed)

validate_singleton_auth_headers(r) ==
  \A name \in HeaderNames(r) \cap Singletons : Len(r.headers[name]) <= 1

(* The payload hash that is signed, {} when the header is absent or is not *)
(* a payload hash mode.                                                    *)
payload_hash(r, mode) ==
  IF mode = "ExcludePresignedSignature" THEN {"UNSIGNED-PAYLOAD"}
  ELSE IF "x-amz-content-sha256" \notin HeaderNames(r) THEN {}
  ELSE ToSet(r.headers["x-amz-content-sha256"][1]) \cap PayloadHashes

canonical_request(r, signed, mode) ==
  [method |-> r.method, uri |-> canonical_uri(r.path), query |-> canonical_query(r, mode),
   host |-> r.host, headers |-> canonical_headers(r, signed), signed |-> signed,
   payload |-> payload_hash(r, mode)]

(* canonical_request returns Ok.                                           *)
Canonical(r, signed, mode) ==
  /\ QueryDecodes(r.query)
  /\ validate_signed_headers(signed)
  /\ validate_amz_headers_are_signed(r, signed)
  /\ validate_singleton_auth_headers(r)
  /\ \A name \in ToSet(signed) : Present(r, name)
  /\ payload_hash(r, mode) # {}

(* string_to_sign under signing_key.                                       *)
Signature(secret, date, credential, canonical) ==
  [form |-> "hex", secret |-> secret, date |-> date, day |-> credential.day,
   region |-> credential.region, request |-> canonical]

-----------------------------------------------------------------------------
(* Verification.  An error is the code of the response; "none" is success. *)

(* The checks on the credential scope that both kinds of request share.    *)
CredentialError(state, c) ==
  CASE ~c.wellFormed -> "AuthorizationHeaderMalformed"
    [] c.wellFormed /\ c.id \notin DOMAIN state.credentials -> "AccessDenied"
    [] OTHER ->
         IF ~state.credentials[c.id].active THEN "AccessDenied"
         ELSE IF c.region # state.region \/ <<c.service, c.terminal>> # <<"s3", "aws4_request">>
           THEN "AuthorizationHeaderMalformed"
         ELSE "none"

Apart(t, u) == IF t > u THEN t - u ELSE u - t

validate_timestamp(date, now, skew) == date # NoTime /\ Apart(date, now) <= skew

HeaderItem(r, name) == IF name \in HeaderNames(r) THEN {Head(Head(r.headers[name]))} ELSE {}

verify_header_auth(state, r, now, a) ==
  LET key == state.credentials[a.credential.id]
      date == Head(Head(r.headers["x-amz-date"]))
  IN  IF a.form # "ok" \/ a.signature.form # "hex" THEN "AccessDenied"
      ELSE IF CredentialError(state, a.credential) # "none" THEN CredentialError(state, a.credential)
      ELSE IF "x-amz-date" \notin HeaderNames(r) THEN "AccessDenied"
      ELSE IF Day(date) # a.credential.day THEN "AuthorizationHeaderMalformed"
      ELSE IF date = NoTime THEN "AccessDenied"
      ELSE IF ~validate_timestamp(date, now, state.max_skew_seconds) THEN "RequestTimeTooSkewed"
      ELSE IF key.token # {} /\ HeaderItem(r, "x-amz-security-token") # key.token THEN "AccessDenied"
      ELSE IF ~Canonical(r, a.signed, "IncludeAll") THEN "AccessDenied"
      ELSE IF a.signature # Signature(key.secret, date, a.credential,
                                      canonical_request(r, a.signed, "IncludeAll"))
        THEN "SignatureDoesNotMatch"
      ELSE "none"

MutantExpiryWithSkew(p, now, skew) ==
  IF now + skew < p.date THEN "RequestTimeTooSkewed"
  ELSE IF now > p.date + p.expires + skew THEN "AccessDenied" ELSE "none"

validate_presigned_expiry(p, now, skew) ==
  IF now + skew < p.date THEN "RequestTimeTooSkewed"
  ELSE IF now > p.date + p.expires THEN "AccessDenied" ELSE "none"

verify_presigned_url(state, r, now, p) ==
  LET key == state.credentials[p.credential.id]
      mode == "ExcludePresignedSignature"
      time == validate_presigned_expiry(p, now, state.max_skew_seconds)
  IN  IF ~QueryDecodes(r.query) \/ p.dup \/ p.algorithm # "AWS4-HMAC-SHA256" THEN "AccessDenied"
      ELSE IF CredentialError(state, p.credential) # "none" THEN CredentialError(state, p.credential)
      ELSE IF Day(p.date) # p.credential.day THEN "AuthorizationHeaderMalformed"
      ELSE IF p.date = NoTime THEN "AccessDenied"
      ELSE IF key.token # {} /\ p.token # key.token THEN "AccessDenied"
      ELSE IF p.expires \notin 1..MaxExpires THEN "AccessDenied"
      ELSE IF time # "none" THEN time
      ELSE IF p.signature.form # "hex" \/ ~Canonical(r, p.signed, mode) THEN "AccessDenied"
      ELSE IF p.signature # Signature(key.secret, p.date, p.credential,
                                      canonical_request(r, p.signed, mode))
        THEN "SignatureDoesNotMatch"
      ELSE "none"

(* authenticate: the mode, the access key, and the seed of the chunk       *)
(* signatures a signed streaming upload continues from.                    *)
AuthContext(error, mode, key, seed) == [error |-> error, mode |-> mode, key |-> key, seed |-> seed]

authenticate(state, r, now) ==
  IF Len(r.authorization) > 1 THEN AuthContext("AccessDenied", "none", {}, {})
  ELSE IF Len(r.authorization) = 1
    THEN LET a == r.authorization[1]
         IN  AuthContext(verify_header_auth(state, r, now, a), "HeaderSigV4",
                         {a.credential.id}, {a.signature})
  ELSE IF r.presigned # {}
    THEN LET p == CHOOSE q \in r.presigned : TRUE
         IN  AuthContext(verify_presigned_url(state, r, now, p), "PresignedUrl",
                         {p.credential.id}, {})
  ELSE IF state.allow_anonymous THEN AuthContext("none", "Anonymous", {}, {})
  ELSE AuthContext("AccessDenied", "none", {}, {})

ActionOf(op) == IF op = "ListParts" THEN "ListMultipartUploadParts" ELSE op

authorize(state, auth, bucket, action) ==
  \/ auth.mode = "Anonymous" /\ permits_anonymous_bucket(state, bucket)
  \/ \E id \in auth.key : permits_credential(state, id, bucket, action)
=============================================================================
