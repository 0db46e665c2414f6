----------------------------- MODULE MCDecisions ----------------------------
(***************************************************************************)
(* Settings, messages and alterations that instantiate Decisions for TLC.  *)
(***************************************************************************)
EXTENDS Decisions

Domain == <<Plain("s3")>>
Key(id, secret) == [id |-> id, secret |-> secret, token |-> {}, active |-> TRUE,
                    buckets |-> {}, actions |-> {}]
Entry(id, secret) == [Key(id, secret) EXCEPT !.active = {}]

GoodLimits == [l \in {"max_object_size", "max_part_size", "max_concurrent_s3_requests",
                      "max_active_object_writers", "max_active_multipart_part_writers",
                      "max_active_aws_chunked_decoders", "min_non_final_part_size"} |-> 1]
GoodConfig ==
  [upload_limits |-> GoodLimits,
   auth |-> [allow_anonymous |-> FALSE, primary |-> Key("AK1", "s1"), credentials |-> <<>>,
             region |-> "us", max_skew_seconds |-> 1]]
GoodFile ==
  <<[Entry("AK2", "s2") EXCEPT !.token = {"t"}, !.buckets = {<<"b">>},
                               !.actions = {<<"s3:", "GetObject">>, <<"kebab", "UploadPart">>}],
    [Entry("AK3", "s3") EXCEPT !.active = {FALSE}],
    [Entry("AK4", "s4") EXCEPT !.active = {TRUE}, !.actions = {<<"plain", "PutObject">>}]>>
Json(entries) == [is |-> "json", entries |-> entries]
NoFile(is) == [is |-> is, entries |-> <<>>]

KeySetup == [config |-> GoodConfig, tuning |-> [object_stream_buffer_size |-> 1],
             file |-> Json(GoodFile), health |-> {}, embedded |-> FALSE, domain |-> {}]
OpenSetup == [KeySetup EXCEPT !.config.auth.allow_anonymous = TRUE,
                              !.file = NoFile("absent"), !.domain = {Domain}]
LimitedSetup == [OpenSetup EXCEPT !.config.auth.primary.buckets = {<<"b">>}, !.domain = {},
                                  !.embedded = TRUE, !.health = {<<Slash, Plain("k")>>}]
ReadOnlySetup == [LimitedSetup EXCEPT !.config.auth.primary.actions = {"GetObject", "HeadObject"}]
RefusedSetups ==
  {[KeySetup EXCEPT !.config.upload_limits.max_active_object_writers = 0],
   [KeySetup EXCEPT !.config.upload_limits.min_non_final_part_size = 2],
   [KeySetup EXCEPT !.tuning.object_stream_buffer_size = 0],
   [KeySetup EXCEPT !.config.auth.region = "US-EAST-1"],
   [KeySetup EXCEPT !.config.auth.max_skew_seconds = 0 - 1],
   [KeySetup EXCEPT !.config.auth.primary.id = "a b"],
   [KeySetup EXCEPT !.file = Json(<<Entry("AK2", "s2"), Entry("AK1", "s2")>>)],
   [KeySetup EXCEPT !.file = Json(<<[Entry("AK2", "s2") EXCEPT !.token = {""}]>>)],
   [KeySetup EXCEPT !.file = Json(<<[Entry("AK2", "s2") EXCEPT !.buckets = {<<>>}]>>)],
   [KeySetup EXCEPT !.file = Json(<<[Entry("AK2", "s2") EXCEPT !.actions = {<<"plain", "Fly">>}]>>)],
   [KeySetup EXCEPT !.file = NoFile("unreadable")],
   [KeySetup EXCEPT !.file = NoFile("notJson")],
   [LimitedSetup EXCEPT !.health = {<<Slash>>}],
   [LimitedSetup EXCEPT !.health = {<<Slash, Plain("*")>>}]}
MCSetups == {KeySetup, [KeySetup EXCEPT !.domain = {Domain}], OpenSetup, LimitedSetup,
             ReadOnlySetup} \cup RefusedSetups

-----------------------------------------------------------------------------
Request(method, host, path, query) ==
  [method |-> method, host |-> host, path |-> path, query |-> query, headers |-> <<>>,
   authorization |-> <<>>, presigned |-> {}]
Pair(k, v) == [key |-> k, value |-> v]
Param(k, v) == Pair(Plain(k), Plain(v))

Methods == {"GET", "HEAD", "PUT", "POST", "DELETE", "PATCH"}
Hosts == {{}, {<<Plain("b"), Plain("."), Plain("S3"), Plain(":"), Plain("1")>>},
          {<<Plain("B"), Plain("."), Plain("k"), Plain("."), Plain("s3")>>},
          {<<Plain("."), Plain("s3")>>}, {<<Plain("s3")>>}}
Paths == {<<Slash>>, <<Slash, Plain("b")>>, <<Slash, Plain("b"), Slash>>,
          <<Slash, Plain("b"), Slash, Plain("k")>>, <<Slash, Slash, Plain("k")>>,
          <<Slash, Plain("b"), Slash, Slash>>,
          <<Slash, Plain("b"), Encoded("/"), Plain("k")>>,
          <<Slash, Encoded("b"), Slash, Plain("k"), Encoded("/"), Plain("b")>>,
          <<Slash, Plain("b"), Slash, NotUtf8>>, <<Slash, Encoded("newline"), Slash, Plain("k")>>}
ObjectPath == <<Slash, Plain("b"), Slash, Plain("k")>>

Uploads == {<<>>, <<Param("uploadId", "u1")>>, <<Param("uploadId", "junk")>>,
            <<Pair(Encoded("uploadId"), Encoded("u1"))>>,
            <<Param("uploadId", "u1"), Param("uploadId", "u2")>>,
            <<Pair(Plain("uploadId"), NotUtf8)>>, <<Pair(NotUtf8, Plain("u1"))>>,
            <<Param("uploads", "")>>, <<Param("uploads", "1")>>,
            <<Param("uploads", ""), Param("uploads", "")>>}
Parts == {<<>>, <<Param("partNumber", "1")>>, <<Param("partNumber", "0")>>,
          <<Param("partNumber", "10000")>>, <<Param("partNumber", "10001")>>,
          <<Param("partNumber", "1"), Param("partNumber", "1")>>,
          <<Param("list-type", "2")>>, <<Param("list-type", "1")>>}

Routed ==
  {Request(m, h, p, <<>>) : m \in Methods, h \in Hosts, p \in Paths} \cup
  {Request(m, {}, ObjectPath, u \o n) : m \in Methods, u \in Uploads, n \in Parts}

Signer(id, secret) == [id |-> id, secret |-> secret, token |-> {}, at |-> 0, expires |-> 2]
AK1 == Signer("AK1", "s1")
AK2 == [Signer("AK2", "s2") EXCEPT !.token = {"t"}]
Signers == {AK1, AK2, [AK2 EXCEPT !.token = {}], Signer("AK3", "s3"), Signer("AK4", "s4"),
            Signer("AK1", "s2"), Signer("AK9", "s1"), [AK1 EXCEPT !.at = 2],
            [AK1 EXCEPT !.expires = 0], [AK1 EXCEPT !.expires = MaxExpires + 1]}

PartRequest == [Request("PUT", {Domain}, ObjectPath, <<Param("partNumber", "1"), Param("uploadId", "u1")>>)
                  EXCEPT !.headers = [n \in {"x-amz-meta-a"} |-> <<<<"v", "w">>>>]]
GetRequest == Request("GET", {Domain}, ObjectPath, <<>>)
Bases == {PartRequest, GetRequest,
          Request("GET", {Domain}, <<Slash, Plain("b"), Slash, Plain("+")>>, <<>>),
          Request("DELETE", {Domain}, <<Slash, Plain("b"), Encoded("/"), Slash, Plain("k")>>, <<>>),
          Request("GET", {<<Plain("b"), Plain(".")>> \o Domain}, <<Slash, Plain("k")>>, <<>>)}
MCMessages(s) ==
  IF s.config.auth.allow_anonymous
    THEN {[request |-> r, mode |-> "none", signer |-> AK1] : r \in Routed}
    ELSE {[request |-> r, mode |-> m, signer |-> AK1] : r \in Bases, m \in {"none", "header", "presigned"}}
         \cup {[request |-> r, mode |-> m, signer |-> k] :
                 r \in {PartRequest, GetRequest}, m \in {"header", "presigned"}, k \in Signers}

-----------------------------------------------------------------------------
Recoded(r, from, to) == [r EXCEPT !.path = [i \in DOMAIN @ |-> IF @[i] = from THEN to ELSE @[i]]]
AnotherMeta(r) ==
  [r EXCEPT !.headers = [n \in DOMAIN @ \cup {"x-amz-meta-a"} |->
                          IF n = "x-amz-meta-a" THEN <<<<"v">>, <<"w">>>> ELSE @[n]]]
Dated(r, t) ==
  IF r.presigned = {} THEN WithHeader(r, "x-amz-date", t)
  ELSE [r EXCEPT !.presigned = {[p EXCEPT !.date = t] : p \in @}]

MCRewrites(r) ==
  {[r EXCEPT !.method = "HEAD"], [r EXCEPT !.host = {<<Plain("k"), Plain(".")>> \o Domain}],
   [r EXCEPT !.query = Reverse(@)], [r EXCEPT !.query = @ \o <<Param("uploadId", "u2")>>],
   [r EXCEPT !.query = [i \in DOMAIN @ |-> Pair(Encoded(@[i].key.c), Encoded(@[i].value.c))]],
   [r EXCEPT !.query = <<>>], [r EXCEPT !.query = @ \o <<Pair(Plain("x"), NotUtf8)>>],
   Recoded(r, Plain("+"), Encoded("+")), Recoded(r, Plain("k"), Encoded("k")),
   Recoded(r, Encoded("/"), Slash), Recoded(r, Plain("k"), Plain("b")),
   WithHeader(r, "range", "0-1"), AnotherMeta(r), WithHeader(r, "x-amz-security-token", "t"),
   [r EXCEPT !.headers = [n \in DOMAIN @ \ AmzHeaders |-> @[n]]],
   Dated(r, 1), Dated(r, 4), Dated(r, NoTime),
   [r EXCEPT !.authorization = @ \o @], [r EXCEPT !.authorization = <<>>],
   [r EXCEPT !.presigned = {[p EXCEPT !.expires = MaxExpires] : p \in @}],
   [r EXCEPT !.presigned = {[p EXCEPT !.dup = TRUE] : p \in @}], [r EXCEPT !.presigned = {}]}

-----------------------------------------------------------------------------
(* Checksums: claims of the body <<1, 2>> and of others, by header, by     *)
(* trailer and both, well and badly formed.                                *)
Sum(bytes) == [form |-> "ok", of |-> bytes]
Sums == {<<Sum(<<1, 2>>)>>, <<Sum(<<>>)>>, <<Sum(<<1, 2>>), Sum(<<1>>)>>,
         <<[form |-> "notBase64", of |-> <<1, 2>>]>>, <<[form |-> "wrongLength", of |-> <<1, 2>>]>>}
Only(name, value) == [n \in {name} |-> value]
Names == {"crc32", "sha256", "crc64nvme", MD5}
SumHeaders == {<<>>} \cup {Only(n, v) : n \in Names, v \in Sums}
Trailing == {<<>>} \cup {Only(n, Sum(b)) : n \in Names, b \in {<<1, 2>>, <<>>}}
              \cup {[n \in {"crc32", "sha256"} |-> Sum(<<1, 2>>)]}
Lower(n) == [name |-> n, cap |-> FALSE]
Declared == {<<>>, <<<<Lower("crc32")>>>>, <<<<[name |-> "crc32", cap |-> TRUE]>>>>,
             <<<<Lower("sha256"), Lower("crc32")>>>>, <<<<Lower("crc32"), Lower("crc32")>>>>,
             <<<<Lower("crc32")>>, <<Lower("sha256")>>>>, <<<<Lower("")>>>>, <<<<Lower("crc64nvme")>>>>}

Framing(lengths, encodings, aws) == [lengths |-> lengths, encodings |-> encodings, aws |-> aws]
Framings == {Framing(<<"2">>, <<>>, FALSE), Framing(<<>>, <<"chunked">>, FALSE),
             Framing(<<"2">>, <<"chunked">>, FALSE), Framing(<<>>, <<>>, FALSE),
             Framing(<<"2", "2">>, <<>>, FALSE), Framing(<<"NaN">>, <<>>, FALSE),
             Framing(<<>>, <<"gzip">>, FALSE), Framing(<<"9">>, <<"chunked">>, TRUE)}
PlainBody == Framing(<<"2">>, <<>>, FALSE)
AwsBody == Framing(<<"9">>, <<>>, TRUE)
Sdk == {<<>>, <<"crc32">>, <<"crc32", "crc32">>, <<"crc64nvme">>}

Mode(m) == [mode |-> m, of |-> <<>>]
Hash(bytes) == [mode |-> "FixedSha256", of |-> bytes]
Modes == {Mode("Missing"), Mode("UnsignedPayload"), Mode("Streaming"), Mode("invalid"), Hash(<<1, 2>>)}

MCInputs ==
  [kind : {"upload"}, framing : {AwsBody}, feature : {"none"}, payload : {Mode("Streaming")},
   sums : SumHeaders, declared : Declared, sdk : {<<>>}, trailers : Trailing]
  \cup [kind : {"upload", "complete"}, framing : {PlainBody, AwsBody}, feature : {"none"},
         payload : {Mode("Missing"), Mode("Streaming"), Hash(<<1, 2>>), Hash(<<>>)},
         sums : SumHeaders, declared : {<<>>}, sdk : Sdk, trailers : {<<>>}]
  \cup [kind : {"upload"}, framing : Framings, feature : {"none", "encryption"}, payload : Modes,
         sums : {<<>>}, declared : {<<>>}, sdk : {<<>>}, trailers : {<<>>}]
MCPieces == {<<1>>, <<2>>, <<1, 2>>}

-----------------------------------------------------------------------------
(* Reads: the second version comes within the second of the first.         *)
MCVersions == <<[content |-> <<1, 2, 3>>, etag |-> "e1", second |-> 0],
                [content |-> <<4, 5, 6, 7>>, etag |-> "e2", second |-> 0],
                [content |-> <<>>, etag |-> "e3", second |-> 1]>>
Positions == {{}, {0}, {1}, {2}, {3}, {4}, {9}, {10}}
Ranges == {{}} \cup {RangeText(s, e) : s \in Positions, e \in Positions}
            \cup {{[form |-> "other", start |-> {0}, end |-> {1}]}}
Conditions ==
  [match : {{}, {Etag("e1")}, {Etag("e2"), AnyEtag}, {[weak |-> TRUE, name |-> "e1"]}, {NotAscii}},
   none : {{}, {Etag("e2")}, {[weak |-> TRUE, name |-> "e1"]}, {NotAscii}},
   unmodified : {{}, {HttpDate(0)}, {NotADate}}, modified : {{}, {HttpDate(0)}, {NotADate}}]
Reader(kind, range, condition, buffer) ==
  [kind |-> kind, range |-> range, condition |-> condition, overrides |-> "none", buffer |-> buffer]
MCReaders ==
  {Reader("download", {}, NoCondition, b) : b \in {1, 2}}
  \cup {Reader("cache", {}, NoCondition, 2)}
  \cup {Reader("ask", r, NoCondition, 2) : r \in Ranges}
  \cup {Reader("ask", {}, c, 2) : c \in Conditions}
  \cup {[Reader("ask", r, NoCondition, 2) EXCEPT !.overrides = "invalid"] :
           r \in {{}, RangeText({1}, {2}), RangeText({9}, {})}}

-----------------------------------------------------------------------------
MCListers == [maxParts : {{}, {0}, {1}, {2}, {9}}, marker : {{}, {1}, {5}}, access : {{"owner"}, {}}]
=============================================================================
