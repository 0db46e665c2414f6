----------------------------- MODULE Checksums -----------------------------
(***************************************************************************)
(* The checksums of an upload: which digests are computed is settled from  *)
(* the headers, before the body and its trailers arrive; what they are     *)
(* compared with is settled after (src/body/checksum.rs and                *)
(* write_upload_body of src/body/upload.rs).  A completed multipart upload *)
(* reads its headers first and digests the assembled parts                 *)
(* (src/storage/complete_checksum.rs).                                     *)
(*                                                                         *)
(* A checksum as text is [form, of]: form "ok", "notAscii", "notBase64" or *)
(* "wrongLength", of the bytes it is the checksum of.  An input is         *)
(* [kind, framing, feature, payload, sums, declared, sdk, trailers]:       *)
(* feature is "none" or a header of a feature that is not implemented,     *)
(* payload is [mode, of], the mode of x-amz-content-sha256, of the bytes a *)
(* fixed hash is of, sums and trailers map a name to the values of that    *)
(* header and to the trailer, declared holds the x-amz-trailer headers,    *)
(* each a sequence of names, and a name there is [name, cap], cap when     *)
(* spelled with capitals.                                                  *)
(***************************************************************************)
EXTENDS Naturals, Sequences, FiniteSets

CONSTANTS
  Inputs,          \* headers and trailers of a request
  Pieces,          \* pieces a body may arrive in
  MaxBody          \* bound on the length of a body

VARIABLES
  input,           \* headers, and the trailers its body will end with
  stage,           \* "headers", "body", "done"
  fed,             \* the bytes received and written
  digests,         \* enabled digests: name -> the bytes it was fed
  refusal,         \* "none", or why the upload was refused
  echoed           \* checksums stored with the object and sent back

checksumVars == <<input, stage, fed, digests, refusal, echoed>>

ChecksumNames == {"crc32", "crc32c", "sha1", "sha256", "sha512"}
UnsupportedNames == {"crc64nvme"}
MD5 == "content-md5"

Chunked(i) == i.framing.aws

(* What a digest that was not computed compares as: no bytes, or for a CRC *)
(* the number 0, which is the CRC of no bytes.                             *)
Disabled(n) == IF n \in {"crc32", "crc32c"} THEN <<>> ELSE <<"default">>

ChecksumInit(inputs) ==
  /\ input \in inputs
  /\ stage = "headers" /\ fed = <<>>
  /\ digests = <<>> /\ refusal = "none" /\ echoed = <<>>

-----------------------------------------------------------------------------
(* Framing: src/handlers/mod.rs.  framing is [lengths, encodings, aws]:    *)
(* the Content-Length headers, the listed transfer encodings, and whether  *)
(* the body is aws-chunked.                                                *)

validate_content_length(f) == Len(f.lengths) <= 1 /\ \A i \in DOMAIN f.lengths : f.lengths[i] # "NaN"
validate_transfer_encoding(f) == \A i \in DOMAIN f.encodings : f.encodings[i] = "chunked"

validate_supported_request_body_length(f) ==
  /\ validate_content_length(f) /\ validate_transfer_encoding(f)
  /\ IF f.encodings # <<>> THEN f.lengths = <<>> \/ f.aws ELSE f.lengths # <<>>

validate_upload_headers(i) == i.feature = "none"

(* "Streaming" stands for the three streaming modes, "invalid" for what    *)
(* PayloadHashMode::parse refuses.                                         *)
validate_payload_hash_mode(i) ==
  i.payload.mode \in IF Chunked(i) THEN {"Streaming"}
                     ELSE {"Missing", "UnsignedPayload", "FixedSha256"}

-----------------------------------------------------------------------------
(* Which digests are computed.                                             *)

MutantExactCase(i, name) ==
  i.declared # <<>> /\ \E k \in DOMAIN i.declared[1] : i.declared[1][k] = [name |-> name, cap |-> FALSE]

checksum_trailer_declares(i, name) ==
  i.declared # <<>> /\ \E k \in DOMAIN i.declared[1] : i.declared[1][k].name = name

requires_actual_sha256_payload_hash(i) == ~Chunked(i) /\ i.payload.mode = "FixedSha256"

UploadDigests(i) ==
  {MD5} \cup {n \in ChecksumNames : n \in DOMAIN i.sums \/ checksum_trailer_declares(i, n)}
        \cup (IF requires_actual_sha256_payload_hash(i) THEN {"sha256"} ELSE {})

CompleteDigests(i) == (ChecksumNames \cup {MD5}) \cap DOMAIN i.sums

-----------------------------------------------------------------------------
(* What they are compared with: from_headers_and_trailers.                 *)

reject_unsupported_checksum_inputs(i, trailers) ==
  UnsupportedNames \cap (DOMAIN i.sums \cup DOMAIN trailers) = {}

MutantHeaderWins(i, trailers) == \A n \in DOMAIN i.sums : Len(i.sums[n]) <= 1

reject_duplicate_checksum_inputs(i, trailers) ==
  /\ \A n \in DOMAIN i.sums : Len(i.sums[n]) <= 1
  /\ DOMAIN i.sums \cap DOMAIN trailers \cap ChecksumNames = {}

DeclaredNames(i) ==
  IF i.declared = <<>> THEN {} ELSE {i.declared[1][k].name : k \in DOMAIN i.declared[1]}

(* ... with reject_undeclared_checksum_trailers.                           *)
validate_declared_checksum_trailers(i, trailers) ==
  /\ Len(i.declared) <= 1
  /\ i.declared # <<>> => Cardinality(DeclaredNames(i)) = Len(i.declared[1])
  /\ DeclaredNames(i) \subseteq ChecksumNames \cap DOMAIN trailers
  /\ DOMAIN trailers \cap ChecksumNames \subseteq DeclaredNames(i)

(* The header, or else the trailer (optional_base64_header).               *)
Supplied(i, trailers) ==
  [n \in (ChecksumNames \cup {MD5}) \cap (DOMAIN i.sums \cup DOMAIN trailers) |->
     IF n \in DOMAIN i.sums THEN i.sums[n][1] ELSE trailers[n]]

validate_sdk_checksum_algorithm(i, trailers) ==
  /\ Len(i.sdk) <= 1
  /\ \A k \in DOMAIN i.sdk : i.sdk[k] \in ChecksumNames \cap (DOMAIN i.sums \cup DOMAIN trailers)

from_headers_and_trailers(i, trailers) ==
  /\ reject_unsupported_checksum_inputs(i, trailers)
  /\ reject_duplicate_checksum_inputs(i, trailers)
  /\ validate_declared_checksum_trailers(i, trailers)
  /\ \A n \in DOMAIN Supplied(i, trailers) : Supplied(i, trailers)[n].form = "ok"
  /\ validate_sdk_checksum_algorithm(i, trailers)

Digest(n) == IF n \in DOMAIN digests THEN digests[n] ELSE Disabled(n)

(* ChecksumRequest::validate.                                              *)
validate(supplied) == \A n \in DOMAIN supplied : Digest(n) = supplied[n].of

(* The checksums kept with the object and sent back.                       *)
checksum_values(supplied) == [n \in DOMAIN supplied \ {MD5} |-> supplied[n].of]

validate_actual_sha256_payload_hash(i) ==
  Chunked(i) \/ i.payload.mode # "FixedSha256" \/ Digest("sha256") = i.payload.of

-----------------------------------------------------------------------------
Refuse(why) == stage' = "done" /\ refusal' = why

(* The checks before the body is read, and the digests it will be fed to.  *)
UploadHeadersValid(i) ==
  /\ validate_supported_request_body_length(i.framing)
  /\ validate_upload_headers(i)
  /\ validate_payload_hash_mode(i)

ReadHeaders ==
  /\ stage = "headers"
  /\ \/ /\ input.kind = "upload" /\ ~UploadHeadersValid(input)
        /\ Refuse("InvalidRequest") /\ UNCHANGED digests
     \/ /\ input.kind = "upload" /\ UploadHeadersValid(input)
        /\ stage' = "body" /\ digests' = [n \in UploadDigests(input) |-> <<>>]
        /\ UNCHANGED refusal
     \/ /\ input.kind = "complete" /\ ~from_headers_and_trailers(input, <<>>)
        /\ Refuse("InvalidRequest") /\ UNCHANGED digests
     \/ /\ input.kind = "complete" /\ from_headers_and_trailers(input, <<>>)
        /\ stage' = "body" /\ digests' = [n \in CompleteDigests(input) |-> <<>>]
        /\ UNCHANGED refusal
  /\ UNCHANGED <<input, fed, echoed>>

(* write_body_chunk, and MultipartCompleteChecksumState::update.           *)
Feed ==
  /\ stage = "body"
  /\ \E p \in Pieces :
       /\ Len(fed) + Len(p) <= MaxBody
       /\ fed' = fed \o p
       /\ digests' = [n \in DOMAIN digests |-> digests[n] \o p]
  /\ UNCHANGED <<input, stage, refusal, echoed>>

(* The end of the body: its trailers are known, the digests final.         *)
Finish ==
  /\ stage = "body"
  /\ LET trailers == IF Chunked(input) /\ input.kind = "upload" THEN input.trailers ELSE <<>>
         supplied == Supplied(input, trailers)
     IN  IF input.kind = "upload" /\ ~validate_actual_sha256_payload_hash(input)
           THEN Refuse("BadDigest") /\ UNCHANGED echoed
         ELSE IF ~from_headers_and_trailers(input, trailers)
           THEN Refuse("InvalidRequest") /\ UNCHANGED echoed
         ELSE IF ~validate(supplied) THEN Refuse("BadDigest") /\ UNCHANGED echoed
         ELSE /\ stage' = "done" /\ UNCHANGED refusal
              /\ echoed' = checksum_values(supplied)
  /\ UNCHANGED <<input, fed, digests>>

ChecksumNext == ReadHeaders \/ Feed \/ Finish

-----------------------------------------------------------------------------
Accepted == stage = "done" /\ refusal = "none"
SentTrailers == IF Chunked(input) /\ input.kind = "upload" THEN input.trailers ELSE <<>>

(* Every checksum the client supplied for an accepted upload - in a        *)
(* header, in a trailer, or as its payload hash - is the checksum of the   *)
(* bytes that were written; when Content-MD5 comes both ways, the header's.*)
(* So are the checksums stored with the object and sent back.              *)
SuppliedIsVerified ==
  Accepted =>
    /\ \A n \in DOMAIN input.sums : \A k \in DOMAIN input.sums[n] : input.sums[n][k].of = fed
    /\ \A n \in DOMAIN SentTrailers : (n = MD5 /\ n \in DOMAIN input.sums) \/ SentTrailers[n].of = fed
    /\ input.kind = "upload" /\ input.payload.mode = "FixedSha256" => input.payload.of = fed
    /\ \A n \in DOMAIN echoed : echoed[n] = fed

(* An upload is refused for a bad digest only when something the client    *)
(* supplied is not the checksum of the body: no digest is compared that    *)
(* was not enabled before the body was read.                               *)
BadDigestIsReal ==
  refusal = "BadDigest" =>
    \/ \E n \in DOMAIN input.sums : \E k \in DOMAIN input.sums[n] : input.sums[n][k].of # fed
    \/ \E n \in DOMAIN SentTrailers : SentTrailers[n].of # fed
    \/ input.payload.mode = "FixedSha256" /\ input.payload.of # fed
=============================================================================
