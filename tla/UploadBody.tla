----------------------------- MODULE UploadBody -----------------------------
(***************************************************************************)
(* write_upload_body (src/body/upload.rs): a request body arrives in       *)
(* frames, cut anywhere, and is written to the temporary file - as it is,  *)
(* or decoded by AwsChunkedUploadParser, an incremental parser that checks *)
(* a chain of chunk signatures.  What the checksum headers require of the  *)
(* result is in Checksums.                                                 *)
(***************************************************************************)
EXTENDS AwsChunked

CONSTANTS
  Requests,            \* records [chunked, mode, signing, declared, sent, input]
  MaxDecodedSize,      \* the object or part size limit
  MaxControlLine       \* MAX_AWS_CHUNKED_CONTROL_LINE_BYTES, in tokens

VARIABLES
  request,    \* headers and body of this request
  pc,         \* "start", "frame" (awaits the body), "parse", "ended"
  rest,       \* what the client has still to send
  buffer,     \* received and not yet parsed
  state,      \* AwsChunkedParserState
  head,       \* the header of the chunk being read
  trailers,   \* trailers read so far
  previous,   \* previous_signature
  written,    \* bytes written to the temporary file
  result      \* "none", "accepted", or an error

vars == <<request, pc, rest, buffer, state, head, trailers, previous, written, result>>
parser == <<buffer, state, head, trailers, previous>>

SignedModes == {"StreamingSignedPayload", "StreamingSignedPayloadTrailer"}
ChunkedModes == SignedModes \cup {"StreamingUnsignedPayloadTrailer"}
PlainModes == {"Missing", "UnsignedPayload", "FixedSha256"}
NoHead == ChunkHead(0, {})

Errors == {"unsupported_mode", "signature", "malformed", "line_too_large",
           "after_trailer", "ended_early", "too_large", "length", "read", "write"}

(* Every variable keeps its type, and no more than the size limit is ever  *)
(* written, of whatever the chunk headers promise.  It bounds the file and *)
(* not the memory: a chunk is buffered until it is whole, and only then    *)
(* compared with the limit.                                                *)
TypeOK ==
  /\ request \in Requests
  /\ pc \in {"start", "frame", "parse", "ended"}
  /\ state \in {"ChunkHeader", "ChunkData", "Trailer", "Done"}
  /\ head.size \in 0..(UsizeSpan - 1)
  /\ \A t \in trailers : TrailerLine(t)
  /\ \A i \in 1..Len(written) : "byte" \in DOMAIN written[i]
  /\ Len(written) <= MaxDecodedSize
  /\ result \in {"none", "accepted"} \cup Errors

Init ==
  /\ request \in Requests
  /\ pc = "start" /\ rest = request.input
  /\ buffer = <<>> /\ state = "ChunkHeader" /\ head = NoHead
  /\ trailers = {} /\ previous = Seed
  /\ written = <<>> /\ result = "none"

-----------------------------------------------------------------------------
Goto(p) == pc' = p /\ UNCHANGED result
Return(r) == pc' = "ended" /\ result' = r

(* The mode must suit the encoding; a signed mode needs the key of the     *)
(* authenticated request.                                                  *)
validate_payload_hash_mode ==
  /\ pc = "start"
  /\ IF request.mode \notin (IF request.chunked THEN ChunkedModes ELSE PlainModes)
       THEN Return("unsupported_mode")
       ELSE IF request.mode \in SignedModes /\ ~request.signing
         THEN Return("signature")
         ELSE Goto("frame")
  /\ UNCHANGED <<request, rest, parser, written>>

MutantLimitPerChunk(data) == Len(data) <= MaxDecodedSize

validate_decoded_size_limit(data) == Len(written) + Len(data) <= MaxDecodedSize

(* The digests are fed, and the write succeeds or fails.                   *)
write_body_chunk(data) ==
  \/ written' = written \o data /\ UNCHANGED <<pc, result>>
  \/ Return("write") /\ UNCHANGED written

(* validate_plain_body_chunk_length before each write.                     *)
FitsDeclared(data) == \A n \in request.declared : Len(written) + Len(data) <= n

(* A frame of a plain body is checked and written.                         *)
plain_frame ==
  /\ pc = "frame" /\ ~request.chunked
  /\ \E n \in 1..Len(rest) :
       LET data == SubSeq(rest, 1, n) IN
       /\ rest' = Drop(rest, n)
       /\ \/ ~FitsDeclared(data) /\ Return("length") /\ UNCHANGED written
          \/ /\ FitsDeclared(data) /\ ~validate_decoded_size_limit(data)
             /\ Return("too_large") /\ UNCHANGED written
          \/ /\ FitsDeclared(data) /\ validate_decoded_size_limit(data)
             /\ write_body_chunk(data)
  /\ UNCHANGED <<request, parser>>

plain_end ==
  /\ pc = "frame" /\ ~request.chunked /\ rest = <<>>
  /\ Return(IF \A n \in request.declared : n = Len(written) THEN "accepted" ELSE "length")
  /\ UNCHANGED <<request, rest, parser, written>>

-----------------------------------------------------------------------------
(* push_and_write: one action for each turn of its loop.                   *)

MutantLimitFrame ==
  /\ pc = "frame" /\ request.chunked
  /\ \E n \in 1..Len(rest) : buffer' = buffer \o SubSeq(rest, 1, n) /\ rest' = Drop(rest, n)
  /\ IF state = "Trailer" /\ Len(buffer') > MaxControlLine THEN Return("line_too_large")
                                                          ELSE Goto("parse")
  /\ UNCHANGED <<request, state, head, trailers, previous, written>>

next_frame ==
  /\ pc = "frame" /\ request.chunked
  /\ \E n \in 1..Len(rest) : buffer' = buffer \o SubSeq(rest, 1, n) /\ rest' = Drop(rest, n)
  /\ Goto("parse")
  /\ UNCHANGED <<request, state, head, trailers, previous, written>>

(* read_line without a CRLF: the limit is only looked at here, so a longer *)
(* line passes when one frame brings its end along.                        *)
await_line ==
  /\ pc = "parse" /\ state \in {"ChunkHeader", "Trailer"}
  /\ CRLFs(buffer) = {}
  /\ IF Len(buffer) > MaxControlLine THEN Return("line_too_large") ELSE Goto("frame")
  /\ UNCHANGED <<request, rest, parser, written>>

Line == SubSeq(buffer, 1, FirstCRLF(buffer) - 1)
ReadLine == buffer' = Drop(buffer, FirstCRLF(buffer) + 1)

Verifies == request.mode \in SignedModes

MutantChainRestarts(sig, data) ==
  Verifies => sig \in {{SignChunk(previous, data)}, {SignChunk(Seed, data)}}

(* AwsChunkSignatureVerifier::verify; then the signature is the previous.  *)
verify_chunk_signature(sig, data) == Verifies => sig = {SignChunk(previous, data)}

Verified(sig) == previous' = IF Verifies THEN CHOOSE s \in sig : TRUE ELSE previous

parse_aws_chunk_header(line) == HeaderLine(line) /\ ExtensionsParse(line)
Header == Trim(Line)[1]

chunk_header ==
  /\ pc = "parse" /\ state = "ChunkHeader" /\ CRLFs(buffer) # {}
  /\ ReadLine
  /\ \/ /\ ~parse_aws_chunk_header(Line)
        /\ Return("malformed") /\ UNCHANGED <<state, head, previous>>
     \/ /\ parse_aws_chunk_header(Line) /\ Header.size > 0
        /\ head' = Header /\ state' = "ChunkData"
        /\ UNCHANGED <<pc, result, previous>>
     \/ /\ parse_aws_chunk_header(Line) /\ Header.size = 0
        /\ IF verify_chunk_signature(Header.sig, <<>>)
             THEN Verified(Header.sig) /\ state' = "Trailer" /\ UNCHANGED <<pc, result>>
             ELSE Return("signature") /\ UNCHANGED <<state, previous>>
        /\ UNCHANGED head
  /\ UNCHANGED <<request, rest, trailers, written>>

(* size + 2 is a usize; of a size where it wraps no range is in the buffer.*)
Needed == (head.size + 2) % UsizeSpan

chunk_data ==
  /\ pc = "parse" /\ state = "ChunkData"
  /\ LET data == SubSeq(buffer, 1, head.size) IN
     \/ /\ Len(buffer) < Needed
        /\ Goto("frame") /\ UNCHANGED <<buffer, state, previous, written>>
     \/ /\ Len(buffer) >= Needed
        /\ Needed < head.size \/ SubSeq(buffer, head.size + 1, Needed) # <<CR, LF>>
        /\ Return("malformed") /\ UNCHANGED <<buffer, state, previous, written>>
     \/ /\ Len(buffer) >= Needed
        /\ Needed > head.size /\ SubSeq(buffer, head.size + 1, Needed) = <<CR, LF>>
        /\ buffer' = Drop(buffer, Needed)
        /\ \/ /\ ~verify_chunk_signature(head.sig, data)
              /\ Return("signature") /\ UNCHANGED <<state, previous, written>>
           \/ /\ verify_chunk_signature(head.sig, data) /\ Verified(head.sig)
              /\ \/ ~validate_decoded_size_limit(data) /\ Return("too_large")
                    /\ UNCHANGED <<state, written>>
                 \/ validate_decoded_size_limit(data) /\ write_body_chunk(data)
                    /\ state' = IF result' = "none" THEN "ChunkHeader" ELSE state
  /\ UNCHANGED <<request, rest, head, trailers>>

(* verify_trailer: the signature covers the other trailers, sorted.        *)
verify_trailer ==
  request.mode = "StreamingSignedPayloadTrailer" =>
    \E s \in trailers : Name(s) = TrailerSignature
      /\ s = <<Trailer(TrailerSignature, "", SignTrailers(previous, trailers \ {s}))>>

(* Both ways in which the parser can be done: push_and_write returned the  *)
(* trailers, which are handed out only then.                               *)
validate_decoded_content_length ==
  IF request.declared = {Len(written)} THEN "accepted" ELSE "length"

NewTrailer(line) == TrailerLine(line) /\ \A t \in trailers : Name(t) # Name(ReadTrailer(line))

trailer_line ==
  /\ pc = "parse" /\ state = "Trailer" /\ CRLFs(buffer) # {}
  /\ ReadLine
  /\ \/ /\ Line = <<>>
        /\ \/ ~verify_trailer /\ Return("signature") /\ UNCHANGED state
           \/ /\ verify_trailer /\ state' = "Done"
              /\ Return(IF buffer' # <<>> THEN "after_trailer" ELSE validate_decoded_content_length)
        /\ UNCHANGED trailers
     \/ /\ NewTrailer(Line)
        /\ trailers' = trailers \cup {ReadTrailer(Line)}
        /\ UNCHANGED <<pc, state, result>>
     \/ /\ Line # <<>> /\ ~NewTrailer(Line)
        /\ Return("malformed") /\ UNCHANGED <<state, trailers>>
  /\ UNCHANGED <<request, rest, head, previous, written>>

MutantEndInTrailers ==
  /\ pc = "frame" /\ request.chunked /\ rest = <<>>
  /\ Return(IF state = "Trailer" THEN validate_decoded_content_length ELSE "ended_early")
  /\ UNCHANGED <<request, rest, parser, written>>

(* The body ends before the parser is done.                                *)
end_of_body ==
  /\ pc = "frame" /\ request.chunked /\ rest = <<>>
  /\ Return("ended_early")
  /\ UNCHANGED <<request, rest, parser, written>>

-----------------------------------------------------------------------------
(* The connection fails.                                                   *)
read_error ==
  /\ pc = "frame"
  /\ Return("read")
  /\ UNCHANGED <<request, rest, parser, written>>

Step ==
  \/ validate_payload_hash_mode \/ plain_frame \/ plain_end
  \/ next_frame \/ await_line \/ chunk_header \/ chunk_data \/ trailer_line
  \/ end_of_body

Next == Step \/ read_error

Spec == Init /\ [][Next]_vars

-----------------------------------------------------------------------------
Reference == decode_aws_chunked_body(request.input)

(* A chunked body is accepted only if the whole-buffer decoder accepts it, *)
(* with the same bytes and trailers and the declared length, however it    *)
(* was cut into frames; a plain one only whole.                            *)
AcceptsLikeReference ==
  result = "accepted" =>
    IF request.chunked
      THEN /\ Reference.ok /\ written = Reference.data /\ trailers = Reference.trailers
           /\ request.declared = {Len(Reference.data)}
      ELSE /\ written = request.input
           /\ request.declared \in {{}, {Len(request.input)}}

(* No way of cutting a body into frames makes the parser refuse it: each   *)
(* refusal of the framing is one the whole-buffer decoder shares, or has a *)
(* cause in the lines that decoder reads: a chunk header whose extensions  *)
(* do not parse, data after the final trailer, or a line that, with the CR *)
(* a frame may end in, is beyond the limit.                                *)
RefusesLikeReference ==
  /\ result \in {"malformed", "ended_early"} =>
       ~Reference.ok \/ \E line \in Reference.lines : HeaderLine(line) /\ ~ExtensionsParse(line)
  /\ result = "after_trailer" => Reference.ok /\ Reference.rest # <<>>
  /\ result = "line_too_large" => \E line \in Reference.lines : Len(line) + 1 > MaxControlLine
  /\ result = "length" /\ request.chunked => request.declared # {Len(Reference.data)}

(* sent is what the client signed and declared.  Whatever the transport    *)
(* loses, repeats, alters or reorders, in the signed modes a prefix of the *)
(* client's own bytes is all that is ever written, and an accepted body is *)
(* the client's, in signed-trailer mode with the text of its trailers.     *)
(* The trailers themselves are not promised: when the CR between two of    *)
(* them is lost, the second is read as part of the value of the first, and *)
(* the text that is signed is the same.                                    *)
SignedBytesOnly ==
  request.chunked /\ Verifies =>
    /\ Len(written) <= Len(request.sent.data)
    /\ written = SubSeq(request.sent.data, 1, Len(written))
    /\ result = "accepted" => written = request.sent.data
    /\ result = "accepted" /\ request.mode = "StreamingSignedPayloadTrailer" =>
         canonical_trailers({t \in trailers : Name(t) # TrailerSignature})
           = canonical_trailers(request.sent.trailers)
=============================================================================
