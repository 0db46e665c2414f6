----------------------------- MODULE AwsChunked -----------------------------
(***************************************************************************)
(* The aws-chunked encoding: its bytes, the encoder of a signing client,   *)
(* and decode_aws_chunked_body (src/body/aws_chunked.rs), the decoder of a *)
(* whole buffer, which is the reference for the streaming one.             *)
(*                                                                         *)
(* A body is a sequence of tokens.  CR, LF and data bytes are single       *)
(* bytes; the text of a chunk header (size and signature), of further      *)
(* chunk extensions and of a trailer is one token each.  A signature is    *)
(* the chain of the texts that were signed, so two are equal only if       *)
(* everything signed before them is.  Data bytes may be CR and LF too, and *)
(* a CR or LF on its own may be part of a line.                            *)
(***************************************************************************)
EXTENDS Naturals, Sequences

CONSTANTS
  UsizeSpan,      \* 2^w for the width w of usize
  TrailerNames    \* the names of the trailers that are signed, in byte order

CR == [byte |-> "cr"]
LF == [byte |-> "lf"]
Byte(b) == [byte |-> b]
(* The text "<size>;chunk-signature=<sig>", sig a set of at most one.      *)
ChunkHead(size, sig) == [size |-> size, sig |-> sig]
(* ";name=value" extensions that say nothing, and one without "=".         *)
Extension == [extension |-> "ignored"]
BadExtension == [extension |-> "malformed"]
(* "name:value"; sig is the value of x-amz-trailer-signature.              *)
TrailerSignature == "x-amz-trailer-signature"
Trailer(name, value, sig) == [name |-> name, value |-> value, sig |-> sig]

IsHead(t) == "size" \in DOMAIN t
IsExtension(t) == "extension" \in DOMAIN t
IsTrailer(t) == "name" \in DOMAIN t

Drop(s, n) == SubSeq(s, n + 1, Len(s))
CRLFs(s) == {i \in 1..(Len(s) - 1) : s[i] = CR /\ s[i + 1] = LF}
FirstCRLF(s) == CHOOSE i \in CRLFs(s) : \A j \in CRLFs(s) : i <= j

(* str::trim: CR and LF are white space at the ends of a text.             *)
Trim(text) ==
  LET solid == {i \in 1..Len(text) : text[i] \notin {CR, LF}}
      first == CHOOSE i \in solid : \A j \in solid : i <= j
      last == CHOOSE i \in solid : \A j \in solid : i >= j
  IN  IF solid = {} THEN <<>> ELSE SubSeq(text, first, last)

(* The text before the first ";" that is an extension's.                   *)
BeforeExtensions(text) ==
  LET marks == {i \in 1..Len(text) : IsExtension(text[i])}
  IN  IF marks = {} THEN text ELSE SubSeq(text, 1, (CHOOSE i \in marks : \A j \in marks : i <= j) - 1)

OnlyHead(text) == Trim(BeforeExtensions(text)) = <<text[1]>>

(* The chunk size is the text before the first ";", which may be the one   *)
(* that begins the signature.                                              *)
HeaderLine(line) ==
  LET text == Trim(line) IN
  /\ text # <<>> /\ IsHead(text[1])
  /\ text[1].sig # {} \/ OnlyHead(text)

(* parse_aws_chunk_header also reads what follows: nothing may cling to    *)
(* the signature, no extension lacks its "=", no signature is repeated.    *)
ExtensionsParse(line) ==
  LET text == Trim(line) IN
  /\ OnlyHead(text)
  /\ \A i \in 2..Len(text) : text[i] # BadExtension /\ ~IsHead(text[i])

(* The value is all that follows the first ":", trimmed.  A trailer that   *)
(* was read is the text of its line, "name:value".                         *)
TrailerLine(line) == Trim(line) # <<>> /\ IsTrailer(Trim(line)[1])
ReadTrailer(line) == Trim(line)
Name(trailer) == trailer[1].name

-----------------------------------------------------------------------------
(* Signatures: the chain that starts with the request's own.               *)

Seed == <<>>
SignChunk(previous, data) == Append(previous, [chunk |-> data])

(* What is hashed is one text, "name:value" and LF for each trailer in the *)
(* order of the names; it does not say where a value with an LF ends.      *)
canonical_trailers(trailers) ==
  LET Of(n) == {t \in trailers : Name(t) = n}
      Text[i \in 0..Len(TrailerNames)] ==
        IF i = 0 THEN <<>>
        ELSE IF Of(TrailerNames[i]) = {} THEN Text[i - 1]
        ELSE Text[i - 1] \o (CHOOSE t \in Of(TrailerNames[i]) : TRUE) \o <<LF>>
  IN  Text[Len(TrailerNames)]

SignTrailers(previous, trailers) == Append(previous, [trailers |-> canonical_trailers(trailers)])

RECURSIVE EncodeChunks(_, _, _)
EncodeChunks(chunks, previous, signed) ==
  LET data == IF chunks = <<>> THEN <<>> ELSE chunks[1]
      sig == SignChunk(previous, data)
      head == <<ChunkHead(Len(data), IF signed THEN {sig} ELSE {}), CR, LF>>
  IN  IF chunks = <<>>
        THEN [bytes |-> head, last |-> sig]
        ELSE LET rest == EncodeChunks(Tail(chunks), sig, signed)
             IN  [rest EXCEPT !.bytes = head \o data \o <<CR, LF>> \o @]

(* What a client sends: chunks, the empty chunk, trailers, an empty line.  *)
Encode(chunks, trailers, signed, signTrailers) ==
  LET body == EncodeChunks(chunks, Seed, signed)
      signature == Trailer(TrailerSignature, "",
        SignTrailers(body.last, {<<trailers[i]>> : i \in 1..Len(trailers)}))
      lines == IF signTrailers THEN Append(trailers, signature) ELSE trailers
      Bytes[i \in 0..Len(lines)] ==
        IF i = 0 THEN <<>> ELSE Bytes[i - 1] \o <<lines[i], CR, LF>>
  IN  body.bytes \o Bytes[Len(lines)] \o <<CR, LF>>

-----------------------------------------------------------------------------
(* decode_aws_chunked_body: no signatures, and no look at the extensions;  *)
(* what follows the final empty line is ignored.  Reported here too: that  *)
(* rest, and lines, the control lines it came to, whole or unfinished.     *)

ControlLine(s) == IF CRLFs(s) = {} THEN s ELSE SubSeq(s, 1, FirstCRLF(s) - 1)

Failure(lines) == [ok |-> FALSE, data |-> <<>>, trailers |-> {}, rest |-> <<>>, lines |-> lines]

RECURSIVE read_trailers(_, _, _, _)
read_trailers(s, data, trailers, before) ==
  LET line == ControlLine(s)
      lines == before \cup {line}
      rest == Drop(s, FirstCRLF(s) + 1)
  IN  IF CRLFs(s) = {} THEN Failure(lines)
      ELSE IF line = <<>>
        THEN [ok |-> TRUE, data |-> data, trailers |-> trailers, rest |-> rest, lines |-> lines]
      ELSE IF ~TrailerLine(line) \/ \E t \in trailers : Name(t) = Name(ReadTrailer(line))
        THEN Failure(lines)
      ELSE read_trailers(rest, data, trailers \cup {ReadTrailer(line)}, lines)

RECURSIVE decode_from(_, _, _)
decode_from(s, data, before) ==
  LET line == ControlLine(s)
      lines == before \cup {line}
      rest == Drop(s, FirstCRLF(s) + 1)
      size == Trim(line)[1].size
  IN  IF CRLFs(s) = {} \/ ~HeaderLine(line) THEN Failure(lines)
      ELSE IF size = 0 THEN read_trailers(rest, data, {}, lines)
      ELSE IF Len(rest) < size + 2 \/ SubSeq(rest, size + 1, size + 2) # <<CR, LF>>
        THEN Failure(lines)
      ELSE decode_from(Drop(rest, size + 2), data \o SubSeq(rest, 1, size), lines)

decode_aws_chunked_body(s) == decode_from(s, <<>>, {})
=============================================================================
