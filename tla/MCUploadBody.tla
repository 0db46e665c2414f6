---------------------------- MODULE MCUploadBody ----------------------------
(***************************************************************************)
(* UploadBody for TLC: two chunks whose data holds a CRLF of its own, with *)
(* and without trailers, and no chunk with up to two trailers, in every    *)
(* mode, as sent and as damaged on the way                                 *)
(* in one place: a token lost, repeated or swapped with its neighbour, the *)
(* tail cut off, data appended, a chunk lost, repeated or out of order; a  *)
(* header that promises the largest usize, overlong and malformed lines,   *)
(* and wrong declared lengths.                                             *)
(***************************************************************************)
EXTENDS UploadBody

a == Byte("a")
Bodies == {<<>>, <<<<CR, LF>>, <<a>>>>}
Checksum == Trailer("x-amz-checksum-crc32", "v", Seed)
Length == Trailer("x-amz-decoded-content-length", "n", Seed)
MCTrailerNames == <<Checksum.name, Length.name>>
TrailersOf(b, m) ==
  CASE m = "StreamingSignedPayload" -> <<>>
    [] m # "StreamingSignedPayload" /\ b = <<>> -> <<Checksum, Length>>
    [] OTHER -> <<Checksum>>

Flatten(chunks) == IF chunks = <<>> THEN <<>> ELSE chunks[1] \o chunks[2]

Sequence(chunks, ts, mode) ==
  Encode(chunks, ts, mode \in SignedModes, mode = "StreamingSignedPayloadTrailer")

Splice(s, i, j, m) == SubSeq(s, 1, i - 1) \o m \o SubSeq(s, j + 1, Len(s))

Lost(s) == {Splice(s, i, i, <<>>) : i \in 1..Len(s)}
(* (two sizes in a row would be the digits of another size)                *)
Repeated(s) ==
  {Splice(s, i, i, <<s[i], s[i]>>) : i \in {j \in 1..Len(s) : IsHead(s[j]) => s[j].sig # {}}}
Swapped(s) == {Splice(s, i, i + 1, <<s[i + 1], s[i]>>) : i \in 1..(Len(s) - 1)}
Cut(s) == {SubSeq(s, 1, i) : i \in 0..(Len(s) - 1)}

(* The first chunk takes seven tokens, the second six.                     *)
ChunkMoves(s) ==
  IF Len(s) < 13 THEN {}
  ELSE LET c1 == SubSeq(s, 1, 7)  c2 == SubSeq(s, 8, 13)  end == Drop(s, 13)
       IN  {c1 \o end, c2 \o end, c2 \o c1 \o end, c1 \o c1 \o c2 \o end,
            c1 \o c2 \o c1 \o end}

Oddities(s) ==
  {s \o <<a>>,
   Splice(s, 2, 1, <<Extension, Extension, Extension>>),
   Splice(s, 2, 1, <<BadExtension>>),
   Splice(s, 1, 1, <<ChunkHead(UsizeSpan - 1, s[1].sig)>>),
   Splice(s, 1, 1, <<ChunkHead(UsizeSpan - 2, s[1].sig)>>)}

Damaged(s) == Lost(s) \cup Repeated(s) \cup Swapped(s) \cup Cut(s)
                \cup ChunkMoves(s) \cup Oddities(s)

ChunkedRequests ==
  UNION {LET ts == TrailersOf(b, m)
             s == Sequence(b, ts, m)
             sent == [data |-> Flatten(b), trailers |-> {<<ts[i]>> : i \in 1..Len(ts)}]
         IN  [chunked : {TRUE}, mode : {m}, signing : {TRUE}, sent : {sent},
              declared : {{Len(Flatten(b))}}, input : {s} \cup Damaged(s)]
               \cup
             [chunked : {TRUE}, mode : {m}, signing : BOOLEAN, sent : {sent},
              declared : {{}, {2}}, input : {s}]
         : b \in Bodies, m \in ChunkedModes}

PlainRequests ==
  [chunked : {FALSE}, mode : PlainModes \cup ChunkedModes, signing : {FALSE},
   sent : {[data |-> <<a, CR, LF>>, trailers |-> {}]},
   declared : {{}, {2}, {3}, {4}},
   input : {<<>>, <<a, a>>, <<a, CR, LF>>, <<a, a, a, a, a>>}]

MCRequests ==
  ChunkedRequests \cup PlainRequests
    \cup [chunked : {TRUE}, mode : PlainModes, signing : {TRUE},
          sent : {[data |-> <<>>, trailers |-> {}]}, declared : {{0}},
          input : {Sequence(<<>>, <<>>, "StreamingUnsignedPayloadTrailer")}]
=============================================================================
