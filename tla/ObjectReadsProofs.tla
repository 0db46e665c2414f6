-------------------------- MODULE ObjectReadsProofs -------------------------
(***************************************************************************)
(* For objects of any content, size and number of versions, any range and  *)
(* condition, any buffer size and any interleaving with the writer: ranges *)
(* are exact, downloads are of one version and caches are fresh.           *)
(***************************************************************************)
EXTENDS ObjectReads, SequenceTheorems, TLAPS

(* What a response names, by what the range of the request asks for.       *)
Asked(r, size) ==
  IF r.form = "range" /\ Parsed(r) /\ ~Inverted(r) THEN NamedBytes(r, size) ELSE {}

(* parse_range_header, for every size and every pair of numbers: it yields *)
(* the bytes the header names, within the object, or refuses when there    *)
(* are none or a number is beyond u64.                                     *)
THEOREM RangeParsing ==
  ASSUME NEW r, NEW size \in Nat, AtMostOne(r.start), AtMostOne(r.end),
         r.start \subseteq Nat, r.end \subseteq Nat
  PROVE  LET p == parse_range_header(r, size)
         IN  IF p.ok THEN /\ p.first \in Nat /\ p.last \in Nat
                          /\ p.first <= p.last /\ p.last < size
                          /\ Asked(r, size) = p.first..p.last
                     ELSE Asked(r, size) = {}
<1> DEFINE p == parse_range_header(r, size)
<1> USE DEF Unsatisfiable, ByteRange
<1>1. CASE r.form # "range" \/ size = 0 \/ ~Parsed(r)
  <2>1. p = Unsatisfiable
    BY <1>1 DEF parse_range_header
  <2>2. Asked(r, size) = {}
    BY <1>1 DEF Asked, NamedBytes
  <2> QED
    BY <2>1, <2>2
<1>2. CASE ~(r.form # "range" \/ size = 0 \/ ~Parsed(r)) /\ r.start # {} /\ r.end # {}
  <2>1. PICK s \in Nat, e \in Nat : r.start = {s} /\ r.end = {e}
    BY <1>2 DEF AtMostOne
  <2>2. p = IF s > e \/ s >= size THEN Unsatisfiable ELSE ByteRange(s, Least2(e, size - 1))
    BY <1>2, <2>1, ZenonT(60) DEF parse_range_header
  <2>3. Asked(r, size) = IF s > e THEN {} ELSE {i \in 0..(size - 1) : i >= s /\ i <= e}
    BY <1>2, <2>1, ZenonT(60) DEF Asked, Inverted, NamedBytes
  <2>4. CASE s > e \/ s >= size
    BY <2>2, <2>3, <2>4
  <2>5. CASE ~(s > e \/ s >= size)
    <3>1. PICK l \in Nat : /\ l = Least2(e, size - 1) /\ s <= l /\ l < size /\ l <= e
                           /\ l = e \/ l = size - 1
      BY <2>5 DEF Least2
    <3>2. p = ByteRange(s, l)
      BY <2>2, <2>5, <3>1
    <3>3. Asked(r, size) = s..l
      <4>1. Asked(r, size) = {i \in 0..(size - 1) : i >= s /\ i <= e}
        BY <2>3, <2>5
      <4>2. Asked(r, size) \subseteq s..l
        BY <3>1, <4>1
      <4>3. s..l \subseteq Asked(r, size)
        BY <3>1, <4>1
      <4> QED
        BY <4>2, <4>3, ZenonT(60)
    <3> QED
      BY <3>1, <3>2, <3>3
  <2> QED
    BY <2>4, <2>5
<1>3. CASE ~(r.form # "range" \/ size = 0 \/ ~Parsed(r)) /\ r.start # {} /\ r.end = {}
  <2>1. PICK s \in Nat : r.start = {s}
    BY <1>3 DEF AtMostOne
  <2>2. p = IF s >= size THEN Unsatisfiable ELSE ByteRange(s, size - 1)
    BY <1>3, <2>1, ZenonT(60) DEF parse_range_header
  <2>3. Asked(r, size) = {i \in 0..(size - 1) : i >= s}
    BY <1>3, <2>1 DEF Asked, Inverted, NamedBytes
  <2> QED
    BY <2>2, <2>3
<1>4. CASE ~(r.form # "range" \/ size = 0 \/ ~Parsed(r)) /\ r.start = {} /\ r.end # {}
  <2>1. PICK n \in Nat : r.end = {n}
    BY <1>4 DEF AtMostOne
  <2>2. p = IF n = 0 THEN Unsatisfiable ELSE ByteRange(IF n > size THEN 0 ELSE size - n, size - 1)
    BY <1>4, <2>1, ZenonT(60) DEF parse_range_header
  <2>3. Asked(r, size) = {i \in 0..(size - 1) : i >= size - n \/ n >= size}
    BY <1>4, <2>1 DEF Asked, Inverted, NamedBytes
  <2> QED
    BY <1>4, <2>2, <2>3
<1>5. CASE ~(r.form # "range" \/ size = 0 \/ ~Parsed(r)) /\ r.start = {} /\ r.end = {}
  <2>1. p = Unsatisfiable
    BY <1>5 DEF parse_range_header
  <2>2. Asked(r, size) = {}
    BY <1>5 DEF Asked, NamedBytes
  <2> QED
    BY <2>1, <2>2
<1> QED
  BY <1>1, <1>2, <1>3, <1>4, <1>5

-----------------------------------------------------------------------------
(* The inductive invariant.  Files: between writes they are of one version *)
(* or there is no metadata, and the version of a metadata read that is     *)
(* still sure is that of the object file.  Responses: the stream being     *)
(* sent goes on where the bytes sent so far end, a resumed download goes   *)
(* on where its copy ends, in a version with the content of the copy's,    *)
(* and the copy of a cache is whole.                                       *)

Index == 0..Len(Versions)
Reply == [status : Nat, version : Index, file : Index, sure : BOOLEAN, length : Nat, first : Nat]
Copies == [body : Seq(Nat), version : Index, sure : BOOLEAN]
Openings == [at : {"metadata", "stat", "open"}, version : Index, sure : BOOLEAN]

FileTypes ==
  /\ data \in Index /\ meta \in Index /\ writing \in {"no", "put", "delete"}
  /\ opening \subseteq Openings

FileInv ==
  /\ FileTypes
  /\ writing = "no" /\ meta # 0 => data = meta
  /\ writing = "delete" => meta = 0
  /\ \A o \in opening : /\ o.at # "metadata" => o.version # 0
                        /\ o.sure => writing = "no" /\ data = o.version

Types == reader \in Readers /\ copy \in Copies /\ reply \in Reply /\ streamed \in Seq(Nat)

Good == reply.status \in {200, 206}
Limit == IF reply.status = 200 THEN Len(Content(reply.file)) ELSE reply.length

ReplyInv ==
  Good => /\ reply.version # 0 /\ reply.file # 0
          /\ reply.sure => reply.file = reply.version
          /\ reply.status = 200 => reply.first = 0 /\ reply.length = Len(Content(reply.version))
          /\ Len(streamed) <= Limit
          /\ streamed = SubSeq(Content(reply.file), reply.first + 1, reply.first + Len(streamed))
          /\ Len(streamed) # 0 => reply.first + Len(streamed) <= Len(Content(reply.file))

StreamInv ==
  \A s \in stream : /\ Good
                    /\ s \in [content : Seq(Nat), pos : Nat, left : Nat]
                    /\ s.content = Content(reply.file)
                    /\ s.pos = reply.first + Len(streamed)
                    /\ s.left = Limit - Len(streamed)

AskInv ==
  reader.kind = "ask" /\ reply.status \in {206, 416} =>
    \A r \in reader.range :
       Asked(r, Len(Content(reply.version))) =
         IF reply.status = 416 THEN {} ELSE reply.first..(reply.first + reply.length - 1)

DownloadInv ==
  reader.kind = "download" /\ stream # {} /\ reply.status = 206 =>
    /\ copy.version # 0 /\ reply.first = Len(copy.body)
    /\ Content(reply.version) = Content(copy.version)

CacheInv ==
  reader.kind = "cache" =>
    /\ stream # {} => reply.status = 200
    /\ copy.version # 0 /\ copy.sure => copy.body = Content(copy.version)
    /\ reply.status = 304 => copy.version # 0 /\ Content(copy.version) = Content(reply.version)

ResponseInv ==
  /\ Types /\ ReplyInv /\ StreamInv /\ AskInv /\ DownloadInv /\ CacheInv
  /\ DownloadIsOneVersion

IInv == FileInv /\ ResponseInv

LEMMA ContentType ==
  ASSUME NEW v \in Index, v # 0
  PROVE  Content(v) \in Seq(Nat) /\ v \in DOMAIN Versions /\ Len(Content(v)) \in Nat
<1>1. Versions \in Seq([content : Seq(Nat), etag : STRING, second : Nat])
  BY VersionsAssumption, ZenonT(60)
<1>2. v \in 1..Len(Versions) /\ v \in DOMAIN Versions
  BY <1>1 DEF Index
<1>3. Versions[v] \in [content : Seq(Nat), etag : STRING, second : Nat]
  BY <1>1, <1>2, ElementOfSeq, ZenonT(30)
<1> QED
  BY <1>2, <1>3 DEF Content

LEMMA IndexType == Len(Versions) \in Nat /\ 0 \in Index /\ DOMAIN Versions \subseteq Index
<1>1. Versions \in Seq([content : Seq(Nat), etag : STRING, second : Nat])
  BY VersionsAssumption, ZenonT(60)
<1> QED
  BY <1>1 DEF Index

LEMMA RangeHeaderType ==
  ASSUME Types
  PROVE  /\ AtMostOne(RangeHeader)
         /\ \A r \in RangeHeader : AtMostOne(r.start) /\ AtMostOne(r.end)
                                   /\ r.start \subseteq Nat /\ r.end \subseteq Nat
<1>1. reader \in Readers /\ Len(copy.body) \in Nat
  BY DEF Types, Copies
<1>2. CASE RangeHeader = reader.range
  BY <1>1, <1>2, ReadersAssumption, Zenon
<1>3. CASE RangeHeader = RangeText({Len(copy.body)}, {})
  BY <1>1, <1>3 DEF RangeText, AtMostOne
<1>4. CASE RangeHeader = {}
  BY <1>4, Zenon DEF AtMostOne
<1> QED
  BY <1>2, <1>3, <1>4, Zenon DEF RangeHeader

(* The head of a response, and the stream behind it.                       *)
SizeOf(o) == Len(Content(o.version))
StatusOf(o) == conditional_response(Condition, Versions[o.version])

LEMMA GetObjectAnswers ==
  ASSUME FileTypes, Types, NEW o \in opening, o.version # 0, data # 0, get_object(o)
  PROVE  /\ streamed' = <<>> /\ reply' \in Reply /\ reply'.version = o.version
         /\ \/ /\ reply'.status \in {304, 400, 412} /\ stream' = {}
               /\ reply'.status = 304 => StatusOf(o) = 304
            \/ /\ reply'.status = 416 /\ stream' = {}
               /\ \A r \in RangeHeader : Asked(r, SizeOf(o)) = {}
            \/ /\ reply'.status = 200 /\ RangeHeader = {}
               /\ reply'.file = data /\ reply'.sure = o.sure
               /\ reply'.first = 0 /\ reply'.length = SizeOf(o)
               /\ stream' = {[content |-> Content(data), pos |-> 0, left |-> Len(Content(data))]}
            \/ /\ reply'.status = 206 /\ StatusOf(o) = 200 /\ RangeHeader # {}
               /\ reply'.file = data /\ reply'.sure = o.sure
               /\ \A r \in RangeHeader :
                    /\ Asked(r, SizeOf(o)) = reply'.first..(reply'.first + reply'.length - 1)
                    /\ parse_range_header(r, SizeOf(o)).ok
                    /\ reply'.first = parse_range_header(r, SizeOf(o)).first
               /\ stream' = {[content |-> Content(data), pos |-> reply'.first,
                              left |-> reply'.length]}
<1> DEFINE r == parse_range_header(CHOOSE x \in RangeHeader : TRUE, SizeOf(o))
<1>1. /\ o.version \in Index /\ o.sure \in BOOLEAN /\ data \in Index
      /\ SizeOf(o) \in Nat /\ Len(Content(data)) \in Nat
  <2>1. o \in Openings /\ data \in Index
    BY DEF FileTypes
  <2>2. o.version \in Index /\ o.sure \in BOOLEAN
    BY <2>1 DEF Openings
  <2> QED
    BY <2>1, <2>2, ContentType, Zenon DEF SizeOf
<1>2. StatusOf(o) \in {200, 304, 400, 412}
  BY DEF conditional_response, StatusOf
<1>3. IF StatusOf(o) # 200 THEN Refused(StatusOf(o), o.version)
      ELSE IF RangeHeader # {} /\ ~r.ok THEN Refused(416, o.version)
      ELSE IF reader.overrides = "invalid" THEN Refused(400, o.version)
      ELSE IF RangeHeader = {} THEN Responds(200, o, 0, SizeOf(o), Len(Content(data)))
      ELSE Responds(206, o, r.first, r.last - r.first + 1, r.last - r.first + 1)
  BY Zenon DEF get_object, StatusOf, SizeOf, Content
<1>4. ASSUME NEW st \in Nat, Refused(st, o.version)
      PROVE  /\ streamed' = <<>> /\ stream' = {} /\ reply' \in Reply
             /\ reply'.version = o.version /\ reply'.status = st
  <2>1. reply' = [NoReply EXCEPT !.status = st, !.version = o.version]
    BY <1>4 DEF Refused
  <2>2. reply' = [status |-> st, version |-> o.version, file |-> 0, sure |-> FALSE,
                  length |-> 0, first |-> 0]
    BY <2>1, Zenon DEF NoReply
  <2>3. reply' \in Reply
    <3>1. 0 \in Nat /\ 0 \in Index /\ FALSE \in BOOLEAN
      BY IndexType
    <3> QED
      BY <1>1, <2>2, <3>1, Zenon DEF Reply
  <2> QED
    BY <1>4, <2>2, <2>3 DEF Refused
<1>5. ASSUME NEW st \in Nat, NEW f \in Nat, NEW l \in Nat, NEW n, Responds(st, o, f, l, n)
      PROVE  /\ streamed' = <<>> /\ reply' \in Reply
             /\ reply'.version = o.version /\ reply'.status = st /\ reply'.file = data
             /\ reply'.sure = o.sure /\ reply'.first = f /\ reply'.length = l
             /\ stream' = {[content |-> Content(data), pos |-> f, left |-> n]}
  BY <1>1, <1>5 DEF Responds, Reply
<1>6. CASE StatusOf(o) # 200
  <2>1. Refused(StatusOf(o), o.version) /\ StatusOf(o) \in Nat /\ StatusOf(o) \in {304, 400, 412}
    BY <1>2, <1>3, <1>6
  <2>2. /\ streamed' = <<>> /\ stream' = {} /\ reply' \in Reply
        /\ reply'.version = o.version /\ reply'.status = StatusOf(o)
    BY <1>4, <2>1, ZenonT(30)
  <2> QED
    BY <2>1, <2>2
<1>7. CASE StatusOf(o) = 200 /\ RangeHeader = {}
  <2>1. Refused(400, o.version) \/ Responds(200, o, 0, SizeOf(o), Len(Content(data)))
    BY <1>3, <1>7, Zenon
  <2>2. CASE Refused(400, o.version)
    BY <1>4, <2>2
  <2>3. CASE Responds(200, o, 0, SizeOf(o), Len(Content(data)))
    BY <1>1, <1>5, <1>7, <2>3
  <2> QED
    BY <2>1, <2>2, <2>3
<1>8. CASE StatusOf(o) = 200 /\ RangeHeader # {}
  <2>1. PICK x : RangeHeader = {x}
    <3>1. \A y, z \in RangeHeader : y = z
      BY RangeHeaderType, Zenon DEF AtMostOne
    <3> QED
      BY <1>8, <3>1
  <2>2. r = parse_range_header(x, SizeOf(o))
    BY <2>1
  <2>3. IF r.ok THEN /\ r.first \in Nat /\ r.last \in Nat
                     /\ r.first <= r.last /\ r.last < SizeOf(o)
                     /\ Asked(x, SizeOf(o)) = r.first..r.last
                ELSE Asked(x, SizeOf(o)) = {}
    <3>1. AtMostOne(x.start) /\ AtMostOne(x.end) /\ x.start \subseteq Nat /\ x.end \subseteq Nat
      BY <2>1, RangeHeaderType, Zenon
    <3> QED
      BY <1>1, <2>2, <3>1, RangeParsing
  <2> HIDE DEF r
  <2>4. CASE ~r.ok
    <3>1. Refused(416, o.version)
      BY <1>3, <1>8, <2>4, Zenon
    <3>2. Asked(x, SizeOf(o)) = {}
      BY <2>3, <2>4
    <3>3. /\ streamed' = <<>> /\ stream' = {} /\ reply' \in Reply
          /\ reply'.version = o.version /\ reply'.status = 416
      BY <1>4, <3>1
    <3>4. \A y \in RangeHeader : Asked(y, SizeOf(o)) = {}
      BY <2>1, <3>2, Zenon
    <3> QED
      BY <3>3, <3>4, Zenon
  <2>5. CASE r.ok
    <3>1. \/ Refused(400, o.version)
          \/ Responds(206, o, r.first, r.last - r.first + 1, r.last - r.first + 1)
      BY <1>3, <1>8, <2>5, Zenon
    <3>2. r.last = r.first + (r.last - r.first + 1) - 1 /\ r.last - r.first + 1 \in Nat
      BY <2>3, <2>5
    <3>3. CASE Refused(400, o.version)
      BY <1>4, <3>3
    <3>4. CASE Responds(206, o, r.first, r.last - r.first + 1, r.last - r.first + 1)
      <4>1. r.first \in Nat /\ Asked(x, SizeOf(o)) = r.first..r.last
        BY <2>3, <2>5
      <4>2. /\ streamed' = <<>> /\ reply' \in Reply
            /\ reply'.version = o.version /\ reply'.status = 206 /\ reply'.file = data
            /\ reply'.sure = o.sure /\ reply'.first = r.first
            /\ reply'.length = r.last - r.first + 1
            /\ stream' = {[content |-> Content(data), pos |-> r.first,
                           left |-> r.last - r.first + 1]}
        BY <1>5, <3>2, <3>4, <4>1
      <4>3. Asked(x, SizeOf(o)) = reply'.first..(reply'.first + reply'.length - 1)
        BY <3>2, <4>1, <4>2
      <4>4. \A y \in RangeHeader :
               /\ Asked(y, SizeOf(o)) = reply'.first..(reply'.first + reply'.length - 1)
               /\ parse_range_header(y, SizeOf(o)).ok
               /\ reply'.first = parse_range_header(y, SizeOf(o)).first
        BY <2>1, <2>2, <2>5, <4>2, <4>3, Zenon
      <4>5. stream' = {[content |-> Content(data), pos |-> reply'.first, left |-> reply'.length]}
        BY <4>2, Zenon
      <4> QED
        BY <1>8, <4>2, <4>4, <4>5, Zenon
    <3> QED
      BY <3>1, <3>3, <3>4
  <2> QED
    BY <2>4, <2>5
<1> QED
  BY <1>6, <1>7, <1>8

-----------------------------------------------------------------------------
LEMMA SameEtag ==
  ASSUME NEW v \in DOMAIN Versions, NEW w \in DOMAIN Versions, Versions[v].etag = Versions[w].etag
  PROVE  Content(v) = Content(w)
<1>1. Versions[v].content = Versions[w].content
  BY VersionsAssumption, Zenon
<1> QED
  BY <1>1 DEF Content

(* If-Match with the tag of a version lets only its content pass, and a    *)
(* 304 to If-None-Match means that the content is the same.                *)
LEMMA MatchMeansSame ==
  ASSUME NEW v \in DOMAIN Versions, NEW w \in DOMAIN Versions,
         conditional_response([NoCondition EXCEPT !.match = TagOf(v)], Versions[w]) = 200
  PROVE  Content(v) = Content(w)
<1> DEFINE c == [NoCondition EXCEPT !.match = TagOf(v)]
<1>1. c.match = {Etag(Versions[v].etag)}
  BY DEF NoCondition, TagOf
<1>2. strong_etag_condition_matches(c.match, Versions[w].etag)
  BY <1>1 DEF conditional_response
<1>3. Versions[v].etag = Versions[w].etag
  BY <1>1, <1>2, VersionsAssumption, ZenonT(60) DEF strong_etag_condition_matches, AnyEtag, Etag
<1> QED
  BY <1>3, SameEtag

LEMMA TagDecides ==
  ASSUME NEW c, NEW v, c.none # {}, conditional_response(c, v) = 304
  PROVE  weak_etag_condition_matches(c.none, v.etag)
BY DEF conditional_response

Revalidation(v) ==
  [NoCondition EXCEPT !.none = {[weak |-> TRUE, name |-> Versions[v].etag]},
                      !.modified = {HttpDate(Versions[v].second)}]

LEMMA NotModifiedMeansSame ==
  ASSUME NEW v \in DOMAIN Versions, NEW w \in DOMAIN Versions,
         conditional_response(Revalidation(v), Versions[w]) = 304
  PROVE  Content(v) = Content(w)
<1>1. /\ Revalidation(v).match = {}
      /\ Revalidation(v).none = {[weak |-> TRUE, name |-> Versions[v].etag]}
      /\ Revalidation(v).unmodified = {}
  BY DEF Revalidation, NoCondition
<1>2. weak_etag_condition_matches(Revalidation(v).none, Versions[w].etag)
  <2>1. Revalidation(v).none # {}
    BY <1>1, ZenonT(60)
  <2> QED
    BY <2>1, TagDecides
<1>3. Versions[v].etag = Versions[w].etag
  BY <1>1, <1>2 DEF weak_etag_condition_matches, AnyEtag, Etag
<1> QED
  BY <1>3, SameEtag

-----------------------------------------------------------------------------
(* The steps, for the response and the client.                             *)

LEMMA AskFrame ==
  ASSUME reader' = reader,
         reader.kind = "ask" /\ reply'.status \in {206, 416} =>
           \A r \in reader.range :
              Asked(r, Len(Content(reply'.version))) =
                IF reply'.status = 416 THEN {} ELSE reply'.first..(reply'.first + reply'.length - 1)
  PROVE  AskInv'
BY ZenonT(60) DEF AskInv, Content, Asked, Inverted, NamedBytes, Parsed

LEMMA AskUnchanged ==
  ASSUME AskInv, UNCHANGED <<reader, reply>>
  PROVE  AskInv'
<1>1. reader' = reader /\ reply' = reply
  OBVIOUS
<1>2. ASSUME reader.kind = "ask", reply'.status \in {206, 416}
      PROVE  \A r \in reader.range :
               Asked(r, Len(Content(reply'.version))) =
                 IF reply'.status = 416 THEN {} ELSE reply'.first..(reply'.first + reply'.length - 1)
  <2>1. reply.status \in {206, 416}
    BY <1>1, <1>2
  <2>2. \A r \in reader.range :
           Asked(r, Len(Content(reply.version))) =
             IF reply.status = 416 THEN {} ELSE reply.first..(reply.first + reply.length - 1)
    BY <1>2, <2>1 DEF AskInv
  <2> QED
    BY <1>1, <2>2
<1> QED
  BY <1>1, <1>2, AskFrame

(* Nothing is said of a response whose status promises nothing.            *)
LEMMA PlainAnswer ==
  ASSUME ResponseInv, UNCHANGED <<reader, copy>>, reply' \in Reply, streamed' = <<>>, stream' = {},
         reply'.status \notin {200, 206, 304, 416}
  PROVE  ResponseInv'
<1>1. Types' /\ ReplyInv' /\ StreamInv'
  BY DEF ResponseInv, Types, ReplyInv, StreamInv, Good
<1>2. AskInv'
  BY DEF AskInv
<1>3. DownloadInv' /\ CacheInv'
  BY DEF ResponseInv, DownloadInv, CacheInv, Content
<1>4. DownloadIsOneVersion'
  BY Zenon DEF ResponseInv, DownloadIsOneVersion, Content
<1> QED
  BY <1>1, <1>2, <1>3, <1>4 DEF ResponseInv

LEMMA RefusedKeeps ==
  ASSUME ResponseInv, UNCHANGED <<reader, copy>>, NEW st \in {404, 500}, Refused(st, 0)
  PROVE  ResponseInv'
<1>1. reply' = [NoReply EXCEPT !.status = st, !.version = 0] /\ streamed' = <<>> /\ stream' = {}
  BY DEF Refused
<1>2. reply' \in Reply /\ reply'.status = st
  <2>1. st \in Nat /\ 0 \in Nat /\ 0 \in Index /\ FALSE \in BOOLEAN
    BY IndexType
  <2>2. reply' = [status |-> st, version |-> 0, file |-> 0, sure |-> FALSE,
                  length |-> 0, first |-> 0]
    BY <1>1, Zenon DEF NoReply
  <2> QED
    BY <2>1, <2>2, Zenon DEF Reply
<1> QED
  BY <1>1, <1>2, PlainAnswer

LEMMA Frame ==
  ASSUME ResponseInv, UNCHANGED <<reader, copy, stream, reply, streamed>>
  PROVE  ResponseInv'
<1>1. Types' /\ ReplyInv' /\ StreamInv'
  BY ZenonT(60) DEF ResponseInv, Types, ReplyInv, StreamInv, Good, Limit, Content
<1>2. AskInv'
  BY AskUnchanged DEF ResponseInv
<1>3. DownloadInv' /\ CacheInv'
  BY ZenonT(60) DEF ResponseInv, DownloadInv, CacheInv, Content
<1>4. DownloadIsOneVersion'
  BY Zenon DEF ResponseInv, DownloadIsOneVersion, Content
<1> QED
  BY <1>1, <1>2, <1>3, <1>4 DEF ResponseInv

(* A response with a body starts with no byte sent.                        *)
LEMMA BodyBegins ==
  ASSUME ResponseInv, UNCHANGED <<reader, copy>>, reply' \in Reply, streamed' = <<>>,
         reply'.status \in {200, 206}, reply'.version # 0, reply'.file # 0,
         reply'.sure => reply'.file = reply'.version,
         reply'.status = 200 => reply'.first = 0 /\ reply'.length = Len(Content(reply'.version)),
         stream' = {[content |-> Content(reply'.file), pos |-> reply'.first, left |-> Limit']}
  PROVE  Types' /\ ReplyInv' /\ StreamInv'
<1>1. Types'
  BY DEF ResponseInv, Types
<1>2. /\ reply'.first \in Nat /\ reply'.length \in Nat /\ Len(streamed') = 0
      /\ reply'.file \in Index
  BY DEF Reply
<1>3. Content(reply'.file) \in Seq(Nat) /\ Len(Content(reply'.file)) \in Nat
  BY <1>2, ContentType
<1>4. Limit' = (IF reply'.status = 200 THEN Len(Content(reply'.file)) ELSE reply'.length)
  BY Zenon DEF Limit, Content
<1>5. Limit' \in Nat
  BY <1>2, <1>3, <1>4
<1>6. SubSeq(Content(reply'.file), reply'.first + 1, reply'.first + 0) = <<>>
  BY <1>2, SubSeqEmpty
<1>7. ReplyInv'
  <2>1. 0 <= Limit'
    BY <1>5
  <2> QED
    BY <1>2, <1>6, <2>1, Zenon DEF ReplyInv, Good, Content
<1>8. StreamInv'
  <2> DEFINE t == [content |-> Content(reply'.file), pos |-> reply'.first, left |-> Limit']
  <2>1. /\ t \in [content : Seq(Nat), pos : Nat, left : Nat]
        /\ t.content = Content(reply'.file)
        /\ t.pos = reply'.first + Len(streamed') /\ t.left = Limit' - Len(streamed')
    <3>1. PICK l \in Nat : l = Limit'
      BY <1>5, Zenon
    <3>2. reply'.first + 0 = reply'.first /\ l - 0 = l
      BY <1>2
    <3> QED
      BY <1>2, <1>3, <1>5, <3>1, <3>2, Zenon
  <2>2. stream' = {t} /\ Good'
    BY DEF Good
  <2> HIDE DEF t
  <2> QED
    BY <2>1, <2>2, Zenon DEF StreamInv, Content
<1> QED
  BY <1>1, <1>7, <1>8

(* get_object: what the client is owed follows from its headers.           *)
LEMMA GetObjectKeeps ==
  ASSUME FileInv, ResponseInv, NEW o \in opening, o.at = "open", data # 0, get_object(o),
         UNCHANGED <<reader, copy>>
  PROVE  ResponseInv'
<1>1. /\ FileTypes /\ Types /\ o.version # 0 /\ data \in Index
      /\ o.sure => data = o.version
  BY DEF FileInv, FileTypes, ResponseInv
<1>2. streamed' = <<>> /\ reply' \in Reply /\ reply'.version = o.version
  BY <1>1, GetObjectAnswers, Zenon
<1>3. o.version \in Index
  <2>1. o \in Openings
    BY <1>1 DEF FileTypes
  <2> QED
    BY <2>1 DEF Openings
<1>4. DownloadIsOneVersion'
  BY Zenon DEF ResponseInv, DownloadIsOneVersion, Content
<1>5. reader.kind = "cache" /\ copy.version # 0 /\ copy.sure => copy.body = Content(copy.version)
  BY DEF ResponseInv, CacheInv
<1>6. CASE reply'.status \notin {200, 206, 304, 416}
  <2>1. stream' = {}
    BY <1>1, <1>6, GetObjectAnswers, ZenonT(30)
  <2> QED
    BY <1>2, <1>6, <2>1, PlainAnswer
<1>7. CASE reply'.status = 304
  <2>1. stream' = {} /\ StatusOf(o) = 304
    BY <1>1, <1>7, GetObjectAnswers
  <2>2. Types' /\ ReplyInv' /\ StreamInv' /\ AskInv' /\ DownloadInv'
    BY <1>1, <1>2, <1>7, <2>1 DEF Types, ReplyInv, StreamInv, AskInv, DownloadInv, Good
  <2>3. ASSUME reader.kind = "cache"
        PROVE  copy.version # 0 /\ Content(copy.version) = Content(o.version)
    <3>1. copy.version # 0
      <4>1. ASSUME copy.version = 0 PROVE Condition = NoCondition
        BY <2>3, <4>1 DEF Condition
      <4> QED
        BY <2>1, <4>1 DEF StatusOf, conditional_response, NoCondition
    <3>2. Condition = Revalidation(copy.version)
      BY <2>3, <3>1 DEF Condition, Revalidation
    <3>3. copy.version \in DOMAIN Versions /\ o.version \in DOMAIN Versions
      <4>1. copy.version \in Index
        BY <1>1 DEF Types, Copies
      <4> QED
        BY <1>1, <1>3, <3>1, <4>1, ContentType
    <3> QED
      BY <2>1, <3>1, <3>2, <3>3, NotModifiedMeansSame DEF StatusOf
  <2>4. CacheInv'
    BY <1>2, <1>5, <2>1, <2>3, Zenon DEF CacheInv, Content
  <2> QED
    BY <1>4, <2>2, <2>4 DEF ResponseInv
<1>8. CASE reply'.status = 416
  <2>1. stream' = {} /\ \A r \in RangeHeader : Asked(r, SizeOf(o)) = {}
    BY <1>1, <1>8, GetObjectAnswers
  <2>2. Types' /\ ReplyInv' /\ StreamInv' /\ DownloadInv'
    BY <1>1, <1>2, <1>8, <2>1 DEF Types, ReplyInv, StreamInv, DownloadInv, Good
  <2>3. CacheInv'
    BY <1>5, <1>8, <2>1 DEF CacheInv, Content
  <2>4. ASSUME reader.kind = "ask"
        PROVE  \A r \in reader.range : Asked(r, Len(Content(reply'.version))) = {}
    BY <1>2, <2>1, <2>4, Zenon DEF RangeHeader, SizeOf
  <2>5. AskInv'
    BY <1>8, <2>4, AskFrame
  <2> QED
    BY <1>4, <2>2, <2>3, <2>5 DEF ResponseInv
<1>9. CASE reply'.status = 200
  <2>1. /\ RangeHeader = {} /\ reply'.file = data /\ reply'.sure = o.sure
        /\ reply'.first = 0 /\ reply'.length = SizeOf(o)
        /\ stream' = {[content |-> Content(data), pos |-> 0, left |-> Len(Content(data))]}
    BY <1>1, <1>9, GetObjectAnswers
  <2>2. Limit' = Len(Content(data))
    BY <1>9, <2>1, Zenon DEF Limit, Content
  <2>3. Types' /\ ReplyInv' /\ StreamInv'
    BY <1>1, <1>2, <1>9, <2>1, <2>2, BodyBegins DEF SizeOf
  <2>4. AskInv' /\ DownloadInv'
    BY <1>9 DEF AskInv, DownloadInv
  <2>5. CacheInv'
    BY <1>5, <1>9 DEF CacheInv, Content
  <2> QED
    BY <1>4, <2>3, <2>4, <2>5 DEF ResponseInv
<1>10. CASE reply'.status = 206
  <2>1. /\ StatusOf(o) = 200 /\ RangeHeader # {} /\ reply'.file = data /\ reply'.sure = o.sure
        /\ \A r \in RangeHeader :
             /\ Asked(r, SizeOf(o)) = reply'.first..(reply'.first + reply'.length - 1)
             /\ parse_range_header(r, SizeOf(o)).ok
             /\ reply'.first = parse_range_header(r, SizeOf(o)).first
        /\ stream' = {[content |-> Content(data), pos |-> reply'.first, left |-> reply'.length]}
    BY <1>1, <1>10, GetObjectAnswers
  <2>2. Limit' = reply'.length
    <3>1. reply'.status # 200
      BY <1>10
    <3> QED
      BY <3>1, Zenon DEF Limit
  <2>3. Types' /\ ReplyInv' /\ StreamInv'
    BY <1>1, <1>2, <1>10, <2>1, <2>2, BodyBegins
  <2>4. ASSUME reader.kind = "ask"
        PROVE  \A r \in reader.range : Asked(r, Len(Content(reply'.version))) =
                                        reply'.first..(reply'.first + reply'.length - 1)
    <3>1. SizeOf(o) = Len(Content(reply'.version)) /\ RangeHeader = reader.range
      BY <1>2, <2>4, Zenon DEF RangeHeader, SizeOf
    <3>2. \A r \in RangeHeader :
             Asked(r, SizeOf(o)) = reply'.first..(reply'.first + reply'.length - 1)
      BY <2>1
    <3> QED
      BY <3>1, <3>2
  <2>5. AskInv'
    BY <1>10, <2>4, AskFrame
  <2>6. CacheInv'
    <3>1. reader.kind # "cache"
      BY <2>1, Zenon DEF RangeHeader
    <3> QED
      BY <3>1 DEF CacheInv
  <2>7. ASSUME reader.kind = "download"
        PROVE  /\ copy.version # 0 /\ reply'.first = Len(copy.body)
               /\ Content(o.version) = Content(copy.version)
    <3>1. copy.version # 0
      BY <2>1, <2>7, Zenon DEF RangeHeader
    <3>2. /\ RangeHeader = RangeText({Len(copy.body)}, {})
          /\ Condition = [NoCondition EXCEPT !.match = TagOf(copy.version)]
      BY <2>7, <3>1 DEF RangeHeader, Condition
    <3>3. copy.version \in DOMAIN Versions /\ o.version \in DOMAIN Versions
      <4>1. copy.version \in Index
        BY <1>1 DEF Types, Copies
      <4> QED
        BY <1>1, <1>3, <3>1, <4>1, ContentType
    <3>4. Content(copy.version) = Content(o.version)
      BY <2>1, <3>2, <3>3, MatchMeansSame DEF StatusOf
    <3>5. reply'.first = Len(copy.body)
      <4>1. PICK r \in RangeHeader : r.form = "range" /\ r.start = {Len(copy.body)} /\ r.end = {}
        BY <3>2 DEF RangeText
      <4>2. parse_range_header(r, SizeOf(o)).ok /\ reply'.first = parse_range_header(r, SizeOf(o)).first
        BY <2>1, <4>1, Zenon
      <4>3. parse_range_header(r, SizeOf(o)) \in {Unsatisfiable, ByteRange(Len(copy.body), SizeOf(o) - 1)}
        <5>1. (CHOOSE x \in r.start : TRUE) = Len(copy.body)
          BY <4>1
        <5> QED
          BY <4>1, <5>1, Zenon DEF parse_range_header
      <4> QED
        BY <4>2, <4>3 DEF Unsatisfiable, ByteRange
    <3> QED
      BY <3>1, <3>4, <3>5
  <2>8. DownloadInv'
    BY <1>2, <2>7, Zenon DEF DownloadInv, Content
  <2> QED
    BY <1>4, <2>3, <2>5, <2>6, <2>8 DEF ResponseInv
<1> QED
  BY <1>6, <1>7, <1>8, <1>9, <1>10, ZenonT(30)

(* Adjacent pieces of a content make one.                                  *)
LEMMA Adjacent ==
  ASSUME NEW b \in Seq(Nat), NEW f \in Nat, NEW m \in Nat, NEW n \in Nat, f + m + n <= Len(b)
  PROVE  /\ SubSeq(b, f + 1, f + m) \o SubSeq(b, f + m + 1, f + m + n) = SubSeq(b, f + 1, f + m + n)
         /\ SubSeq(b, f + 1, f + m + n) \in Seq(Nat)
         /\ Len(SubSeq(b, f + 1, f + m + n)) = m + n
<1> DEFINE i == f + 1
           k == f + m
           l == f + m + n
<1>1. /\ i \in 1..(Len(b) + 1) /\ k \in (i - 1)..Len(b) /\ l \in k..Len(b)
      /\ l - i + 1 = m + n /\ Len(b) \in Nat /\ k + 1 = f + m + 1
  OBVIOUS
<1>2. SubSeq(b, i, l) \in Seq(Nat) /\ Len(SubSeq(b, i, l)) = m + n
  <2>1. i \in 1..(Len(b) + 1) /\ l \in (i - 1)..Len(b) /\ l - i + 1 = m + n
    BY <1>1
  <2> HIDE DEF i, k, l
  <2> QED
    BY <2>1, SubSeqProperties
<1>3. SubSeq(b, i, k) \o SubSeq(b, k + 1, l) = SubSeq(b, i, l)
  <2> HIDE DEF i, k, l
  <2> QED
    BY <1>1, ConcatAdjacentSubSeq, SMTT(30)
<1> QED
  BY <1>2, <1>3

(* A read takes the stream on by what it sends.                            *)
LEMMA SendBytesKeeps == ResponseInv /\ SendBytes => ResponseInv'
<1> SUFFICES ASSUME ResponseInv, SendBytes PROVE ResponseInv'
  OBVIOUS
<1>1. PICK s \in stream : \E n \in 1..Least2(reader.buffer, s.left) :
         /\ s.pos + n <= Len(s.content)
         /\ streamed' = streamed \o SubSeq(s.content, s.pos + 1, s.pos + n)
         /\ stream' = {[s EXCEPT !.pos = @ + n, !.left = @ - n]}
  BY ZenonT(60) DEF SendBytes
<1>2. PICK n \in 1..Least2(reader.buffer, s.left) :
         /\ s.pos + n <= Len(s.content)
         /\ streamed' = streamed \o SubSeq(s.content, s.pos + 1, s.pos + n)
         /\ stream' = {[s EXCEPT !.pos = @ + n, !.left = @ - n]}
  BY <1>1, ZenonT(60)
<1> DEFINE file == Content(reply.file)
           f == reply.first
           m == Len(streamed)
<1>3. /\ Types /\ Good /\ stream # {} /\ UNCHANGED <<reader, copy, reply>>
      /\ s \in [content : Seq(Nat), pos : Nat, left : Nat]
      /\ s.content = file /\ s.pos = f + m /\ s.left = Limit - m
  BY <1>1 DEF ResponseInv, SendBytes, StreamInv, clientVars
<1>4. /\ reply.version # 0 /\ reply.file # 0 /\ m <= Limit
      /\ streamed = SubSeq(file, f + 1, f + m)
  BY <1>3 DEF ResponseInv, ReplyInv
<1>5. /\ f \in Nat /\ reply.length \in Nat /\ m \in Nat /\ streamed \in Seq(Nat)
      /\ reply.file \in Index /\ reader \in Readers
  BY <1>3 DEF Types, Reply
<1>6. file \in Seq(Nat) /\ Len(file) \in Nat /\ Limit \in Nat
  <2>1. file \in Seq(Nat) /\ Len(file) \in Nat
    BY <1>4, <1>5, ContentType, Zenon
  <2> QED
    BY <1>5, <2>1 DEF Limit
<1> HIDE DEF file, f, m
<1>7. n \in Nat /\ n <= Limit - m /\ f + m + n <= Len(file)
  <2>1. reader.buffer \in Nat
    BY <1>5, ReadersAssumption
  <2>2. s.left \in Nat /\ s.left = Limit - m
    BY <1>3
  <2>3. n \in Nat /\ n <= s.left
    BY <1>2, <2>1, <2>2 DEF Least2
  <2> QED
    BY <1>2, <1>3, <2>2, <2>3
<1>8. /\ streamed' = SubSeq(file, f + 1, f + m + n)
      /\ Len(streamed') = m + n /\ streamed' \in Seq(Nat)
  <2>1. streamed' = SubSeq(file, f + 1, f + m) \o SubSeq(file, f + m + 1, f + m + n)
    BY <1>2, <1>3, <1>4, ZenonT(60)
  <2> QED
    <3>1. /\ SubSeq(file, f + 1, f + m) \o SubSeq(file, f + m + 1, f + m + n)
               = SubSeq(file, f + 1, f + m + n)
          /\ SubSeq(file, f + 1, f + m + n) \in Seq(Nat)
          /\ Len(SubSeq(file, f + 1, f + m + n)) = m + n
      <4>1. PICK c \in Seq(Nat), i \in Nat, j \in Nat : c = file /\ i = f /\ j = m
        BY <1>5, <1>6, Zenon
      <4>2. n \in Nat /\ i + j + n <= Len(c)
        BY <1>7, <4>1, Zenon
      <4>3. /\ SubSeq(c, i + 1, i + j) \o SubSeq(c, i + j + 1, i + j + n)
                 = SubSeq(c, i + 1, i + j + n)
            /\ SubSeq(c, i + 1, i + j + n) \in Seq(Nat)
            /\ Len(SubSeq(c, i + 1, i + j + n)) = j + n
        BY <4>2, Adjacent, ZenonT(60)
      <4> QED
        BY <4>1, <4>3, Zenon
    <3> QED
      BY <2>1, <3>1, Zenon
<1>9. f + m + n = f + (m + n) /\ m + n <= Limit /\ Limit - m - n = Limit - (m + n)
  BY <1>5, <1>6, <1>7
<1>10. Types'
  BY <1>3, <1>8, Zenon DEF Types
<1>11. Limit' = Limit /\ Good' /\ (Content(reply.file))' = file /\ reply'.first = f
  BY <1>3, Zenon DEF Limit, Good, Content, file, f
<1>12. ReplyInv'
  <2>1. /\ Len(streamed') <= Limit'
        /\ streamed' = SubSeq((Content(reply.file))', reply'.first + 1, reply'.first + Len(streamed'))
        /\ reply'.first + Len(streamed') <= Len((Content(reply.file))')
    BY <1>7, <1>8, <1>9, <1>11, Zenon
  <2>2. /\ reply.sure => reply.file = reply.version
        /\ reply.status = 200 => reply.first = 0 /\ reply.length = Len(Content(reply.version))
    BY <1>3 DEF ResponseInv, ReplyInv
  <2> QED
    BY <1>3, <1>4, <2>1, <2>2, Zenon DEF ReplyInv, Content
<1>13. StreamInv' /\ stream' # {}
  <2> DEFINE t == [s EXCEPT !.pos = @ + n, !.left = @ - n]
  <2>1. s.left - n \in Nat /\ s.pos + n \in Nat
    BY <1>3, <1>5, <1>6, <1>7
  <2>2. /\ t \in [content : Seq(Nat), pos : Nat, left : Nat]
        /\ t.content = s.content /\ t.pos = s.pos + n /\ t.left = s.left - n
    BY <1>3, <2>1, ZenonT(60)
  <2>3. stream' = {t}
    BY <1>2
  <2> HIDE DEF t
  <2>4. /\ t.content = (Content(reply.file))' /\ t.pos = reply'.first + Len(streamed')
        /\ t.left = Limit' - Len(streamed')
    BY <1>3, <1>8, <1>9, <1>11, <2>2, Zenon
  <2> QED
    BY <1>11, <2>2, <2>3, <2>4, ZenonT(60) DEF StreamInv
<1>14. AskInv' /\ DownloadInv' /\ CacheInv' /\ DownloadIsOneVersion'
  <2>1. AskInv'
    BY <1>3, AskUnchanged DEF ResponseInv
  <2>2. DownloadInv' /\ CacheInv'
    BY <1>3, ZenonT(60) DEF ResponseInv, DownloadInv, CacheInv, Content
  <2> QED
    BY <1>3, <2>1, <2>2, Zenon DEF ResponseInv, DownloadIsOneVersion, Content
<1> QED
  BY <1>10, <1>12, <1>13, <1>14 DEF ResponseInv

(* What a client keeps at the end of a body.                               *)
LEMMA EndOfBodyKeeps == ResponseInv /\ EndOfBody => ResponseInv'
<1> SUFFICES ASSUME ResponseInv, EndOfBody PROVE ResponseInv'
  OBVIOUS
<1> DEFINE kept == [body |-> streamed, version |-> reply.version, sure |-> reply.sure]
<1>1. Types /\ ReplyInv /\ stream # {} /\ stream' = {} /\ UNCHANGED <<reader, reply, streamed>>
  BY DEF ResponseInv, EndOfBody
<1>2. Good
  BY <1>1 DEF ResponseInv, StreamInv
<1>3. /\ reply.version # 0 /\ reply.file # 0 /\ (reply.sure => reply.file = reply.version)
      /\ reply.status = 200 => reply.first = 0 /\ reply.length = Len(Content(reply.version))
      /\ streamed = SubSeq(Content(reply.file), reply.first + 1, reply.first + Len(streamed))
      /\ Len(streamed) # 0 => reply.first + Len(streamed) <= Len(Content(reply.file))
  BY <1>1, <1>2 DEF ReplyInv
<1>4. /\ reply.first \in Nat /\ reply.length \in Nat /\ Len(streamed) \in Nat
      /\ streamed \in Seq(Nat) /\ reply.version \in Index /\ reply.sure \in BOOLEAN
      /\ copy \in Copies /\ kept \in Copies
  BY <1>1 DEF Types, Reply, Copies
<1>5. Content(reply.version) \in Seq(Nat) /\ Len(Content(reply.version)) \in Nat
  BY <1>3, <1>4, ContentType
<1>6. ReplyInv' /\ StreamInv' /\ AskInv' /\ DownloadInv'
  <2>1. ReplyInv'
    BY <1>1, ZenonT(60) DEF ReplyInv, Good, Limit, Content
  <2>2. AskInv'
    BY <1>1, AskUnchanged DEF ResponseInv
  <2> QED
    BY <1>1, <2>1, <2>2 DEF StreamInv, DownloadInv
<1>7. ASSUME reply.status = 200, reply.sure
      PROVE  /\ streamed = SubSeq(Content(reply.version), 1, Len(streamed))
             /\ Len(streamed) <= Len(Content(reply.version))
  <2>1. 0 + 1 = 1 /\ 0 + Len(streamed) = Len(streamed)
    BY <1>4
  <2>2. streamed = SubSeq(Content(reply.version), 1, Len(streamed))
    BY <1>3, <1>7, <2>1
  <2> QED
    BY <1>3, <1>4, <1>5, <1>7, <2>2
<1>8. CASE reader.kind = "download" /\ reply.status = 206
  <2>1. copy' = [copy EXCEPT !.body = @ \o streamed, !.sure = @ /\ reply.sure]
    BY <1>8 DEF EndOfBody
  <2>2. /\ copy.version # 0 /\ reply.first = Len(copy.body)
        /\ Content(reply.version) = Content(copy.version)
    BY <1>1, <1>8 DEF ResponseInv, DownloadInv
  <2>3. /\ copy'.version = copy.version /\ copy'.body = copy.body \o streamed
        /\ copy'.sure = (copy.sure /\ reply.sure) /\ copy' \in Copies
    <3>1. copy.body \in Seq(Nat) /\ copy.version \in Index /\ copy.sure \in BOOLEAN
      BY <1>4 DEF Copies
    <3>2. copy.body \o streamed \in Seq(Nat) /\ (copy.sure /\ reply.sure) \in BOOLEAN
      BY <1>4, <3>1, ConcatProperties
    <3> QED
      BY <1>4, <2>1, <3>1, <3>2, ZenonT(60) DEF Copies
  <2>4. ASSUME copy'.sure
        PROVE  /\ Len(copy'.body) <= Len(Content(copy.version))
               /\ copy'.body = SubSeq(Content(copy.version), 1, Len(copy'.body))
    <3>1. copy.sure /\ reply.sure
      BY <2>3, <2>4, Zenon
    <3>2. /\ Len(copy.body) <= Len(Content(copy.version))
          /\ copy.body = SubSeq(Content(copy.version), 1, Len(copy.body))
      BY <1>8, <2>2, <3>1 DEF ResponseInv, DownloadIsOneVersion
    <3>3. PICK b \in Seq(Nat), m \in Nat, n \in Nat, z \in {0} :
             b = Content(copy.version) /\ m = Len(copy.body) /\ n = Len(streamed) /\ Len(b) \in Nat
      BY <1>4, <1>5, <2>2 DEF Copies
    <3>4. m <= Len(b) /\ (n # 0 => m + n <= Len(b))
      BY <1>3, <2>2, <3>1, <3>2, <3>3, Zenon
    <3>5. /\ z + m + n <= Len(b) /\ z \in Nat /\ z + 1 = 1 /\ z + m = m /\ z + m + n = m + n
      BY <3>3, <3>4
    <3>6. streamed = SubSeq(b, m + 1, m + n) /\ copy.body = SubSeq(b, 1, m)
      BY <1>3, <2>2, <3>1, <3>2, <3>3, Zenon
    <3>7. /\ SubSeq(b, z + 1, z + m) \o SubSeq(b, z + m + 1, z + m + n) = SubSeq(b, z + 1, z + m + n)
          /\ Len(SubSeq(b, z + 1, z + m + n)) = m + n
      BY <3>5, Adjacent, ZenonT(60)
    <3>8. copy'.body = SubSeq(b, 1, m + n) /\ Len(copy'.body) = m + n
      BY <2>3, <3>5, <3>6, <3>7, Zenon
    <3> QED
      BY <3>3, <3>5, <3>8
  <2>5. DownloadIsOneVersion'
    BY <1>1, <2>3, <2>4, Zenon DEF DownloadIsOneVersion, Content
  <2>6. CacheInv'
    BY <1>1, <1>8 DEF CacheInv
  <2> QED
    BY <1>1, <1>6, <2>3, <2>5, <2>6 DEF ResponseInv, Types
<1>9. CASE reader.kind = "download" /\ reply.status = 200
  <2>1. copy' = kept
    BY <1>9 DEF EndOfBody
  <2>2. DownloadIsOneVersion'
    BY <1>1, <1>7, <1>9, <2>1 DEF DownloadIsOneVersion, Content
  <2>3. CacheInv'
    BY <1>1, <1>9 DEF CacheInv
  <2> QED
    BY <1>1, <1>4, <1>6, <2>1, <2>2, <2>3 DEF ResponseInv, Types
<1>10. CASE reader.kind = "cache"
  <2>1. reply.status = 200
    BY <1>1, <1>10 DEF ResponseInv, CacheInv
  <2>2. copy' = copy \/ (copy' = kept /\ Len(streamed) = reply.length)
    BY <1>10, Zenon DEF EndOfBody
  <2>3. CacheInv'
    <3>1. CASE copy' = copy
      BY <1>1, <1>10, <2>1, <3>1 DEF ResponseInv, CacheInv, Content
    <3>2. CASE copy' = kept /\ Len(streamed) = reply.length
      <4>1. ASSUME reply.sure PROVE streamed = Content(reply.version)
        <5>1. streamed = SubSeq(Content(reply.version), 1, Len(Content(reply.version)))
          <6>1. Len(streamed) = Len(Content(reply.version))
            BY <1>3, <2>1, <3>2, Zenon
          <6> QED
            BY <1>7, <2>1, <4>1, <6>1, Zenon
        <5> QED
          BY <1>5, <5>1, SubSeqFull
      <4> QED
        BY <1>1, <2>1, <3>2, <4>1 DEF CacheInv, Content
    <3> QED
      BY <2>2, <3>1, <3>2
  <2>4. DownloadIsOneVersion'
    BY <1>1, <1>10 DEF DownloadIsOneVersion
  <2> QED
    BY <1>1, <1>4, <1>6, <2>2, <2>3, <2>4 DEF ResponseInv, Types
<1>11. CASE reader.kind \notin {"download", "cache"}
  <2>1. copy' = copy
    BY <1>11, Zenon DEF EndOfBody
  <2> QED
    BY <1>1, <1>6, <1>11, <2>1 DEF ResponseInv, Types, CacheInv, DownloadIsOneVersion
<1> QED
  BY <1>2, <1>8, <1>9, <1>10, <1>11 DEF Good

-----------------------------------------------------------------------------
(* The steps, for the files.                                               *)

LEMMA FilesKeep == IInv /\ ReadNext => FileInv'
<1> SUFFICES ASSUME FileInv, ReadNext PROVE FileInv'
  BY DEF IInv
<1> USE DEF FileInv, FileTypes
<1>1. CASE opening' = {} /\ UNCHANGED fileVars
  BY <1>1 DEF fileVars
<1>2. CASE opening' = opening /\ UNCHANGED fileVars
  BY <1>2, Zenon DEF fileVars
<1>3. CASE SendRequest
  BY <1>3, IndexType DEF SendRequest, fileVars, Openings
<1>4. CASE read_metadata
  <2>1. CASE meta # 0
    <3>1. /\ opening' = {[at |-> "stat", version |-> meta, sure |-> writing = "no"]}
          /\ UNCHANGED fileVars
      BY <1>4, <2>1 DEF read_metadata
    <3>2. (writing = "no") \in BOOLEAN
      OBVIOUS
    <3> QED
      <4> DEFINE t == [at |-> "stat", version |-> meta, sure |-> writing = "no"]
      <4>1. t \in Openings /\ t.version = meta /\ (t.sure <=> writing = "no")
        BY <3>2, Zenon DEF Openings
      <4> HIDE DEF t
      <4> QED
        BY <2>1, <3>1, <4>1, Zenon DEF fileVars, t
  <2> QED
    BY <1>1, <1>4, <2>1 DEF read_metadata
<1>5. CASE stat_object
  <2>1. CASE data # 0
    <3>1. PICK o \in opening : o.at = "stat" /\ opening' = {[o EXCEPT !.at = "open"]}
      BY <1>5, <2>1 DEF stat_object
    <3>2. /\ o \in Openings /\ o.version # 0 /\ (o.sure => writing = "no" /\ data = o.version)
          /\ UNCHANGED fileVars
      BY <1>5, <3>1 DEF stat_object
    <3> QED
      BY <3>1, <3>2 DEF fileVars, Openings
  <2> QED
    BY <1>1, <1>5, <2>1 DEF stat_object
<1>6. ASSUME Unsure, data' \in Index, meta' \in Index, writing' \in {"no", "put", "delete"},
             writing' = "no" /\ meta' # 0 => data' = meta', writing' = "delete" => meta' = 0
      PROVE  FileInv'
  <2>1. opening' = {[o EXCEPT !.sure = FALSE] : o \in opening}
    BY <1>6 DEF Unsure
  <2>2. \A o \in opening' : o \in Openings /\ ~o.sure /\ (o.at # "metadata" => o.version # 0)
    <3> SUFFICES ASSUME NEW o \in opening
                 PROVE  LET u == [o EXCEPT !.sure = FALSE]
                        IN  u \in Openings /\ ~u.sure /\ (u.at # "metadata" => u.version # 0)
      BY <2>1, Zenon
    <3>1. o \in Openings /\ (o.at # "metadata" => o.version # 0)
      OBVIOUS
    <3> QED
      BY <3>1, Zenon DEF Openings
  <2> QED
    BY <1>6, <2>2
<1>7. CASE BeginWrite
  BY <1>6, <1>7, IndexType DEF BeginWrite
<1>8. CASE EndWrite
  BY <1>6, <1>8, IndexType DEF EndWrite
<1> QED
  BY <1>1, <1>2, <1>3, <1>4, <1>5, <1>7, <1>8, Zenon
     DEF ReadNext, open_object, OpenFails, SendBytes, EndOfBody

LEMMA ResponsesKeep == IInv /\ ReadNext => ResponseInv'
<1> SUFFICES ASSUME FileInv, ResponseInv, ReadNext PROVE ResponseInv'
  BY DEF IInv
<1> USE DEF clientVars, responseVars
<1>1. CASE SendRequest \/ BeginWrite \/ EndWrite
  BY <1>1, Frame DEF SendRequest, BeginWrite, EndWrite
<1>2. CASE read_metadata
  BY <1>2, Frame, RefusedKeeps DEF read_metadata
<1>3. CASE stat_object
  BY <1>3, Frame, RefusedKeeps DEF stat_object
<1>4. CASE open_object
  BY <1>4, RefusedKeeps, GetObjectKeeps DEF open_object
<1>5. CASE OpenFails
  BY <1>5, RefusedKeeps DEF OpenFails
<1> QED
  BY <1>1, <1>2, <1>3, <1>4, <1>5, SendBytesKeeps, EndOfBodyKeeps DEF ReadNext

LEMMA StepsKeepIInv == IInv /\ [ReadNext]_readVars => IInv'
<1>1. CASE UNCHANGED readVars
  <2> SUFFICES ASSUME IInv PROVE IInv'
    OBVIOUS
  <2>1. UNCHANGED <<data, meta, writing, opening, reader, copy, stream, reply, streamed>>
    BY <1>1 DEF readVars, fileVars, clientVars, responseVars
  <2>2. FileInv'
    BY <2>1, Zenon DEF IInv, FileInv, FileTypes
  <2> QED
    BY <2>1, <2>2, Frame DEF IInv
<1> QED
  BY <1>1, FilesKeep, ResponsesKeep DEF IInv

LEMMA InitIInv == ReadInit(Readers) => IInv
<1> SUFFICES ASSUME ReadInit(Readers) PROVE IInv
  OBVIOUS
<1>1. 1 \in Index /\ 0 \in Index
  <2>1. Versions \in Seq([content : Seq(Nat), etag : STRING, second : Nat]) /\ Versions # <<>>
    BY VersionsAssumption, ZenonT(60)
  <2> QED
    BY <2>1, EmptySeq DEF Index
<1>2. FileInv
  BY <1>1 DEF ReadInit, FileInv, FileTypes
<1>3. Types
  BY <1>1 DEF ReadInit, NoReply, Reply, Copies, Types
<1>4. reply.status = 0 /\ stream = {} /\ copy.version = 0
  BY DEF ReadInit, NoReply
<1> QED
  BY <1>2, <1>3, <1>4 DEF IInv, ResponseInv, ReplyInv, StreamInv, AskInv, DownloadInv, CacheInv,
                          DownloadIsOneVersion, Good

-----------------------------------------------------------------------------
(* Partial responses announce exactly the bytes the range names in the     *)
(* version described, a range that names none is refused, and the bytes    *)
(* streamed are those of the opened file, which is of that version unless  *)
(* a write ran beside open_object: for every object, range and buffer.     *)
THEOREM RangeIsExactAlways == ReadSpec => []RangeIsExact
<1>1. IInv => RangeIsExact
  <2> SUFFICES ASSUME ResponseInv PROVE RangeIsExact
    BY DEF IInv
  <2>1. AskInv /\ ReplyInv
    BY DEF ResponseInv
  <2>2. ASSUME Good, reply.sure \/ reply.status = 206 PROVE Len(streamed) <= reply.length
    BY <2>1, <2>2 DEF ReplyInv, Limit, Good
  <2> QED
    <3>1. ASSUME reader.kind = "ask", reply.status \in {206, 416}, NEW r \in reader.range
          PROVE  Asked(r, Len(Content(reply.version))) =
                   IF reply.status = 416 THEN {} ELSE reply.first..(reply.first + reply.length - 1)
      BY <2>1, <3>1 DEF AskInv
    <3> DEFINE Exact(r) ==
          LET bytes == IF r.form = "range" /\ Parsed(r) /\ ~Inverted(r)
                         THEN NamedBytes(r, Len(Content(reply.version))) ELSE {}
          IN  IF reply.status = 416 THEN bytes = {}
              ELSE bytes = reply.first..(reply.first + reply.length - 1)
    <3>2. ASSUME reader.kind = "ask", reply.status \in {206, 416}, NEW r \in reader.range
          PROVE  Exact(r)
      <4>1. Asked(r, Len(Content(reply.version))) =
              IF reply.status = 416 THEN {} ELSE reply.first..(reply.first + reply.length - 1)
        BY <3>1, <3>2
      <4>2. CASE reply.status = 416
        <5>1. Asked(r, Len(Content(reply.version))) = {}
          BY <4>1, <4>2, Zenon
        <5> QED
          BY <4>2, <5>1, Zenon DEF Asked
      <4>3. CASE reply.status # 416
        <5>1. Asked(r, Len(Content(reply.version))) = reply.first..(reply.first + reply.length - 1)
          BY <4>1, <4>3, Zenon
        <5> QED
          BY <4>3, <5>1, Zenon DEF Asked
      <4> QED
        BY <4>2, <4>3, Zenon
    <3> HIDE DEF Exact
    <3>3. ASSUME Good
          PROVE  /\ streamed = SubSeq(Content(reply.file), reply.first + 1, reply.first + Len(streamed))
                 /\ reply.sure => reply.file = reply.version
      BY <2>1, <3>3, Zenon DEF ReplyInv
    <3> QED
      BY <2>2, <3>2, <3>3, ZenonT(60) DEF RangeIsExact, Exact, Good
<1> QED
  BY <1>1, InitIInv, StepsKeepIInv, PTL DEF ReadSpec

(* A download resumed with If-Match never mixes versions, whatever is      *)
(* written between its requests and while their bodies are sent, when no   *)
(* open_object of it ran beside a write.                                   *)
THEOREM DownloadIsOneVersionAlways == ReadSpec => []DownloadIsOneVersion
<1>1. IInv => DownloadIsOneVersion
  BY DEF IInv, ResponseInv
<1> QED
  BY <1>1, InitIInv, StepsKeepIInv, PTL DEF ReadSpec

(* A cache told that nothing was modified has the bytes of the version     *)
(* whose metadata was in place.                                            *)
THEOREM NotModifiedIsFreshAlways == ReadSpec => []NotModifiedIsFresh
<1>1. IInv => NotModifiedIsFresh
  BY DEF IInv, ResponseInv, CacheInv, NotModifiedIsFresh
<1> QED
  BY <1>1, InitIInv, StepsKeepIInv, PTL DEF ReadSpec
=============================================================================
