---------------------------- MODULE ObjectReads ----------------------------
(***************************************************************************)
(* GetObject and HeadObject (src/handlers/get_object.rs and                *)
(* head_object.rs) for clients that need several requests, beside a writer *)
(* that goes on replacing the object: a download resumed with Range and    *)
(* If-Match after its connection broke, a cache that revalidates its copy, *)
(* and single ranged requests.                                             *)
(*                                                                         *)
(* An object is two files, and open_object reads the metadata, looks for   *)
(* the object file and opens it in three steps, between which the writer   *)
(* goes on: the headers of a response are of the version whose metadata    *)
(* was read, its bytes of the version whose file was opened.  A response   *)
(* is sure when no write took a step, and none was half done, from the one *)
(* to the other.  An opened file is not changed by a later version.        *)
(***************************************************************************)
EXTENDS Naturals, Sequences, FiniteSets

CONSTANTS
  Versions,        \* versions of the object: a sequence of [content, etag, second]
  Readers,         \* [kind, range, condition, overrides, buffer]
  U64,             \* numbers below it are parsed as u64: 2^64 in the code
  MaxRequests      \* bound on the requests of a reader

AtMostOne(S) == \A x, y \in S : x = y

(* The ETag is a digest of the content, and digests are ideal.             *)
ASSUME VersionsAssumption ==
  /\ Versions \in Seq([content : Seq(Nat), etag : STRING, second : Nat]) \ {<<>>}
  /\ \A v, w \in DOMAIN Versions :
       /\ Versions[v].etag = Versions[w].etag => Versions[v].content = Versions[w].content
       /\ Versions[v].etag \notin {"*", "not ASCII"}

(* object_stream_buffer_size is not zero, and a header has one value.      *)
ASSUME ReadersAssumption ==
  \A rd \in Readers :
    /\ rd.buffer \in Nat \ {0}
    /\ AtMostOne(rd.range)
    /\ \A r \in rd.range : AtMostOne(r.start) /\ AtMostOne(r.end)
                           /\ r.start \subseteq Nat /\ r.end \subseteq Nat

VARIABLES
  data, meta,      \* versions of the object and metadata files, 0 when there is none
  writing,         \* "no", or the write that is half done: "put" or "delete"
  reader,          \* the client of this behaviour
  copy,            \* what it has: [body, version, sure], version the one its ETag names
  opening,         \* {[at, version, sure]}: open_object of its request, version that of
                   \* the metadata read
  stream,          \* {[content, pos, left]}: the response body being sent
  reply,           \* head of the last response: [status, version, file, sure, length, first],
                   \* file the version of the opened file
  streamed,        \* bytes of the last response's body sent so far
  requests         \* requests made

clientVars == <<reader, copy, requests>>
responseVars == <<stream, reply, streamed>>
fileVars == <<data, meta, writing>>
readVars == <<fileVars, clientVars, opening, responseVars>>

NoReply == [status |-> 0, version |-> 0, file |-> 0, sure |-> FALSE, length |-> 0, first |-> 0]
Content(v) == Versions[v].content

ReadInit(readers) ==
  /\ data = 1 /\ meta = 1 /\ writing = "no"
  /\ reader \in readers
  /\ copy = [body |-> <<>>, version |-> 0, sure |-> FALSE]
  /\ opening = {} /\ stream = {} /\ reply = NoReply /\ streamed = <<>> /\ requests = 0

-----------------------------------------------------------------------------
(* Conditions.  A condition is [match, none, unmodified, modified]: the    *)
(* entity tags of If-Match and If-None-Match and the dates, each {} when   *)
(* the header is absent; "*" and W/ are entity tags too.                   *)

NoCondition == [match |-> {}, none |-> {}, unmodified |-> {}, modified |-> {}]

Etag(name) == [weak |-> FALSE, name |-> name]
AnyEtag == Etag("*")
NotAscii == Etag("not ASCII")
HttpDate(second) == [ok |-> TRUE, second |-> second]
NotADate == [ok |-> FALSE, second |-> 0]

strong_etag_condition_matches(tags, etag) == AnyEtag \in tags \/ Etag(etag) \in tags
weak_etag_condition_matches(tags, etag) == \E t \in tags : t = AnyEtag \/ t.name = etag

MutantMatchIgnored(c, v) ==
  IF c.none # {} /\ weak_etag_condition_matches(c.none, v.etag) THEN 304 ELSE 200

MutantDatesToo(c, v) ==
  IF c.match # {} /\ ~strong_etag_condition_matches(c.match, v.etag) THEN 412
  ELSE IF c.none # {} /\ weak_etag_condition_matches(c.none, v.etag) THEN 304
  ELSE IF \E d \in c.modified : v.second <= d.second THEN 304
  ELSE 200

(* The status conditional_response answers with; 200 stands for going on.  *)
conditional_response(c, v) ==
  IF NotAscii \in c.match THEN 400
  ELSE IF c.match # {} /\ ~strong_etag_condition_matches(c.match, v.etag) THEN 412
  ELSE IF NotAscii \in c.none THEN 400
  ELSE IF c.none # {} /\ weak_etag_condition_matches(c.none, v.etag) THEN 304
  ELSE IF c.match = {} /\ NotADate \in c.unmodified THEN 400
  ELSE IF c.match = {} /\ \E d \in c.unmodified : v.second > d.second THEN 412
  ELSE IF c.none = {} /\ NotADate \in c.modified THEN 400
  ELSE IF c.none = {} /\ \E d \in c.modified : v.second <= d.second THEN 304
  ELSE 200

-----------------------------------------------------------------------------
(* Ranges: {} or {[form, start, end]}; form is "range" when the text is    *)
(* bytes=start-end, start and end each {} when left out.                   *)

RangeText(start, end) == {[form |-> "range", start |-> start, end |-> end]}
Least2(a, b) == IF a < b THEN a ELSE b
Unsatisfiable == [ok |-> FALSE, first |-> 0, last |-> 0]
ByteRange(first, last) == [ok |-> TRUE, first |-> first, last |-> last]

MutantEndExclusive(r, size) ==
  IF r.form # "range" \/ size = 0 \/ r.start = {} THEN Unsatisfiable
  ELSE LET s == CHOOSE x \in r.start : TRUE
           e == IF r.end = {} THEN size - 1 ELSE CHOOSE x \in r.end : TRUE
       IN  IF s > e \/ s >= size THEN Unsatisfiable ELSE ByteRange(s, Least2(e, size))

(* Every position is a number that parse_range_number takes.               *)
Parsed(r) == \A n \in r.start \cup r.end : n < U64

parse_range_header(r, size) ==
  IF r.form # "range" \/ size = 0 \/ ~Parsed(r) THEN Unsatisfiable
  ELSE CASE r.start # {} /\ r.end # {} ->
              LET s == CHOOSE x \in r.start : TRUE
                  e == CHOOSE x \in r.end : TRUE
              IN  IF s > e \/ s >= size THEN Unsatisfiable ELSE ByteRange(s, Least2(e, size - 1))
         [] r.start # {} /\ r.end = {} ->
              LET s == CHOOSE x \in r.start : TRUE
              IN  IF s >= size THEN Unsatisfiable ELSE ByteRange(s, size - 1)
         [] r.start = {} /\ r.end # {} ->
              LET n == CHOOSE x \in r.end : TRUE
              IN  IF n = 0 THEN Unsatisfiable
                  ELSE ByteRange(IF n > size THEN 0 ELSE size - n, size - 1)
         [] OTHER -> Unsatisfiable

-----------------------------------------------------------------------------
(* The requests of a client: a download, which starts again where it broke *)
(* off on condition that the object is still the one it began with; a      *)
(* cache, which revalidates its copy by tag and date; and requests with a  *)
(* range, conditions and response overrides of every kind.                 *)

TagOf(v) == {Etag(Versions[v].etag)}

Condition ==
  IF reader.kind = "ask" THEN reader.condition
  ELSE IF copy.version = 0 THEN NoCondition
  ELSE IF reader.kind = "download" THEN [NoCondition EXCEPT !.match = TagOf(copy.version)]
  ELSE [NoCondition EXCEPT !.none = {[weak |-> TRUE, name |-> Versions[copy.version].etag]},
                           !.modified = {HttpDate(Versions[copy.version].second)}]

RangeHeader ==
  IF reader.kind = "ask" THEN reader.range
  ELSE IF reader.kind = "download" /\ copy.version # 0 THEN RangeText({Len(copy.body)}, {})
  ELSE {}

(* A download asks until it has all, or is told that it cannot have it.    *)
SendRequest ==
  /\ opening = {} /\ stream = {} /\ requests < MaxRequests
  /\ reader.kind = "download" =>
       /\ reply.status \in {0, 200, 206, 500}
       /\ copy.version # 0 => Len(copy.body) < Len(Content(copy.version))
  /\ opening' = {[at |-> "metadata", version |-> 0, sure |-> FALSE]}
  /\ requests' = requests + 1
  /\ UNCHANGED <<fileVars, reader, copy, responseVars>>

-----------------------------------------------------------------------------
(* The handler.                                                            *)

(* A response without a body, and one that begins with size bytes to send. *)
Refused(status, v) ==
  /\ reply' = [NoReply EXCEPT !.status = status, !.version = v]
  /\ streamed' = <<>> /\ stream' = {}

Responds(status, o, first, length, size) ==
  /\ reply' = [status |-> status, version |-> o.version, file |-> data, sure |-> o.sure,
               length |-> length, first |-> first]
  /\ streamed' = <<>>
  /\ stream' = {[content |-> Content(data), pos |-> first, left |-> size]}

(* head_object of the store: the metadata is read, then the file is looked *)
(* for.                                                                    *)
read_metadata ==
  /\ \E o \in opening :
       /\ o.at = "metadata"
       /\ IF meta = 0 THEN opening' = {} /\ Refused(404, 0)
          ELSE /\ opening' = {[at |-> "stat", version |-> meta, sure |-> writing = "no"]}
               /\ UNCHANGED responseVars
  /\ UNCHANGED <<fileVars, clientVars>>

stat_object ==
  /\ \E o \in opening :
       /\ o.at = "stat"
       /\ IF data = 0 THEN opening' = {} /\ Refused(404, 0)
          ELSE opening' = {[o EXCEPT !.at = "open"]} /\ UNCHANGED responseVars
  /\ UNCHANGED <<fileVars, clientVars>>

(* get_object with the file open.  file_stream sends the file to its end,  *)
(* whatever length was announced.                                          *)
get_object(o) ==
  LET v == Versions[o.version]
      size == Len(v.content)
      status == conditional_response(Condition, v)
      r == parse_range_header(CHOOSE x \in RangeHeader : TRUE, size)
  IN  IF status # 200 THEN Refused(status, o.version)
      ELSE IF RangeHeader # {} /\ ~r.ok THEN Refused(416, o.version)
      ELSE IF reader.overrides = "invalid" THEN Refused(400, o.version)
      ELSE IF RangeHeader = {} THEN Responds(200, o, 0, size, Len(Content(data)))
      ELSE Responds(206, o, r.first, r.last - r.first + 1, r.last - r.first + 1)

open_object ==
  /\ \E o \in opening :
       /\ o.at = "open"
       /\ IF data = 0 THEN Refused(404, 0) ELSE get_object(o)
  /\ opening' = {}
  /\ UNCHANGED <<fileVars, clientVars>>

(* One of the three calls fails, or the seek that follows them.            *)
OpenFails ==
  /\ opening # {}
  /\ opening' = {} /\ Refused(500, 0)
  /\ UNCHANGED <<fileVars, clientVars>>

(* file_stream_limited and file_stream: a read may return fewer bytes than *)
(* were asked for, and none past the end of the file.                      *)
SendBytes ==
  /\ \E s \in stream :
       \E n \in 1..Least2(reader.buffer, s.left) :
         /\ s.pos + n <= Len(s.content)
         /\ streamed' = streamed \o SubSeq(s.content, s.pos + 1, s.pos + n)
         /\ stream' = {[s EXCEPT !.pos = @ + n, !.left = @ - n]}
  /\ UNCHANGED <<fileVars, clientVars, opening, reply>>

(* The response ended, or its connection broke: what came is kept by a     *)
(* download, and by a cache if it is whole.                                *)
EndOfBody ==
  /\ stream # {}
  /\ stream' = {}
  /\ LET kept == [body |-> streamed, version |-> reply.version, sure |-> reply.sure]
     IN  copy' = CASE reader.kind = "download" /\ reply.status = 206 ->
                        [copy EXCEPT !.body = @ \o streamed, !.sure = @ /\ reply.sure]
                   [] reader.kind = "download" /\ reply.status = 200 -> kept
                   [] reader.kind = "cache" /\ Len(streamed) = reply.length -> kept
                   [] OTHER -> copy
  /\ UNCHANGED <<fileVars, reader, requests, opening, reply, streamed>>

-----------------------------------------------------------------------------
(* The writer: PutObject renames the object file into place, then the      *)
(* metadata, and puts the earlier file back when the second rename fails;  *)
(* DeleteObject removes the metadata, then the object file, which it may   *)
(* fail to do.  Crashes and the other failures are in ObjectStore.         *)

Unsure == opening' = {[o EXCEPT !.sure = FALSE] : o \in opening}

BeginWrite ==
  /\ writing = "no"
  /\ \/ \E v \in DOMAIN Versions : data' = v /\ writing' = "put" /\ UNCHANGED meta
     \/ meta # 0 /\ meta' = 0 /\ writing' = "delete" /\ UNCHANGED data
  /\ Unsure
  /\ UNCHANGED <<clientVars, responseVars>>

EndWrite ==
  /\ \/ writing = "put" /\ meta' = data /\ UNCHANGED data
     \/ writing = "put" /\ data' = meta /\ UNCHANGED meta
     \/ writing = "delete" /\ data' \in {0, data} /\ UNCHANGED meta
  /\ writing' = "no"
  /\ Unsure
  /\ UNCHANGED <<clientVars, responseVars>>

ReadNext ==
  \/ SendRequest \/ read_metadata \/ stat_object \/ open_object \/ OpenFails
  \/ SendBytes \/ EndOfBody \/ BeginWrite \/ EndWrite

ReadSpec == ReadInit(Readers) /\ [][ReadNext]_readVars

-----------------------------------------------------------------------------
(* A download resumed with If-Match is at every time the beginning of one  *)
(* version, the one it started with: ranges leave no gap, repeat nothing,  *)
(* and never mix versions, whenever the object is replaced between its     *)
(* requests and while their bodies are sent.  It is not promised to one    *)
(* with a response whose open_object ran beside a write: its bytes may be  *)
(* of another version than its ETag.                                       *)
DownloadIsOneVersion ==
  reader.kind = "download" /\ copy.version # 0 /\ copy.sure =>
    /\ Len(copy.body) <= Len(Content(copy.version))
    /\ copy.body = SubSeq(Content(copy.version), 1, Len(copy.body))

(* A cache told that its copy is not modified has the bytes of the version *)
(* whose metadata was in place, which is all a 304 is decided from, also   *)
(* when the object was replaced within the second of the copy's date; if   *)
(* the response it was copied from was sure.                               *)
NotModifiedIsFresh ==
  reader.kind = "cache" /\ reply.status = 304 =>
    /\ Content(copy.version) = Content(reply.version)
    /\ copy.sure => copy.body = Content(reply.version)

(* The bytes a range of the request names in an object of the given size.  *)
NamedBytes(r, size) ==
  {i \in 0..(size - 1) :
     IF r.start = {} THEN \E n \in r.end : i >= size - n \/ n >= size
     ELSE (\A s \in r.start : i >= s) /\ (\A e \in r.end : i <= e)}

Inverted(r) == \E s \in r.start, e \in r.end : s > e

(* A partial response announces exactly the bytes the range names in the   *)
(* version its headers describe, and a range is refused exactly when it    *)
(* names none or a position in it is no u64.  What is streamed is the      *)
(* content of the opened file from the announced position, in order and    *)
(* never more than a range announced, and the file is of the version       *)
(* described when the response is sure.                                    *)
RangeIsExact ==
  /\ reader.kind = "ask" /\ reply.status \in {206, 416} => \A r \in reader.range :
       LET bytes == IF r.form = "range" /\ Parsed(r) /\ ~Inverted(r)
                      THEN NamedBytes(r, Len(Content(reply.version))) ELSE {}
       IN  IF reply.status = 416 THEN bytes = {}
           ELSE bytes = reply.first..(reply.first + reply.length - 1)
  /\ reply.status \in {200, 206} =>
       /\ streamed = SubSeq(Content(reply.file), reply.first + 1, reply.first + Len(streamed))
       /\ reply.sure => reply.file = reply.version
       /\ reply.sure \/ reply.status = 206 => Len(streamed) <= reply.length
=============================================================================
