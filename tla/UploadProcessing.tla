-------------------------- MODULE UploadProcessing --------------------------
(***************************************************************************)
(* What happens to an upload between its last byte and its publication:    *)
(* the staged file and its guard (src/storage/temp.rs), the chain of       *)
(* upload processors (process_staged_upload in src/middleware.rs), the     *)
(* summary of the final bytes (src/body/upload.rs) and the metadata that   *)
(* PutObject (src/handlers/put_object.rs) and CompleteMultipartUpload      *)
(* (src/storage/multipart.rs) commit with them.                            *)
(*                                                                         *)
(* Paths in tmp/ carry fresh UUIDs, so one upload is modelled.  Any        *)
(* filesystem call may fail.  A dropped handler leaves the call it awaits  *)
(* running on the blocking pool; its guard spawns the removal of the       *)
(* staged file beside it, in either order.  commit_staged_object is one    *)
(* step here; ObjectStore opens it up, with the metadata and rollback      *)
(* files it makes in tmp/.                                                 *)
(***************************************************************************)
EXTENDS Naturals, FiniteSets

CONSTANTS
  Contents,        \* what a file may hold
  Size,            \* Size[c]: the length of c
  MaxObjectSize,   \* UploadLimits::max_object_size
  MaxProcessors    \* bound on the configured processors

None == "none"          \* no file
Directory == "dir"      \* what a processor made at its replacement path is no file

ASSUME ContentSizes ==
  /\ Size \in [Contents -> Nat] /\ MaxObjectSize \in Nat /\ MaxProcessors \in Nat
  /\ None \notin Contents /\ Directory \notin Contents

Operations == {"PutObject", "CompleteMultipartUpload"}

VARIABLES
  operation,    \* the handler
  processors,   \* how many upload processors are configured
  requested,    \* the client asked for a full-object checksum
  pc,           \* the call the handler awaits
  body,         \* the decoded body, or the joined parts
  index,        \* the processor at work
  answer,       \* what it answered
  staged,       \* the staged file
  replacement,  \* replacement[i]: the file at the path reserved for processor i
  guard,        \* the TempFileCleanup guard is armed
  pending,      \* calls still running after the handler was dropped
  summary,      \* final_body: what the staged file held when it was read
  object,       \* what was committed, if anything: its bytes and metadata
  result,       \* the answer to the client
  approved,     \* bytes as the processors so far left them (history)
  failedRemoval \* some removal failed (history)

input == <<operation, processors, requested>>
files == <<staged, replacement>>
history == <<approved, failedRemoval>>
vars == <<input, pc, body, index, answer, files, guard, pending, summary, object,
          result, history>>

Answers == {"keep", "replace", "rejected", "failed"}
Results == {"ok", "denied", "internal", "too_large", "bad_body"}
PCs == {"body", "flush", "process", "unused", "metadata", "remove", "rename",
        "discard", "summarize", "commit", "ended", "dropped"}
Metadata == [size : Nat, etag : [kind : {"md5", "multipart"}, of : Contents],
             checksum : Contents \cup {None}]

(* Every variable keeps its type: only regular files become the staged     *)
(* file of an upload.                                                      *)
TypeOK ==
  /\ operation \in Operations /\ processors \in 0..MaxProcessors /\ requested \in BOOLEAN
  /\ pc \in PCs /\ index \in 1..(MaxProcessors + 1)
  /\ answer \in Answers \cup {None}
  /\ body \in Contents \cup {None} /\ staged \in Contents \cup {None}
  /\ replacement \in [1..MaxProcessors -> Contents \cup {None, Directory}]
  /\ guard \in BOOLEAN
  /\ pending \subseteq {"remove_staged", "rename", "remove_replacement", "write", "commit"}
  /\ summary \in Contents \cup {None} /\ approved \in Contents \cup {None}
  /\ object \subseteq [bytes : Contents, metadata : Metadata]
  /\ result \in Results \cup {None} /\ failedRemoval \in BOOLEAN

(* The temporary object exists, its guard armed, and the body is awaited.  *)
Init ==
  /\ operation \in Operations /\ processors \in 0..MaxProcessors /\ requested \in BOOLEAN
  /\ pc = "body" /\ index = 1 /\ answer = None
  /\ body = None /\ staged \in Contents    \* any prefix may have been written
  /\ replacement = [i \in 1..MaxProcessors |-> None]
  /\ guard = TRUE /\ pending = {}
  /\ summary = None /\ object = {} /\ result = None
  /\ approved = None /\ failedRemoval = FALSE

-----------------------------------------------------------------------------
(* Files and the ways a handler ends.                                      *)

SetReplacement(i, c) == replacement' = [replacement EXCEPT ![i] = c]
Goto(p) == pc' = p /\ UNCHANGED result
Answer(e) == pc' = "ended" /\ result' = e

(* The guard's Drop spawns the removal of the path it still holds.         *)
DropGuard ==
  /\ guard' = FALSE
  /\ pending' = IF guard THEN pending \cup {"remove_staged"} ELSE pending

(* discard disarms the guard and then awaits the removal.                  *)
Discard(e) == pc' = "discard" /\ result' = e /\ guard' = FALSE /\ UNCHANGED pending

(* remove_file succeeds, the file being there or not, or fails.            *)
Remove(file, file2) == file2 = None \/ (file # None /\ file2 = file)

-----------------------------------------------------------------------------
(* PutObject: write_upload_body decodes, limits and validates the body.    *)
receive_body ==
  /\ pc = "body" /\ operation = "PutObject"
  /\ \/ \E c \in Contents :
          /\ Size[c] <= MaxObjectSize
          /\ body' = c /\ staged' = c /\ approved' = c
          /\ Goto("flush") /\ UNCHANGED <<guard, pending>>
     \/ Discard("bad_body") /\ UNCHANGED <<body, staged, approved>>
  /\ UNCHANGED <<input, index, answer, replacement, summary, object, failedRemoval>>

(* complete_upload_after_transition joins the parts, limits their sum and  *)
(* validates the checksum of the whole.                                    *)
assemble_parts ==
  /\ pc = "body" /\ operation = "CompleteMultipartUpload"
  /\ \/ \E c \in Contents :
          /\ Size[c] <= MaxObjectSize
          /\ body' = c /\ staged' = c /\ approved' = c
          /\ Goto("flush") /\ UNCHANGED <<guard, pending>>
     \/ \E e \in {"internal", "too_large", "bad_body"} :
          Discard(e) /\ UNCHANGED <<body, staged, approved>>
  /\ UNCHANGED <<input, index, answer, replacement, summary, object, failedRemoval>>

(* After the last processor the staged file is summarised.                 *)
AfterProcessor(i) == IF i > processors THEN Goto("summarize") ELSE Goto("process")

(* An error drops the writer with its armed guard.                         *)
finish ==
  /\ pc = "flush"
  /\ \/ AfterProcessor(1) /\ UNCHANGED <<guard, pending>>
     \/ Answer("internal") /\ DropGuard
     \/ operation = "CompleteMultipartUpload" /\ Discard("internal")
  /\ UNCHANGED <<input, body, index, answer, files, summary, object, history>>

-----------------------------------------------------------------------------
(* process_staged_upload.                                                  *)

(* The processor writes to its replacement path, as often as it likes.     *)
write_replacement ==
  /\ pc = "process" /\ answer = None
  /\ \E c \in Contents \cup {Directory} : replacement[index] # c /\ SetReplacement(index, c)
  /\ UNCHANGED <<input, pc, body, index, answer, staged, guard, pending, summary,
                 object, result, history>>

MutantErrorAsKeep ==
  /\ pc = "process"
  /\ \E a \in Answers :
       /\ answer' = IF a = "failed" THEN "keep" ELSE a
       /\ Goto(IF a = "replace" THEN "metadata" ELSE "unused")
       /\ approved' = IF a \in {"rejected", "failed"} THEN None ELSE approved
  /\ UNCHANGED <<input, body, index, files, guard, pending, summary, object, failedRemoval>>

(* It answers; what it wrote counts only if it answers Replace.            *)
process ==
  /\ pc = "process"
  /\ \E a \in Answers :
       /\ answer' = a
       /\ Goto(IF a = "replace" THEN "metadata" ELSE "unused")
       /\ approved' = IF a \in {"rejected", "failed"} THEN None ELSE approved
  /\ UNCHANGED <<input, body, index, files, guard, pending, summary, object, failedRemoval>>

map_processor_error(a) == IF a = "rejected" THEN "denied" ELSE "internal"

Advance ==
  /\ AfterProcessor(index + 1)
  /\ index' = index + 1 /\ answer' = None

MutantUnusedOnlyOnError ==
  /\ pc = "unused"
  /\ \/ answer = "keep" /\ Advance /\ UNCHANGED <<replacement, guard, pending>>
     \/ answer # "keep" /\ SetReplacement(index, None)
          /\ Discard(map_processor_error(answer)) /\ UNCHANGED <<index, answer>>
  /\ UNCHANGED <<input, body, staged, summary, object, history>>

(* remove_unused_replacement; its failure replaces the processor's answer  *)
(* and leaves the staged file to the guard.  remove_file fails on a        *)
(* directory.                                                              *)
remove_unused_replacement ==
  /\ pc = "unused"
  /\ \/ /\ replacement[index] # Directory
        /\ SetReplacement(index, None)
        /\ \/ answer = "keep" /\ Advance /\ UNCHANGED <<guard, pending>>
           \/ /\ answer # "keep" /\ Discard(map_processor_error(answer))
              /\ UNCHANGED <<index, answer>>
        /\ UNCHANGED failedRemoval
     \/ /\ replacement[index] # None
        /\ Answer("internal") /\ DropGuard
        /\ failedRemoval' = TRUE
        /\ UNCHANGED <<index, answer, replacement>>
  /\ UNCHANGED <<input, body, staged, summary, object, approved>>

(* replace_with: the replacement must be a file; the staged file is        *)
(* removed and the replacement renamed to its path.                        *)
check_replacement ==
  /\ pc = "metadata"
  /\ \/ replacement[index] \in Contents /\ Goto("remove") /\ UNCHANGED <<guard, pending>>
     \/ Discard("internal")
  /\ UNCHANGED <<input, body, index, answer, files, summary, object, history>>

remove_staged ==
  /\ pc = "remove"
  /\ \/ staged' = None /\ Goto("rename") /\ UNCHANGED <<guard, pending, failedRemoval>>
     \/ Discard("internal") /\ failedRemoval' = TRUE /\ UNCHANGED staged
  /\ UNCHANGED <<input, body, index, answer, replacement, summary, object, approved>>

Renamed == staged' = replacement[index] /\ SetReplacement(index, None)

rename_replacement ==
  /\ pc = "rename"
  /\ \/ /\ Renamed /\ Advance
        /\ approved' = replacement[index]
        /\ UNCHANGED <<guard, pending>>
     \/ Discard("internal") /\ UNCHANGED <<index, answer, files, approved>>
  /\ UNCHANGED <<input, body, summary, object, failedRemoval>>

-----------------------------------------------------------------------------
(* Both handlers, after the processors.                                    *)

(* The final bytes are read again and held against the size limit.  Then   *)
(* commit_staged_object takes the staged file over and disarms the guard,  *)
(* before its first await.                                                 *)
summarize_staged_upload ==
  /\ pc = "summarize"
  /\ \/ /\ staged # None
        /\ summary' = staged
        /\ \/ /\ Size[staged] <= MaxObjectSize /\ Goto("commit")
              /\ guard' = FALSE /\ UNCHANGED pending
           \/ Size[staged] > MaxObjectSize /\ Discard("too_large")
     \/ Discard("internal") /\ UNCHANGED summary
  /\ UNCHANGED <<input, body, index, answer, files, object, history>>

MutantEchoOriginal ==
  [size |-> Size[summary],
   etag |-> IF operation = "PutObject" \/ processors > 0
              THEN [kind |-> "md5", of |-> summary]
              ELSE [kind |-> "multipart", of |-> body],
   checksum |-> IF requested THEN body ELSE None]

(* Digests are ideal: the digest of c is c.  Without processors the values *)
(* the client sent, validated against the body, are echoed.  The ETag of   *)
(* joined parts is made of the MD5s the session lists for them; that they  *)
(* are those of the bytes joined is CompletedBytesMatch of MultipartStore. *)
FinalMetadata ==
  [size |-> Size[summary],
   etag |-> IF operation = "PutObject" \/ processors > 0
              THEN [kind |-> "md5", of |-> summary]
              ELSE [kind |-> "multipart", of |-> body],
   checksum |-> IF ~requested THEN None ELSE IF processors = 0 THEN body ELSE summary]

(* The object is in place with its metadata, the staged file moved.        *)
InPlace ==
  /\ object' = {[bytes |-> staged, metadata |-> FinalMetadata]}
  /\ staged' = None /\ UNCHANGED failedRemoval

(* The commit fails before its renames, or undoes them, and removes what   *)
(* is left of the staged file; or it fails removing a rollback file, when  *)
(* the object is in place.                                                 *)
commit_staged_object ==
  /\ pc = "commit"
  /\ \/ InPlace /\ (Answer("ok") \/ Answer("internal"))
     \/ /\ Answer("internal")
        /\ Remove(staged, staged') /\ failedRemoval' = (failedRemoval \/ staged' # None)
        /\ UNCHANGED object
  /\ UNCHANGED <<input, body, index, answer, replacement, guard, pending, summary, approved>>

(* The awaited removal of discard.                                         *)
discard ==
  /\ pc = "discard"
  /\ Remove(staged, staged') /\ failedRemoval' = (failedRemoval \/ staged' # None)
  /\ pc' = "ended"
  /\ UNCHANGED <<input, body, index, answer, replacement, guard, pending, summary,
                 object, result, approved>>

-----------------------------------------------------------------------------
(* A timeout or a disconnect drops the handler at an await: the call in    *)
(* flight goes on, and the guard, if still armed, spawns the removal.      *)
InFlight ==
  CASE pc = "process" -> {"write"}
    [] pc = "unused" -> {"remove_replacement"}
    [] pc \in {"remove", "discard"} -> {"remove_staged"}
    [] pc = "rename" -> {"rename"}
    [] pc = "commit" -> {"commit"}
    [] OTHER -> {}

MutantDropUnguarded ==
  /\ pc \notin {"ended", "dropped"}
  /\ pc' = "dropped"
  /\ guard' = FALSE
  /\ pending' = InFlight
  /\ UNCHANGED <<input, body, index, answer, files, summary, object, result, history>>

Drop ==
  /\ pc \notin {"ended", "dropped"}
  /\ pc' = "dropped"
  /\ guard' = FALSE
  /\ pending' = InFlight \cup (IF guard THEN {"remove_staged"} ELSE {})
  /\ UNCHANGED <<input, body, index, answer, files, summary, object, result, history>>

(* A call left running on the blocking pool takes effect.  A commit gets   *)
(* as far as it was: nothing moved, the staged file moved (the metadata    *)
(* not: ObjectStore), or both.                                             *)
late_call ==
  \E call \in pending :
    /\ pending' = pending \ {call}
    /\ \/ call = "remove_staged" /\ Remove(staged, staged')
            /\ failedRemoval' = (failedRemoval \/ staged' # None)
            /\ UNCHANGED <<replacement, object>>
       \/ call = "remove_replacement" /\ UNCHANGED <<staged, object>>
            /\ \E c \in {None, replacement[index]} :
                 /\ replacement[index] = Directory => c = Directory
                 /\ SetReplacement(index, c)
                 /\ failedRemoval' = (failedRemoval \/ c # None)
       \/ call = "rename" /\ (Renamed \/ UNCHANGED files) /\ UNCHANGED <<object, failedRemoval>>
       \/ call = "write" /\ UNCHANGED <<staged, object, failedRemoval>>
            /\ \E c \in Contents \cup {replacement[index]} : SetReplacement(index, c)
       \/ call = "commit" /\ UNCHANGED replacement
            /\ \/ InPlace
               \/ staged' \in {staged, None} /\ UNCHANGED <<object, failedRemoval>>
    /\ UNCHANGED <<input, pc, body, index, answer, guard, summary, result, approved>>

-----------------------------------------------------------------------------
Handle ==
  \/ receive_body \/ assemble_parts \/ finish
  \/ process \/ remove_unused_replacement
  \/ check_replacement \/ remove_staged \/ rename_replacement
  \/ summarize_staged_upload \/ commit_staged_object \/ discard

Next == Handle \/ write_replacement \/ Drop \/ late_call

Spec == Init /\ [][Next]_vars

-----------------------------------------------------------------------------
(* What is committed is what the last processor to answer Replace wrote,   *)
(* or the client's own bytes if none did, and every processor has          *)
(* approved: an upload that one of them rejected or failed is never        *)
(* committed, whatever calls fail on the way.                              *)
CommittedAsApproved ==
  \A o \in object : o.bytes = approved /\ index = processors + 1

(* The committed size, ETag and checksum describe the committed bytes and  *)
(* not the bytes the client sent, and the bytes respect the size limit     *)
(* although processors may have grown them.                                *)
MetadataDescribesBytes ==
  \A o \in object :
    /\ o.metadata.size = Size[o.bytes]
    /\ o.metadata.etag.of = o.bytes
    /\ requested => o.metadata.checksum = o.bytes
    /\ Size[o.bytes] <= MaxObjectSize

AtRest == pc \in {"ended", "dropped"} /\ pending = {}

(* A handler that answers leaves nothing in tmp/, on any path, unless a    *)
(* removal failed - with one exception: when replace_with fails (the       *)
(* processor left no regular file, or the rename failed) what the          *)
(* processor left at its replacement path stays, since nothing guards it.  *)
AnswerLeavesNoFiles ==
  AtRest /\ pc = "ended" /\ ~failedRemoval =>
    /\ staged = None
    /\ \A i \in 1..MaxProcessors : replacement[i] # None =>
         i = index /\ answer = "replace" /\ result = "internal"

(* Only a handler that was dropped in the commit has a summary and no      *)
(* answer.                                                                 *)
DroppedInCommit == summary # None /\ result = None

(* A dropped handler's staged file goes too, with two exceptions: the      *)
(* rename of replace_with was in flight and overtaken by the guard's       *)
(* removal, or the handler was dropped in commit_staged_object, which has  *)
(* disarmed the guard.  Of the processors at most the one at work leaves   *)
(* its replacement, and none does once the commit has begun.               *)
DropLeavesLittle ==
  AtRest /\ pc = "dropped" /\ ~failedRemoval =>
    /\ \/ staged = None
       \/ answer = "replace" /\ replacement[index] = None
       \/ DroppedInCommit
    /\ \A i \in 1..MaxProcessors :
         replacement[i] # None => i = index /\ ~DroppedInCommit
=============================================================================
