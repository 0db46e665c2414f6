---------------------------- MODULE ObjectStore ----------------------------
(***************************************************************************)
(* FileObjectStore (src/storage/object.rs) under concurrent requests.      *)
(*                                                                         *)
(* An object is two published files, its bytes (objects/<digest>.data) and *)
(* its metadata (metadata/<digest>.json); everything an upload prepares    *)
(* lives in tmp/ under names made from a fresh UUID, so no two uploads     *)
(* share a temporary file.  Every awaited filesystem call is one action:   *)
(* between two of them any other request may run.  A request is named by   *)
(* an identifier, and a PUT's bytes and metadata by the identifier of the  *)
(* PUT, so "bytes of u beside metadata of v" is object[k] = u and          *)
(* metadata[k] = v.                                                        *)
(*                                                                         *)
(* Faults: a filesystem call may fail without effect (at most MaxFailures  *)
(* times), a handler future may be dropped at an await (MayCancel: tenant  *)
(* timeout or client disconnect), the process may crash (MayCrash).  tokio *)
(* runs a filesystem call on its blocking pool: dropping the future that   *)
(* awaits it does not stop it, so a cancelled request still performs the   *)
(* call it was waiting for, at any later time, and nothing after it.       *)
(***************************************************************************)
EXTENDS Naturals, FiniteSets

CONSTANTS
  Keys,         \* bucket/key pairs, one digest each
  Puts,         \* requests that stage and commit an object
  Deletes,      \* DeleteObject requests
  Gets,         \* GetObject requests
  Heads,        \* HeadObject requests
  KeyOf,        \* KeyOf[r] is the key request r addresses
  Nil,          \* no file
  Partial,      \* a file whose writer has not finished
  Overlap,      \* TRUE: requests on a key overlap; FALSE: clients take turns
  FailingCalls, \* kinds of filesystem call that may fail
  MaxFailures,  \* bound on filesystem calls that fail
  MayCancel,    \* handler futures may be dropped
  MayCrash      \* the process may crash and restart

Requests == Puts \cup Deletes \cup Gets \cup Heads
Readers == Gets \cup Heads

ASSUME KindsDisjoint ==
  /\ Puts \cap (Deletes \cup Readers) = {}
  /\ Deletes \cap Readers = {}
  /\ Gets \cap Heads = {}

ASSUME SentinelsDistinct ==
  /\ Nil # Partial
  /\ Nil \notin Puts
  /\ Partial \notin Puts

ASSUME DeletesNamed == Nil \notin Deletes

ASSUME ParameterTypes ==
  /\ KeyOf \in [Requests -> Keys]
  /\ MaxFailures \in Nat

ASSUME EnvironmentTypes ==
  /\ FailingCalls \subseteq {"write", "link", "rename", "remove", "read"}
  /\ Overlap \in BOOLEAN
  /\ MayCancel \in BOOLEAN
  /\ MayCrash \in BOOLEAN

VARIABLES
  object,    \* object[k]: upload whose bytes are published under k, or Nil
  metadata,  \* metadata[k]: upload whose metadata is published under k, or Nil
  tmp,       \* tmp[u]: the files of upload u in tmp/
  pc,        \* the filesystem call request r performs next
  reply,     \* what request r has been answered
  got,       \* what reader r has read so far
  phase,     \* startup step, or "serving"
  failures,  \* filesystem calls that have failed
  last       \* last[k]: the PUT or DELETE on k that began last, Nil if another
             \* was still running then (history)

vars == <<object, metadata, tmp, pc, reply, got, phase, failures, last>>
published == <<object, metadata>>
rest == <<got, phase, last>>

(* The files of one upload in tmp/: <id> itself, <id>.metadata.json and    *)
(* the two hard-linked rollback files.  A rollback file exists exactly     *)
(* while the had_object or had_metadata local of its commit is true.       *)
TmpFiles == {"data", "meta", "objBackup", "metaBackup"}
NoTmp == [f \in TmpFiles |-> Nil]
Content == Puts \cup {Nil, Partial}

Startup == {"rmTmp", "rmObjects", "rmMetadata"}
CommitSteps ==
  {"writeMeta", "backupObj", "backupMeta", "renameObj", "renameMeta",
   "rbRmObj", "rbObj", "rbRmMeta", "rbMeta", "rmObjBackup", "rmMetaBackup",
   "cleanData", "cleanMeta", "cleanObjBackup", "cleanMetaBackup"}
PutSteps == {"create", "write", "staged", "discard"} \cup CommitSteps
DeleteSteps == {"delMeta", "delObj"}
ReadSteps == {"readMeta", "statObj", "openObj"}
Steps == {"idle", "done"} \cup PutSteps \cup DeleteSteps \cup ReadSteps
Replies == {"none", "ok", "err", "cancelled"}

TypeOK ==
  /\ object \in [Keys -> Content]
  /\ metadata \in [Keys -> Content]
  /\ tmp \in [Puts -> [TmpFiles -> Content]]
  /\ pc \in [Requests -> Steps]
  /\ reply \in [Requests -> Replies]
  /\ got \in [Readers -> [meta : Puts \cup {Nil}, bytes : Puts \cup {Nil}]]
  /\ phase \in Startup \cup {"serving"}
  /\ failures \in 0..MaxFailures
  /\ last \in [Keys -> Puts \cup Deletes \cup {Nil}]

Init ==
  /\ object = [k \in Keys |-> Nil]
  /\ metadata = [k \in Keys |-> Nil]
  /\ tmp = [u \in Puts |-> NoTmp]
  /\ pc = [r \in Requests |-> "idle"]
  /\ reply = [r \in Requests |-> "none"]
  /\ got = [r \in Readers |-> [meta |-> Nil, bytes |-> Nil]]
  /\ phase = "serving"
  /\ failures = 0
  /\ last = [k \in Keys |-> Nil]

-----------------------------------------------------------------------------
(* Requests and the calls they make.                                       *)

Cancelled(r) == reply[r] = "cancelled"
Running(r) == pc[r] \notin {"idle", "done"}
InFlight(r) == Running(r) /\ ~Cancelled(r)
Quiet(k) == \A r \in Requests : KeyOf[r] = k => ~Running(r)
Contended(k) == \E w \in Puts \cup Deletes : KeyOf[w] = k /\ Running(w)

(* The call of a dropped future runs, what follows it does not.            *)
Step(r, next) ==
  /\ pc' = [pc EXCEPT ![r] = IF Cancelled(r) THEN "done" ELSE next]
  /\ UNCHANGED reply

Answer(r, a) ==
  /\ pc' = [pc EXCEPT ![r] = "done"]
  /\ reply' = [reply EXCEPT ![r] = IF Cancelled(r) THEN @ ELSE a]

(* What a call leaves in file f of upload u.                               *)
SetTmp(u, f, c) == tmp' = [tmp EXCEPT ![u][f] = c]
SetObject(r, c) == object' = [object EXCEPT ![KeyOf[r]] = c]
SetMetadata(r, c) == metadata' = [metadata EXCEPT ![KeyOf[r]] = c]

(* What rename(2) leaves at its source: nothing, but it does nothing when  *)
(* source and target are links to one file.                                *)
LeftBehind(source, target) == IF source = target THEN source ELSE Nil

Succeeds == UNCHANGED failures

Fails(call) ==
  /\ call \in FailingCalls
  /\ failures < MaxFailures
  /\ failures' = failures + 1

(* The dispatcher hands request r to its handler, which issues its first   *)
(* call.  A client that takes turns first waits for the answer to its last *)
(* request on the key.                                                     *)
Begin(r) ==
  /\ phase = "serving"
  /\ pc[r] = "idle"
  /\ Overlap \/ \A s \in Requests : KeyOf[s] = KeyOf[r] => ~InFlight(s)
  /\ Step(r, CASE r \in Puts -> "create"
               [] r \in Deletes -> "delMeta"
               [] r \in Readers -> "readMeta")
  /\ last' = IF r \in Readers THEN last
                ELSE [last EXCEPT ![KeyOf[r]] = IF Contended(KeyOf[r]) THEN Nil ELSE r]
  /\ UNCHANGED <<published, tmp, got, phase, failures>>

-----------------------------------------------------------------------------
(* PUT: staging.  The TempFileCleanup guard is armed until the commit.     *)

create_temp_object(u) ==
  /\ pc[u] = "create"
  /\ \/ Succeeds /\ SetTmp(u, "data", Partial) /\ Step(u, "write")
     \/ Fails("write") /\ Answer(u, "err") /\ UNCHANGED tmp
  /\ UNCHANGED <<published, rest>>

(* The body was received and validated and TempObjectWriter::finish has    *)
(* flushed it.                                                             *)
finish(u) ==
  /\ pc[u] = "write"
  /\ SetTmp(u, "data", u)
  /\ Step(u, "staged")
  /\ UNCHANGED <<published, failures, rest>>

(* The body, a checksum, a processor or a size limit refuses the upload.   *)
refuse_upload(u) ==
  /\ pc[u] \in {"write", "staged"}
  /\ Step(u, "discard")
  /\ UNCHANGED <<published, tmp, failures, rest>>

(* discard, or the removal the guard's Drop spawns; its error is dropped.  *)
discard(u) ==
  /\ pc[u] = "discard"
  /\ \/ Succeeds /\ SetTmp(u, "data", Nil)
     \/ Fails("remove") /\ UNCHANGED tmp
  /\ Answer(u, "err")
  /\ UNCHANGED <<published, rest>>

-----------------------------------------------------------------------------
(* PUT: commit_staged_object, one action per filesystem call.              *)

MutantCommitUnfinished(u) ==
  /\ pc[u] \in {"write", "staged"}
  /\ Succeeds
  /\ Step(u, "writeMeta")
  /\ UNCHANGED <<published, tmp, rest>>

(* into_parts disarms the guard; both parent directories are created.      *)
start_commit(u) ==
  /\ pc[u] = "staged"
  /\ \/ Succeeds /\ Step(u, "writeMeta")
     \/ Fails("write") /\ Step(u, "cleanData")
  /\ UNCHANGED <<published, tmp, rest>>

write_metadata_tmp(u) ==
  /\ pc[u] = "writeMeta"
  /\ \/ Succeeds /\ SetTmp(u, "meta", u) /\ Step(u, "backupObj")
     \/ /\ Fails("write")
        /\ \E left \in {Nil, Partial} : SetTmp(u, "meta", left)
        /\ Step(u, "cleanData")
  /\ UNCHANGED <<published, rest>>

MutantBackupByRename(u, step, source, backup, next) ==
  /\ pc[u] = step
  /\ SetTmp(u, backup, source)
  /\ IF backup = "objBackup" THEN SetObject(u, Nil) /\ UNCHANGED metadata
                             ELSE SetMetadata(u, Nil) /\ UNCHANGED object
  /\ Step(u, next)
  /\ UNCHANGED <<failures, rest>>

backup_existing_file(u, step, source, backup, next) ==
  /\ pc[u] = step
  /\ \/ Succeeds /\ SetTmp(u, backup, source) /\ Step(u, next)
     \/ Fails("link") /\ Step(u, "cleanData") /\ UNCHANGED tmp
  /\ UNCHANGED <<published, rest>>

backup_previous(u) ==
  \/ backup_existing_file(u, "backupObj", object[KeyOf[u]], "objBackup", "backupMeta")
  \/ backup_existing_file(u, "backupMeta", metadata[KeyOf[u]], "metaBackup", "renameObj")

rename_object(u) ==
  /\ pc[u] = "renameObj"
  /\ \/ /\ Succeeds
        /\ SetObject(u, tmp[u]["data"])
        /\ SetTmp(u, "data", Nil)
        /\ Step(u, "renameMeta")
     \/ Fails("rename") /\ Step(u, "cleanData") /\ UNCHANGED <<object, tmp>>
  /\ UNCHANGED <<metadata, rest>>

MutantAckBeforeRename(u) ==
  /\ pc[u] = "renameMeta"
  /\ reply' = [reply EXCEPT ![u] = "ok"]
  /\ pc' = [pc EXCEPT ![u] = "rmObjBackup"]
  /\ UNCHANGED <<published, tmp, failures, rest>>

rename_metadata(u) ==
  /\ pc[u] = "renameMeta"
  /\ \/ /\ Succeeds
        /\ SetMetadata(u, tmp[u]["meta"])
        /\ SetTmp(u, "meta", Nil)
        /\ Step(u, "rmObjBackup")
     \/ Fails("rename") /\ Step(u, "rbRmObj") /\ UNCHANGED <<metadata, tmp>>
  /\ UNCHANGED <<object, rest>>

MutantRollbackLosesObject(u) ==
  /\ pc[u] = "rbRmObj"
  /\ SetObject(u, Nil)
  /\ Step(u, "rbRmMeta")
  /\ UNCHANGED <<metadata, tmp, failures, rest>>

(* rollback_published_file on the bytes: remove them, then rename the      *)
(* rollback file back when there is one.  Neither error stops it.          *)
rollback_object(u) ==
  /\ \/ /\ pc[u] = "rbRmObj"
        /\ \/ Succeeds /\ SetObject(u, Nil)
           \/ Fails("remove") /\ UNCHANGED object
        /\ Step(u, IF tmp[u]["objBackup"] # Nil THEN "rbObj" ELSE "rbRmMeta")
        /\ UNCHANGED tmp
     \/ /\ pc[u] = "rbObj"
        /\ \/ /\ Succeeds
              /\ SetObject(u, tmp[u]["objBackup"])
              /\ SetTmp(u, "objBackup", LeftBehind(tmp[u]["objBackup"], object[KeyOf[u]]))
           \/ Fails("rename") /\ UNCHANGED <<object, tmp>>
        /\ Step(u, "rbRmMeta")
  /\ UNCHANGED <<metadata, rest>>

MutantRollbackLosesMetadata(u) ==
  /\ pc[u] = "rbRmMeta"
  /\ SetMetadata(u, Nil)
  /\ Step(u, "cleanData")
  /\ UNCHANGED <<object, tmp, failures, rest>>

(* The same on the metadata.                                               *)
rollback_metadata(u) ==
  /\ \/ /\ pc[u] = "rbRmMeta"
        /\ \/ Succeeds /\ SetMetadata(u, Nil)
           \/ Fails("remove") /\ UNCHANGED metadata
        /\ Step(u, IF tmp[u]["metaBackup"] # Nil THEN "rbMeta" ELSE "cleanData")
        /\ UNCHANGED tmp
     \/ /\ pc[u] = "rbMeta"
        /\ \/ /\ Succeeds
              /\ SetMetadata(u, tmp[u]["metaBackup"])
              /\ SetTmp(u, "metaBackup", LeftBehind(tmp[u]["metaBackup"], metadata[KeyOf[u]]))
           \/ Fails("rename") /\ UNCHANGED <<metadata, tmp>>
        /\ Step(u, "cleanData")
  /\ UNCHANGED <<object, rest>>

(* remove_backup_file: an error is returned although the pair is published *)
remove_backups(u) ==
  /\ \/ /\ pc[u] = "rmObjBackup"
        /\ \/ Succeeds /\ SetTmp(u, "objBackup", Nil) /\ Step(u, "rmMetaBackup")
           \/ /\ tmp[u]["objBackup"] # Nil
              /\ Fails("remove") /\ Step(u, "cleanData") /\ UNCHANGED tmp
     \/ /\ pc[u] = "rmMetaBackup"
        /\ \/ Succeeds /\ SetTmp(u, "metaBackup", Nil) /\ Answer(u, "ok")
           \/ /\ tmp[u]["metaBackup"] # Nil
              /\ Fails("remove") /\ Step(u, "cleanData") /\ UNCHANGED tmp
  /\ UNCHANGED <<published, rest>>

(* The four best-effort removals after an error, in the code's order.      *)
clean_up(u, step, f, next) ==
  /\ pc[u] = step
  /\ \/ Succeeds /\ SetTmp(u, f, Nil)
     \/ Fails("remove") /\ UNCHANGED tmp
  /\ IF next = "done" THEN Answer(u, "err") ELSE Step(u, next)
  /\ UNCHANGED <<published, rest>>

MutantForgetMetadataTmp(u) ==
  \/ clean_up(u, "cleanData", "data", "cleanObjBackup")
  \/ clean_up(u, "cleanObjBackup", "objBackup", "cleanMetaBackup")
  \/ clean_up(u, "cleanMetaBackup", "metaBackup", "done")

clean_up_failed_commit(u) ==
  \/ clean_up(u, "cleanData", "data", "cleanMeta")
  \/ clean_up(u, "cleanMeta", "meta", "cleanObjBackup")
  \/ clean_up(u, "cleanObjBackup", "objBackup", "cleanMetaBackup")
  \/ clean_up(u, "cleanMetaBackup", "metaBackup", "done")

commit_staged_object(u) ==
  \/ start_commit(u) \/ write_metadata_tmp(u) \/ backup_previous(u)
  \/ rename_object(u) \/ rename_metadata(u)
  \/ rollback_object(u) \/ rollback_metadata(u)
  \/ remove_backups(u) \/ clean_up_failed_commit(u)

Put(u) ==
  \/ create_temp_object(u) \/ finish(u)
  \/ refuse_upload(u) \/ discard(u)
  \/ commit_staged_object(u)

-----------------------------------------------------------------------------
(* DELETE: metadata first; without metadata the bytes are left alone.      *)

delete_metadata(d) ==
  /\ pc[d] = "delMeta"
  /\ \/ Succeeds /\ metadata[KeyOf[d]] = Nil /\ Answer(d, "ok") /\ UNCHANGED metadata
     \/ Succeeds /\ metadata[KeyOf[d]] # Nil /\ SetMetadata(d, Nil) /\ Step(d, "delObj")
     \/ Fails("remove") /\ Answer(d, "err") /\ UNCHANGED metadata
  /\ UNCHANGED <<object, tmp, rest>>

delete_bytes(d) ==
  /\ pc[d] = "delObj"
  /\ \/ Succeeds /\ SetObject(d, Nil) /\ Answer(d, "ok")
     \/ Fails("remove") /\ Answer(d, "err") /\ UNCHANGED object
  /\ UNCHANGED <<metadata, tmp, rest>>

delete_object(d) == delete_metadata(d) \/ delete_bytes(d)

-----------------------------------------------------------------------------
(* GET and HEAD: metadata is read, the bytes are stat'ed, then opened.  An *)
(* answer "ok" with got[r].meta = Nil is the code's Ok(None).              *)

NotFound(r) == got' = [got EXCEPT ![r].meta = Nil] /\ Answer(r, "ok")
ReadFails(r) == Fails("read") /\ Answer(r, "err") /\ UNCHANGED got
unread == <<published, tmp, phase, last>>

read_metadata(r) ==
  /\ pc[r] = "readMeta"
  /\ \/ Succeeds /\ metadata[KeyOf[r]] = Nil /\ NotFound(r)
     \/ /\ Succeeds
        /\ metadata[KeyOf[r]] # Nil
        /\ got' = [got EXCEPT ![r].meta = metadata[KeyOf[r]]]
        /\ Step(r, "statObj")
     \/ ReadFails(r)
  /\ UNCHANGED unread

stat_object(r) ==
  /\ pc[r] = "statObj"
  /\ \/ Succeeds /\ object[KeyOf[r]] = Nil /\ NotFound(r)
     \/ /\ Succeeds
        /\ object[KeyOf[r]] # Nil
        /\ IF r \in Heads THEN Answer(r, "ok") ELSE Step(r, "openObj")
        /\ UNCHANGED got
     \/ ReadFails(r)
  /\ UNCHANGED unread

head_object(r) == read_metadata(r) \/ stat_object(r)

(* The open file keeps its inode: later renames do not change what the     *)
(* response streams.                                                       *)
open_bytes(r) ==
  /\ pc[r] = "openObj"
  /\ \/ Succeeds /\ object[KeyOf[r]] = Nil /\ NotFound(r)
     \/ /\ Succeeds
        /\ object[KeyOf[r]] # Nil
        /\ got' = [got EXCEPT ![r].bytes = object[KeyOf[r]]]
        /\ Answer(r, "ok")
     \/ ReadFails(r)
  /\ UNCHANGED unread

open_object(r) == head_object(r) \/ open_bytes(r)

-----------------------------------------------------------------------------
(* Cancellation, crash and FileObjectStore::new.                           *)

(* While the guard is armed its Drop spawns the removal of the staged      *)
(* file; later the call in flight completes on its own.                    *)
Cancel(r) ==
  /\ MayCancel
  /\ phase = "serving"
  /\ Running(r)
  /\ reply[r] = "none"
  /\ reply' = [reply EXCEPT ![r] = "cancelled"]
  /\ pc' = [pc EXCEPT ![r] = IF @ \in {"write", "staged"} THEN "discard" ELSE @]
  /\ UNCHANGED <<published, tmp, failures, rest>>

(* Also the failure of startup itself: `new` returns the error and the     *)
(* process exits.                                                          *)
Crash ==
  /\ MayCrash
  /\ phase' = "rmTmp"
  /\ pc' = [r \in Requests |-> IF Running(r) THEN "done" ELSE pc[r]]
  /\ UNCHANGED <<published, tmp, reply, got, failures, last>>

HasTmp(u) == \E f \in TmpFiles : tmp[u][f] # Nil
OrphanObject(k) == object[k] # Nil /\ metadata[k] = Nil
OrphanMetadata(k) == metadata[k] # Nil /\ object[k] = Nil

(* A pass over a directory visits each of its entries once and nothing     *)
(* else runs beside it, so it is one step: what is due is removed and      *)
(* startup goes on, or an error or a crash ends the process after any part *)
(* of it and the next process starts over.                                 *)
Pass(due, gone, next) ==
  \/ gone = due /\ phase' = next
  \/ MayCrash /\ phase' = "rmTmp"

cleanup_stale_temp_files ==
  /\ phase = "rmTmp"
  /\ LET due == {e \in Puts \X TmpFiles : tmp[e[1]][e[2]] # Nil} IN
     \E gone \in SUBSET due :
       /\ Pass(due, gone, "rmObjects")
       /\ tmp' = [u \in Puts |-> [f \in TmpFiles |->
                    IF <<u, f>> \in gone THEN Nil ELSE tmp[u][f]]]
  /\ UNCHANGED <<published, pc, reply, got, failures, last>>

cleanup_orphaned_object_files ==
  /\ phase = "rmObjects"
  /\ LET due == {k \in Keys : OrphanObject(k)} IN
     \E gone \in SUBSET due :
       /\ Pass(due, gone, "rmMetadata")
       /\ object' = [k \in Keys |-> IF k \in gone THEN Nil ELSE object[k]]
  /\ UNCHANGED <<metadata, tmp, pc, reply, got, failures, last>>

MutantKeepOrphanMetadata ==
  /\ phase = "rmMetadata"
  /\ phase' = "serving"
  /\ UNCHANGED <<published, tmp, pc, reply, got, failures, last>>

cleanup_orphaned_metadata_files ==
  /\ phase = "rmMetadata"
  /\ LET due == {k \in Keys : OrphanMetadata(k)} IN
     \E gone \in SUBSET due :
       /\ Pass(due, gone, "serving")
       /\ metadata' = [k \in Keys |-> IF k \in gone THEN Nil ELSE metadata[k]]
  /\ UNCHANGED <<object, tmp, pc, reply, got, failures, last>>

Recover ==
  \/ cleanup_stale_temp_files
  \/ cleanup_orphaned_object_files
  \/ cleanup_orphaned_metadata_files

-----------------------------------------------------------------------------
Serve(r) ==
  \/ r \in Puts /\ Put(r)
  \/ r \in Deletes /\ delete_object(r)
  \/ r \in Gets /\ open_object(r)
  \/ r \in Heads /\ head_object(r)

Next ==
  \/ \E r \in Requests : Begin(r) \/ Serve(r) \/ Cancel(r)
  \/ Crash
  \/ Recover

Spec == Init /\ [][Next]_vars

-----------------------------------------------------------------------------
(* Safety.                                                                 *)

NotTorn(k) == metadata[k] # Nil => object[k] = metadata[k]
Present(k) == object[k] # Nil /\ metadata[k] # Nil

(* What is published under a key is a complete file of an upload to that   *)
(* key: neither a file still being written nor another key's upload is     *)
(* ever renamed, linked or rolled back into place, whatever fails, is      *)
(* dropped or crashes, and however requests overlap.                       *)
PublishedWhole ==
  \A k \in Keys :
    {object[k], metadata[k]} \subseteq {Nil} \cup {u \in Puts : KeyOf[u] = k}

(* Whenever no request on a key is running, the published metadata         *)
(* describes the published bytes (size, ETag, checksums).                  *)
WholeAtRest ==
  \A k \in Keys : phase = "serving" /\ Quiet(k) => NotTorn(k)

(* A GET that answers 200 streams the bytes its headers describe.          *)
ReadsWhole ==
  \A g \in Gets :
    reply[g] = "ok" /\ got[g].meta # Nil => got[g].bytes = got[g].meta

(* An upload answered with an error is not what the key serves, in bytes   *)
(* or in metadata: the rollback of commit_staged_object is complete.       *)
FailedPutHasNoEffect ==
  \A u \in Puts :
    reply[u] = "err" => u \notin {object[KeyOf[u]], metadata[KeyOf[u]]}

(* The write on a key that began last, while no other write on the key was *)
(* running, is what the store holds from its acknowledgement on, whatever  *)
(* overlapping, failed, dropped or crashed writes left behind before it,   *)
(* and also after crashes and restarts: startup cleanup never mistakes the *)
(* files of an acknowledged object for orphans, and does not resurrect a   *)
(* deleted one.  Once the next write on the key has begun nothing is said  *)
(* of this one: a crash between the two renames of an unfinished overwrite *)
(* leaves the bytes of one and the metadata of the other.                  *)
AckedWriteSurvives ==
  \A k \in Keys :
    /\ \A u \in Puts : last[k] = u /\ reply[u] = "ok" =>
         object[k] = u /\ metadata[k] = u
    /\ \A d \in Deletes : last[k] = d /\ reply[d] = "ok" => metadata[k] = Nil

(* An acknowledged upload that no other request has replaced or deleted,   *)
(* every other write on its key having not begun or having failed, is      *)
(* still there: the rollback of a failed upload restores what it replaced  *)
(* and nothing older.                                                      *)
FailedWritesUndoNothing ==
  \A u \in Puts :
    /\ reply[u] = "ok"
    /\ \A w \in (Puts \cup Deletes) \ {u} :
         KeyOf[w] = KeyOf[u] => pc[w] = "idle" \/ reply[w] = "err"
    => object[KeyOf[u]] = u /\ metadata[KeyOf[u]] = u

(* An upload answered with success has left nothing in tmp/, whichever     *)
(* calls failed on the way.                                                *)
AckedPutLeavesNoTemp == \A u \in Puts : reply[u] = "ok" => ~HasTmp(u)

(* No upload that has run to its end leaves a file in tmp/, on any error   *)
(* path (the removals themselves succeeding).                              *)
NoTempLeak == \A u \in Puts : pc[u] = "done" => ~HasTmp(u)

(* An object disappears only by a step of a DELETE, or of the rollback of  *)
(* a failed upload: replacing it never hides it, not for one step of one   *)
(* call, and not when the replacement is dropped midway or the process     *)
(* dies and startup cleanup runs.  The previous files are hard-linked, not *)
(* moved, before the renames.                                              *)
OverwriteNeverHides ==
  [][\A k \in Keys : Present(k) /\ ~Present(k)' =>
       \E r \in Puts \cup Deletes :
         /\ KeyOf[r] = k
         /\ pc[r] \in DeleteSteps \cup {"rbRmObj", "rbRmMeta"}
         /\ pc'[r] # pc[r]]_vars

(* FileObjectStore::new returns with an empty tmp/ and no orphan: each key *)
(* has both files or neither.                                              *)
RecoveryLeavesPairs ==
  [][phase # "serving" /\ phase' = "serving" =>
       /\ \A u \in Puts : ~HasTmp(u)'
       /\ \A k \in Keys : object'[k] = Nil <=> metadata'[k] = Nil]_vars

-----------------------------------------------------------------------------
(* Refinement.                                                             *)

(* A key's object is the upload its metadata names.  Between the removal   *)
(* and the restoring rename of a metadata rollback it is what the rollback *)
(* file holds.                                                             *)
StoreMap ==
  [k \in Keys |->
     IF \E u \in Puts : KeyOf[u] = k /\ pc[u] = "rbMeta"
       THEN tmp[CHOOSE u \in Puts : KeyOf[u] = k /\ pc[u] = "rbMeta"]["metaBackup"]
       ELSE metadata[k]]

ReadMap ==
  [r \in Readers |->
     IF reply[r] = "ok" THEN got[r] ELSE [meta |-> Nil, bytes |-> Nil]]

Atomic == INSTANCE AtomicObjectStore
            WITH store <- StoreMap, answer <- reply, read <- ReadMap

(* With clients that take turns on a key, and one filesystem call failing  *)
(* anywhere but in a removal, the two-file store with its hard links,      *)
(* renames and rollback is an atomic map: an upload takes effect whole or  *)
(* not at all, is acknowledged only once it has, and every read sees one   *)
(* upload.                                                                 *)
RefinesAtomicStore == Atomic!AtomicSpec
=============================================================================
