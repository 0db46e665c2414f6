--------------------------- MODULE MultipartStore ---------------------------
(***************************************************************************)
(* One upload session of FileMultipartStore (src/storage/multipart.rs).    *)
(* Sessions are named by fresh UUIDs and share nothing but the object they *)
(* finally write, so one session is the whole protocol.                    *)
(*                                                                         *)
(* A session lives twice: in the DashMap `sessions` (in memory, each get,  *)
(* get_mut or insert one atomic step) and in session.json, written from a  *)
(* snapshot taken earlier.  Every awaited filesystem call and every access *)
(* to the map is one action.  A part is named by the UploadPart request    *)
(* that sent it: equal ETags are equal names.  Committing the assembled    *)
(* object is one step here; ObjectStore takes it apart.  The removals that *)
(* follow an error touch only files private to the request, so they are    *)
(* part of the step that failed, and succeed.                              *)
(***************************************************************************)
EXTENDS Naturals

CONSTANTS
  Numbers,      \* part numbers
  Parts,        \* UploadPart requests
  Aborts,       \* AbortMultipartUpload requests
  Completes,    \* CompleteMultipartUpload requests
  Creator,      \* the CreateMultipartUpload request
  NumberOf,     \* NumberOf[w] is the part number request w uploads
  Nil,          \* nothing: no file, no entry
  Partial,      \* a part file whose writer has not finished
  Overlap,      \* TRUE: requests overlap; FALSE: the client takes turns
  FailingCalls, \* kinds of filesystem call that may fail
  MaxFailures,  \* bound on filesystem calls that fail
  MayCancel,    \* handler futures may be dropped
  MayCrash,     \* the process may crash and restart
  MayExpire,    \* abort_incomplete_after is set and may have elapsed
  Lifecycle     \* the flags of MultipartLifecycle that are set

Requests == Parts \cup Aborts \cup Completes \cup {Creator}

ASSUME KindsDisjoint ==
  /\ Parts \cap (Aborts \cup Completes) = {}
  /\ Aborts \cap Completes = {}
  /\ Creator \notin Parts \cup Aborts \cup Completes

ASSUME SentinelsDistinct ==
  /\ Nil # Partial
  /\ Nil \notin Parts
  /\ Partial \notin Parts

ASSUME ParameterTypes ==
  /\ NumberOf \in [Parts -> Numbers]
  /\ MaxFailures \in Nat

ASSUME NumbersOrdered == Numbers \subseteq Nat

ASSUME EnvironmentTypes ==
  /\ FailingCalls \subseteq {"mkdir", "write", "link", "rename", "remove", "read", "commit"}
  /\ {Overlap, MayCancel, MayCrash, MayExpire} \subseteq BOOLEAN
  /\ Lifecycle \subseteq {"cleanup_on_startup", "remove_terminal_uploads_on_startup",
                         "remove_stale_temp_files_on_startup"}

VARIABLES
  session,    \* the entry of `sessions`
  disk,       \* session.json
  dir,        \* the upload's directory exists
  files,      \* files[n]: the published part file of number n
  tmp,        \* tmp[w]: temporary and rollback file of UploadPart w
  sessionTmp, \* requests whose session.<uuid>.tmp exists
  previous,   \* previous[w]: the previous_part local of commit_part
  snapshot,   \* snapshot[r]: the session clone r is about to persist
  task,       \* task[r]: why r persists its snapshot
  wanted,     \* wanted[c]: parts named by the body of completion c
  built,      \* built[c]: part bytes copied into the object c assembles
  published,  \* completions whose object has been put in place
  committed,  \* completions whose commit_object has returned Ok
  pc,         \* the call or map access request r performs next
  reply,      \* what request r has been answered
  phase,      \* startup step, or "serving"
  failures    \* filesystem calls that have failed

storage == <<disk, dir, files, tmp, sessionTmp>>
locals == <<previous, snapshot, task, wanted, built>>
vars == <<session, storage, locals, published, committed, pc, reply, phase, failures>>

States == {"Open", "Completing", "Completed", "Aborted"}
NoParts == [n \in Numbers |-> Nil]
NoTmp == [body |-> Nil, backup |-> Nil]
NoSession == [state |-> "None", parts |-> NoParts]
PartMap == [Numbers -> Parts \cup {Nil}]
Session == [state : States, parts : PartMap] \cup {NoSession}
IsOpen(s) == s.state = "Open"

Tasks == {"none", "create", "part", "abort", "completing", "completed", "reopen"}
(* Map accesses: a dropped future does not reach them.                     *)
MapSteps == {"crInsert", "open", "insert", "rbSession", "abInsert", "abRemove",
             "begin", "validate", "mark", "forget", "restore"}
(* Filesystem calls: a dropped future leaves the one in flight running.    *)
CallSteps == {"crMkdir", "mkTmpDir", "createTmp", "body", "discard", "mkPartDir",
              "link", "rename", "rbRemove", "rbRename", "rmBackup", "mkdir",
              "write", "renameSession", "abRmdir", "copy", "commit", "rmSession",
              "rmDir"}
Steps == {"idle", "done"} \cup MapSteps \cup CallSteps

TypeOK ==
  /\ session \in Session
  /\ disk \in Session
  /\ dir \in BOOLEAN
  /\ files \in [Numbers -> Parts \cup {Nil}]
  /\ tmp \in [Parts -> [body : Parts \cup {Nil, Partial}, backup : Parts \cup {Nil}]]
  /\ sessionTmp \subseteq Requests
  /\ previous \in [Parts -> Parts \cup {Nil}]
  /\ snapshot \in [Requests -> Session]
  /\ task \in [Requests -> Tasks]
  /\ wanted \in [Completes -> PartMap]
  /\ built \in [Completes -> PartMap]
  /\ published \subseteq Completes
  /\ committed \subseteq Completes
  /\ pc \in [Requests -> Steps]
  /\ reply \in [Requests -> {"none", "ok", "err", "cancelled"}]
  /\ phase \in {"load", "rmTmp", "serving"}
  /\ failures \in 0..MaxFailures

Init ==
  /\ session = NoSession
  /\ disk = NoSession
  /\ dir = FALSE
  /\ files = NoParts
  /\ tmp = [w \in Parts |-> NoTmp]
  /\ sessionTmp = {}
  /\ previous = [w \in Parts |-> Nil]
  /\ snapshot = [r \in Requests |-> NoSession]
  /\ task = [r \in Requests |-> "none"]
  /\ wanted = [c \in Completes |-> NoParts]
  /\ built = [c \in Completes |-> NoParts]
  /\ published = {}
  /\ committed = {}
  /\ pc = [r \in Requests |-> "idle"]
  /\ reply = [r \in Requests |-> "none"]
  /\ phase = "serving"
  /\ failures = 0

-----------------------------------------------------------------------------
(* Requests and the calls they make.                                       *)

Cancelled(r) == reply[r] = "cancelled"
Running(r) == pc[r] \notin {"idle", "done"}
InFlight(r) == Running(r) /\ ~Cancelled(r)

(* Goes on to step `next`, or answers "ok" or "err"; the call of a dropped *)
(* future runs, what follows it does not.                                  *)
Step(r, next) ==
  IF next \in {"ok", "err"}
    THEN /\ pc' = [pc EXCEPT ![r] = "done"]
         /\ reply' = [reply EXCEPT ![r] = IF Cancelled(r) THEN @ ELSE next]
    ELSE /\ pc' = [pc EXCEPT ![r] = IF Cancelled(r) THEN "done" ELSE next]
         /\ UNCHANGED reply

Succeeds == UNCHANGED failures

Fails(call) ==
  /\ call \in FailingCalls
  /\ failures < MaxFailures
  /\ failures' = failures + 1

(* A call on a missing file or directory fails without a fault.            *)
FailsUnless(exists, call) == Fails(call) \/ (~exists /\ UNCHANGED failures)

(* remove_dir_all takes everything with it; when it fails it has removed   *)
(* some of the files.  A file another request creates meanwhile makes it   *)
(* fail as well.                                                           *)
RemoveDir ==
  /\ disk' = NoSession
  /\ dir' = FALSE
  /\ files' = NoParts
  /\ tmp' = [w \in Parts |-> NoTmp]
  /\ sessionTmp' = {}

RemoveDirFails(others) ==
  /\ Fails("remove") \/ (others /\ UNCHANGED failures)
  /\ disk' \in {disk, NoSession}
  /\ files' \in {f \in [Numbers -> Parts \cup {Nil}] : \A n \in Numbers : f[n] \in {files[n], Nil}}
  /\ \E gone \in SUBSET (Parts \X {"body", "backup"}) :
       tmp' = [w \in Parts |->
                 [body |-> IF <<w, "body">> \in gone THEN Nil ELSE tmp[w].body,
                  backup |-> IF <<w, "backup">> \in gone THEN Nil ELSE tmp[w].backup]]
  /\ sessionTmp' \in SUBSET sessionTmp
  /\ UNCHANGED dir

(* Another request is creating files in the upload's directory.            *)
OthersWrite(r) == \E s \in Requests \ {r} : pc[s] \in CallSteps

SetTmp(w, f, c) == tmp' = [tmp EXCEPT ![w][f] = c]
SetFile(w, c) == files' = [files EXCEPT ![NumberOf[w]] = c]

(* What rename(2) leaves at its source: nothing, but it does nothing when  *)
(* source and target are links to one file.                                *)
LeftBehind(source, target) == IF source = target THEN source ELSE Nil

-----------------------------------------------------------------------------
(* persist_session: create the directory, write a temporary file, rename.  *)

Persist(r, s, why) ==
  /\ snapshot' = [snapshot EXCEPT ![r] = s]
  /\ task' = [task EXCEPT ![r] = why]
  /\ Step(r, "mkdir")

(* Where the caller goes on.  A completion ignores the error.              *)
Persisted(why) ==
  CASE why = "create" -> "crInsert"
    [] why = "part" -> "rmBackup"
    [] why = "abort" -> "abInsert"
    [] why = "completing" -> "validate"
    [] why = "completed" -> "rmSession"
    [] why = "reopen" -> "err"

NotPersisted(why) ==
  CASE why \in {"create", "abort"} -> "err"
    [] why = "part" -> "rbRemove"
    [] OTHER -> Persisted(why)

persist_mkdir(r) ==
  /\ pc[r] = "mkdir"
  /\ \/ Succeeds /\ dir' = TRUE /\ Step(r, "write")
     \/ Fails("mkdir") /\ Step(r, NotPersisted(task[r])) /\ UNCHANGED dir
  /\ UNCHANGED <<session, disk, files, tmp, sessionTmp, locals, published,
                 committed, phase>>

persist_write(r) ==
  /\ pc[r] = "write"
  /\ \/ dir /\ Succeeds /\ sessionTmp' = sessionTmp \cup {r} /\ Step(r, "renameSession")
     \/ /\ FailsUnless(dir, "write")
        /\ Step(r, NotPersisted(task[r]))
        /\ UNCHANGED sessionTmp
  /\ UNCHANGED <<session, disk, dir, files, tmp, locals, published, committed, phase>>

persist_rename(r) ==
  /\ pc[r] = "renameSession"
  /\ \/ /\ r \in sessionTmp
        /\ Succeeds
        /\ disk' = snapshot[r]
        /\ sessionTmp' = sessionTmp \ {r}
        /\ Step(r, Persisted(task[r]))
     \/ /\ FailsUnless(r \in sessionTmp, "rename")
        /\ sessionTmp' = IF Cancelled(r) THEN sessionTmp ELSE sessionTmp \ {r}
        /\ Step(r, NotPersisted(task[r]))
        /\ UNCHANGED disk
  /\ UNCHANGED <<session, dir, files, tmp, locals, published, committed, phase>>

persist_session(r) == persist_mkdir(r) \/ persist_write(r) \/ persist_rename(r)

-----------------------------------------------------------------------------
(* Requests arrive.  A client can name the upload once it was created; the *)
(* handlers refuse it unless the session in memory is open.                *)

Arrives(r) ==
  /\ phase = "serving"
  /\ pc[r] = "idle"
  /\ r = Creator \/ reply[Creator] = "ok"
  /\ Overlap \/ \A s \in Requests : ~InFlight(s)
  /\ UNCHANGED <<session, storage, previous, built, published, committed, phase,
                 failures>>

Refuse(r) == ~IsOpen(session) /\ Step(r, "err") /\ UNCHANGED <<snapshot, task, wanted>>

BeginCreate ==
  /\ Arrives(Creator)
  /\ Step(Creator, "crMkdir")
  /\ UNCHANGED <<snapshot, task, wanted>>

BeginPart(w) ==
  /\ Arrives(w)
  /\ \/ IsOpen(session) /\ Step(w, "mkTmpDir") /\ UNCHANGED <<snapshot, task, wanted>>
     \/ Refuse(w)

(* abort_upload changes a copy of the session and persists it first.       *)
BeginAbort(a) ==
  /\ Arrives(a)
  /\ \/ /\ IsOpen(session)
        /\ Persist(a, [session EXCEPT !.state = "Aborted"], "abort")
        /\ UNCHANGED wanted
     \/ Refuse(a)

(* The body names one or more parts, each by number and ETag.              *)
BeginComplete(c) ==
  /\ Arrives(c)
  /\ \/ /\ IsOpen(session)
        /\ \E list \in PartMap \ {NoParts} :
             /\ \A n \in Numbers : list[n] # Nil => NumberOf[list[n]] = n
             /\ wanted' = [wanted EXCEPT ![c] = list]
        /\ Step(c, "begin")
        /\ UNCHANGED <<snapshot, task>>
     \/ Refuse(c)

-----------------------------------------------------------------------------
(* create_upload.                                                          *)

create_parts_dir ==
  /\ pc[Creator] = "crMkdir"
  /\ \/ /\ Succeeds
        /\ dir' = TRUE
        /\ Persist(Creator, [state |-> "Open", parts |-> NoParts], "create")
     \/ Fails("mkdir") /\ Step(Creator, "err") /\ UNCHANGED <<dir, snapshot, task>>
  /\ UNCHANGED <<session, disk, files, tmp, sessionTmp, previous, wanted, built,
                 published, committed, phase>>

insert_session ==
  /\ pc[Creator] = "crInsert"
  /\ session' = snapshot[Creator]
  /\ Step(Creator, "ok")
  /\ UNCHANGED <<storage, locals, published, committed, phase, failures>>

create_upload == create_parts_dir \/ persist_session(Creator) \/ insert_session

-----------------------------------------------------------------------------
(* upload_part: create_temp_part, the body, commit_part.                   *)

create_temp_part(w) ==
  /\ \/ /\ pc[w] = "mkTmpDir"
        /\ \/ Succeeds /\ dir' = TRUE /\ Step(w, "createTmp")
           \/ Fails("mkdir") /\ Step(w, "err") /\ UNCHANGED dir
        /\ UNCHANGED tmp
     \/ /\ pc[w] = "createTmp"
        /\ \/ dir /\ Succeeds /\ SetTmp(w, "body", Partial) /\ Step(w, "body")
           \/ FailsUnless(dir, "write") /\ Step(w, "err") /\ UNCHANGED tmp
        /\ UNCHANGED dir
  /\ UNCHANGED <<session, disk, files, sessionTmp, locals, published, committed, phase>>

(* The body arrives whole, or is refused.  Its file may be unlinked by now *)
(* with the directory; writing to it still succeeds.                       *)
receive_body(w) ==
  /\ pc[w] = "body"
  /\ \/ tmp[w].body # Nil /\ SetTmp(w, "body", w) /\ Step(w, "open")
     \/ tmp[w].body = Nil /\ Step(w, "open") /\ UNCHANGED tmp
     \/ Step(w, "discard") /\ UNCHANGED tmp
  /\ UNCHANGED <<session, disk, dir, files, sessionTmp, locals, published,
                 committed, phase, failures>>

discard(w) ==
  /\ pc[w] = "discard"
  /\ \/ Succeeds /\ SetTmp(w, "body", Nil)
     \/ Fails("remove") /\ UNCHANGED tmp
  /\ Step(w, "err")
  /\ UNCHANGED <<session, disk, dir, files, sessionTmp, locals, published,
                 committed, phase>>

(* get_open_upload: the guard of the temporary file is disarmed already.   *)
check_open(w) ==
  /\ pc[w] = "open"
  /\ \/ /\ IsOpen(session)
        /\ previous' = [previous EXCEPT ![w] = session.parts[NumberOf[w]]]
        /\ Step(w, "mkPartDir")
     \/ ~IsOpen(session) /\ Step(w, "err") /\ UNCHANGED previous
  /\ UNCHANGED <<session, storage, snapshot, task, wanted, built, published,
                 committed, phase, failures>>

(* Publishing failed: temporary and rollback file are removed.             *)
PublishFails(w) ==
  /\ tmp' = IF Cancelled(w) THEN tmp ELSE [tmp EXCEPT ![w] = NoTmp]
  /\ Step(w, "err")

make_part_dir(w) ==
  /\ pc[w] = "mkPartDir"
  /\ \/ /\ Succeeds
        /\ dir' = TRUE
        /\ Step(w, IF previous[w] # Nil THEN "link" ELSE "rename")
        /\ UNCHANGED tmp
     \/ Fails("mkdir") /\ PublishFails(w) /\ UNCHANGED dir
  /\ UNCHANGED <<session, disk, files, sessionTmp, locals, published, committed, phase>>

link_previous(w) ==
  /\ pc[w] = "link"
  /\ \/ /\ files[NumberOf[w]] # Nil
        /\ Succeeds
        /\ SetTmp(w, "backup", files[NumberOf[w]])
        /\ Step(w, "rename")
     \/ FailsUnless(files[NumberOf[w]] # Nil, "link") /\ PublishFails(w)
  /\ UNCHANGED <<session, disk, dir, files, sessionTmp, locals, published,
                 committed, phase>>

rename_part(w) ==
  /\ pc[w] = "rename"
  /\ \/ /\ tmp[w].body # Nil
        /\ Succeeds
        /\ SetFile(w, tmp[w].body)
        /\ SetTmp(w, "body", Nil)
        /\ Step(w, "insert")
     \/ /\ FailsUnless(tmp[w].body # Nil, "rename")
        /\ PublishFails(w)
        /\ UNCHANGED files
  /\ UNCHANGED <<session, disk, dir, sessionTmp, locals, published, committed, phase>>

MutantInsertFromDisk(w) ==
  /\ pc[w] = "insert"
  /\ IsOpen(session)
  /\ session' = [session EXCEPT !.parts = [disk.parts EXCEPT ![NumberOf[w]] = w]]
  /\ Persist(w, session', "part")
  /\ UNCHANGED <<storage, previous, wanted, built, published, committed, phase,
                 failures>>

MutantInsertUnpersisted(w) ==
  /\ pc[w] = "insert"
  /\ IsOpen(session)
  /\ session' = [session EXCEPT !.parts[NumberOf[w]] = w]
  /\ Step(w, "rmBackup")
  /\ UNCHANGED <<storage, locals, published, committed, phase, failures>>

(* The second ensure_open, under get_mut, inserts in place and clones.     *)
insert_part(w) ==
  /\ pc[w] = "insert"
  /\ \/ /\ IsOpen(session)
        /\ session' = [session EXCEPT !.parts[NumberOf[w]] = w]
        /\ Persist(w, session', "part")
     \/ ~IsOpen(session) /\ Step(w, "err") /\ UNCHANGED <<session, snapshot, task>>
  /\ UNCHANGED <<storage, previous, wanted, built, published, committed, phase,
                 failures>>

MutantRollBackFileOnly(w) ==
  /\ pc[w] = "rbRemove"
  /\ SetFile(w, tmp[w].backup)
  /\ SetTmp(w, "backup", Nil)
  /\ Step(w, "err")
  /\ UNCHANGED <<session, disk, dir, sessionTmp, locals, published, committed,
                 phase, failures>>

(* Persisting failed: remove the part, move the rollback file back, then   *)
(* undo the entry in memory.                                               *)
roll_back_part(w) ==
  /\ \/ /\ pc[w] = "rbRemove"
        /\ \/ Succeeds /\ SetFile(w, Nil)
           \/ Fails("remove") /\ UNCHANGED files
        /\ Step(w, IF previous[w] # Nil THEN "rbRename" ELSE "rbSession")
        /\ UNCHANGED <<session, tmp>>
     \/ /\ pc[w] = "rbRename"
        /\ \/ /\ tmp[w].backup # Nil
              /\ Succeeds
              /\ SetFile(w, tmp[w].backup)
              /\ SetTmp(w, "backup", LeftBehind(tmp[w].backup, files[NumberOf[w]]))
           \/ FailsUnless(tmp[w].backup # Nil, "rename") /\ UNCHANGED <<files, tmp>>
        /\ Step(w, "rbSession")
        /\ UNCHANGED session
     \/ /\ pc[w] = "rbSession"
        /\ session' = IF session = NoSession THEN session
                      ELSE [session EXCEPT !.parts[NumberOf[w]] = previous[w]]
        /\ Step(w, "err")
        /\ UNCHANGED <<files, tmp, failures>>
  /\ UNCHANGED <<disk, dir, sessionTmp, locals, published, committed, phase>>

remove_backup(w) ==
  /\ pc[w] = "rmBackup"
  /\ \/ Succeeds /\ SetTmp(w, "backup", Nil) /\ Step(w, "ok")
     \/ previous[w] # Nil /\ Fails("remove") /\ Step(w, "err") /\ UNCHANGED tmp
  /\ UNCHANGED <<session, disk, dir, files, sessionTmp, locals, published,
                 committed, phase>>

commit_part(w) ==
  \/ check_open(w) \/ make_part_dir(w) \/ link_previous(w) \/ rename_part(w)
  \/ insert_part(w) \/ persist_session(w) \/ roll_back_part(w) \/ remove_backup(w)

upload_part(w) ==
  \/ create_temp_part(w) \/ receive_body(w) \/ discard(w) \/ commit_part(w)

-----------------------------------------------------------------------------
(* abort_upload: persist Aborted, overwrite the entry, delete the storage, *)
(* drop the entry.                                                         *)

insert_aborted(a) ==
  /\ pc[a] = "abInsert"
  /\ session' = snapshot[a]
  /\ Step(a, "abRmdir")
  /\ UNCHANGED <<storage, locals, published, committed, phase, failures>>

delete_storage(a) ==
  /\ pc[a] = "abRmdir"
  /\ \/ Succeeds /\ RemoveDir /\ Step(a, "abRemove")
     \/ RemoveDirFails(OthersWrite(a)) /\ Step(a, "err")
  /\ UNCHANGED <<session, locals, published, committed, phase>>

drop_aborted(a) ==
  /\ pc[a] = "abRemove"
  /\ session' = NoSession
  /\ Step(a, "ok")
  /\ UNCHANGED <<storage, locals, published, committed, phase, failures>>

abort_upload(a) ==
  persist_session(a) \/ insert_aborted(a) \/ delete_storage(a) \/ drop_aborted(a)

-----------------------------------------------------------------------------
(* complete_upload.                                                        *)

MutantBeginAnyState(c) ==
  /\ pc[c] = "begin"
  /\ session # NoSession
  /\ session' = [session EXCEPT !.state = "Completing"]
  /\ Persist(c, session', "completing")
  /\ UNCHANGED <<storage, previous, wanted, built, published, committed, phase,
                 failures>>

MutantBeginWithoutTransition(c) ==
  /\ pc[c] = "begin"
  /\ IsOpen(session)
  /\ Persist(c, session, "completing")
  /\ UNCHANGED <<session, storage, previous, wanted, built, published, committed,
                 phase, failures>>

begin_completion(c) ==
  /\ pc[c] = "begin"
  /\ \/ /\ IsOpen(session)
        /\ session' = [session EXCEPT !.state = "Completing"]
        /\ Persist(c, session', "completing")
     \/ ~IsOpen(session) /\ Step(c, "err") /\ UNCHANGED <<session, snapshot, task>>
  /\ UNCHANGED <<storage, previous, wanted, built, published, committed, phase,
                 failures>>

(* Against the clone begin_completion returned.  A part may also be too    *)
(* small.                                                                  *)
Requested(c) == {n \in Numbers : wanted[c][n] # Nil}

MutantIgnoreETag(c) ==
  /\ pc[c] = "validate"
  /\ \A n \in {m \in Numbers : wanted[c][m] # Nil} : snapshot[c].parts[n] # Nil
  /\ Step(c, "copy")
  /\ UNCHANGED <<session, storage, locals, published, committed, phase, failures>>

MutantStayCompleting(c) ==
  /\ pc[c] = "validate"
  /\ \/ /\ \A n \in {m \in Numbers : wanted[c][m] # Nil} : snapshot[c].parts[n] = wanted[c][n]
        /\ Step(c, "copy")
     \/ Step(c, "err")
  /\ UNCHANGED <<session, storage, locals, published, committed, phase, failures>>

validate_parts(c) ==
  /\ pc[c] = "validate"
  /\ \/ /\ \A n \in Requested(c) : snapshot[c].parts[n] = wanted[c][n]
        /\ Step(c, "copy")
     \/ Step(c, "restore")
  /\ UNCHANGED <<session, storage, locals, published, committed, phase, failures>>

(* The next part file, in ascending order, is opened and copied; an open   *)
(* file keeps its bytes.  Creating and writing the temporary object fails  *)
(* like reading.                                                           *)
copy_part(c) ==
  /\ pc[c] = "copy"
  /\ \E n \in Requested(c) :
       /\ built[c][n] = Nil
       /\ \A m \in Requested(c) : m < n => built[c][m] # Nil
       /\ \/ /\ files[n] # Nil
             /\ Succeeds
             /\ built' = [built EXCEPT ![c][n] = files[n]]
             /\ Step(c, IF \E m \in Requested(c) : m > n THEN "copy" ELSE "commit")
          \/ /\ FailsUnless(files[n] # Nil, "read")
             /\ Step(c, "restore")
             /\ UNCHANGED built
  /\ UNCHANGED <<session, storage, previous, snapshot, task, wanted, published,
                 committed, phase>>

(* The assembled object passes checksum, size and processors and is        *)
(* committed, or is refused.  commit_staged_object can fail before its     *)
(* renames or, removing a rollback link, after them.                       *)
commit_object(c) ==
  /\ pc[c] = "commit"
  /\ \/ /\ Succeeds
        /\ published' = published \cup {c}
        /\ committed' = committed \cup {c}
        /\ Step(c, "mark")
     \/ /\ Succeeds \/ Fails("commit")
        /\ Step(c, "restore")
        /\ UNCHANGED <<published, committed>>
     \/ /\ Fails("commit")
        /\ published' = published \cup {c}
        /\ Step(c, "restore")
        /\ UNCHANGED committed
  /\ UNCHANGED <<session, storage, locals, phase>>

(* mark_upload_state: a session that is gone is not marked or persisted.   *)
mark_completed(c) ==
  /\ pc[c] = "mark"
  /\ \/ /\ session # NoSession
        /\ session' = [session EXCEPT !.state = "Completed"]
        /\ Persist(c, session', "completed")
     \/ session = NoSession /\ Step(c, "rmSession") /\ UNCHANGED <<session,
                                                                   snapshot, task>>
  /\ UNCHANGED <<storage, previous, wanted, built, published, committed, phase,
                 failures>>

remove_session_file(c) ==
  /\ pc[c] = "rmSession"
  /\ \/ Succeeds /\ disk' = NoSession
     \/ Fails("remove") /\ UNCHANGED disk
  /\ Step(c, "forget")
  /\ UNCHANGED <<session, dir, files, tmp, sessionTmp, locals, published,
                 committed, phase>>

forget_session(c) ==
  /\ pc[c] = "forget"
  /\ session' = NoSession
  /\ Step(c, "rmDir")
  /\ UNCHANGED <<storage, locals, published, committed, phase, failures>>

remove_upload_dir(c) ==
  /\ pc[c] = "rmDir"
  /\ (Succeeds /\ RemoveDir) \/ RemoveDirFails(OthersWrite(c))
  /\ Step(c, "ok")
  /\ UNCHANGED <<session, locals, published, committed, phase>>

restore_open_upload(c) ==
  /\ pc[c] = "restore"
  /\ \/ /\ session # NoSession
        /\ session' = [session EXCEPT !.state = "Open"]
        /\ Persist(c, session', "reopen")
     \/ session = NoSession /\ Step(c, "err") /\ UNCHANGED <<session, snapshot, task>>
  /\ UNCHANGED <<storage, previous, wanted, built, published, committed, phase,
                 failures>>

complete_upload(c) ==
  \/ begin_completion(c) \/ persist_session(c) \/ validate_parts(c) \/ copy_part(c)
  \/ commit_object(c) \/ mark_completed(c) \/ remove_session_file(c)
  \/ forget_session(c) \/ remove_upload_dir(c) \/ restore_open_upload(c)

-----------------------------------------------------------------------------
(* Dropped handlers, crash and FileMultipartStore::new.                    *)

Cancel(r) ==
  /\ MayCancel
  /\ InFlight(r)
  /\ reply' = [reply EXCEPT ![r] = "cancelled"]
  /\ pc' = [pc EXCEPT ![r] = IF @ = "body" THEN "discard"
                             ELSE IF @ \in MapSteps THEN "done" ELSE @]
  /\ UNCHANGED <<session, storage, locals, published, committed, phase, failures>>

(* A crash loses the sessions in memory and the locals of every request.  *)
Crash ==
  /\ MayCrash
  /\ session' = NoSession
  /\ phase' = "load"
  /\ pc' = [r \in Requests |-> IF Running(r) THEN "done" ELSE pc[r]]
  /\ previous' = [w \in Parts |-> Nil]
  /\ snapshot' = [r \in Requests |-> NoSession]
  /\ task' = [r \in Requests |-> "none"]
  /\ UNCHANGED <<storage, wanted, built, published, committed, reply, failures>>

MutantLoadAnyState ==
  /\ phase = "load"
  /\ phase' = "rmTmp"
  /\ session' = IF disk = NoSession THEN disk ELSE [disk EXCEPT !.state = "Open"]
  /\ UNCHANGED <<storage, locals, published, committed, pc, reply, failures>>

(* A session that is not open, or has expired, is not loaded; its          *)
(* directory is removed as the lifecycle says, with best effort.  A        *)
(* startup that cannot read its directories stops: one more crash.         *)
RemovedOnStartup(s) ==
  /\ "cleanup_on_startup" \in Lifecycle
  /\ IsOpen(s) \/ "remove_terminal_uploads_on_startup" \in Lifecycle

load_sessions ==
  /\ phase = "load"
  /\ phase' = "rmTmp"
  /\ \/ /\ disk = NoSession
        /\ Succeeds
        /\ UNCHANGED <<session, storage>>
     \/ /\ IsOpen(disk)
        /\ Succeeds
        /\ session' = disk
        /\ UNCHANGED storage
     \/ /\ disk # NoSession
        /\ IsOpen(disk) => MayExpire
        /\ IF RemovedOnStartup(disk)
             THEN (Succeeds /\ RemoveDir) \/ RemoveDirFails(FALSE)
             ELSE Succeeds /\ UNCHANGED storage
        /\ UNCHANGED session
  /\ UNCHANGED <<locals, published, committed, pc, reply>>

cleanup_stale_temp_files ==
  /\ phase = "rmTmp"
  /\ phase' = "serving"
  /\ IF {"cleanup_on_startup", "remove_stale_temp_files_on_startup"} \subseteq Lifecycle
       THEN tmp' = [w \in Parts |-> NoTmp] /\ sessionTmp' = {}
       ELSE UNCHANGED <<tmp, sessionTmp>>
  /\ UNCHANGED <<session, disk, dir, files, locals, published, committed, pc,
                 reply, failures>>

-----------------------------------------------------------------------------
Begin(r) ==
  \/ r = Creator /\ BeginCreate
  \/ r \in Parts /\ BeginPart(r)
  \/ r \in Aborts /\ BeginAbort(r)
  \/ r \in Completes /\ BeginComplete(r)

Serve(r) ==
  \/ r = Creator /\ create_upload
  \/ r \in Parts /\ upload_part(r)
  \/ r \in Aborts /\ abort_upload(r)
  \/ r \in Completes /\ complete_upload(r)

Next ==
  \/ \E r \in Requests : Begin(r) \/ Serve(r) \/ Cancel(r)
  \/ Crash
  \/ load_sessions
  \/ cleanup_stale_temp_files

Spec == Init /\ [][Next]_vars

(* Every request that has begun is polled until it ends.                   *)
FairSpec == Spec /\ \A r \in Requests : WF_vars(Serve(r))

-----------------------------------------------------------------------------
(* Safety.                                                                 *)

Begun(r) == pc[r] # "idle"
Answered(n) ==
  \A w \in Parts : NumberOf[w] = n /\ Begun(w) => reply[w] \in {"ok", "err"}
Dropped == \E c \in Completes : reply[c] = "cancelled"
Finished == \E r \in Aborts \cup Completes : reply[r] = "ok"

(* c has moved the session to Completing and has neither given it back nor *)
(* removed it.                                                             *)
Completing(c) ==
  \/ pc[c] \in {"validate", "copy", "commit", "mark", "restore", "rmSession", "forget"}
  \/ pc[c] \in {"mkdir", "write", "renameSession"} /\ task[c] \in {"completing", "completed"}

(* Two completions of an upload never run at the same time, and the upload *)
(* takes no parts, aborts or completions while one runs.                   *)
ExclusiveCompletion ==
  \A c \in Completes : Completing(c) =>
    /\ ~IsOpen(session)
    /\ \A d \in Completes \ {c} : ~Completing(d)

(* Once the commit of a completion has returned, nothing puts the upload's *)
(* object in place again in the life of the process, however completions   *)
(* overlap, fail, are retried, aborted or dropped.  A commit that fails    *)
(* after its renames is not such a commit: complete_upload opens the       *)
(* session again and a retry writes the object once more.                  *)
SingleCompletion == [][committed # {} => published' = published]_vars

(* The bytes of an assembled object are those of the parts whose numbers   *)
(* and ETags the completion named, also after crashes, restarts and a      *)
(* failing call.  A re-upload that a crash cut off is the exception: its   *)
(* bytes may be in the part file while session.json lists the older part.  *)
CompletedBytesMatch ==
  \A c \in published :
    failures <= 1 /\ (\A n \in Requested(c) : Answered(n)) => built[c] = wanted[c]

(* Once every upload of part n has been answered, an open session lists    *)
(* for n exactly the part whose bytes are in the part file, over crashes,  *)
(* restarts and a failing call: commit_part publishes and lists the part   *)
(* or rolls both back.                                                     *)
PartsMatchFiles ==
  phase = "serving" /\ IsOpen(session) /\ failures <= 1 =>
    \A n \in Numbers : Answered(n) => files[n] = session.parts[n]

(* A part acknowledged to the client, and not uploaded again, stays listed *)
(* for as long as the upload is open, whatever other parts do meanwhile.   *)
AckedPartKept ==
  \A w \in Parts :
    /\ reply[w] = "ok"
    /\ IsOpen(session)
    /\ \A v \in Parts \ {w} : NumberOf[v] = NumberOf[w] => ~Begun(v)
    => session.parts[NumberOf[w]] = w

(* An acknowledged part survives crashes and restarts: as long as nothing  *)
(* has tried to finish the upload, the session loaded at startup lists it  *)
(* and its bytes are there.                                                *)
AckedPartDurable ==
  \A w \in Parts :
    /\ reply[w] = "ok"
    /\ phase = "serving"
    /\ \A r \in Aborts \cup Completes : ~Begun(r)
    /\ \A v \in Parts \ {w} : NumberOf[v] = NumberOf[w] => ~Begun(v)
    => IsOpen(session) /\ session.parts[NumberOf[w]] = w /\ files[NumberOf[w]] = w

(* A completed or aborted upload is not resumed, not even by a restart.    *)
FinishedStaysFinished == Finished => ~IsOpen(session)

-----------------------------------------------------------------------------
(* Liveness, under FairSpec.                                               *)

(* A session does not stay in Completing: unless it is dropped, the        *)
(* completion removes the session or opens it again, whatever calls fail   *)
(* and whichever parts are uploaded or dropped meanwhile.                  *)
CompletingEnds ==
  session.state = "Completing" ~> session.state # "Completing" \/ Dropped
=============================================================================
