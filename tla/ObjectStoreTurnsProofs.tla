---------------------- MODULE ObjectStoreTurnsProofs ----------------------
(***************************************************************************)
(* What ObjectStore gives clients that take turns on a key, for any number *)
(* of keys and requests: with at most one failing call, and that not a     *)
(* removal, bytes and metadata match at rest, failed uploads have no       *)
(* effect and reads are whole, and every step is one of the atomic map of  *)
(* AtomicObjectStore or leaves it alone.  Whether clients take turns or    *)
(* not, an acknowledged write that ran alone survives, an upload that is   *)
(* not cut off leaves no temporary file, and only a deletion or a rollback *)
(* takes an object away.                                                   *)
(***************************************************************************)
EXTENDS ObjectStoreProofs

Writers == Puts \cup Deletes

-----------------------------------------------------------------------------
(* A call of any request, and what it leaves alone.                        *)

CallEffect(r) ==
  /\ Running(r)
  /\ Ends(r)
  /\ \A q \in Requests \ {r} : pc'[q] = pc[q] /\ reply'[q] = reply[q]
  /\ \A k \in Keys \ {KeyOf[r]} : object'[k] = object[k] /\ metadata'[k] = metadata[k]
  /\ \A w \in Puts \ {r} : tmp'[w] = tmp[w]
  /\ \A q \in Readers \ {r} : got'[q] = got[q]
  /\ UNCHANGED <<phase, last>>

LEMMA PutCall ==
  ASSUME IInv, NEW u \in Puts, reply[u] = "none", Put(u)
  PROVE  CallEffect(u) /\ Kept(u)
<1>1. TypeOK /\ u \in Requests /\ KeyOf[u] \in Keys
  BY Zenon, ParameterTypes DEF IInv, Requests
<1>2. Running(u) /\ PutEffect(u) /\ Kept(u)
  BY Zenon, Put_IInv, Put_Kept
<1>3. \A k \in Keys \ {KeyOf[u]} : object'[k] = object[k] /\ metadata'[k] = metadata[k]
  BY Zenon, <1>1, <1>2 DEF PutEffect, SetObject, SetMetadata, TypeOK
<1> QED
  BY Zenon, <1>2, <1>3 DEF CallEffect, PutEffect, Kept, rest

(* The calls of a deletion.                                                *)
DeleteWrites(d) ==
  \/ /\ metadata[KeyOf[d]] = Nil /\ UNCHANGED <<object, metadata>>
     /\ pc'[d] = "done" /\ reply'[d] = "ok" /\ pc[d] = "delMeta"
  \/ /\ metadata'[KeyOf[d]] = Nil /\ object' = object
     /\ pc'[d] = "delObj" /\ reply'[d] = "none" /\ pc[d] = "delMeta"
  \/ /\ object'[KeyOf[d]] = Nil /\ metadata' = metadata
     /\ pc'[d] = "done" /\ reply'[d] = "ok" /\ pc[d] = "delObj"
  \/ /\ UNCHANGED <<object, metadata>> /\ Fails("remove")
     /\ pc'[d] = "done" /\ reply'[d] = "err"

LEMMA DeleteOutcome ==
  ASSUME IInv, NEW d \in Deletes, reply[d] = "none", delete_object(d)
  PROVE  DeleteWrites(d)
<1>1. TypeOK /\ d \in Requests
  BY Zenon DEF IInv, Requests
<1>2. CASE delete_metadata(d)
  BY ZenonT(30), <1>1, <1>2, StepGoes, AnswerEnds, SetMetadataEffect DEF delete_metadata, DeleteWrites
<1>3. CASE delete_bytes(d)
  BY Zenon, <1>1, <1>3, AnswerEnds, SetObjectEffect DEF delete_bytes, DeleteWrites
<1> QED
  BY Zenon, <1>2, <1>3 DEF delete_object

LEMMA DeleteCall ==
  ASSUME IInv, NEW d \in Deletes, reply[d] = "none", delete_object(d)
  PROVE  CallEffect(d) /\ UNCHANGED tmp
<1> USE KindsDisjoint, ParameterTypes
<1>1. TypeOK /\ d \in Requests /\ KeyOf[d] \in Keys /\ {"ok", "err"} \subseteq Replies /\ "delObj" \in Steps
  BY Zenon DEF IInv, Requests, Replies, Steps, DeleteSteps
<1>2. Running(d) /\ UNCHANGED <<tmp, got, phase, last>>
  BY Zenon DEF delete_object, delete_metadata, delete_bytes, Running, rest
<1>3. Ends(d)
  <2>1. reply'[d] = "none" \/ (pc'[d] = "done" /\ reply'[d] \in {"ok", "err"})
    BY Zenon, <1>1, StepGoes, AnswerEnds DEF delete_object, delete_metadata, delete_bytes
  <2>2. UNCHANGED failures \/ \E call : Fails(call)
    BY Zenon DEF delete_object, delete_metadata, delete_bytes, Succeeds
  <2> QED
    BY Zenon, <1>1, <2>1, <2>2, FailureBound DEF Ends
<1>4. \A q \in Requests \ {d} : pc'[q] = pc[q] /\ reply'[q] = reply[q]
  BY Zenon, <1>1, StepEffect, AnswerEffect DEF delete_object, delete_metadata, delete_bytes
<1>5. \A k \in Keys \ {KeyOf[d]} : object'[k] = object[k] /\ metadata'[k] = metadata[k]
  BY Zenon, <1>1 DEF delete_object, delete_metadata, delete_bytes, SetObject, SetMetadata, TypeOK
<1> QED
  BY ZenonT(30), <1>2, <1>3, <1>4, <1>5 DEF CallEffect

LEMMA ReadCall ==
  ASSUME IInv, NEW r \in Readers, reply[r] = "none", open_object(r)
  PROVE  CallEffect(r) /\ UNCHANGED <<object, metadata, tmp>>
<1> USE KindsDisjoint, ParameterTypes
<1>d. USE DEF open_object, head_object, read_metadata, stat_object, open_bytes, NotFound, ReadFails
<1>1. TypeOK /\ r \in Requests /\ {"ok", "err"} \subseteq Replies /\ {"statObj", "openObj"} \subseteq Steps
  BY Zenon DEF IInv, Requests, Readers, Replies, Steps, ReadSteps
<1>2. Running(r) /\ UNCHANGED <<object, metadata, tmp, phase, last>>
  BY Zenon DEF Running, unread, published
<1>3. Ends(r)
  <2>1. reply'[r] = "none" \/ (pc'[r] = "done" /\ reply'[r] \in {"ok", "err"})
    BY Zenon, <1>1, StepGoes, AnswerEnds
  <2>2. UNCHANGED failures \/ \E call : Fails(call)
    BY Zenon DEF Succeeds
  <2> QED
    BY Zenon, <1>1, <2>1, <2>2, FailureBound DEF Ends
<1>4. \A q \in Requests \ {r} : pc'[q] = pc[q] /\ reply'[q] = reply[q]
  BY Zenon, <1>1, StepEffect, AnswerEffect
<1>5. \A q \in Readers \ {r} : got'[q] = got[q]
  BY Zenon, <1>1 DEF TypeOK
<1> QED
  BY Zenon, <1>2, <1>3, <1>4, <1>5 DEF CallEffect

LEMMA ServeCall ==
  ASSUME IInv, NEW r \in Requests, reply[r] = "none", Serve(r)
  PROVE  CallEffect(r)
BY Zenon, PutCall, DeleteCall, ReadCall DEF Serve, Readers, open_object

-----------------------------------------------------------------------------
(* Handlers that are not dropped, and clients that take turns.             *)

(* A request has been answered only when it has ended.                     *)
Undropped ==
  \A r \in Requests : /\ reply[r] # "cancelled"
                      /\ reply[r] # "none" => pc[r] = "done"

(* At most one request runs on a key.                                      *)
Exclusive ==
  \A r, s \in Requests : Running(r) /\ Running(s) /\ KeyOf[r] = KeyOf[s] => r = s

LEMMA ServeRuns ==
  ASSUME IInv, NEW r \in Requests, Serve(r)
  PROVE  Running(r)
BY Zenon, Put_IInv DEF Serve, delete_object, delete_metadata, delete_bytes, open_object, head_object,
   read_metadata, stat_object, open_bytes, Running

LEMMA ServeUndropped ==
  ASSUME IInv, Undropped, NEW r \in Requests, Serve(r)
  PROVE  reply[r] = "none" /\ CallEffect(r) /\ Undropped' /\ (Exclusive => Exclusive')
<1>1. reply[r] = "none"
  BY Zenon, ServeRuns DEF Undropped, Running
<1>2. CallEffect(r)
  BY Zenon, <1>1, ServeCall
<1>3. Undropped'
  BY ZenonT(30), <1>2 DEF CallEffect, Ends, Undropped
<1>4. ASSUME NEW q \in Requests, Running(q)' PROVE Running(q)
  BY Zenon, <1>2, <1>4 DEF CallEffect, Running
<1> QED
  BY Zenon, <1>1, <1>2, <1>3, <1>4 DEF Exclusive

(* A request begins with its first call.                                   *)
LEMMA BeginEffect ==
  ASSUME IInv, Undropped, NEW r \in Requests, Begin(r)
  PROVE  /\ pc[r] = "idle" /\ reply' = reply /\ reply[r] = "none"
         /\ pc'[r] \in {"create", "delMeta", "readMeta"}
         /\ r \in Puts => pc'[r] = "create"
         /\ \A q \in Requests \ {r} : pc'[q] = pc[q]
         /\ UNCHANGED <<object, metadata, tmp, got, phase, failures>>
         /\ Undropped'
<1> USE KindsDisjoint
<1> DEFINE first == IF r \in Puts THEN "create" ELSE IF r \in Deletes THEN "delMeta" ELSE "readMeta"
<1>1. TypeOK /\ reply[r] = "none" /\ pc[r] = "idle"
  BY Zenon DEF IInv, Begin, Undropped
<1>2. Step(r, first)
  <2>1. CASE r \in Puts
    BY Zenon, <2>1 DEF Begin, Readers
  <2>2. CASE r \in Deletes
    BY Zenon, <2>2 DEF Begin, Readers
  <2>3. CASE r \in Readers
    BY Zenon, <2>3 DEF Begin, Readers
  <2> QED
    BY Zenon, <2>1, <2>2, <2>3 DEF Requests, Readers
<1>3. reply' = reply /\ \A q \in Requests \ {r} : pc'[q] = pc[q]
  BY Zenon, <1>1, <1>2 DEF Step, TypeOK
<1>4. pc'[r] = first
  BY Zenon, <1>1, <1>2, StepGoes
<1>5. UNCHANGED <<object, metadata, tmp, got, phase, failures>>
  BY Zenon DEF Begin, published
<1>6. Undropped'
  BY Zenon, <1>1, <1>3 DEF Undropped
<1> QED
  BY Zenon, <1>1, <1>3, <1>4, <1>5, <1>6

LEMMA BeginExclusive ==
  ASSUME IInv, Undropped, Exclusive, ~Overlap, NEW r \in Requests, Begin(r)
  PROVE  Exclusive' /\ \A q \in Requests : KeyOf[q] = KeyOf[r] => ~Running(q)
<1>1. \A q \in Requests : KeyOf[q] = KeyOf[r] => ~Running(q)
  BY Zenon DEF Begin, InFlight, Cancelled, Undropped
<1>2. ASSUME NEW q \in Requests, Running(q)' PROVE q = r \/ Running(q)
  BY Zenon, <1>2, BeginEffect DEF Running
<1> QED
  BY Zenon, <1>1, <1>2 DEF Exclusive

-----------------------------------------------------------------------------
(* Temporary files.                                                        *)

TempInv ==
  /\ phase = "serving"
  /\ Undropped
  /\ \A u \in Puts : LeakInv(u)

LEMMA TempInvStep ==
  ASSUME ~MayCancel, ~MayCrash, RemovalsSucceed, IInv, TempInv, [Next]_vars
  PROVE  TempInv'
<1> USE KindsDisjoint
<1>1. CASE UNCHANGED vars
  BY Zenon, <1>1 DEF vars, TempInv, Undropped, LeakInv
<1>2. ASSUME NEW r \in Requests, Serve(r) PROVE TempInv'
  <2>1. reply[r] = "none" /\ CallEffect(r) /\ Undropped'
    BY Zenon, <1>2, ServeUndropped DEF TempInv
  <2>2. ASSUME NEW u \in Puts PROVE LeakInv(u)'
    <3>1. u \in Requests /\ LeakInv(u)
      BY Zenon DEF TempInv, Requests
    <3>2. CASE u = r
      BY Zenon, <1>2, <2>1, <3>1, <3>2, PutCall DEF Serve, Kept, Readers
    <3>3. CASE u # r
      BY Zenon, <2>1, <3>1, <3>3 DEF CallEffect, LeakInv
    <3> QED
      BY Zenon, <3>2, <3>3
  <2> QED
    BY Zenon, <2>1, <2>2 DEF CallEffect, TempInv
<1>3. ASSUME NEW r \in Requests, Begin(r) PROVE TempInv'
  <2>1. ASSUME NEW u \in Puts PROVE LeakInv(u)'
    <3>1. u \in Requests /\ LeakInv(u)
      BY Zenon DEF TempInv, Requests
    <3> QED
      BY Zenon, <1>3, <3>1, BeginEffect DEF LeakInv, TempInv
  <2> QED
    BY Zenon, <1>3, <2>1, BeginEffect DEF TempInv
<1> QED
  BY Zenon, <1>1, <1>2, <1>3 DEF Next, Cancel, Crash, Recover, cleanup_stale_temp_files,
     cleanup_orphaned_object_files, cleanup_orphaned_metadata_files, TempInv

(* No upload that has run to its end leaves a file in tmp/: every error    *)
(* path of create_temp_object, discard and commit_staged_object removes    *)
(* what it made, however uploads overlap and whichever other calls fail,   *)
(* as long as the removals succeed and the handler is not cut off.         *)
THEOREM NoTempLeakAlways ==
  ASSUME ~MayCancel, ~MayCrash, RemovalsSucceed
  PROVE  Spec => []NoTempLeak
<1>1. Init => TempInv
  BY DEF Init, TempInv, Undropped, LeakInv, NoTmp, TmpFiles, Requests
<1>2. IInv /\ TempInv /\ [Next]_vars => TempInv'
  BY Zenon, TempInvStep
<1>3. TempInv => NoTempLeak
  BY Zenon DEF TempInv, LeakInv, NoTempLeak, HasTmp, TmpFiles
<1> QED
  BY <1>1, <1>2, <1>3, Invariance, PTL DEF Spec

-----------------------------------------------------------------------------
(* Acknowledged writes.  Requests may overlap and be dropped.              *)

DeleteAckInv(d) ==
  /\ pc[d] = "delObj" => metadata[KeyOf[d]] = Nil
  /\ reply[d] = "ok" /\ last[KeyOf[d]] = d => metadata[KeyOf[d]] = Nil

(* A write that runs on a key is the one that began last, alone, or runs   *)
(* beside another.                                                         *)
RunningLast ==
  \A w \in Writers : /\ Running(w) => last[KeyOf[w]] \in {w, Nil}
                     /\ \A k \in Keys : last[k] = w => KeyOf[w] = k

(* The write that began last, alone, and has not been dropped.             *)
Alone(w) == last[KeyOf[w]] = w /\ reply[w] # "cancelled"

AckedInv ==
  /\ \A r \in Requests : reply[r] \in {"ok", "err"} => pc[r] = "done"
  /\ RunningLast
  /\ \A u \in Puts : Alone(u) => AckInv(u)
  /\ \A d \in Deletes : Alone(d) => DeleteAckInv(d)

LEMMA delete_object_Acked ==
  ASSUME IInv, NEW d \in Deletes, reply[d] = "none", DeleteAckInv(d), delete_object(d)
  PROVE  DeleteAckInv(d)'
BY Zenon, DeleteOutcome DEF DeleteWrites, DeleteAckInv

(* The last call of a dropped request.                                     *)
LEMMA StaysCancelled ==
  ASSUME TypeOK, NEW r \in Requests, reply[r] = "cancelled", Serve(r)
  PROVE  reply'[r] = "cancelled"
<1>1. ASSUME NEW next, Step(r, next) PROVE reply'[r] = "cancelled"
  BY Zenon, <1>1 DEF Step
<1>2. ASSUME NEW a, Answer(r, a) PROVE reply'[r] = "cancelled"
  BY Zenon, <1>2 DEF Answer, Cancelled, TypeOK
<1>3. ASSUME create_temp_object(r) \/ finish(r) \/ refuse_upload(r) \/ discard(r) \/ start_commit(r)
      PROVE  reply'[r] = "cancelled"
  BY Zenon, <1>1, <1>2, <1>3 DEF create_temp_object, finish, refuse_upload, discard, start_commit
<1>4. ASSUME write_metadata_tmp(r) \/ backup_previous(r) \/ rename_object(r) \/ rename_metadata(r)
      PROVE  reply'[r] = "cancelled"
  BY Zenon, <1>1, <1>4 DEF write_metadata_tmp, backup_previous, backup_existing_file,
     rename_object, rename_metadata
<1>5. ASSUME rollback_object(r) \/ rollback_metadata(r) PROVE reply'[r] = "cancelled"
  BY Zenon, <1>1, <1>5 DEF rollback_object, rollback_metadata
<1>6. ASSUME remove_backups(r) \/ clean_up_failed_commit(r) PROVE reply'[r] = "cancelled"
  BY Zenon, <1>1, <1>2, <1>6 DEF remove_backups, clean_up_failed_commit, clean_up
<1>7. ASSUME delete_object(r) PROVE reply'[r] = "cancelled"
  BY Zenon, <1>1, <1>2, <1>7 DEF delete_object, delete_metadata, delete_bytes
<1>8. ASSUME open_object(r) PROVE reply'[r] = "cancelled"
  BY Zenon, <1>1, <1>2, <1>8 DEF open_object, head_object, read_metadata, stat_object, open_bytes,
     NotFound, ReadFails
<1> QED
  BY Zenon, <1>3, <1>4, <1>5, <1>6, <1>7, <1>8 DEF Serve, Put, commit_staged_object, open_object

(* What any call leaves alone, dropped or not.                             *)
LEMMA CallLeaves ==
  ASSUME IInv, NEW r \in Requests, Serve(r)
  PROVE  /\ Running(r)
         /\ \A q \in Requests \ {r} : pc'[q] = pc[q] /\ reply'[q] = reply[q]
         /\ \A k \in Keys \ {KeyOf[r]} : object'[k] = object[k] /\ metadata'[k] = metadata[k]
         /\ r \in Readers => UNCHANGED <<object, metadata>>
         /\ last' = last
<1> USE KindsDisjoint, ParameterTypes
<1>1. TypeOK /\ KeyOf[r] \in Keys /\ Running(r)
  BY Zenon, ServeRuns DEF IInv
<1>2. CASE r \in Puts /\ Put(r)
  <2>1. PutEffect(r)
    BY Zenon, <1>2, Put_IInv
  <2>2. \A k \in Keys \ {KeyOf[r]} : object'[k] = object[k] /\ metadata'[k] = metadata[k]
    BY Zenon, <1>1, <2>1 DEF PutEffect, SetObject, SetMetadata, TypeOK
  <2> QED
    BY Zenon, <1>1, <1>2, <2>1, <2>2 DEF PutEffect, rest, Readers
<1>3. CASE r \in Deletes /\ delete_object(r)
  <2>1. \A q \in Requests \ {r} : pc'[q] = pc[q] /\ reply'[q] = reply[q]
    <3>1. {"ok", "err"} \subseteq Replies /\ "delObj" \in Steps
      BY Zenon DEF Replies, Steps, DeleteSteps
    <3> QED
      BY Zenon, <1>1, <1>3, <3>1, StepEffect, AnswerEffect DEF delete_object, delete_metadata, delete_bytes
  <2>2. \A k \in Keys \ {KeyOf[r]} : object'[k] = object[k] /\ metadata'[k] = metadata[k]
    BY Zenon, <1>1, <1>3 DEF delete_object, delete_metadata, delete_bytes, SetObject, SetMetadata, TypeOK
  <2>3. last' = last
    BY Zenon, <1>3 DEF delete_object, delete_metadata, delete_bytes, rest
  <2> QED
    BY Zenon, <1>1, <1>3, <2>1, <2>2, <2>3 DEF Readers
<1>4. CASE r \in Readers /\ open_object(r)
  <2> USE DEF open_object, head_object, read_metadata, stat_object, open_bytes, NotFound, ReadFails
  <2>1. \A q \in Requests \ {r} : pc'[q] = pc[q] /\ reply'[q] = reply[q]
    <3>1. {"ok", "err"} \subseteq Replies /\ {"statObj", "openObj"} \subseteq Steps
      BY Zenon DEF Replies, Steps, ReadSteps
    <3> QED
      BY Zenon, <1>1, <1>4, <3>1, StepEffect, AnswerEffect
  <2>2. UNCHANGED <<object, metadata, last>>
    BY Zenon, <1>4 DEF unread, published
  <2> QED
    BY Zenon, <1>1, <2>1, <2>2
<1> QED
  BY Zenon, <1>2, <1>3, <1>4 DEF Serve, Readers, open_object

(* A call of another write on the key means this one is not alone.         *)
LEMMA ServeAcked ==
  ASSUME IInv, AckedInv, NEW r \in Requests, Serve(r)
  PROVE  AckedInv'
<1> USE KindsDisjoint, ParameterTypes, SentinelsDistinct, DeletesNamed
<1>1. /\ TypeOK /\ Running(r) /\ last' = last
      /\ \A q \in Requests \ {r} : pc'[q] = pc[q] /\ reply'[q] = reply[q]
      /\ \A k \in Keys \ {KeyOf[r]} : object'[k] = object[k] /\ metadata'[k] = metadata[k]
      /\ r \in Readers => UNCHANGED <<object, metadata>>
  BY Zenon, CallLeaves DEF IInv
<1>2. \/ reply[r] = "none" /\ Ends(r)
      \/ reply[r] = "cancelled" /\ reply'[r] = "cancelled"
  <2>1. reply[r] \in {"none", "cancelled"}
    BY Zenon, <1>1 DEF AckedInv, Running, TypeOK, Replies
  <2>2. CASE reply[r] = "none"
    BY Zenon, <2>2, ServeCall DEF CallEffect
  <2>3. CASE reply[r] = "cancelled"
    BY Zenon, <1>1, <2>3, StaysCancelled
  <2> QED
    BY Zenon, <2>1, <2>2, <2>3
<1>3. \A q \in Requests : reply'[q] \in {"ok", "err"} => pc'[q] = "done"
  <2>1. reply'[r] \in {"ok", "err"} => pc'[r] = "done"
    BY Zenon, <1>2 DEF Ends
  <2> QED
    BY Zenon, <1>1, <2>1 DEF AckedInv
<1>4. RunningLast'
  <2> SUFFICES ASSUME NEW w \in Writers
               PROVE  /\ Running(w)' => last'[KeyOf[w]] \in {w, Nil}
                      /\ \A k \in Keys : last'[k] = w => KeyOf[w] = k
    BY Zenon DEF RunningLast
  <2>1. w \in Requests /\ (Running(w)' => Running(w))
    BY Zenon, <1>1 DEF Running, Writers, Requests
  <2> QED
    BY Zenon, <1>1, <2>1 DEF AckedInv, RunningLast
<1>5. ASSUME NEW w \in Writers, w # r, Alone(w)'
      PROVE  /\ Alone(w) /\ KeyOf[w] \in Keys /\ pc'[w] = pc[w] /\ reply'[w] = reply[w]
             /\ object'[KeyOf[w]] = object[KeyOf[w]] /\ metadata'[KeyOf[w]] = metadata[KeyOf[w]]
  <2>1. w \in Requests /\ KeyOf[w] \in Keys /\ w # Nil /\ Alone(w)
    BY Zenon, <1>1, <1>5 DEF Writers, Requests, Alone
  <2>2. KeyOf[w] # KeyOf[r] \/ r \in Readers
    <3> SUFFICES ASSUME KeyOf[w] = KeyOf[r], r \notin Readers PROVE FALSE
      BY Zenon
    <3>1. r \in Writers
      BY Zenon DEF Writers, Requests, Readers
    <3>2. last[KeyOf[r]] \in {r, Nil}
      BY Zenon, <1>1, <3>1 DEF AckedInv, RunningLast
    <3>3. last[KeyOf[w]] = w
      BY Zenon, <2>1 DEF Alone
    <3> QED
      BY Zenon, <1>5, <2>1, <3>2, <3>3
  <2> QED
    BY Zenon, <1>1, <1>5, <2>1, <2>2
<1>6. ASSUME NEW u \in Puts, Alone(u)' PROVE AckInv(u)'
  <2>1. CASE u = r
    <3>1. reply[u] = "none" /\ Alone(u)
      BY Zenon, <1>1, <1>2, <1>6, <2>1 DEF Alone
    <3> QED
      BY Zenon, <2>1, <3>1, PutCall DEF AckedInv, Serve, Kept, Readers
  <2>2. CASE u # r
    <3>1. /\ Alone(u) /\ pc'[u] = pc[u] /\ reply'[u] = reply[u] /\ last' = last
          /\ object'[KeyOf[u]] = object[KeyOf[u]] /\ metadata'[KeyOf[u]] = metadata[KeyOf[u]]
      BY Zenon, <1>1, <1>5, <1>6, <2>2 DEF Writers
    <3>2. AckInv(u)
      BY Zenon, <3>1 DEF AckedInv
    <3> QED
      BY Zenon, <3>1, <3>2 DEF AckInv
  <2> QED
    BY Zenon, <2>1, <2>2
<1>7. ASSUME NEW d \in Deletes, Alone(d)' PROVE DeleteAckInv(d)'
  <2>1. CASE d = r
    <3>1. reply[d] = "none" /\ Alone(d)
      BY Zenon, <1>1, <1>2, <1>7, <2>1 DEF Alone
    <3> QED
      BY Zenon, <2>1, <3>1, delete_object_Acked DEF AckedInv, Serve, Readers
  <2>2. CASE d # r
    <3>1. /\ Alone(d) /\ pc'[d] = pc[d] /\ reply'[d] = reply[d] /\ last' = last
          /\ metadata'[KeyOf[d]] = metadata[KeyOf[d]]
      BY Zenon, <1>1, <1>5, <1>7, <2>2 DEF Writers
    <3>2. DeleteAckInv(d)
      BY Zenon, <3>1 DEF AckedInv
    <3> QED
      BY Zenon, <3>1, <3>2 DEF DeleteAckInv
  <2> QED
    BY Zenon, <2>1, <2>2
<1> QED
  BY Zenon, <1>3, <1>4, <1>6, <1>7 DEF AckedInv

LEMMA BeginAcked ==
  ASSUME IInv, AckedInv, NEW r \in Requests, Begin(r)
  PROVE  AckedInv'
<1> USE KindsDisjoint, ParameterTypes, SentinelsDistinct, DeletesNamed
<1>1. /\ TypeOK /\ pc[r] = "idle" /\ UNCHANGED <<object, metadata, reply>>
      /\ \A q \in Requests \ {r} : pc'[q] = pc[q]
      /\ reply[r] \notin {"ok", "err"}
      /\ pc'[r] \in {"create", "delMeta", "readMeta", "done"}
  <2>1. TypeOK /\ pc[r] = "idle" /\ UNCHANGED <<object, metadata, reply>>
    BY Zenon DEF IInv, Begin, Step, published
  <2>2. /\ \A q \in Requests \ {r} : pc'[q] = pc[q]
        /\ pc'[r] \in {"create", "delMeta", "readMeta", "done"}
    BY Zenon, <2>1 DEF Begin, Step, TypeOK, Requests, Readers
  <2> QED
    BY Zenon, <2>1, <2>2 DEF AckedInv
<1>2. CASE r \in Readers
  <2>1. last' = last /\ r \notin Writers
    BY Zenon, <1>2 DEF Begin, Writers, Readers
  <2>2. \A w \in Writers : w \in Requests /\ pc'[w] = pc[w]
    BY Zenon, <1>1, <2>1 DEF Writers, Requests
  <2>3. RunningLast'
    BY Zenon, <2>1, <2>2 DEF AckedInv, RunningLast, Running
  <2>4. \A q \in Requests : reply'[q] \in {"ok", "err"} => pc'[q] = "done"
    BY Zenon, <1>1 DEF AckedInv
  <2>5. ASSUME NEW u \in Puts, Alone(u)' PROVE AckInv(u)'
    BY Zenon, <1>1, <2>1, <2>2, <2>5 DEF AckedInv, Alone, AckInv, Writers
  <2>6. ASSUME NEW d \in Deletes, Alone(d)' PROVE DeleteAckInv(d)'
    BY Zenon, <1>1, <2>1, <2>2, <2>6 DEF AckedInv, Alone, DeleteAckInv, Writers
  <2> QED
    BY Zenon, <2>3, <2>4, <2>5, <2>6 DEF AckedInv
<1>3. CASE r \in Writers
  <2>1. /\ KeyOf[r] \in Keys
        /\ last'[KeyOf[r]] = IF Contended(KeyOf[r]) THEN Nil ELSE r
        /\ \A k \in Keys \ {KeyOf[r]} : last'[k] = last[k]
    BY Zenon, <1>1, <1>3 DEF Begin, TypeOK, Writers, Readers
  <2>2. ASSUME NEW w \in Writers
        PROVE  /\ w \in Requests /\ KeyOf[w] \in Keys /\ w # Nil
               /\ Running(w)' => last'[KeyOf[w]] \in {w, Nil}
               /\ \A k \in Keys : last'[k] = w => KeyOf[w] = k
    <3>1. w \in Requests /\ KeyOf[w] \in Keys /\ w # Nil
      BY Zenon DEF Writers, Requests
    <3>2. CASE w = r
      <4>1. last'[KeyOf[w]] \in {w, Nil}
        BY Zenon, <2>1, <3>2
      <4>2. \A k \in Keys : last[k] = w => KeyOf[w] = k
        BY Zenon DEF AckedInv, RunningLast
      <4> QED
        BY Zenon, <2>1, <3>1, <3>2, <4>1, <4>2
    <3>3. CASE w # r
      <4>1. Running(w)' => Running(w)
        BY Zenon, <1>1, <3>1, <3>3 DEF Running
      <4>2. Running(w) /\ KeyOf[w] = KeyOf[r] => last'[KeyOf[w]] = Nil
        BY Zenon, <2>1, <3>1 DEF Contended, Writers
      <4> QED
        BY Zenon, <2>1, <3>1, <3>3, <4>1, <4>2 DEF AckedInv, RunningLast
    <3> QED
      BY Zenon, <3>1, <3>2, <3>3
  <2>3. ASSUME NEW w \in Writers, w # r, Alone(w)' PROVE Alone(w) /\ pc'[w] = pc[w] /\ KeyOf[w] # KeyOf[r]
    BY Zenon, <1>1, <2>1, <2>2, <2>3 DEF Alone
  <2>4. ASSUME NEW u \in Puts, Alone(u)' PROVE AckInv(u)'
    <3>1. CASE u = r
      BY Zenon, <1>1, <3>1 DEF AckInv
    <3>2. CASE u # r
      BY Zenon, <1>1, <2>1, <2>2, <2>3, <2>4, <3>2 DEF AckedInv, AckInv, Writers
    <3> QED
      BY Zenon, <3>1, <3>2
  <2>5. ASSUME NEW d \in Deletes, Alone(d)' PROVE DeleteAckInv(d)'
    <3>1. CASE d = r
      BY Zenon, <1>1, <3>1 DEF DeleteAckInv
    <3>2. CASE d # r
      BY Zenon, <1>1, <2>1, <2>2, <2>3, <2>5, <3>2 DEF AckedInv, DeleteAckInv, Writers
    <3> QED
      BY Zenon, <3>1, <3>2
  <2> QED
    BY Zenon, <1>1, <2>2, <2>4, <2>5 DEF AckedInv, RunningLast
<1> QED
  BY Zenon, <1>2, <1>3 DEF Requests, Readers, Writers

LEMMA CancelAcked ==
  ASSUME IInv, AckedInv, NEW r \in Requests, Cancel(r)
  PROVE  AckedInv'
<1>1. /\ TypeOK /\ UNCHANGED <<object, metadata, last>>
      /\ reply'[r] = "cancelled" /\ \A q \in Requests \ {r} : pc'[q] = pc[q] /\ reply'[q] = reply[q]
      /\ Running(r)
  BY Zenon DEF IInv, Cancel, TypeOK, published, rest
<1>2. \A w \in Writers : w \in Requests /\ (Running(w)' => Running(w)) /\ (Alone(w)' => w # r /\ Alone(w))
  BY Zenon, <1>1 DEF Running, Alone, Writers, Requests
<1>3. \A q \in Requests : reply'[q] \in {"ok", "err"} => pc'[q] = "done"
  BY Zenon, <1>1 DEF AckedInv
<1>4. RunningLast'
  BY Zenon, <1>1, <1>2 DEF AckedInv, RunningLast
<1>5. ASSUME NEW u \in Puts, Alone(u)' PROVE AckInv(u)'
  BY Zenon, <1>1, <1>2, <1>5 DEF AckedInv, AckInv, Writers
<1>6. ASSUME NEW d \in Deletes, Alone(d)' PROVE DeleteAckInv(d)'
  BY Zenon, <1>1, <1>2, <1>6 DEF AckedInv, DeleteAckInv, Writers
<1> QED
  BY Zenon, <1>3, <1>4, <1>5, <1>6 DEF AckedInv

LEMMA CrashAcked ==
  ASSUME IInv, AckedInv, Crash
  PROVE  AckedInv'
<1>1. TypeOK /\ UNCHANGED <<object, metadata, reply, last>>
  BY Zenon DEF IInv, Crash, published
<1>2. \A r \in Requests : ~Running(r)' /\ pc'[r] = IF Running(r) THEN "done" ELSE pc[r]
  BY Zenon, <1>1 DEF Crash, Running, TypeOK
<1>3. \A r \in Requests : reply'[r] \in {"ok", "err"} => pc'[r] = "done"
  BY Zenon, <1>1, <1>2 DEF AckedInv
<1>4. RunningLast'
  BY Zenon, <1>1, <1>2 DEF AckedInv, RunningLast, Writers, Requests
<1>5. ASSUME NEW u \in Puts, Alone(u)' PROVE AckInv(u)'
  BY Zenon, <1>1, <1>2, <1>5 DEF AckedInv, Alone, AckInv, Requests
<1>6. ASSUME NEW d \in Deletes, Alone(d)' PROVE DeleteAckInv(d)'
  BY Zenon, <1>1, <1>2, <1>6 DEF AckedInv, Alone, DeleteAckInv, Requests
<1> QED
  BY Zenon, <1>3, <1>4, <1>5, <1>6 DEF AckedInv

(* Startup takes files away only from keys that lack one, which no         *)
(* acknowledged upload does.                                               *)
LEMMA RecoverAcked ==
  ASSUME IInv, AckedInv, Recover
  PROVE  AckedInv'
<1> USE SentinelsDistinct, ParameterTypes
<1>1. TypeOK /\ UNCHANGED <<pc, reply, last>>
  BY Zenon DEF IInv, Recover, cleanup_stale_temp_files, cleanup_orphaned_object_files,
     cleanup_orphaned_metadata_files
<1>2. \A r \in Requests : ~Running(r)
  BY Zenon DEF IInv, StartupInv, Recover, cleanup_stale_temp_files, cleanup_orphaned_object_files,
     cleanup_orphaned_metadata_files
<1>3. \A k \in Keys : /\ Present(k) => object'[k] = object[k] /\ metadata'[k] = metadata[k]
                      /\ metadata'[k] \in {metadata[k], Nil}
  BY Zenon, <1>1 DEF Recover, cleanup_stale_temp_files, cleanup_orphaned_object_files,
     cleanup_orphaned_metadata_files, OrphanObject, OrphanMetadata, Present, published, TypeOK
<1>4. RunningLast' /\ \A r \in Requests : reply'[r] \in {"ok", "err"} => pc'[r] = "done"
  BY Zenon, <1>1 DEF AckedInv, RunningLast, Running
<1>5. ASSUME NEW u \in Puts, Alone(u)' PROVE AckInv(u)'
  <2>1. u \in Requests /\ KeyOf[u] \in Keys /\ AckInv(u) /\ u # Nil
    BY Zenon, <1>1, <1>5 DEF AckedInv, Alone, Requests
  <2> QED
    BY Zenon, <1>1, <1>2, <1>3, <2>1 DEF AckInv, Running, Present
<1>6. ASSUME NEW d \in Deletes, Alone(d)' PROVE DeleteAckInv(d)'
  <2>1. d \in Requests /\ KeyOf[d] \in Keys /\ DeleteAckInv(d)
    BY Zenon, <1>1, <1>6 DEF AckedInv, Alone, Requests
  <2> QED
    BY Zenon, <1>1, <1>2, <1>3, <2>1 DEF DeleteAckInv, Running
<1> QED
  BY Zenon, <1>4, <1>5, <1>6 DEF AckedInv

(* The write on a key that began last, alone, is what the store holds once *)
(* it is acknowledged, whichever calls fail, whatever is dropped, however  *)
(* the writes before it overlapped and however often the process crashes   *)
(* and cleans up.                                                          *)
THEOREM AckedWriteSurvivesAlways == Spec => []AckedWriteSurvives
<1>1. Init => AckedInv
  BY SentinelsDistinct, DeletesNamed, ParameterTypes DEF Init, AckedInv, RunningLast, Alone, Running,
     Writers, Requests
<1>2. IInv /\ AckedInv /\ [Next]_vars => AckedInv'
  <2> SUFFICES ASSUME IInv, AckedInv, [Next]_vars PROVE AckedInv'
    BY Zenon
  <2>1. CASE UNCHANGED vars
    BY Zenon, <2>1 DEF vars, AckedInv, RunningLast, Alone, AckInv, DeleteAckInv, Running
  <2> QED
    BY Zenon, <2>1, ServeAcked, BeginAcked, CancelAcked, CrashAcked, RecoverAcked DEF Next
<1>3. AckedInv => AckedWriteSurvives
  <2> SUFFICES ASSUME AckedInv, NEW k \in Keys
               PROVE  /\ \A u \in Puts : last[k] = u /\ reply[u] = "ok" =>
                           object[k] = u /\ metadata[k] = u
                      /\ \A d \in Deletes : last[k] = d /\ reply[d] = "ok" => metadata[k] = Nil
    BY Zenon DEF AckedWriteSurvives
  <2> QED
    BY ZenonT(30) DEF AckedInv, RunningLast, Alone, AckInv, DeleteAckInv, Writers
<1> QED
  BY <1>1, <1>2, <1>3, Invariance, PTL DEF Spec

-----------------------------------------------------------------------------
(* The pair of files of a key, with at most one failing call.              *)

Settled(k) == \A r \in Writers : KeyOf[r] = k => pc[r] \notin Unsettled

DeleteInv(d) == pc[d] = "delObj" => metadata[KeyOf[d]] = Nil

(* Nobody writes under the key a reader is at.                             *)
ReadInv(r) ==
  /\ pc[r] \in {"statObj", "openObj"} =>
       got[r].meta = metadata[KeyOf[r]] /\ metadata[KeyOf[r]] # Nil
  /\ pc[r] # "done" => got[r].bytes = Nil
  /\ pc[r] = "done" /\ reply[r] = "ok" /\ r \in Gets =>
       got[r].meta = Nil \/ got[r].bytes = got[r].meta

PairInv ==
  /\ phase = "serving"
  /\ Undropped
  /\ Exclusive
  /\ \A k \in Keys : Settled(k) => object[k] = metadata[k]
  /\ \A u \in Puts : CommitInv(u)
  /\ \A d \in Deletes : DeleteInv(d)
  /\ \A r \in Readers : ReadInv(r)

(* The files of a key match whenever the request that runs on it is        *)
(* settled: no other one is at an unsettled point.                         *)
LEMMA RunningMatched ==
  ASSUME PairInv, NEW r \in Requests, Running(r)
  PROVE  Matched(r)
<1>1. \A w \in Writers : w \in Requests
  BY Zenon DEF Writers, Requests
<1>2. KeyOf[r] \in Keys
  BY Zenon, ParameterTypes
<1>3. \A w \in Writers : KeyOf[w] = KeyOf[r] /\ pc[w] \in Unsettled => w = r
  BY Zenon, <1>1 DEF PairInv, Exclusive, Running, Unsettled
<1> QED
  BY Zenon, <1>2, <1>3 DEF Matched, PairInv, Settled

LEMMA delete_object_Pair ==
  ASSUME RemovalsSucceed, IInv, NEW d \in Deletes, reply[d] = "none", DeleteInv(d), Matched(d),
         delete_object(d)
  PROVE  DeleteInv(d)' /\ Matched(d)' /\ NothingOlder(d)
<1>1. ~Fails("remove")
  BY Zenon DEF RemovalsSucceed, Fails
<1> QED
  BY Zenon, <1>1, DeleteOutcome DEF DeleteWrites, DeleteInv, Matched, NothingOlder, Unsettled

LEMMA open_object_Pair ==
  ASSUME IInv, NEW r \in Readers, reply[r] = "none", ReadInv(r), Matched(r), Serve(r)
  PROVE  ReadInv(r)'
<1> USE ParameterTypes
<1>1. TypeOK /\ r \in Requests
  BY ZenonT(30) DEF IInv, Requests, Readers
<1>2. CASE read_metadata(r)
  BY <1>1, <1>2, StepGoes, AnswerEnds, SMTT(30)
  DEF read_metadata, NotFound, ReadFails, unread, published, ReadInv, TypeOK
<1>3. CASE stat_object(r)
  BY <1>1, <1>3, KindsDisjoint, StepGoes, AnswerEnds, SMTT(30)
  DEF stat_object, NotFound, ReadFails, unread, published, ReadInv, TypeOK
<1>4. CASE open_bytes(r)
  BY <1>1, <1>4, AnswerEnds, SMTT(30)
  DEF open_bytes, NotFound, ReadFails, unread, published, ReadInv, Matched, Unsettled, TypeOK
<1> QED
  BY ZenonT(30), <1>2, <1>3, <1>4, KindsDisjoint DEF Serve, Readers, open_object, head_object

(* What a call of r leaves to the uploads, deletions and reads of other    *)
(* requests: those on its key are not running.                             *)
LEMMA OthersKept ==
  ASSUME IInv, PairInv, NEW r \in Requests, CallEffect(r), NothingOlder(r)
  PROVE  /\ \A w \in Puts \ {r} : CommitInv(w)'
         /\ \A d \in Deletes \ {r} : DeleteInv(d)'
         /\ \A q \in Readers \ {r} : ReadInv(q)'
<1> USE ParameterTypes, SentinelsDistinct
<1>1. \A q \in Requests : KeyOf[q] = KeyOf[r] /\ q # r => ~Running(q)
  BY Zenon DEF PairInv, Exclusive, CallEffect
<1>2. ASSUME NEW w \in Puts \ {r} PROVE CommitInv(w)'
  <2>1. /\ w \in Requests /\ KeyOf[w] \in Keys /\ CommitInv(w) /\ w # Nil
        /\ pc'[w] = pc[w] /\ reply'[w] = reply[w] /\ tmp'[w] = tmp[w]
        /\ failures = MaxFailures => failures' = failures
    BY Zenon DEF PairInv, CallEffect, Ends, Requests
  <2>2. CASE KeyOf[w] # KeyOf[r]
    <3>1. object'[KeyOf[w]] = object[KeyOf[w]] /\ metadata'[KeyOf[w]] = metadata[KeyOf[w]]
      BY Zenon, <2>1, <2>2 DEF CallEffect
    <3> QED
      BY Zenon, <2>1, <3>1, CommitFrame
  <2>3. CASE KeyOf[w] = KeyOf[r]
    <3>1. pc[w] \in {"idle", "done"}
      BY Zenon, <1>1, <2>1, <2>3 DEF Running
    <3>2. w \in {object'[KeyOf[w]], metadata'[KeyOf[w]]} => w \in {object[KeyOf[w]], metadata[KeyOf[w]]}
      BY ZenonT(30), <2>1, <2>3 DEF NothingOlder
    <3>3. w \in {object[KeyOf[w]], metadata[KeyOf[w]]} => reply[w] = "ok"
      BY Zenon, <2>1, <3>1, CommitAtRest
    <3> QED
      BY Zenon, <2>1, <3>1, <3>2, <3>3, CommitAtRestNext
  <2> QED
    BY Zenon, <2>2, <2>3
<1>3. ASSUME NEW d \in Deletes \ {r} PROVE DeleteInv(d)'
  BY <1>1 DEF PairInv, DeleteInv, CallEffect, Requests, Running
<1>4. ASSUME NEW q \in Readers \ {r} PROVE ReadInv(q)'
  BY <1>1, SMTT(30) DEF PairInv, ReadInv, CallEffect, Requests, Readers, Running
<1> QED
  BY ZenonT(30), <1>2, <1>3, <1>4

(* A call that keeps what concerns its own request keeps all of it.        *)
LEMMA CallPair ==
  ASSUME IInv, PairInv, NEW r \in Requests, CallEffect(r), NothingOlder(r),
         Undropped', Exclusive',
         IF r \in Writers THEN Matched(r)' ELSE UNCHANGED <<object, metadata>>,
         r \in Puts => CommitInv(r)',
         r \in Deletes => DeleteInv(r)',
         r \in Readers => ReadInv(r)'
  PROVE  PairInv'
<1>1. ASSUME NEW k \in Keys, Settled(k)' PROVE object'[k] = metadata'[k]
  <2>1. \A w \in Writers \ {r} : pc'[w] = pc[w]
    BY Zenon DEF CallEffect, Writers, Requests
  <2>2. CASE k # KeyOf[r]
    <3>1. Settled(k)
      BY Zenon, <1>1, <2>1, <2>2 DEF Settled
    <3> QED
      BY Zenon, <2>2, <3>1 DEF PairInv, CallEffect
  <2>3. CASE k = KeyOf[r] /\ r \in Writers
    BY Zenon, <1>1, <2>3 DEF Settled, Matched
  <2>4. CASE r \notin Writers
    <3>1. Settled(k)
      BY ZenonT(30), <1>1, <2>1, <2>4 DEF Settled
    <3> QED
      BY ZenonT(30), <2>4, <3>1 DEF PairInv
  <2> QED
    BY Zenon, <2>2, <2>3, <2>4
<1>2. phase' = "serving"
  BY Zenon DEF CallEffect, PairInv
<1>3. \A w \in Puts : CommitInv(w)'
  BY Zenon, OthersKept
<1>4. \A d \in Deletes : DeleteInv(d)'
  BY Zenon, OthersKept
<1>5. \A q \in Readers : ReadInv(q)'
  BY Zenon, OthersKept
<1> QED
  BY ZenonT(30), <1>1, <1>2, <1>3, <1>4, <1>5 DEF PairInv

LEMMA ServePair ==
  ASSUME OneFailure, IInv, PairInv, NEW r \in Requests, Serve(r)
  PROVE  PairInv'
<1> USE KindsDisjoint
<1>1. reply[r] = "none" /\ CallEffect(r) /\ Undropped' /\ Exclusive' /\ Running(r)
  BY Zenon, ServeUndropped, ServeRuns DEF PairInv
<1>2. Matched(r)
  BY Zenon, <1>1, RunningMatched
<1>3. CASE r \in Puts /\ Put(r)
  <2>1. CommitInv(r)
    BY Zenon, <1>3 DEF PairInv
  <2>2. CommitInv(r)' /\ Matched(r)' /\ NothingOlder(r)
    BY ZenonT(30), <1>1, <1>2, <1>3, <2>1, PutCall DEF Kept, CommitKept
  <2> QED
    BY ZenonT(30), <1>1, <1>3, <2>2, CallPair DEF Readers, Writers
<1>4. CASE r \in Deletes /\ delete_object(r)
  <2>1. DeleteInv(r)
    BY Zenon, <1>4 DEF PairInv
  <2>2. DeleteInv(r)' /\ Matched(r)' /\ NothingOlder(r)
    BY ZenonT(30), <1>1, <1>2, <1>4, <2>1, delete_object_Pair DEF OneFailure
  <2> QED
    BY Zenon, <1>1, <1>4, <2>2, CallPair DEF Readers, Writers
<1>5. CASE r \in Readers /\ open_object(r)
  <2>1. ReadInv(r)
    BY Zenon, <1>5 DEF PairInv
  <2>2. ReadInv(r)' /\ UNCHANGED <<object, metadata>>
    BY ZenonT(30), <1>1, <1>2, <1>5, <2>1, open_object_Pair, ReadCall
  <2>3. NothingOlder(r)
    BY Zenon, <2>2 DEF NothingOlder
  <2> QED
    BY ZenonT(30), <1>1, <1>5, <2>2, <2>3, CallPair DEF Readers, Writers
<1> QED
  BY Zenon, <1>3, <1>4, <1>5 DEF Serve, Readers, open_object

LEMMA BeginPair ==
  ASSUME ~Overlap, IInv, PairInv, NEW r \in Requests, Begin(r)
  PROVE  PairInv'
<1> USE KindsDisjoint, ParameterTypes
<1>1. /\ Undropped' /\ Exclusive' /\ UNCHANGED <<reply, object, metadata, tmp, got, phase, failures>>
      /\ \A q \in Requests \ {r} : pc'[q] = pc[q]
      /\ pc[r] = "idle" /\ pc'[r] \in {"create", "delMeta", "readMeta"}
      /\ r \in Puts => pc'[r] = "create"
  BY Zenon, BeginEffect, BeginExclusive DEF PairInv
<1>2. \A k \in Keys : Settled(k)' => Settled(k)
  BY Zenon, <1>1 DEF Settled, Unsettled, Writers, Requests
<1>3. ASSUME NEW u \in Puts PROVE CommitInv(u)'
  <2>1. u \in Requests /\ CommitInv(u)
    BY Zenon DEF PairInv, Requests
  <2>2. CASE u = r
    BY Zenon, <1>1, <2>1, <2>2, CommitAtRest, CommitAtRestNext
  <2>3. CASE u # r
    BY Zenon, <1>1, <2>1, <2>3, CommitFrame
  <2> QED
    BY Zenon, <2>2, <2>3
<1>4. ASSUME NEW d \in Deletes PROVE DeleteInv(d)'
  BY Zenon, <1>1 DEF PairInv, DeleteInv, Requests
<1>5. ASSUME NEW q \in Readers PROVE ReadInv(q)'
  BY ZenonT(30), <1>1 DEF PairInv, ReadInv, Requests, Readers
<1> QED
  BY ZenonT(30), <1>1, <1>2, <1>3, <1>4, <1>5 DEF PairInv

LEMMA InitPair == Init => PairInv
<1> SUFFICES ASSUME Init PROVE PairInv
  BY Zenon
<1> USE KindsDisjoint, ParameterTypes, SentinelsDistinct DEF Init
<1>1. Undropped /\ Exclusive /\ phase = "serving" /\ \A k \in Keys : object[k] = metadata[k]
  BY Zenon DEF Undropped, Exclusive, Running
<1>2. ASSUME NEW u \in Puts PROVE CommitInv(u)
  BY Zenon DEF CommitInv, Requests
<1>3. ASSUME NEW d \in Deletes PROVE DeleteInv(d)
  BY Zenon DEF DeleteInv, Requests
<1>4. ASSUME NEW r \in Readers PROVE ReadInv(r)
  BY Zenon DEF ReadInv, Requests, Readers
<1> QED
  BY Zenon, <1>1, <1>2, <1>3, <1>4 DEF PairInv

LEMMA NextPair ==
  ASSUME TakeTurns, ~MayCrash, OneFailure, IInv, PairInv, [Next]_vars
  PROVE  PairInv'
<1>1. CASE UNCHANGED vars
  <2>1. \A u \in Puts : CommitInv(u)'
    BY Zenon, <1>1, CommitFrame DEF vars, PairInv
  <2>2. \A r \in Readers : ReadInv(r)'
    BY Zenon, <1>1 DEF vars, PairInv, ReadInv
  <2> QED
    BY Zenon, <1>1, <2>1, <2>2 DEF vars, PairInv, Undropped, Exclusive, Settled, DeleteInv, Running
<1> QED
  BY Zenon, <1>1, ServePair, BeginPair DEF Next, TakeTurns, Cancel, Crash, Recover, PairInv,
     cleanup_stale_temp_files, cleanup_orphaned_object_files, cleanup_orphaned_metadata_files

(* The store whose clients take turns, and where one call fails that is    *)
(* not a removal.                                                          *)
LEMMA PairInvariance ==
  ASSUME TakeTurns, ~MayCrash, OneFailure
  PROVE  Spec => [](IInv /\ PairInv)
<1>1. IInv /\ PairInv /\ [Next]_vars => PairInv'
  BY Zenon, NextPair
<1> QED
  BY <1>1, InitPair, Invariance, PTL DEF Spec

(* Whenever no request on a key is running, the published metadata         *)
(* describes the published bytes, whichever one call of                    *)
(* commit_staged_object or delete_object has failed.                       *)
THEOREM WholeAtRestAlways ==
  ASSUME TakeTurns, ~MayCrash, OneFailure
  PROVE  Spec => []WholeAtRest
<1>1. PairInv => WholeAtRest
  BY Zenon DEF PairInv, WholeAtRest, Quiet, NotTorn, Settled, Unsettled, Running, Writers, Requests
<1> QED
  BY <1>1, PairInvariance, PTL

(* An upload answered with an error has left neither its bytes nor its     *)
(* metadata under the key: the rollback of commit_staged_object is         *)
(* complete.                                                               *)
THEOREM FailedPutHasNoEffectAlways ==
  ASSUME TakeTurns, ~MayCrash, OneFailure
  PROVE  Spec => []FailedPutHasNoEffect
<1>1. PairInv => FailedPutHasNoEffect
  <2> SUFFICES ASSUME PairInv, NEW u \in Puts, reply[u] = "err"
               PROVE  object[KeyOf[u]] # u /\ metadata[KeyOf[u]] # u
    BY Zenon DEF FailedPutHasNoEffect
  <2>1. CommitInv(u) /\ pc[u] = "done"
    BY Zenon DEF PairInv, Undropped, Requests
  <2> QED
    BY Zenon, <2>1, CommitAtRest
<1> QED
  BY <1>1, PairInvariance, PTL

(* A GET that answers 200 streams the bytes its headers describe.          *)
THEOREM ReadsWholeAlways ==
  ASSUME TakeTurns, ~MayCrash, OneFailure
  PROVE  Spec => []ReadsWhole
<1>1. PairInv => ReadsWhole
  BY Zenon DEF PairInv, ReadsWhole, ReadInv, Undropped, Requests, Readers
<1> QED
  BY <1>1, PairInvariance, PTL

-----------------------------------------------------------------------------
(* The atomic map the store implements.                                    *)

RestoresMetadata(k) == \E u \in Puts : KeyOf[u] = k /\ pc[u] = "rbMeta"

(* While a rollback has removed the metadata, the bytes it has already     *)
(* restored say what the key holds.                                        *)
StoreAgrees ==
  \A k \in Keys : StoreMap[k] = IF RestoresMetadata(k) THEN object[k] ELSE metadata[k]

LEMMA StoreValue == PairInv => StoreAgrees
<1> SUFFICES ASSUME PairInv, NEW k \in Keys
             PROVE  StoreMap[k] = IF RestoresMetadata(k) THEN object[k] ELSE metadata[k]
  BY Zenon DEF StoreAgrees
<1>1. CASE RestoresMetadata(k)
  <2> DEFINE u == CHOOSE u \in Puts : KeyOf[u] = k /\ pc[u] = "rbMeta"
  <2>1. u \in Puts /\ KeyOf[u] = k /\ pc[u] = "rbMeta"
    BY Zenon, <1>1 DEF RestoresMetadata
  <2>2. StoreMap[k] = tmp[u]["metaBackup"]
    BY Zenon, <1>1 DEF StoreMap, RestoresMetadata
  <2> HIDE DEF u
  <2>3. tmp[u]["metaBackup"] = object[k]
    BY Zenon, <2>1 DEF PairInv, CommitInv
  <2> QED
    BY Zenon, <1>1, <2>2, <2>3
<1>2. CASE ~RestoresMetadata(k)
  BY Zenon, <1>2 DEF StoreMap, RestoresMetadata
<1> QED
  BY Zenon, <1>1, <1>2

LEMMA StoreValueNext == PairInv' => StoreAgrees'
BY StoreValue, PTL

(* When two functions on Keys agree everywhere, they are equal.            *)
LEMMA StoreEquality ==
  /\ (\A k \in Keys : StoreMap'[k] = StoreMap[k]) => StoreMap' = StoreMap
  /\ \A r, new : /\ KeyOf[r] \in Keys
                 /\ StoreMap'[KeyOf[r]] = new
                 /\ \A k \in Keys \ {KeyOf[r]} : StoreMap'[k] = StoreMap[k]
                 => StoreMap' = [StoreMap EXCEPT ![KeyOf[r]] = new]
BY ZenonT(30) DEF StoreMap

(* A call on one key leaves what the others hold.                          *)
LEMMA OtherKeys ==
  ASSUME PairInv, PairInv', NEW r \in Requests, CallEffect(r)
  PROVE  \A k \in Keys \ {KeyOf[r]} : StoreMap'[k] = StoreMap[k]
<1> SUFFICES ASSUME NEW k \in Keys \ {KeyOf[r]} PROVE StoreMap'[k] = StoreMap[k]
  BY Zenon
<1>1. object'[k] = object[k] /\ metadata'[k] = metadata[k]
  BY Zenon DEF CallEffect
<1>2. RestoresMetadata(k)' <=> RestoresMetadata(k)
  BY Zenon DEF RestoresMetadata, CallEffect, Requests
<1> QED
  BY Zenon, <1>1, <1>2, StoreValue, StoreValueNext DEF StoreAgrees

(* The request that runs on a key is the only one that can be restoring    *)
(* its metadata.                                                           *)
LEMMA RunningStore ==
  ASSUME PairInv, NEW r \in Requests, Running(r)
  PROVE  StoreMap[KeyOf[r]] = IF r \in Puts /\ pc[r] = "rbMeta" THEN object[KeyOf[r]]
                                                                ELSE metadata[KeyOf[r]]
<1>1. KeyOf[r] \in Keys
  BY Zenon, ParameterTypes
<1>2. RestoresMetadata(KeyOf[r]) <=> r \in Puts /\ pc[r] = "rbMeta"
  BY Zenon DEF RestoresMetadata, PairInv, Exclusive, Running, Requests
<1> QED
  BY Zenon, <1>1, <1>2, StoreValue DEF StoreAgrees

LEMMA CalledStore ==
  ASSUME PairInv, PairInv', NEW r \in Requests, CallEffect(r)
  PROVE  StoreMap'[KeyOf[r]] = IF r \in Puts /\ pc'[r] = "rbMeta" THEN object'[KeyOf[r]]
                                                                  ELSE metadata'[KeyOf[r]]
<1>1. KeyOf[r] \in Keys
  BY ZenonT(30), ParameterTypes
<1>2. RestoresMetadata(KeyOf[r])' <=> r \in Puts /\ pc'[r] = "rbMeta"
  BY DEF RestoresMetadata, PairInv, Exclusive, CallEffect, Running, Requests
<1> QED
  BY Zenon, <1>1, <1>2, StoreValueNext DEF StoreAgrees

(* A call answers its own request only, and the map of reads follows the   *)
(* answers.                                                                *)
LEMMA OneAnswer ==
  ASSUME IInv, IInv', NEW r \in Requests, CallEffect(r)
  PROVE  /\ reply' = [reply EXCEPT ![r] = reply'[r]]
         /\ reply'[r] = reply[r] => reply' = reply
         /\ r \notin Readers => ReadMap' = ReadMap
         /\ r \in Readers => ReadMap' = [ReadMap EXCEPT ![r] = ReadMap'[r]]
<1>1. reply \in [Requests -> Replies] /\ reply' \in [Requests -> Replies]
  BY Zenon DEF IInv, TypeOK
<1>2. \A q \in Requests \ {r} : reply'[q] = reply[q]
  BY Zenon DEF CallEffect
<1>3. \A q \in Readers \ {r} : ReadMap'[q] = ReadMap[q]
  BY Zenon DEF CallEffect, ReadMap, Requests, Readers
<1>4. reply' = [reply EXCEPT ![r] = reply'[r]]
  BY Zenon, <1>1, <1>2
<1>5. r \notin Readers => ReadMap' = ReadMap
  BY Zenon, <1>3 DEF ReadMap
<1>6. r \in Readers => ReadMap' = [ReadMap EXCEPT ![r] = ReadMap'[r]]
  BY Zenon, <1>3 DEF ReadMap
<1>7. reply'[r] = reply[r] => reply' = reply
  BY <1>1, <1>2
<1> QED
  BY ZenonT(30), <1>4, <1>5, <1>6, <1>7

AtomicStep == [Atomic!AtomicNext]_(Atomic!avars)

(* Publishing its metadata is the moment an upload takes effect.           *)
LEMMA PutRefines ==
  ASSUME OneFailure, IInv, IInv', PairInv, PairInv', NEW u \in Puts, Put(u)
  PROVE  AtomicStep
<1> USE KindsDisjoint, ParameterTypes
<1> DEFINE k == KeyOf[u]
<1>1. u \in Requests /\ u \notin Readers /\ k \in Keys /\ Serve(u)
  BY Zenon DEF Requests, Serve
<1>2. reply[u] = "none" /\ CallEffect(u) /\ Running(u)
  BY Zenon, <1>1, ServeUndropped, ServeRuns DEF PairInv
<1>3. CommitInv(u) /\ CommitInv(u)' /\ Matched(u) /\ Matched(u)' /\ PutWrites(u)
  <2>1. CommitInv(u) /\ Matched(u)
    BY Zenon, <1>1, <1>2, RunningMatched DEF PairInv
  <2> QED
    BY Zenon, <1>2, <2>1, PutCall DEF Kept, CommitKept
<1>4. /\ reply' = [reply EXCEPT ![u] = reply'[u]] /\ ReadMap' = ReadMap
      /\ reply'[u] = "none" => reply' = reply
      /\ \A j \in Keys \ {k} : StoreMap'[j] = StoreMap[j]
      /\ StoreMap[k] = IF pc[u] = "rbMeta" THEN object[k] ELSE metadata[k]
      /\ StoreMap'[k] = IF pc'[u] = "rbMeta" THEN object'[k] ELSE metadata'[k]
  BY ZenonT(30), <1>1, <1>2, OneAnswer, OtherKeys, RunningStore, CalledStore
<1>5. CASE /\ pc[u] = "renameMeta" /\ pc'[u] # "rbMeta"
           /\ metadata'[k] = u /\ reply'[u] = "none"
  <2>1. StoreMap' = [StoreMap EXCEPT ![k] = u]
    BY ZenonT(30), <1>1, <1>4, <1>5, StoreEquality
  <2> QED
    BY ZenonT(30), <1>2, <1>4, <1>5, <2>1
    DEF AtomicStep, Atomic!AtomicNext, Atomic!TakeEffect, Atomic!Pending
<1>6. CASE /\ pc[u] \in {"rbRmMeta", "rbMeta"} /\ pc'[u] \in {"rbMeta", "cleanData"}
           /\ object' = object /\ reply'[u] = "none"
  <2>1. StoreMap[k] = object[k]
    BY Zenon, <1>3, <1>4, <1>6 DEF Matched, Unsettled
  <2>2. StoreMap'[k] = object'[k]
    BY Zenon, <1>3, <1>4, <1>6 DEF Matched, Unsettled
  <2> QED
    BY Zenon, <1>4, <1>6, <2>1, <2>2, StoreEquality DEF AtomicStep, Atomic!avars
<1>7. CASE /\ metadata' = metadata /\ pc[u] # "rbMeta" /\ pc'[u] # "rbMeta"
           /\ reply'[u] = "ok" => pc[u] = "rmMetaBackup"
  <2>1. StoreMap' = StoreMap /\ StoreMap[k] = metadata[k]
    BY Zenon, <1>4, <1>7, StoreEquality
  <2>2. CASE reply'[u] = "none"
    BY Zenon, <1>4, <2>1, <2>2 DEF AtomicStep, Atomic!avars
  <2>3. CASE reply'[u] = "ok"
    <3>1. StoreMap[k] = u
      BY Zenon, <1>3, <1>7, <2>1, <2>3 DEF CommitInv, Matched, Unsettled
    <3> QED
      BY ZenonT(30), <1>2, <1>4, <2>1, <2>3, <3>1
      DEF AtomicStep, Atomic!AtomicNext, Atomic!PutAnswer, Atomic!Reply, Atomic!Pending
  <2>4. CASE reply'[u] = "err" /\ pc'[u] = "done"
    <3>1. StoreMap[k] # u
      BY Zenon, <1>3, <1>7, <2>1, <2>4 DEF CommitInv
    <3> QED
      BY Zenon, <1>2, <1>4, <2>1, <2>4, <3>1
      DEF AtomicStep, Atomic!AtomicNext, Atomic!PutAnswer, Atomic!Reply, Atomic!Pending
  <2> QED
    BY ZenonT(30), <1>2, <2>2, <2>3, <2>4 DEF CallEffect, Ends
<1> QED
  BY ZenonT(30), <1>3, <1>5, <1>6, <1>7 DEF PutWrites

(* A deletion takes effect when it removes the metadata.                   *)
LEMMA DeleteRefines ==
  ASSUME RemovalsSucceed, IInv, IInv', PairInv, PairInv', NEW d \in Deletes, delete_object(d)
  PROVE  AtomicStep
<1> USE KindsDisjoint, ParameterTypes
<1> DEFINE k == KeyOf[d]
<1>1. d \in Requests /\ d \notin Readers /\ d \notin Puts /\ k \in Keys /\ Serve(d) /\ TypeOK
  BY Zenon DEF Requests, Serve, IInv
<1>2. reply[d] = "none" /\ CallEffect(d) /\ Running(d)
  BY Zenon, <1>1, ServeUndropped, ServeRuns DEF PairInv
<1>3. DeleteInv(d)
  BY Zenon DEF PairInv
<1>4. /\ reply' = [reply EXCEPT ![d] = reply'[d]] /\ ReadMap' = ReadMap
      /\ reply'[d] = "none" => reply' = reply
      /\ \A j \in Keys \ {k} : StoreMap'[j] = StoreMap[j]
      /\ StoreMap[k] = metadata[k] /\ StoreMap'[k] = metadata'[k]
  BY ZenonT(30), <1>1, <1>2, OneAnswer, OtherKeys, RunningStore, CalledStore
<1>5. \/ metadata'[k] = Nil /\ reply'[d] = "none"
      \/ metadata[k] = Nil /\ metadata' = metadata /\ reply'[d] = "ok"
  <2>1. ~Fails("remove")
    BY Zenon DEF RemovalsSucceed, Fails
  <2> QED
    BY Zenon, <1>2, <1>3, <2>1, DeleteOutcome DEF DeleteWrites, DeleteInv
<1>6. CASE metadata'[k] = Nil /\ reply'[d] = "none"
  <2>1. StoreMap' = [StoreMap EXCEPT ![k] = Nil]
    BY ZenonT(30), <1>1, <1>4, <1>6, StoreEquality
  <2> QED
    BY ZenonT(30), <1>2, <1>4, <1>6, <2>1
    DEF AtomicStep, Atomic!AtomicNext, Atomic!TakeEffect, Atomic!Pending
<1>7. CASE metadata[k] = Nil /\ metadata' = metadata /\ reply'[d] = "ok"
  <2>1. StoreMap' = StoreMap
    BY Zenon, <1>4, <1>7, StoreEquality
  <2> QED
    BY Zenon, <1>2, <1>4, <1>7, <2>1
    DEF AtomicStep, Atomic!AtomicNext, Atomic!DeleteAnswer, Atomic!Reply, Atomic!Pending
<1> QED
  BY ZenonT(30), <1>5, <1>6, <1>7

(* What a reader is answered with is what the map holds at that moment.    *)
LEMMA ReadAnswered ==
  ASSUME IInv, NEW r \in Readers, reply[r] = "none", ReadInv(r), Matched(r), Serve(r)
  PROVE  \/ reply'[r] \in {"none", "err"}
         \/ /\ reply'[r] = "ok"
            /\ got'[r] = [meta |-> metadata[KeyOf[r]],
                          bytes |-> IF r \in Gets THEN metadata[KeyOf[r]] ELSE Nil]
<1> USE KindsDisjoint
<1>1. TypeOK /\ r \in Requests /\ KeyOf[r] \in Keys /\ got[r] = [meta |-> got[r].meta, bytes |-> got[r].bytes]
  BY ZenonT(30), ParameterTypes DEF IInv, TypeOK, Requests, Readers
<1>2. CASE read_metadata(r)
  BY <1>1, <1>2, StepGoes, AnswerEnds, SMTT(30)
  DEF read_metadata, NotFound, ReadFails, ReadInv, TypeOK
<1>3. CASE stat_object(r)
  BY ZenonT(30), <1>1, <1>3, StepGoes, AnswerEnds
  DEF stat_object, NotFound, ReadFails, ReadInv, Matched, Unsettled, Readers
<1>4. CASE r \in Gets /\ open_bytes(r)
  BY <1>1, <1>4, AnswerEnds, SMTT(30)
  DEF open_bytes, NotFound, ReadFails, ReadInv, Matched, Unsettled, TypeOK
<1> QED
  BY ZenonT(30), <1>2, <1>3, <1>4 DEF Serve, Readers, open_object, head_object

LEMMA ReadRefines ==
  ASSUME IInv, IInv', PairInv, PairInv', NEW r \in Readers, Serve(r)
  PROVE  AtomicStep
<1> USE KindsDisjoint, ParameterTypes
<1> DEFINE k == KeyOf[r]
<1>1. r \in Requests /\ r \notin Puts /\ k \in Keys /\ TypeOK /\ ReadInv(r)
  BY Zenon DEF Requests, Readers, IInv, PairInv
<1>2. reply[r] = "none" /\ CallEffect(r) /\ Running(r) /\ Matched(r)
  BY Zenon, <1>1, ServeUndropped, ServeRuns, RunningMatched DEF PairInv
<1>3. UNCHANGED <<object, metadata>>
  BY Zenon, <1>2, ReadCall DEF Serve, Readers, open_object
<1>4. /\ reply' = [reply EXCEPT ![r] = reply'[r]]
      /\ reply'[r] = "none" => reply' = reply
      /\ ReadMap' = [ReadMap EXCEPT ![r] = ReadMap'[r]]
      /\ StoreMap[k] = metadata[k]
  BY Zenon, <1>1, <1>2, OneAnswer, RunningStore
<1>5. StoreMap' = StoreMap
  BY <1>1, <1>2, <1>3, OtherKeys, RunningStore, CalledStore, StoreEquality
<1>6. ReadMap[r] = [meta |-> Nil, bytes |-> Nil] /\ ReadMap'[r] = IF reply'[r] = "ok" THEN got'[r] ELSE ReadMap[r]
  BY Zenon, <1>2 DEF ReadMap
<1>7. reply'[r] # "ok" => ReadMap' = ReadMap
  BY Zenon, <1>4, <1>6 DEF ReadMap
<1>8. CASE reply'[r] = "none"
  BY Zenon, <1>4, <1>5, <1>7, <1>8 DEF AtomicStep, Atomic!avars
<1>9. CASE reply'[r] = "err"
  BY ZenonT(30), <1>2, <1>4, <1>5, <1>7, <1>9
  DEF AtomicStep, Atomic!AtomicNext, Atomic!ReadAnswer, Atomic!Reply, Atomic!Pending, Readers
<1>10. CASE /\ reply'[r] = "ok"
            /\ got'[r] = [meta |-> metadata[k], bytes |-> IF r \in Gets THEN metadata[k] ELSE Nil]
  BY ZenonT(30), <1>2, <1>4, <1>5, <1>6, <1>10
  DEF AtomicStep, Atomic!AtomicNext, Atomic!ReadAnswer, Atomic!Reply, Atomic!Pending, Readers
<1> QED
  BY ZenonT(30), <1>1, <1>2, <1>8, <1>9, <1>10, ReadAnswered

(* Beginning a request changes nothing the map shows.                      *)
LEMMA BeginRefines ==
  ASSUME IInv, PairInv, PairInv', NEW r \in Requests, Begin(r)
  PROVE  AtomicStep
<1>1. /\ UNCHANGED <<reply, object, metadata, tmp, got>>
      /\ \A q \in Requests \ {r} : pc'[q] = pc[q]
      /\ pc[r] = "idle" /\ pc'[r] # "rbMeta"
  BY Zenon, BeginEffect DEF PairInv
<1>2. \A k \in Keys : RestoresMetadata(k)' <=> RestoresMetadata(k)
  BY Zenon, <1>1 DEF RestoresMetadata, Requests
<1>3. StoreMap' = StoreMap
  BY ZenonT(30), <1>1, <1>2, StoreValue, StoreValueNext, StoreEquality DEF StoreAgrees
<1> QED
  BY Zenon, <1>1, <1>3 DEF AtomicStep, Atomic!avars, ReadMap

LEMMA NextRefines ==
  ASSUME TakeTurns, ~MayCrash, OneFailure, IInv, IInv', PairInv, PairInv', [Next]_vars
  PROVE  AtomicStep
<1>1. CASE UNCHANGED vars
  BY Zenon, <1>1 DEF vars, AtomicStep, Atomic!avars, StoreMap, ReadMap
<1>2. ASSUME NEW r \in Requests, Serve(r) PROVE AtomicStep
  BY Zenon, <1>2, PutRefines, DeleteRefines, ReadRefines DEF Serve, Readers, OneFailure
<1> QED
  BY Zenon, <1>1, <1>2, BeginRefines DEF Next, TakeTurns, Cancel, Crash, Recover, PairInv,
     cleanup_stale_temp_files, cleanup_orphaned_object_files, cleanup_orphaned_metadata_files

(* With clients that take turns, and one filesystem call failing anywhere  *)
(* but in a removal, the two-file store with its hard links, renames and   *)
(* rollback (commit_staged_object, delete_object, open_object) implements  *)
(* the atomic map, for any number of keys and requests.                    *)
THEOREM ImplementsAtomicStore ==
  ASSUME TakeTurns, ~MayCrash, OneFailure
  PROVE  Spec => RefinesAtomicStore
<1>1. Init => Atomic!AtomicInit
  BY Zenon DEF Init, Atomic!AtomicInit, StoreMap, ReadMap, Requests, Readers
<1>2. IInv /\ IInv' /\ PairInv /\ PairInv' /\ [Next]_vars => AtomicStep
  BY Zenon, NextRefines
<1> QED
  BY <1>1, <1>2, PairInvariance, PTL DEF Spec, AtomicStep, RefinesAtomicStore, Atomic!AtomicSpec

-----------------------------------------------------------------------------
(* Which step takes an object away.                                        *)

LEMMA OneKeyWritten ==
  ASSUME TypeOK, NEW r \in Requests, NEW c, NEW k \in Keys, k # KeyOf[r]
  PROVE  /\ SetObject(r, c) => object'[k] = object[k]
         /\ SetMetadata(r, c) => metadata'[k] = metadata[k]
BY Zenon DEF TypeOK, SetObject, SetMetadata

(* A step of an upload replaces a published file by a file, but for the    *)
(* two removals of its rollback.                                           *)
LEMMA PutKeepsPresent ==
  ASSUME IInv, NEW u \in Puts, Put(u), NEW k \in Keys, Present(k), ~Present(k)'
  PROVE  KeyOf[u] = k /\ pc[u] \in {"rbRmObj", "rbRmMeta"} /\ pc'[u] # pc[u]
<1> USE SentinelsDistinct
<1>1. TypeOK /\ UploadInv(u) /\ u \in Requests /\ KeyOf[u] \in Keys
  BY Zenon, ParameterTypes DEF IInv, Requests
<1>2. ~UNCHANGED <<object, metadata>>
  BY Zenon DEF Present
<1>3. CASE rename_object(u)
  <2>1. SetObject(u, u) /\ UNCHANGED metadata
    BY Zenon, <1>1, <1>2, <1>3 DEF rename_object, UploadInv
  <2> QED
    BY ZenonT(30), <1>1, <2>1, SetObjectEffect, OneKeyWritten DEF Present
<1>4. CASE rename_metadata(u)
  <2>1. SetMetadata(u, u) /\ UNCHANGED object
    BY Zenon, <1>1, <1>2, <1>4 DEF rename_metadata, UploadInv
  <2> QED
    BY Zenon, <1>1, <2>1, SetMetadataEffect, OneKeyWritten DEF Present
<1>5. CASE rollback_object(u)
  <2>1. CASE pc[u] = "rbRmObj"
    <3>1. metadata' = metadata /\ SetObject(u, Nil)
      BY Zenon, <1>2, <2>1, <1>5 DEF rollback_object
    <3>2. KeyOf[u] = k
      BY Zenon, <1>1, <3>1, OneKeyWritten DEF Present
    <3>3. pc'[u] # pc[u]
      BY Zenon, <1>1, <1>5, <2>1 DEF rollback_object, Step, TypeOK
    <3> QED
      BY ZenonT(30), <2>1, <3>2, <3>3
  <2>2. CASE pc[u] = "rbObj"
    <3>1. SetObject(u, tmp[u]["objBackup"]) /\ UNCHANGED metadata
      BY Zenon, <1>2, <2>2, <1>5 DEF rollback_object
    <3> QED
      BY ZenonT(30), <1>1, <2>2, <3>1, SetObjectEffect, OneKeyWritten DEF UploadInv, Present
  <2> QED
    BY Zenon, <2>1, <2>2, <1>5 DEF rollback_object
<1>6. CASE rollback_metadata(u)
  <2>1. CASE pc[u] = "rbRmMeta"
    <3>1. object' = object /\ SetMetadata(u, Nil)
      BY ZenonT(30), <1>2, <2>1, <1>6 DEF rollback_metadata
    <3>2. KeyOf[u] = k
      BY Zenon, <1>1, <3>1, OneKeyWritten DEF Present
    <3>3. pc'[u] # pc[u]
      BY Zenon, <1>1, <1>6, <2>1 DEF rollback_metadata, Step, TypeOK
    <3> QED
      BY Zenon, <2>1, <3>2, <3>3
  <2>2. CASE pc[u] = "rbMeta"
    <3>1. SetMetadata(u, tmp[u]["metaBackup"]) /\ UNCHANGED object
      BY Zenon, <1>2, <2>2, <1>6 DEF rollback_metadata
    <3> QED
      BY ZenonT(30), <1>1, <2>2, <3>1, SetMetadataEffect, OneKeyWritten DEF UploadInv, Present
  <2> QED
    BY Zenon, <2>1, <2>2, <1>6 DEF rollback_metadata
<1> QED
  BY ZenonT(30), <1>2, <1>3, <1>4, <1>5, <1>6 DEF Put, commit_staged_object, create_temp_object, finish, refuse_upload,
     discard, start_commit, write_metadata_tmp, backup_previous, backup_existing_file,
     remove_backups, clean_up_failed_commit, clean_up, published

(* An object disappears only by a step of a DELETE or of a rollback:       *)
(* commit_staged_object replaces it without hiding it, for any number of   *)
(* overlapping, failing, dropped and crashed requests and restarts.        *)
THEOREM OverwriteNeverHidesAlways == Spec => OverwriteNeverHides
<1> DEFINE Gone(k) == Present(k) /\ ~Present(k)' =>
                        \E r \in Puts \cup Deletes :
                          /\ KeyOf[r] = k
                          /\ pc[r] \in DeleteSteps \cup {"rbRmObj", "rbRmMeta"}
                          /\ pc'[r] # pc[r]
           A == \A k \in Keys : Gone(k)
<1>1. IInv /\ [Next]_vars => [A]_vars
  <2> SUFFICES ASSUME IInv, Next, NEW k \in Keys, Present(k), ~Present(k)'
               PROVE  \E r \in Puts \cup Deletes :
                        /\ KeyOf[r] = k
                        /\ pc[r] \in DeleteSteps \cup {"rbRmObj", "rbRmMeta"}
                        /\ pc'[r] # pc[r]
    BY Zenon
  <2>1. ~UNCHANGED <<object, metadata>>
    BY Zenon DEF Present
  <2>2. ASSUME NEW u \in Puts, Put(u)
        PROVE  KeyOf[u] = k /\ pc[u] \in {"rbRmObj", "rbRmMeta"} /\ pc'[u] # pc[u]
    BY ZenonT(30), <2>2, PutKeepsPresent
  <2>3. ASSUME NEW d \in Deletes, delete_object(d)
        PROVE  KeyOf[d] = k /\ pc[d] \in DeleteSteps /\ pc'[d] # pc[d]
    <3>1. TypeOK /\ d \in Requests /\ KeyOf[d] \in Keys
      BY Zenon, ParameterTypes DEF IInv, Requests
    <3> QED
      BY <2>1, <2>3, <3>1, OneKeyWritten DEF delete_object, delete_metadata, delete_bytes, DeleteSteps,
         Present, TypeOK, Step, Answer
  <2>4. ASSUME NEW r \in Requests, Begin(r) \/ Cancel(r) \/ open_object(r) \/ Crash
        PROVE  FALSE
    BY ZenonT(30), <2>1, <2>4 DEF Begin, Cancel, Crash, open_object, head_object, read_metadata, stat_object,
       open_bytes, unread, published
  <2>5. ~Recover
    BY Zenon, <2>1 DEF IInv, TypeOK, Recover, cleanup_stale_temp_files, cleanup_orphaned_object_files,
       cleanup_orphaned_metadata_files, OrphanObject, OrphanMetadata, Present, published
  <2>6. ~Crash
    BY Zenon, <2>1 DEF Crash, published
  <2> QED
    BY ZenonT(30), <2>2, <2>3, <2>4, <2>5, <2>6 DEF Next, Serve, open_object
<1> QED
  BY <1>1, Invariance, PTL DEF Spec, OverwriteNeverHides
=============================================================================
