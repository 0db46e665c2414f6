------------------------- MODULE ObjectStoreProofs -------------------------
(***************************************************************************)
(* For any number of keys and requests, any overlap, any failures, dropped *)
(* handlers and crashes: ObjectStore publishes only complete files of the  *)
(* right key, an acknowledged upload leaves nothing behind, and startup    *)
(* ends with whole pairs.  The last part is what each filesystem call of   *)
(* an upload keeps when its handler is not dropped.                        *)
(***************************************************************************)
EXTENDS ObjectStore, TLAPS

(* What may be published under k.                                          *)
Uploads(k) == {Nil} \cup {u \in Puts : KeyOf[u] = k}

(* PublishedWhole is not inductive: what a rename publishes must already   *)
(* be whole in tmp/.  The staged file is complete from `finish` to its     *)
(* rename, the metadata file from its write to its rename, and a rollback  *)
(* file is always a link to something that was published under the key.    *)
UploadInv(u) ==
  /\ tmp[u]["objBackup"] \in Uploads(KeyOf[u])
  /\ tmp[u]["metaBackup"] \in Uploads(KeyOf[u])
  /\ pc[u] \in {"staged", "writeMeta", "backupObj", "backupMeta", "renameObj"}
       => tmp[u]["data"] = u
  /\ pc[u] \in {"backupObj", "backupMeta", "renameObj", "renameMeta"}
       => tmp[u]["meta"] = u
  /\ pc[u] \in {"renameMeta", "rmObjBackup", "rmMetaBackup"}
       => tmp[u]["data"] = Nil
  /\ pc[u] \in {"rmObjBackup", "rmMetaBackup"} => tmp[u]["meta"] = Nil
  /\ pc[u] = "rmMetaBackup" => tmp[u]["objBackup"] = Nil
  /\ pc[u] = "rbObj" => tmp[u]["objBackup"] # Nil
  /\ pc[u] = "rbMeta" => tmp[u]["metaBackup"] # Nil
  /\ reply[u] = "ok" => pc[u] = "done" /\ tmp[u] = NoTmp

KeyInv(k) == object[k] \in Uploads(k) /\ metadata[k] \in Uploads(k)

(* During startup no request runs, and each cleanup pass keeps what the    *)
(* passes before it achieved.                                              *)
StartupInv ==
  /\ phase # "serving" => \A r \in Requests : ~Running(r)
  /\ phase \in {"rmObjects", "rmMetadata"} => \A u \in Puts : tmp[u] = NoTmp
  /\ phase = "rmMetadata" => \A k \in Keys : ~OrphanObject(k)

IInv ==
  /\ TypeOK
  /\ \A u \in Puts : UploadInv(u)
  /\ \A k \in Keys : KeyInv(k)
  /\ StartupInv
-----------------------------------------------------------------------------
(* What the calls and answers of a request change.                         *)

LEMMA StepEffect ==
  ASSUME TypeOK, NEW r \in Requests, NEW next \in Steps, Step(r, next)
  PROVE  /\ pc' \in [Requests -> Steps]
         /\ reply' \in [Requests -> Replies]
         /\ pc'[r] \in {next, "done"}
         /\ reply'[r] = reply[r]
         /\ \A q \in Requests \ {r} : pc'[q] = pc[q] /\ reply'[q] = reply[q]
BY Zenon DEF TypeOK, Step, Steps

LEMMA AnswerEffect ==
  ASSUME TypeOK, NEW r \in Requests, NEW a \in Replies, Answer(r, a)
  PROVE  /\ pc' \in [Requests -> Steps]
         /\ reply' \in [Requests -> Replies]
         /\ pc'[r] = "done"
         /\ reply'[r] \in {a, "cancelled"}
         /\ \A q \in Requests \ {r} : pc'[q] = pc[q] /\ reply'[q] = reply[q]
BY Zenon DEF TypeOK, Answer, Steps, Cancelled

LEMMA SetTmpEffect ==
  ASSUME TypeOK, NEW u \in Puts, NEW f \in TmpFiles, NEW c \in Content,
         SetTmp(u, f, c)
  PROVE  /\ tmp' \in [Puts -> [TmpFiles -> Content]]
         /\ tmp'[u][f] = c
         /\ \A g \in TmpFiles \ {f} : tmp'[u][g] = tmp[u][g]
         /\ \A w \in Puts \ {u} : tmp'[w] = tmp[w]
BY Zenon DEF TypeOK, SetTmp

LEMMA EmptyTmp ==
  ASSUME TypeOK, NEW u \in Puts
  PROVE  tmp[u] = NoTmp <=> ~HasTmp(u)
BY Zenon DEF TypeOK, HasTmp, NoTmp

(* An upload that has not ended has not been acknowledged.                 *)
LEMMA RunningUnanswered ==
  ASSUME IInv, NEW u \in Puts, pc[u] # "done"
  PROVE  reply[u] # "ok"
BY Zenon DEF IInv, UploadInv

-----------------------------------------------------------------------------
(* Preservation of IInv, one lemma per action.                             *)

(* What a call of upload u may change: its own program counter, answer and *)
(* temporary files, and the files published under its key.                 *)
PutEffect(u) ==
  /\ pc' \in [Requests -> Steps]
  /\ reply' \in [Requests -> Replies]
  /\ \A r \in Requests \ {u} : pc'[r] = pc[r] /\ reply'[r] = reply[r]
  /\ tmp' \in [Puts -> [TmpFiles -> Content]]
  /\ \A w \in Puts \ {u} : tmp'[w] = tmp[w]
  /\ failures' \in 0..MaxFailures
  /\ object' = object \/ \E c \in Uploads(KeyOf[u]) : SetObject(u, c)
  /\ metadata' = metadata \/ \E c \in Uploads(KeyOf[u]) : SetMetadata(u, c)
  /\ UNCHANGED rest

(* Such a call preserves IInv as soon as it preserves UploadInv(u).        *)
LEMMA PutStep ==
  ASSUME IInv, NEW u \in Puts, Running(u), PutEffect(u), UploadInv(u)'
  PROVE  IInv'
<1>1. TypeOK /\ u \in Requests
  BY Zenon DEF IInv, Requests
<1>2. object' \in [Keys -> Content] /\ metadata' \in [Keys -> Content]
  <2>1. Uploads(KeyOf[u]) \subseteq Content
    BY Zenon DEF Uploads, Content
  <2>2. object' \in [Keys -> Content]
    <3>1. ASSUME NEW c \in Content, SetObject(u, c) PROVE object' \in [Keys -> Content]
      BY Zenon, <1>1, <3>1 DEF SetObject, TypeOK
    <3> QED
      BY Zenon, <1>1, <2>1, <3>1 DEF PutEffect, TypeOK
  <2>3. metadata' \in [Keys -> Content]
    <3>1. ASSUME NEW c \in Content, SetMetadata(u, c) PROVE metadata' \in [Keys -> Content]
      BY Zenon, <1>1, <3>1 DEF SetMetadata, TypeOK
    <3> QED
      BY Zenon, <1>1, <2>1, <3>1 DEF PutEffect, TypeOK
  <2> QED
    BY Zenon, <2>2, <2>3
<1>3. TypeOK'
  BY Zenon, <1>1, <1>2 DEF PutEffect, TypeOK, rest
<1>4. ASSUME NEW w \in Puts PROVE UploadInv(w)'
  <2>1. CASE w # u
    <3>1. UploadInv(w) /\ w \in Requests
      BY Zenon DEF IInv, Requests
    <3> QED
      BY Zenon, <2>1, <3>1 DEF PutEffect, UploadInv
  <2> QED
    BY Zenon, <2>1
<1>5. ASSUME NEW k \in Keys PROVE KeyInv(k)'
  <2>1. KeyInv(k)
    BY Zenon DEF IInv
  <2> QED
    BY <1>1, <2>1 DEF PutEffect, SetObject, SetMetadata, TypeOK, KeyInv, Uploads
<1>6. StartupInv'
  <2>1. phase = "serving"
    BY Zenon, <1>1 DEF IInv, StartupInv
  <2> QED
    BY Zenon, <2>1 DEF PutEffect, rest, StartupInv
<1> QED
  BY Zenon, <1>3, <1>4, <1>5, <1>6 DEF IInv

(* What IInv says of an upload that runs.                                  *)
LEMMA RunningUpload ==
  ASSUME IInv, NEW u \in Puts, Running(u)
  PROVE  /\ TypeOK /\ u \in Requests /\ {"ok", "err"} \subseteq Replies
         /\ UploadInv(u) /\ KeyInv(KeyOf[u]) /\ reply[u] # "ok"
<1>1. u \in Requests /\ KeyOf[u] \in Keys
  BY Zenon, ParameterTypes DEF Requests
<1> QED
  BY Zenon, <1>1, RunningUnanswered DEF IInv, Running, Replies

LEMMA create_temp_object_IInv ==
  ASSUME IInv, NEW u \in Puts, create_temp_object(u)
  PROVE  IInv' /\ Running(u) /\ PutEffect(u)
<1> USE SentinelsDistinct
<1>1. Running(u)
  BY Zenon DEF create_temp_object, Running
<1>2. /\ TypeOK /\ u \in Requests /\ {"ok", "err"} \subseteq Replies
      /\ UploadInv(u) /\ KeyInv(KeyOf[u]) /\ reply[u] # "ok"
  BY Zenon, <1>1, RunningUpload
<1>s. {"write"} \subseteq Steps
  BY Zenon DEF Steps, PutSteps, CommitSteps
<1>3. /\ pc' \in [Requests -> Steps]
      /\ reply' \in [Requests -> Replies]
      /\ \A r \in Requests \ {u} : pc'[r] = pc[r] /\ reply'[r] = reply[r]
  BY Zenon, <1>2, <1>s, StepEffect, AnswerEffect DEF create_temp_object
<1>4. /\ tmp' \in [Puts -> [TmpFiles -> Content]]
      /\ \A w \in Puts \ {u} : tmp'[w] = tmp[w]
  BY ZenonT(30), <1>2, SetTmpEffect DEF create_temp_object, KeyInv, UploadInv, Uploads, TypeOK, Content, TmpFiles
<1>5. failures' \in 0..MaxFailures
  BY <1>2, ParameterTypes DEF create_temp_object, TypeOK, Succeeds, Fails
<1>6. UNCHANGED <<object, metadata>>
  BY Zenon DEF create_temp_object, published
<1>7. UploadInv(u)'
  BY SMTT(30), <1>2, <1>s, StepEffect, AnswerEffect, SetTmpEffect DEF create_temp_object, UploadInv, KeyInv, Uploads, Content, TmpFiles
<1>8. PutEffect(u)
  BY Zenon, <1>3, <1>4, <1>5, <1>6 DEF PutEffect, create_temp_object, rest
<1> QED
  BY Zenon, <1>1, <1>7, <1>8, PutStep

LEMMA finish_IInv ==
  ASSUME IInv, NEW u \in Puts, finish(u)
  PROVE  IInv' /\ Running(u) /\ PutEffect(u)
<1> USE SentinelsDistinct
<1>1. Running(u)
  BY Zenon DEF finish, Running
<1>2. /\ TypeOK /\ u \in Requests /\ {"ok", "err"} \subseteq Replies
      /\ UploadInv(u) /\ KeyInv(KeyOf[u]) /\ reply[u] # "ok"
  BY Zenon, <1>1, RunningUpload
<1>s. {"staged"} \subseteq Steps
  BY Zenon DEF Steps, PutSteps, CommitSteps
<1>3. /\ pc' \in [Requests -> Steps]
      /\ reply' \in [Requests -> Replies]
      /\ \A r \in Requests \ {u} : pc'[r] = pc[r] /\ reply'[r] = reply[r]
  BY Zenon, <1>2, <1>s, StepEffect DEF finish
<1>4. /\ tmp' \in [Puts -> [TmpFiles -> Content]]
      /\ \A w \in Puts \ {u} : tmp'[w] = tmp[w]
  BY Zenon, <1>2, SetTmpEffect DEF finish, KeyInv, UploadInv, Uploads, TypeOK, Content, TmpFiles
<1>5. failures' \in 0..MaxFailures
  BY Zenon, <1>2, ParameterTypes DEF finish, TypeOK, Succeeds, Fails
<1>6. UNCHANGED <<object, metadata>>
  BY Zenon DEF finish, published
<1>7. UploadInv(u)'
  BY SMTT(30), <1>2, <1>s, StepEffect, SetTmpEffect DEF finish, UploadInv, KeyInv, Uploads, Content, TmpFiles
<1>8. PutEffect(u)
  BY Zenon, <1>3, <1>4, <1>5, <1>6 DEF PutEffect, finish, rest
<1> QED
  BY Zenon, <1>1, <1>7, <1>8, PutStep

LEMMA refuse_upload_IInv ==
  ASSUME IInv, NEW u \in Puts, refuse_upload(u)
  PROVE  IInv' /\ Running(u) /\ PutEffect(u)
<1> USE SentinelsDistinct
<1>1. Running(u)
  BY Zenon DEF refuse_upload, Running
<1>2. /\ TypeOK /\ u \in Requests /\ {"ok", "err"} \subseteq Replies
      /\ UploadInv(u) /\ KeyInv(KeyOf[u]) /\ reply[u] # "ok"
  BY Zenon, <1>1, RunningUpload
<1>s. {"discard"} \subseteq Steps
  BY Zenon DEF Steps, PutSteps, CommitSteps
<1>3. /\ pc' \in [Requests -> Steps]
      /\ reply' \in [Requests -> Replies]
      /\ \A r \in Requests \ {u} : pc'[r] = pc[r] /\ reply'[r] = reply[r]
  BY Zenon, <1>2, <1>s, StepEffect DEF refuse_upload
<1>4. /\ tmp' \in [Puts -> [TmpFiles -> Content]]
      /\ \A w \in Puts \ {u} : tmp'[w] = tmp[w]
  BY Zenon, <1>2 DEF refuse_upload, TypeOK
<1>5. failures' \in 0..MaxFailures
  BY Zenon, <1>2, ParameterTypes DEF refuse_upload, TypeOK, Succeeds, Fails
<1>6. UNCHANGED <<object, metadata>>
  BY Zenon DEF refuse_upload, published
<1>7. UploadInv(u)'
  BY <1>2, <1>s, StepEffect DEF refuse_upload, UploadInv, KeyInv, Uploads, Content, TmpFiles
<1>8. PutEffect(u)
  BY Zenon, <1>3, <1>4, <1>5, <1>6 DEF PutEffect, refuse_upload, rest
<1> QED
  BY Zenon, <1>1, <1>7, <1>8, PutStep

LEMMA discard_IInv ==
  ASSUME IInv, NEW u \in Puts, discard(u)
  PROVE  IInv' /\ Running(u) /\ PutEffect(u)
<1> USE SentinelsDistinct
<1>1. Running(u)
  BY Zenon DEF discard, Running
<1>2. /\ TypeOK /\ u \in Requests /\ {"ok", "err"} \subseteq Replies
      /\ UploadInv(u) /\ KeyInv(KeyOf[u]) /\ reply[u] # "ok"
  BY Zenon, <1>1, RunningUpload
<1>3. /\ pc' \in [Requests -> Steps]
      /\ reply' \in [Requests -> Replies]
      /\ \A r \in Requests \ {u} : pc'[r] = pc[r] /\ reply'[r] = reply[r]
  BY Zenon, <1>2, AnswerEffect DEF discard
<1>4. /\ tmp' \in [Puts -> [TmpFiles -> Content]]
      /\ \A w \in Puts \ {u} : tmp'[w] = tmp[w]
  BY ZenonT(30), <1>2, SetTmpEffect DEF discard, KeyInv, UploadInv, Uploads, TypeOK, Content, TmpFiles
<1>5. failures' \in 0..MaxFailures
  BY <1>2, ParameterTypes DEF discard, TypeOK, Succeeds, Fails
<1>6. UNCHANGED <<object, metadata>>
  BY Zenon DEF discard, published
<1>7. UploadInv(u)'
  BY SMTT(30), <1>2, AnswerEffect, SetTmpEffect DEF discard, UploadInv, KeyInv, Uploads, Content, TmpFiles
<1>8. PutEffect(u)
  BY Zenon, <1>3, <1>4, <1>5, <1>6 DEF PutEffect, discard, rest
<1> QED
  BY Zenon, <1>1, <1>7, <1>8, PutStep

LEMMA start_commit_IInv ==
  ASSUME IInv, NEW u \in Puts, start_commit(u)
  PROVE  IInv' /\ Running(u) /\ PutEffect(u)
<1> USE SentinelsDistinct
<1>1. Running(u)
  BY Zenon DEF start_commit, Running
<1>2. /\ TypeOK /\ u \in Requests /\ {"ok", "err"} \subseteq Replies
      /\ UploadInv(u) /\ KeyInv(KeyOf[u]) /\ reply[u] # "ok"
  BY Zenon, <1>1, RunningUpload
<1>s. {"writeMeta", "cleanData"} \subseteq Steps
  BY Zenon DEF Steps, PutSteps, CommitSteps
<1>3. /\ pc' \in [Requests -> Steps]
      /\ reply' \in [Requests -> Replies]
      /\ \A r \in Requests \ {u} : pc'[r] = pc[r] /\ reply'[r] = reply[r]
  BY Zenon, <1>2, <1>s, StepEffect DEF start_commit
<1>4. /\ tmp' \in [Puts -> [TmpFiles -> Content]]
      /\ \A w \in Puts \ {u} : tmp'[w] = tmp[w]
  BY Zenon, <1>2 DEF start_commit, TypeOK
<1>5. failures' \in 0..MaxFailures
  BY <1>2, ParameterTypes DEF start_commit, TypeOK, Succeeds, Fails
<1>6. UNCHANGED <<object, metadata>>
  BY Zenon DEF start_commit, published
<1>7. UploadInv(u)'
  BY <1>2, <1>s, StepEffect DEF start_commit, UploadInv, KeyInv, Uploads, Content, TmpFiles
<1>8. PutEffect(u)
  BY Zenon, <1>3, <1>4, <1>5, <1>6 DEF PutEffect, start_commit, rest
<1> QED
  BY Zenon, <1>1, <1>7, <1>8, PutStep

LEMMA write_metadata_tmp_IInv ==
  ASSUME IInv, NEW u \in Puts, write_metadata_tmp(u)
  PROVE  IInv' /\ Running(u) /\ PutEffect(u)
<1> USE SentinelsDistinct
<1>1. Running(u)
  BY Zenon DEF write_metadata_tmp, Running
<1>2. /\ TypeOK /\ u \in Requests /\ {"ok", "err"} \subseteq Replies
      /\ UploadInv(u) /\ KeyInv(KeyOf[u]) /\ reply[u] # "ok"
  BY Zenon, <1>1, RunningUpload
<1>s. {"backupObj", "cleanData"} \subseteq Steps
  BY Zenon DEF Steps, PutSteps, CommitSteps
<1>3. /\ pc' \in [Requests -> Steps]
      /\ reply' \in [Requests -> Replies]
      /\ \A r \in Requests \ {u} : pc'[r] = pc[r] /\ reply'[r] = reply[r]
  BY Zenon, <1>2, <1>s, StepEffect DEF write_metadata_tmp
<1>4. /\ tmp' \in [Puts -> [TmpFiles -> Content]]
      /\ \A w \in Puts \ {u} : tmp'[w] = tmp[w]
  BY Zenon, <1>2, SetTmpEffect DEF write_metadata_tmp, KeyInv, UploadInv, Uploads, TypeOK, Content, TmpFiles
<1>5. failures' \in 0..MaxFailures
  BY <1>2, ParameterTypes DEF write_metadata_tmp, TypeOK, Succeeds, Fails
<1>6. UNCHANGED <<object, metadata>>
  BY Zenon DEF write_metadata_tmp, published
<1>7. UploadInv(u)'
  BY SMTT(30), <1>2, <1>s, StepEffect, SetTmpEffect DEF write_metadata_tmp, UploadInv, KeyInv, Uploads, Content, TmpFiles
<1>8. PutEffect(u)
  BY Zenon, <1>3, <1>4, <1>5, <1>6 DEF PutEffect, write_metadata_tmp, rest
<1> QED
  BY Zenon, <1>1, <1>7, <1>8, PutStep

LEMMA backup_previous_IInv ==
  ASSUME IInv, NEW u \in Puts, backup_previous(u)
  PROVE  IInv' /\ Running(u) /\ PutEffect(u)
<1> USE SentinelsDistinct
<1>1. Running(u)
  BY Zenon DEF backup_previous, backup_existing_file, Running
<1>2. /\ TypeOK /\ u \in Requests /\ {"ok", "err"} \subseteq Replies
      /\ UploadInv(u) /\ KeyInv(KeyOf[u]) /\ reply[u] # "ok"
  BY Zenon, <1>1, RunningUpload
<1>s. {"backupMeta", "renameObj", "cleanData"} \subseteq Steps
  BY Zenon DEF Steps, PutSteps, CommitSteps
<1>3. /\ pc' \in [Requests -> Steps]
      /\ reply' \in [Requests -> Replies]
      /\ \A r \in Requests \ {u} : pc'[r] = pc[r] /\ reply'[r] = reply[r]
  BY Zenon, <1>2, <1>s, StepEffect DEF backup_previous, backup_existing_file
<1>4. /\ tmp' \in [Puts -> [TmpFiles -> Content]]
      /\ \A w \in Puts \ {u} : tmp'[w] = tmp[w]
  BY ZenonT(30), <1>2, SetTmpEffect DEF backup_previous, backup_existing_file, KeyInv, UploadInv, Uploads, TypeOK, Content, TmpFiles
<1>5. failures' \in 0..MaxFailures
  BY <1>2, ParameterTypes DEF backup_previous, backup_existing_file, TypeOK, Succeeds, Fails
<1>6. UNCHANGED <<object, metadata>>
  BY Zenon DEF backup_previous, backup_existing_file, published
<1>7. UploadInv(u)'
  <2>1. CASE pc[u] = "backupObj"
    BY SMTT(30), <1>2, <2>1, <1>s, StepEffect, SetTmpEffect DEF backup_previous, backup_existing_file, UploadInv, KeyInv, Uploads, Content, TmpFiles
  <2>2. CASE pc[u] = "backupMeta"
    BY SMTT(30), <1>2, <2>2, <1>s, StepEffect, SetTmpEffect DEF backup_previous, backup_existing_file, UploadInv, KeyInv, Uploads, Content, TmpFiles
  <2> QED
    BY Zenon, <2>1, <2>2 DEF backup_previous, backup_existing_file
<1>8. PutEffect(u)
  BY Zenon, <1>3, <1>4, <1>5, <1>6 DEF PutEffect, backup_previous, backup_existing_file, rest
<1> QED
  BY Zenon, <1>1, <1>7, <1>8, PutStep

LEMMA rename_object_IInv ==
  ASSUME IInv, NEW u \in Puts, rename_object(u)
  PROVE  IInv' /\ Running(u) /\ PutEffect(u)
<1> USE SentinelsDistinct
<1>1. Running(u)
  BY Zenon DEF rename_object, Running
<1>2. /\ TypeOK /\ u \in Requests /\ {"ok", "err"} \subseteq Replies
      /\ UploadInv(u) /\ KeyInv(KeyOf[u]) /\ reply[u] # "ok"
  BY Zenon, <1>1, RunningUpload
<1>s. {"renameMeta", "cleanData"} \subseteq Steps
  BY Zenon DEF Steps, PutSteps, CommitSteps
<1>3. /\ pc' \in [Requests -> Steps]
      /\ reply' \in [Requests -> Replies]
      /\ \A r \in Requests \ {u} : pc'[r] = pc[r] /\ reply'[r] = reply[r]
  BY Zenon, <1>2, <1>s, StepEffect DEF rename_object
<1>4. /\ tmp' \in [Puts -> [TmpFiles -> Content]]
      /\ \A w \in Puts \ {u} : tmp'[w] = tmp[w]
  BY ZenonT(30), <1>2, SetTmpEffect DEF rename_object, KeyInv, UploadInv, Uploads, TypeOK, Content, TmpFiles
<1>5. failures' \in 0..MaxFailures
  BY <1>2, ParameterTypes DEF rename_object, TypeOK, Succeeds, Fails
<1>6. /\ object' = object \/ \E c \in Uploads(KeyOf[u]) : SetObject(u, c)
      /\ metadata' = metadata \/ \E c \in Uploads(KeyOf[u]) : SetMetadata(u, c)
  BY Zenon, <1>2 DEF rename_object, UploadInv, Uploads
<1>7. UploadInv(u)'
  BY SMTT(30), <1>2, <1>s, StepEffect, SetTmpEffect DEF rename_object, UploadInv, KeyInv, Uploads, Content, TmpFiles
<1>8. PutEffect(u)
  BY Zenon, <1>3, <1>4, <1>5, <1>6 DEF PutEffect, rename_object, rest
<1> QED
  BY Zenon, <1>1, <1>7, <1>8, PutStep

LEMMA rename_metadata_IInv ==
  ASSUME IInv, NEW u \in Puts, rename_metadata(u)
  PROVE  IInv' /\ Running(u) /\ PutEffect(u)
<1> USE SentinelsDistinct
<1>1. Running(u)
  BY Zenon DEF rename_metadata, Running
<1>2. /\ TypeOK /\ u \in Requests /\ {"ok", "err"} \subseteq Replies
      /\ UploadInv(u) /\ KeyInv(KeyOf[u]) /\ reply[u] # "ok"
  BY Zenon, <1>1, RunningUpload
<1>s. {"rmObjBackup", "rbRmObj"} \subseteq Steps
  BY Zenon DEF Steps, PutSteps, CommitSteps
<1>3. /\ pc' \in [Requests -> Steps]
      /\ reply' \in [Requests -> Replies]
      /\ \A r \in Requests \ {u} : pc'[r] = pc[r] /\ reply'[r] = reply[r]
  BY Zenon, <1>2, <1>s, StepEffect DEF rename_metadata
<1>4. /\ tmp' \in [Puts -> [TmpFiles -> Content]]
      /\ \A w \in Puts \ {u} : tmp'[w] = tmp[w]
  BY ZenonT(30), <1>2, SetTmpEffect DEF rename_metadata, KeyInv, UploadInv, Uploads, TypeOK, Content, TmpFiles
<1>5. failures' \in 0..MaxFailures
  BY <1>2, ParameterTypes DEF rename_metadata, TypeOK, Succeeds, Fails
<1>6. /\ object' = object \/ \E c \in Uploads(KeyOf[u]) : SetObject(u, c)
      /\ metadata' = metadata \/ \E c \in Uploads(KeyOf[u]) : SetMetadata(u, c)
  BY Zenon, <1>2 DEF rename_metadata, UploadInv, Uploads
<1>7. UploadInv(u)'
  BY SMTT(30), <1>2, <1>s, StepEffect, SetTmpEffect DEF rename_metadata, UploadInv, KeyInv, Uploads, Content, TmpFiles
<1>8. PutEffect(u)
  BY Zenon, <1>3, <1>4, <1>5, <1>6 DEF PutEffect, rename_metadata, rest
<1> QED
  BY Zenon, <1>1, <1>7, <1>8, PutStep

LEMMA rollback_object_IInv ==
  ASSUME IInv, NEW u \in Puts, rollback_object(u)
  PROVE  IInv' /\ Running(u) /\ PutEffect(u)
<1> USE SentinelsDistinct
<1>1. Running(u)
  BY Zenon DEF rollback_object, LeftBehind, Running
<1>2. /\ TypeOK /\ u \in Requests /\ {"ok", "err"} \subseteq Replies
      /\ UploadInv(u) /\ KeyInv(KeyOf[u]) /\ reply[u] # "ok"
  BY Zenon, <1>1, RunningUpload
<1>s. {"rbObj", "rbRmMeta"} \subseteq Steps
  BY Zenon DEF Steps, PutSteps, CommitSteps
<1>3. /\ pc' \in [Requests -> Steps]
      /\ reply' \in [Requests -> Replies]
      /\ \A r \in Requests \ {u} : pc'[r] = pc[r] /\ reply'[r] = reply[r]
  BY Zenon, <1>2, <1>s, StepEffect DEF rollback_object, LeftBehind
<1>4. /\ tmp' \in [Puts -> [TmpFiles -> Content]]
      /\ \A w \in Puts \ {u} : tmp'[w] = tmp[w]
  BY ZenonT(30), <1>2, SetTmpEffect DEF rollback_object, LeftBehind, KeyInv, UploadInv, Uploads, TypeOK, Content, TmpFiles
<1>5. failures' \in 0..MaxFailures
  BY SMTT(30), <1>2, ParameterTypes DEF rollback_object, LeftBehind, TypeOK, Succeeds, Fails
<1>6. /\ object' = object \/ \E c \in Uploads(KeyOf[u]) : SetObject(u, c)
      /\ metadata' = metadata \/ \E c \in Uploads(KeyOf[u]) : SetMetadata(u, c)
  BY Zenon, <1>2 DEF rollback_object, LeftBehind, UploadInv, Uploads
<1>7. UploadInv(u)'
  <2>1. CASE pc[u] = "rbRmObj"
    BY SMTT(30), <1>2, <2>1, <1>s, StepEffect, SetTmpEffect DEF rollback_object, LeftBehind, UploadInv, KeyInv, Uploads, Content, TmpFiles
  <2>2. CASE pc[u] = "rbObj"
    BY SMTT(30), <1>2, <2>2, <1>s, StepEffect, SetTmpEffect DEF rollback_object, LeftBehind, UploadInv, KeyInv, Uploads, Content, TmpFiles
  <2> QED
    BY ZenonT(30), <2>1, <2>2 DEF rollback_object, LeftBehind
<1>8. PutEffect(u)
  BY Zenon, <1>3, <1>4, <1>5, <1>6 DEF PutEffect, rollback_object, LeftBehind, rest
<1> QED
  BY Zenon, <1>1, <1>7, <1>8, PutStep

LEMMA rollback_metadata_IInv ==
  ASSUME IInv, NEW u \in Puts, rollback_metadata(u)
  PROVE  IInv' /\ Running(u) /\ PutEffect(u)
<1> USE SentinelsDistinct
<1>1. Running(u)
  BY Zenon DEF rollback_metadata, LeftBehind, Running
<1>2. /\ TypeOK /\ u \in Requests /\ {"ok", "err"} \subseteq Replies
      /\ UploadInv(u) /\ KeyInv(KeyOf[u]) /\ reply[u] # "ok"
  BY Zenon, <1>1, RunningUpload
<1>s. {"rbMeta", "cleanData"} \subseteq Steps
  BY Zenon DEF Steps, PutSteps, CommitSteps
<1>3. /\ pc' \in [Requests -> Steps]
      /\ reply' \in [Requests -> Replies]
      /\ \A r \in Requests \ {u} : pc'[r] = pc[r] /\ reply'[r] = reply[r]
  BY Zenon, <1>2, <1>s, StepEffect DEF rollback_metadata, LeftBehind
<1>4. /\ tmp' \in [Puts -> [TmpFiles -> Content]]
      /\ \A w \in Puts \ {u} : tmp'[w] = tmp[w]
  BY ZenonT(30), <1>2, SetTmpEffect DEF rollback_metadata, LeftBehind, KeyInv, UploadInv, Uploads, TypeOK, Content, TmpFiles
<1>5. failures' \in 0..MaxFailures
  BY SMTT(30), <1>2, ParameterTypes DEF rollback_metadata, LeftBehind, TypeOK, Succeeds, Fails
<1>6. /\ object' = object \/ \E c \in Uploads(KeyOf[u]) : SetObject(u, c)
      /\ metadata' = metadata \/ \E c \in Uploads(KeyOf[u]) : SetMetadata(u, c)
  BY Zenon, <1>2 DEF rollback_metadata, LeftBehind, UploadInv, Uploads
<1>7. UploadInv(u)'
  <2>1. CASE pc[u] = "rbRmMeta"
    BY SMTT(30), <1>2, <2>1, <1>s, StepEffect, SetTmpEffect DEF rollback_metadata, LeftBehind, UploadInv, KeyInv, Uploads, Content, TmpFiles
  <2>2. CASE pc[u] = "rbMeta"
    BY SMTT(30), <1>2, <2>2, <1>s, StepEffect, SetTmpEffect DEF rollback_metadata, LeftBehind, UploadInv, KeyInv, Uploads, Content, TmpFiles
  <2> QED
    BY Zenon, <2>1, <2>2 DEF rollback_metadata, LeftBehind
<1>8. PutEffect(u)
  BY Zenon, <1>3, <1>4, <1>5, <1>6 DEF PutEffect, rollback_metadata, LeftBehind, rest
<1> QED
  BY Zenon, <1>1, <1>7, <1>8, PutStep

LEMMA remove_backups_IInv ==
  ASSUME IInv, NEW u \in Puts, remove_backups(u)
  PROVE  IInv' /\ Running(u) /\ PutEffect(u)
<1> USE SentinelsDistinct
<1>1. Running(u)
  BY Zenon DEF remove_backups, Running
<1>2. /\ TypeOK /\ u \in Requests /\ {"ok", "err"} \subseteq Replies
      /\ UploadInv(u) /\ KeyInv(KeyOf[u]) /\ reply[u] # "ok"
  BY Zenon, <1>1, RunningUpload
<1>s. {"rmMetaBackup", "cleanData"} \subseteq Steps
  BY Zenon DEF Steps, PutSteps, CommitSteps
<1>3. /\ pc' \in [Requests -> Steps]
      /\ reply' \in [Requests -> Replies]
      /\ \A r \in Requests \ {u} : pc'[r] = pc[r] /\ reply'[r] = reply[r]
  BY Zenon, <1>2, <1>s, StepEffect, AnswerEffect DEF remove_backups
<1>4. /\ tmp' \in [Puts -> [TmpFiles -> Content]]
      /\ \A w \in Puts \ {u} : tmp'[w] = tmp[w]
  BY ZenonT(30), <1>2, SetTmpEffect DEF remove_backups, KeyInv, UploadInv, Uploads, TypeOK, Content, TmpFiles
<1>5. failures' \in 0..MaxFailures
  BY <1>2, ParameterTypes DEF remove_backups, TypeOK, Succeeds, Fails
<1>6. UNCHANGED <<object, metadata>>
  BY Zenon DEF remove_backups, published
<1>7. UploadInv(u)'
  <2>1. CASE pc[u] = "rmObjBackup"
    BY <1>2, <1>s, <2>1, StepEffect, SetTmpEffect
    DEF remove_backups, UploadInv, Uploads, Content, TmpFiles
  <2>2. CASE pc[u] = "rmMetaBackup" /\ SetTmp(u, "metaBackup", Nil) /\ Answer(u, "ok")
    <3>1. \A f \in TmpFiles : tmp'[u][f] = Nil
      BY Zenon, <1>2, <2>2 DEF UploadInv, TypeOK, TmpFiles, SetTmp
    <3>2. tmp'[u] = NoTmp
      BY Zenon, <1>4, <3>1 DEF NoTmp
    <3>3. pc'[u] = "done"
      BY Zenon, <1>2, <2>2 DEF Answer, TypeOK
    <3> QED
      BY Zenon, <3>1, <3>2, <3>3 DEF UploadInv, Uploads, TmpFiles
  <2>3. CASE Step(u, "cleanData") /\ UNCHANGED tmp
    BY Zenon, <1>2, <2>3 DEF UploadInv, TypeOK, Step
  <2> QED
    BY ZenonT(30), <2>1, <2>2, <2>3 DEF remove_backups
<1>8. PutEffect(u)
  BY Zenon, <1>3, <1>4, <1>5, <1>6 DEF PutEffect, remove_backups, rest
<1> QED
  BY Zenon, <1>1, <1>7, <1>8, PutStep

LEMMA clean_up_IInv ==
  ASSUME IInv, NEW u \in Puts, NEW f \in TmpFiles,
         NEW step \in {"cleanData", "cleanMeta", "cleanObjBackup", "cleanMetaBackup"},
         NEW next \in {"cleanMeta", "cleanObjBackup", "cleanMetaBackup", "done"},
         clean_up(u, step, f, next)
  PROVE  IInv' /\ Running(u) /\ PutEffect(u)
<1> USE SentinelsDistinct
<1>1. Running(u)
  BY Zenon DEF clean_up, Running
<1>2. /\ TypeOK /\ u \in Requests /\ {"ok", "err"} \subseteq Replies
      /\ UploadInv(u) /\ KeyInv(KeyOf[u]) /\ reply[u] # "ok"
  BY Zenon, <1>1, RunningUpload
<1>s. next \in Steps
  BY Zenon DEF Steps, PutSteps, CommitSteps
<1>3. /\ pc' \in [Requests -> Steps]
      /\ reply' \in [Requests -> Replies]
      /\ \A r \in Requests \ {u} : pc'[r] = pc[r] /\ reply'[r] = reply[r]
      /\ pc'[u] \in {next, "done"}
      /\ reply'[u] # "ok"
  <2>1. CASE Answer(u, "err")
    BY Zenon, <1>2, <2>1, AnswerEffect
  <2>2. CASE Step(u, next)
    BY Zenon, <1>2, <1>s, <2>2, StepEffect
  <2> QED
    BY Zenon, <2>1, <2>2 DEF clean_up
<1>4. /\ tmp' \in [Puts -> [TmpFiles -> Content]]
      /\ \A w \in Puts \ {u} : tmp'[w] = tmp[w]
      /\ \A g \in TmpFiles : tmp'[u][g] \in {tmp[u][g], Nil}
  <2>1. CASE SetTmp(u, f, Nil)
    BY Zenon, <1>2, <2>1, SetTmpEffect DEF Content
  <2>2. CASE UNCHANGED tmp
    BY Zenon, <1>2, <2>2 DEF TypeOK
  <2> QED
    BY Zenon, <2>1, <2>2 DEF clean_up
<1>5. failures' \in 0..MaxFailures
  BY <1>2, ParameterTypes, SMTT(30) DEF clean_up, TypeOK, Succeeds, Fails
<1>6. UNCHANGED <<object, metadata>>
  BY Zenon DEF clean_up, published
<1>7. UploadInv(u)'
  BY Zenon, <1>2, <1>3, <1>4 DEF UploadInv, Uploads, TmpFiles
<1>8. PutEffect(u)
  BY Zenon, <1>3, <1>4, <1>5, <1>6 DEF PutEffect, clean_up, rest
<1> QED
  BY Zenon, <1>1, <1>7, <1>8, PutStep

LEMMA clean_up_failed_commit_IInv ==
  ASSUME IInv, NEW u \in Puts, clean_up_failed_commit(u)
  PROVE  IInv' /\ Running(u) /\ PutEffect(u)
BY Zenon, clean_up_IInv DEF clean_up_failed_commit, TmpFiles

LEMMA Put_IInv ==
  ASSUME IInv, NEW u \in Puts, Put(u)
  PROVE  IInv' /\ Running(u) /\ PutEffect(u)
BY ZenonT(30), create_temp_object_IInv, finish_IInv, refuse_upload_IInv, discard_IInv,
   start_commit_IInv, write_metadata_tmp_IInv, backup_previous_IInv,
   rename_object_IInv, rename_metadata_IInv, rollback_object_IInv,
   rollback_metadata_IInv, remove_backups_IInv, clean_up_failed_commit_IInv
DEF Put, commit_staged_object

LEMMA delete_object_IInv ==
  ASSUME IInv, NEW d \in Deletes, delete_object(d)
  PROVE  IInv'
<1> USE KindsDisjoint, SentinelsDistinct, ParameterTypes
<1>1. TypeOK /\ d \in Requests \ Puts /\ {"ok", "err"} \subseteq Replies
  BY Zenon DEF IInv, Requests, Readers, Replies
<1>2. {"delObj"} \subseteq Steps
  BY Zenon DEF Steps, DeleteSteps, ReadSteps
<1>3. /\ pc' \in [Requests -> Steps]
      /\ reply' \in [Requests -> Replies]
      /\ \A q \in Requests \ {d} : pc'[q] = pc[q] /\ reply'[q] = reply[q]
  BY Zenon, <1>1, <1>2, StepEffect, AnswerEffect DEF delete_object, delete_metadata, delete_bytes
<1>4. TypeOK'
  <2>1. failures' \in 0..MaxFailures
    BY <1>1 DEF TypeOK, Succeeds, Fails, delete_object, delete_metadata, delete_bytes
  <2>2. object' \in [Keys -> Content] /\ metadata' \in [Keys -> Content]
    BY Zenon, <1>1 DEF TypeOK, Content, SetObject, SetMetadata,
       delete_object, delete_metadata, delete_bytes
  <2> QED
    BY Zenon, <1>1, <1>3, <2>1, <2>2 DEF TypeOK, delete_object, delete_metadata, delete_bytes, rest
<1>5. ASSUME NEW w \in Puts PROVE UploadInv(w)'
  BY <1>1, <1>3, ZenonT(30) DEF delete_object, delete_metadata, delete_bytes, IInv, UploadInv, Requests, unread
<1>6. ASSUME NEW k \in Keys PROVE KeyInv(k)'
  BY <1>1 DEF delete_object, delete_metadata, delete_bytes, IInv, TypeOK, KeyInv, Uploads,
     SetObject, SetMetadata, published, unread
<1>7. StartupInv'
  BY Zenon, <1>1 DEF delete_object, delete_metadata, delete_bytes, IInv, StartupInv, Running, rest, unread
<1> QED
  BY Zenon, <1>4, <1>5, <1>6, <1>7 DEF IInv

LEMMA open_object_IInv ==
  ASSUME IInv, NEW r \in Readers, open_object(r)
  PROVE  IInv'
<1> USE KindsDisjoint, SentinelsDistinct, ParameterTypes
<1>1. TypeOK /\ r \in Requests \ Puts /\ {"ok", "err"} \subseteq Replies
  BY Zenon DEF IInv, Requests, Readers, Replies
<1>2. {"statObj", "openObj"} \subseteq Steps
  BY Zenon DEF Steps, DeleteSteps, ReadSteps
<1>3. /\ pc' \in [Requests -> Steps]
      /\ reply' \in [Requests -> Replies]
      /\ \A q \in Requests \ {r} : pc'[q] = pc[q] /\ reply'[q] = reply[q]
  BY Zenon, <1>1, <1>2, StepEffect, AnswerEffect DEF open_object, head_object, read_metadata, stat_object, open_bytes, NotFound, ReadFails
<1>4. TypeOK'
  <2>1. failures' \in 0..MaxFailures
    BY <1>1 DEF TypeOK, Succeeds, Fails, ReadFails,
       open_object, head_object, read_metadata, stat_object, open_bytes
  <2>2. {object[KeyOf[r]], metadata[KeyOf[r]]} \subseteq Puts \cup {Nil}
    BY <1>1 DEF IInv, KeyInv, Uploads
  <2>4. \/ \E c \in Puts \cup {Nil} : \/ got' = [got EXCEPT ![r].meta = c]
                                    \/ got' = [got EXCEPT ![r].bytes = c]
        \/ got' = got
    <3>1. Nil \in Puts \cup {Nil}
      BY Zenon
    <3> QED
      BY Zenon, <2>2, <3>1 DEF NotFound, ReadFails,
         open_object, head_object, read_metadata, stat_object, open_bytes
  <2>5. got' \in [Readers -> [meta : Puts \cup {Nil}, bytes : Puts \cup {Nil}]]
    <3>1. got \in [Readers -> [meta : Puts \cup {Nil}, bytes : Puts \cup {Nil}]]
      BY Zenon, <1>1 DEF TypeOK
    <3>2. ASSUME NEW c \in Puts \cup {Nil},
                 \/ got' = [got EXCEPT ![r].meta = c]
                 \/ got' = [got EXCEPT ![r].bytes = c]
          PROVE  got' \in [Readers -> [meta : Puts \cup {Nil}, bytes : Puts \cup {Nil}]]
      BY <3>1, <3>2
    <3> QED
      BY Zenon, <2>4, <3>1, <3>2
  <2> QED
    BY ZenonT(30), <1>1, <1>3, <2>1, <2>5 DEF TypeOK, published, unread,
       open_object, head_object, read_metadata, stat_object, open_bytes
<1>5. ASSUME NEW w \in Puts PROVE UploadInv(w)'
  BY <1>1, <1>3 DEF open_object, head_object, read_metadata, stat_object, open_bytes, NotFound, ReadFails, IInv, UploadInv, Requests, unread
<1>6. ASSUME NEW k \in Keys PROVE KeyInv(k)'
  BY Zenon, <1>1 DEF open_object, head_object, read_metadata, stat_object, open_bytes, NotFound, ReadFails, IInv, TypeOK, KeyInv, Uploads,
     SetObject, SetMetadata, published, unread
<1>7. StartupInv'
  BY Zenon, <1>1 DEF open_object, head_object, read_metadata, stat_object, open_bytes, NotFound, ReadFails, IInv, StartupInv, Running, rest, unread
<1> QED
  BY Zenon, <1>4, <1>5, <1>6, <1>7 DEF IInv

LEMMA Begin_IInv ==
  ASSUME IInv, NEW r \in Requests, Begin(r)
  PROVE  IInv'
<1> USE KindsDisjoint, SentinelsDistinct, ParameterTypes
<1>1. TypeOK
  BY Zenon DEF IInv
<1>2. PICK first \in {"create", "delMeta", "readMeta"} : Step(r, first)
  <2>1. CASE r \in Puts
    BY Zenon, <2>1 DEF Begin, Readers
  <2>2. CASE r \in Deletes
    BY Zenon, <2>2 DEF Begin, Readers
  <2>3. CASE r \in Readers
    BY Zenon, <2>3 DEF Begin, Readers
  <2> QED
    BY Zenon, <2>1, <2>2, <2>3 DEF Requests, Readers
<1>3. {"create", "delMeta", "readMeta"} \subseteq Steps
  BY Zenon DEF Steps, PutSteps, DeleteSteps, ReadSteps
<1>4. /\ pc' \in [Requests -> Steps]
      /\ reply' = reply
      /\ pc'[r] \in {first, "done"}
      /\ \A q \in Requests \ {r} : pc'[q] = pc[q]
  BY Zenon, <1>1, <1>2, <1>3, StepEffect DEF Step
<1>5. TypeOK'
  <2>1. last' \in [Keys -> Puts \cup Deletes \cup {Nil}]
    BY Zenon, <1>1 DEF Begin, TypeOK, Requests, Readers
  <2> QED
    BY Zenon, <1>1, <1>4, <2>1 DEF Begin, TypeOK, published
<1>6. ASSUME NEW w \in Puts PROVE UploadInv(w)'
  <2>1. UploadInv(w) /\ tmp'[w] = tmp[w] /\ w \in Requests
    BY Zenon DEF IInv, Begin, Requests
  <2>2. CASE w = r
    BY Zenon, <1>2, <1>4, <2>1, <2>2 DEF UploadInv, Begin
  <2>3. CASE w # r
    BY Zenon, <1>4, <2>1, <2>3 DEF UploadInv
  <2> QED
    BY Zenon, <2>2, <2>3
<1>7. StartupInv' /\ \A k \in Keys : KeyInv(k)'
  BY Zenon DEF Begin, IInv, StartupInv, KeyInv, published
<1> QED
  BY Zenon, <1>5, <1>6, <1>7 DEF IInv

LEMMA Cancel_IInv ==
  ASSUME IInv, NEW r \in Requests, Cancel(r)
  PROVE  IInv'
<1>1. TypeOK'
  BY Zenon DEF IInv, Cancel, TypeOK, Steps, PutSteps, Replies, published, rest
<1>2. ASSUME NEW w \in Puts PROVE UploadInv(w)'
  BY Zenon DEF IInv, Cancel, TypeOK, UploadInv, Requests
<1>3. StartupInv' /\ \A k \in Keys : KeyInv(k)'
  BY Zenon DEF IInv, Cancel, StartupInv, KeyInv, published, rest
<1> QED
  BY Zenon, <1>1, <1>2, <1>3 DEF IInv

LEMMA Crash_IInv ==
  ASSUME IInv, Crash
  PROVE  IInv'
<1>1. TypeOK'
  BY Zenon DEF IInv, Crash, TypeOK, Steps, Startup, published
<1>2. ASSUME NEW w \in Puts PROVE UploadInv(w)'
  BY Zenon DEF IInv, Crash, TypeOK, UploadInv, Running, Requests
<1>3. StartupInv' /\ \A k \in Keys : KeyInv(k)'
  BY Zenon DEF IInv, Crash, TypeOK, StartupInv, Running, KeyInv, published
<1> QED
  BY Zenon, <1>1, <1>2, <1>3 DEF IInv

LEMMA Recover_IInv ==
  ASSUME IInv, Recover
  PROVE  IInv'
<1> USE SentinelsDistinct, ParameterTypes
<1>1. CASE cleanup_stale_temp_files
  <2>1. TypeOK /\ StartupInv /\ (\A w \in Puts : UploadInv(w)) /\ \A k \in Keys : KeyInv(k)
    BY Zenon DEF IInv
  <2>2. PICK gone \in SUBSET {e \in Puts \X TmpFiles : tmp[e[1]][e[2]] # Nil} :
          /\ Pass({e \in Puts \X TmpFiles : tmp[e[1]][e[2]] # Nil}, gone, "rmObjects")
          /\ tmp' = [u \in Puts |-> [f \in TmpFiles |->
                       IF <<u, f>> \in gone THEN Nil ELSE tmp[u][f]]]
    BY Zenon, <1>1 DEF cleanup_stale_temp_files
  <2>3. /\ phase = "rmTmp" /\ UNCHANGED <<published, pc, reply, got, failures, last>>
        /\ phase' \in {"rmTmp", "rmObjects"}
    BY Zenon, <1>1, <2>2 DEF cleanup_stale_temp_files, Pass
  <2>4. \A u \in Puts : \A f \in TmpFiles : tmp'[u][f] \in {tmp[u][f], Nil}
    BY Zenon, <2>2
  <2>5. tmp' \in [Puts -> [TmpFiles -> Content]]
    BY Zenon, <2>1, <2>2 DEF TypeOK, Content
  <2>6. TypeOK'
    BY Zenon, <2>1, <2>3, <2>5 DEF TypeOK, Startup, published
  <2>7. ASSUME NEW w \in Puts PROVE UploadInv(w)'
    <3>1. pc[w] \in {"idle", "done"} /\ w \in Requests
      BY Zenon, <2>1, <2>3 DEF StartupInv, Running, Requests
    <3>2. tmp[w] = NoTmp => tmp'[w] = NoTmp
      BY Zenon, <2>2 DEF NoTmp
    <3> QED
      BY Zenon, <2>1, <2>3, <2>4, <3>1, <3>2 DEF UploadInv, Uploads, TmpFiles
  <2>8. phase' = "rmObjects" => \A u \in Puts : tmp'[u] = NoTmp
    <3> SUFFICES ASSUME phase' = "rmObjects", NEW u \in Puts PROVE tmp'[u] = NoTmp
      OBVIOUS
    <3>1. \A f \in TmpFiles : <<u, f>> \in Puts \X TmpFiles /\ <<u, f>>[1] = u /\ <<u, f>>[2] = f
      OBVIOUS
    <3>2. gone = {e \in Puts \X TmpFiles : tmp[e[1]][e[2]] # Nil}
      BY Zenon, <2>2 DEF Pass
    <3>3. \A f \in TmpFiles : (IF <<u, f>> \in gone THEN Nil ELSE tmp[u][f]) = Nil
      BY <3>1, <3>2
    <3> QED
      BY Zenon, <2>2, <3>3 DEF NoTmp
  <2>9. StartupInv' /\ \A k \in Keys : KeyInv(k)'
    BY Zenon, <2>1, <2>3, <2>8 DEF StartupInv, KeyInv, Running, published
  <2> QED
    BY Zenon, <2>6, <2>7, <2>9 DEF IInv
<1>2. CASE cleanup_orphaned_object_files
  <2>1. TypeOK /\ StartupInv /\ (\A w \in Puts : UploadInv(w)) /\ \A k \in Keys : KeyInv(k)
    BY Zenon DEF IInv
  <2>2. PICK gone \in SUBSET {k \in Keys : OrphanObject(k)} :
          /\ Pass({k \in Keys : OrphanObject(k)}, gone, "rmMetadata")
          /\ object' = [k \in Keys |-> IF k \in gone THEN Nil ELSE object[k]]
    BY Zenon, <1>2 DEF cleanup_orphaned_object_files
  <2>3. /\ object' \in [Keys -> Content]
        /\ \A k \in Keys : object'[k] \in {object[k], Nil}
    BY Zenon, <2>1, <2>2 DEF TypeOK, Content
  <2>4. /\ phase = "rmObjects" /\ UNCHANGED <<metadata, tmp, pc, reply, got, failures, last>>
        /\ phase' \in {"rmTmp", "rmMetadata"}
    BY Zenon, <1>2, <2>2 DEF cleanup_orphaned_object_files, Pass
  <2>5. phase' = "rmMetadata" => \A k \in Keys : ~OrphanObject(k)'
    BY Zenon, <2>2, <2>4 DEF Pass, OrphanObject
  <2>6. TypeOK'
    BY Zenon, <2>1, <2>3, <2>4 DEF TypeOK, Startup
  <2>7. \A k \in Keys : KeyInv(k)'
    BY Zenon, <2>1, <2>3, <2>4 DEF KeyInv, Uploads
  <2>8. \A w \in Puts : UploadInv(w)'
    BY ZenonT(30), <2>1, <2>4 DEF UploadInv
  <2>9. StartupInv'
    BY Zenon, <2>1, <2>4, <2>5 DEF StartupInv, Running
  <2> QED
    BY Zenon, <2>6, <2>7, <2>8, <2>9 DEF IInv
<1>3. CASE cleanup_orphaned_metadata_files
  <2>1. TypeOK /\ StartupInv /\ (\A w \in Puts : UploadInv(w)) /\ \A k \in Keys : KeyInv(k)
    BY Zenon DEF IInv
  <2>2. PICK gone \in SUBSET {k \in Keys : OrphanMetadata(k)} :
          /\ Pass({k \in Keys : OrphanMetadata(k)}, gone, "serving")
          /\ metadata' = [k \in Keys |-> IF k \in gone THEN Nil ELSE metadata[k]]
    BY Zenon, <1>3 DEF cleanup_orphaned_metadata_files
  <2>3. /\ metadata' \in [Keys -> Content]
        /\ \A k \in Keys : metadata'[k] \in {metadata[k], Nil}
    BY Zenon, <2>1, <2>2 DEF TypeOK, Content
  <2>4. /\ phase = "rmMetadata" /\ UNCHANGED <<object, tmp, pc, reply, got, failures, last>>
        /\ phase' \in {"rmTmp", "serving"}
    BY Zenon, <1>3, <2>2 DEF cleanup_orphaned_metadata_files, Pass
  <2>5. TypeOK'
    BY Zenon, <2>1, <2>3, <2>4 DEF TypeOK, Startup
  <2>6. \A k \in Keys : KeyInv(k)'
    BY Zenon, <2>1, <2>3, <2>4 DEF KeyInv, Uploads
  <2>7. \A w \in Puts : UploadInv(w)'
    BY ZenonT(30), <2>1, <2>4 DEF UploadInv
  <2>8. StartupInv'
    BY Zenon, <2>1, <2>4 DEF StartupInv, Running
  <2> QED
    BY Zenon, <2>5, <2>6, <2>7, <2>8 DEF IInv
<1> QED
  BY Zenon, <1>1, <1>2, <1>3 DEF Recover

-----------------------------------------------------------------------------
(* The theorems.                                                           *)

LEMMA InitIInv == Init => IInv
<1> SUFFICES ASSUME Init PROVE IInv
  BY Zenon
<1>1. TypeOK
  BY SMTT(30), SentinelsDistinct, ParameterTypes DEF Init, TypeOK, Content, NoTmp, Steps, Replies
<1>2. \A u \in Puts : UploadInv(u)
  BY Zenon DEF Init, UploadInv, Uploads, NoTmp, TmpFiles, Requests
<1>3. StartupInv /\ \A k \in Keys : KeyInv(k)
  BY Zenon DEF Init, StartupInv, KeyInv, Uploads
<1> QED
  BY Zenon, <1>1, <1>2, <1>3 DEF IInv

LEMMA NextIInv == IInv /\ [Next]_vars => IInv'
<1> SUFFICES ASSUME IInv, [Next]_vars PROVE IInv'
  BY Zenon
<1>1. CASE UNCHANGED vars
  BY ZenonT(30), <1>1 DEF vars, IInv, TypeOK, UploadInv, KeyInv, StartupInv, Running, OrphanObject
<1>2. ASSUME NEW r \in Requests, Serve(r) PROVE IInv'
  BY Zenon, <1>2, Put_IInv, delete_object_IInv, open_object_IInv DEF Serve, Readers, open_object
<1> QED
  BY Zenon, <1>1, <1>2, Begin_IInv, Cancel_IInv, Crash_IInv, Recover_IInv DEF Next

(* The inductive invariant holds in every reachable state.                 *)
THEOREM Invariance == Spec => []IInv
BY InitIInv, NextIInv, PTL DEF Spec

(* Every variable keeps its type; in particular no reader ever reads a     *)
(* half-written metadata or object file (head_object, open_object).        *)
THEOREM TypeCorrect == Spec => []TypeOK
BY Invariance, PTL DEF IInv

(* commit_staged_object and its rollback publish only complete files of an *)
(* upload to the key, for any number of overlapping, failing, dropped and  *)
(* crashed requests.                                                       *)
THEOREM PublishedWholeAlways == Spec => []PublishedWhole
<1>1. IInv => PublishedWhole
  BY Zenon DEF IInv, KeyInv, Uploads, PublishedWhole
<1> QED
  BY <1>1, Invariance, PTL

(* An acknowledged upload has left nothing in tmp/.                        *)
THEOREM AckedPutLeavesNoTempAlways == Spec => []AckedPutLeavesNoTemp
<1>1. IInv => AckedPutLeavesNoTemp
  BY Zenon, EmptyTmp DEF IInv, UploadInv, AckedPutLeavesNoTemp
<1> QED
  BY <1>1, Invariance, PTL

LEMMA ServeKeepsPhase ==
  ASSUME NEW r \in Requests, Serve(r)
  PROVE  phase' = phase
<1>1. ASSUME Put(r) PROVE phase' = phase
  BY Zenon, <1>1 DEF Put, commit_staged_object, create_temp_object, finish, refuse_upload,
     discard, start_commit, write_metadata_tmp, backup_previous, backup_existing_file,
     rename_object, rename_metadata, rollback_object, rollback_metadata,
     remove_backups, clean_up_failed_commit, clean_up, rest
<1> QED
  BY Zenon, <1>1 DEF Serve, delete_object, delete_metadata, delete_bytes, open_object,
     head_object, read_metadata, stat_object, open_bytes, rest, unread

(* FileObjectStore::new returns with tmp/ empty and every key whole or     *)
(* absent, however often startup itself crashed.                           *)
THEOREM RecoveryPairs == Spec => RecoveryLeavesPairs
<1> DEFINE A == phase # "serving" /\ phase' = "serving" =>
                  /\ \A u \in Puts : ~HasTmp(u)'
                  /\ \A k \in Keys : object'[k] = Nil <=> metadata'[k] = Nil
<1>1. IInv /\ IInv' /\ [Next]_vars => [A]_vars
  <2> SUFFICES ASSUME IInv, IInv', [Next]_vars, phase # "serving", phase' = "serving"
               PROVE  A
    BY Zenon
  <2>1. cleanup_orphaned_metadata_files
    <3>1. ASSUME NEW r \in Requests, Serve(r) PROVE FALSE
      BY Zenon, <3>1, ServeKeepsPhase
    <3> QED
      BY Zenon, <3>1 DEF Next, vars, Begin, Cancel, Crash, Recover, rest,
         cleanup_stale_temp_files, cleanup_orphaned_object_files, Pass
  <2>2. /\ phase = "rmMetadata" /\ UNCHANGED <<object, tmp>>
        /\ \A k \in Keys : ~OrphanObject(k)
        /\ \A u \in Puts : tmp[u] = NoTmp
    BY Zenon, <2>1 DEF cleanup_orphaned_metadata_files, IInv, StartupInv
  <2>3. \A u \in Puts : ~HasTmp(u)'
    BY Zenon, <2>2 DEF HasTmp, NoTmp
  <2>4. PICK gone \in SUBSET {k \in Keys : OrphanMetadata(k)} :
          /\ Pass({k \in Keys : OrphanMetadata(k)}, gone, "serving")
          /\ metadata' = [k \in Keys |-> IF k \in gone THEN Nil ELSE metadata[k]]
    BY Zenon, <2>1 DEF cleanup_orphaned_metadata_files
  <2>5. gone = {k \in Keys : OrphanMetadata(k)}
    BY Zenon, <2>4 DEF Pass
  <2> QED
    BY Zenon, <2>2, <2>3, <2>4, <2>5 DEF OrphanObject, OrphanMetadata
<1> QED
  BY <1>1, Invariance, PTL DEF Spec, RecoveryLeavesPairs

-----------------------------------------------------------------------------
(* What each filesystem call of an upload keeps when its handler is not    *)
(* dropped.  Each lemma first says what the call leaves (where the upload  *)
(* goes, what is published, what is in tmp/) and derives the invariants    *)
(* from that.  ObjectStoreTurnsProofs puts them together.                  *)

(* The environments of the theorems.                                       *)
TakeTurns == ~Overlap /\ ~MayCancel
RemovalsSucceed == "remove" \notin FailingCalls
OneFailure == RemovalsSucceed /\ MaxFailures <= 1

-----------------------------------------------------------------------------
(* Invariants of one upload.                                               *)

(* What is left in tmp/ at each point of an upload whose handler is not    *)
(* dropped: each removal of the clean-up leaves one file less.             *)
LeakInv(u) ==
  /\ pc[u] \in {"idle", "create", "done", "cleanMeta", "cleanObjBackup", "cleanMetaBackup"} =>
       tmp[u]["data"] = Nil
  /\ pc[u] \in {"idle", "create", "done", "write", "staged", "discard", "writeMeta",
                "cleanObjBackup", "cleanMetaBackup"} => tmp[u]["meta"] = Nil
  /\ pc[u] \in {"idle", "create", "done", "write", "staged", "discard", "writeMeta",
                "cleanMetaBackup"} => tmp[u]["objBackup"] = Nil
  /\ pc[u] \in {"idle", "create", "done", "write", "staged", "discard", "writeMeta"} =>
       tmp[u]["metaBackup"] = Nil

(* The renames of an upload have taken place when it removes its rollback  *)
(* links, and nobody has undone them.                                      *)
AckInv(u) ==
  /\ pc[u] \in {"renameMeta", "rmObjBackup", "rmMetaBackup"} => object[KeyOf[u]] = u
  /\ pc[u] \in {"rmObjBackup", "rmMetaBackup"} => metadata[KeyOf[u]] = u
  /\ reply[u] = "ok" /\ last[KeyOf[u]] = u =>
       object[KeyOf[u]] = u /\ metadata[KeyOf[u]] = u

(* At these points of a commit, a rollback or a deletion the two files of  *)
(* the key differ.                                                         *)
Unsettled == {"renameMeta", "rbRmObj", "rbObj", "rbMeta", "delObj"}

(* While an upload runs, its rollback links are the pair it replaces, and  *)
(* a rollback meets no further failure.  Its own files are published only  *)
(* while it commits, and after it has been acknowledged.                   *)
CommitInv(u) ==
  LET o == object[KeyOf[u]]
      m == metadata[KeyOf[u]]
      ob == tmp[u]["objBackup"]
      mb == tmp[u]["metaBackup"]
  IN  /\ pc[u] = "backupMeta" => ob = o
      /\ pc[u] = "renameObj" => ob = o /\ mb = m
      /\ pc[u] \in {"renameMeta", "rbRmObj"} => o = u /\ ob = m /\ mb = m
      /\ pc[u] = "rbObj" => o = Nil /\ ob = m /\ mb = m
      /\ pc[u] = "rbRmMeta" => mb = m
      /\ pc[u] = "rbMeta" => m = Nil /\ mb = o
      /\ pc[u] \in {"rmObjBackup", "rmMetaBackup"} => o = u
      /\ pc[u] \in {"rbRmObj", "rbObj", "rbRmMeta", "rbMeta"} => failures = MaxFailures
      /\ o = u => \/ reply[u] = "ok"
                  \/ pc[u] \in {"renameMeta", "rbRmObj", "rmObjBackup", "rmMetaBackup"}
      /\ m = u => reply[u] = "ok" \/ pc[u] \in {"rmObjBackup", "rmMetaBackup"}

Matched(u) == pc[u] \notin Unsettled => object[KeyOf[u]] = metadata[KeyOf[u]]

(* A step of u puts under its key only u itself, nothing, or what one of   *)
(* the two files was already.                                              *)
NothingOlder(u) ==
  {object'[KeyOf[u]], metadata'[KeyOf[u]]} \subseteq
     {object[KeyOf[u]], metadata[KeyOf[u]], u, Nil}

CommitKept(u) ==
  OneFailure /\ CommitInv(u) /\ Matched(u) => CommitInv(u)' /\ Matched(u)' /\ NothingOlder(u)

(* The three kinds of call of an upload: the rename that publishes its     *)
(* metadata, the two that roll metadata back, and all others, which leave  *)
(* the metadata alone.                                                     *)
PutWrites(u) ==
  \/ /\ pc[u] = "renameMeta" /\ pc'[u] # "rbMeta"
     /\ metadata'[KeyOf[u]] = u /\ reply'[u] = "none"
  \/ /\ pc[u] \in {"rbRmMeta", "rbMeta"} /\ pc'[u] \in {"rbMeta", "cleanData"}
     /\ object' = object /\ reply'[u] = "none"
  \/ /\ metadata' = metadata /\ pc[u] # "rbMeta" /\ pc'[u] # "rbMeta"
     /\ reply'[u] = "ok" => pc[u] = "rmMetaBackup"

(* How a call of a request that is not dropped ends.                       *)
Ends(r) ==
  /\ reply'[r] = "none" \/ (pc'[r] = "done" /\ reply'[r] \in {"ok", "err"})
  /\ failures = MaxFailures => failures' = failures

(* What each call of an upload keeps.                                      *)
Kept(u) ==
  /\ Ends(u)
  /\ RemovalsSucceed /\ LeakInv(u) => LeakInv(u)'
  /\ AckInv(u) => AckInv(u)'
  /\ CommitKept(u)
  /\ PutWrites(u)

-----------------------------------------------------------------------------
(* What the calls and answers of a request that is not dropped change.     *)

LEMMA PutTyped ==
  ASSUME IInv, NEW u \in Puts
  PROVE  TypeOK /\ UploadInv(u) /\ u \in Requests /\ u # Nil
BY Zenon, SentinelsDistinct DEF IInv, Requests

LEMMA StepGoes ==
  ASSUME TypeOK, NEW r \in Requests, NEW next, reply[r] = "none", Step(r, next)
  PROVE  pc'[r] = next /\ reply'[r] = "none"
BY Zenon DEF TypeOK, Step, Cancelled

LEMMA AnswerEnds ==
  ASSUME TypeOK, NEW r \in Requests, NEW a, reply[r] = "none", Answer(r, a)
  PROVE  pc'[r] = "done" /\ reply'[r] = a
BY Zenon DEF TypeOK, Answer, Cancelled

LEMMA FailureBound ==
  ASSUME TypeOK, UNCHANGED failures \/ \E call : Fails(call)
  PROVE  failures = MaxFailures => failures' = failures
BY ParameterTypes DEF TypeOK, Fails

LEMMA LastFailure ==
  ASSUME TypeOK, OneFailure, NEW call, Fails(call)
  PROVE  failures # MaxFailures /\ failures' = MaxFailures /\ call # "remove"
BY ParameterTypes DEF TypeOK, Fails, OneFailure, RemovalsSucceed

LEMMA SetObjectEffect ==
  ASSUME TypeOK, NEW r \in Requests, NEW c, SetObject(r, c)
  PROVE  object'[KeyOf[r]] = c
BY Zenon, ParameterTypes DEF TypeOK, SetObject

LEMMA SetMetadataEffect ==
  ASSUME TypeOK, NEW r \in Requests, NEW c, SetMetadata(r, c)
  PROVE  metadata'[KeyOf[r]] = c
BY Zenon, ParameterTypes DEF TypeOK, SetMetadata

(* The files of u in tmp/ after a call.                                    *)
TmpBecomes(u, data, meta, objBackup, metaBackup) ==
  /\ tmp'[u]["data"] = data
  /\ tmp'[u]["meta"] = meta
  /\ tmp'[u]["objBackup"] = objBackup
  /\ tmp'[u]["metaBackup"] = metaBackup

LEMMA SetTmpLeaves ==
  ASSUME TypeOK, NEW u \in Puts, NEW c
  PROVE  LET t == tmp[u]
         IN  /\ SetTmp(u, "data", c) => TmpBecomes(u, c, t["meta"], t["objBackup"], t["metaBackup"])
             /\ SetTmp(u, "meta", c) => TmpBecomes(u, t["data"], c, t["objBackup"], t["metaBackup"])
             /\ SetTmp(u, "objBackup", c) => TmpBecomes(u, t["data"], t["meta"], c, t["metaBackup"])
             /\ SetTmp(u, "metaBackup", c) => TmpBecomes(u, t["data"], t["meta"], t["objBackup"], c)
BY DEF TypeOK, SetTmp, TmpFiles, TmpBecomes

(* A call that publishes nothing, before the renames or after the          *)
(* rollback.                                                               *)
Committing == {"backupMeta", "renameObj", "rbRmMeta", "rmObjBackup", "rmMetaBackup"} \cup Unsettled

LEMMA QuietCommit ==
  ASSUME NEW u \in Puts, reply[u] = "none",
         pc[u] \notin Unsettled \cup {"rmObjBackup", "rmMetaBackup"}, pc'[u] \notin Committing,
         UNCHANGED <<object, metadata>>
  PROVE  CommitKept(u)
BY Zenon DEF CommitKept, CommitInv, Matched, NothingOlder, Committing, Unsettled

(* A step that leaves the upload, its files and its key alone.             *)
LEMMA CommitFrame ==
  ASSUME NEW u \in Puts, CommitInv(u),
         pc'[u] = pc[u], reply'[u] = reply[u], tmp'[u] = tmp[u],
         object'[KeyOf[u]] = object[KeyOf[u]], metadata'[KeyOf[u]] = metadata[KeyOf[u]],
         failures = MaxFailures => failures' = failures
  PROVE  CommitInv(u)'
BY Zenon DEF CommitInv

(* The files of an upload that does not run are published only when it has *)
(* been acknowledged.                                                      *)
LEMMA CommitAtRest ==
  ASSUME NEW u \in Puts, pc[u] \in {"idle", "create", "done"}
  PROVE  CommitInv(u) <=> (u \in {object[KeyOf[u]], metadata[KeyOf[u]]} => reply[u] = "ok")
BY Zenon DEF CommitInv

LEMMA CommitAtRestNext ==
  ASSUME NEW u \in Puts, pc'[u] \in {"idle", "create", "done"},
         u \in {object'[KeyOf[u]], metadata'[KeyOf[u]]} => reply'[u] = "ok"
  PROVE  CommitInv(u)'
BY Zenon DEF CommitInv

LEMMA QuietAck ==
  ASSUME NEW u \in Puts, pc'[u] \notin {"renameMeta", "rmObjBackup", "rmMetaBackup"},
         reply'[u] # "ok"
  PROVE  AckInv(u)'
BY Zenon DEF AckInv

-----------------------------------------------------------------------------
(* The calls of an upload, one lemma each.                                 *)

LEMMA create_temp_object_Kept ==
  ASSUME IInv, NEW u \in Puts, reply[u] = "none", create_temp_object(u)
  PROVE  Kept(u)
<1>1. TypeOK /\ u \in Requests
  BY Zenon, PutTyped
<1>2. /\ pc[u] = "create" /\ UNCHANGED <<object, metadata>>
      /\ \/ /\ pc'[u] = "write" /\ reply'[u] = "none" /\ failures' = failures
            /\ TmpBecomes(u, Partial, tmp[u]["meta"], tmp[u]["objBackup"], tmp[u]["metaBackup"])
         \/ pc'[u] = "done" /\ reply'[u] = "err" /\ Fails("write") /\ tmp' = tmp
  BY ZenonT(30), <1>1, StepGoes, AnswerEnds, SetTmpLeaves DEF create_temp_object, Succeeds, published
<1>3. LeakInv(u) => LeakInv(u)'
  BY Zenon, <1>2 DEF LeakInv, TmpBecomes
<1>4. AckInv(u)' /\ CommitKept(u)
  BY Zenon, <1>2, QuietAck, QuietCommit DEF Committing, Unsettled
<1>5. Ends(u) /\ PutWrites(u)
  BY Zenon, <1>1, <1>2, FailureBound DEF Ends, PutWrites
<1> QED
  BY Zenon, <1>3, <1>4, <1>5 DEF Kept

LEMMA finish_Kept ==
  ASSUME IInv, NEW u \in Puts, reply[u] = "none", finish(u)
  PROVE  Kept(u)
<1>1. TypeOK /\ u \in Requests
  BY Zenon, PutTyped
<1>2. /\ pc[u] = "write" /\ UNCHANGED <<object, metadata, failures>>
      /\ pc'[u] = "staged" /\ reply'[u] = "none"
      /\ TmpBecomes(u, u, tmp[u]["meta"], tmp[u]["objBackup"], tmp[u]["metaBackup"])
  BY Zenon, <1>1, StepGoes, SetTmpLeaves DEF finish, published
<1>3. LeakInv(u) => LeakInv(u)'
  BY Zenon, <1>2 DEF LeakInv, TmpBecomes
<1>4. AckInv(u)' /\ CommitKept(u)
  BY Zenon, <1>2, QuietAck, QuietCommit DEF Committing, Unsettled
<1>5. Ends(u) /\ PutWrites(u)
  BY Zenon, <1>2 DEF Ends, PutWrites
<1> QED
  BY Zenon, <1>3, <1>4, <1>5 DEF Kept

LEMMA refuse_upload_Kept ==
  ASSUME IInv, NEW u \in Puts, reply[u] = "none", refuse_upload(u)
  PROVE  Kept(u)
<1>1. TypeOK /\ u \in Requests
  BY Zenon, PutTyped
<1>2. /\ pc[u] \in {"write", "staged"} /\ UNCHANGED <<object, metadata, failures, tmp>>
      /\ pc'[u] = "discard" /\ reply'[u] = "none"
  BY Zenon, <1>1, StepGoes DEF refuse_upload, published
<1>3. LeakInv(u) => LeakInv(u)'
  BY Zenon, <1>2 DEF LeakInv
<1>4. AckInv(u)' /\ CommitKept(u)
  BY Zenon, <1>2, QuietAck, QuietCommit DEF Committing, Unsettled
<1>5. Ends(u) /\ PutWrites(u)
  BY Zenon, <1>2 DEF Ends, PutWrites
<1> QED
  BY Zenon, <1>3, <1>4, <1>5 DEF Kept

LEMMA discard_Kept ==
  ASSUME IInv, NEW u \in Puts, reply[u] = "none", discard(u)
  PROVE  Kept(u)
<1>1. TypeOK /\ u \in Requests
  BY Zenon, PutTyped
<1>2. /\ pc[u] = "discard" /\ UNCHANGED <<object, metadata>>
      /\ pc'[u] = "done" /\ reply'[u] = "err"
      /\ \/ /\ failures' = failures
            /\ TmpBecomes(u, Nil, tmp[u]["meta"], tmp[u]["objBackup"], tmp[u]["metaBackup"])
         \/ Fails("remove")
  BY Zenon, <1>1, AnswerEnds, SetTmpLeaves DEF discard, Succeeds, published
<1>3. RemovalsSucceed /\ LeakInv(u) => LeakInv(u)'
  BY Zenon, <1>2 DEF LeakInv, TmpBecomes, RemovalsSucceed, Fails
<1>4. AckInv(u)' /\ CommitKept(u)
  BY Zenon, <1>2, QuietAck, QuietCommit DEF Committing, Unsettled
<1>5. Ends(u) /\ PutWrites(u)
  BY Zenon, <1>1, <1>2, FailureBound DEF Ends, PutWrites
<1> QED
  BY Zenon, <1>3, <1>4, <1>5 DEF Kept

LEMMA start_commit_Kept ==
  ASSUME IInv, NEW u \in Puts, reply[u] = "none", start_commit(u)
  PROVE  Kept(u)
<1>1. TypeOK /\ u \in Requests
  BY Zenon, PutTyped
<1>2. /\ pc[u] = "staged" /\ UNCHANGED <<object, metadata, tmp>> /\ reply'[u] = "none"
      /\ \/ pc'[u] = "writeMeta" /\ failures' = failures
         \/ pc'[u] = "cleanData" /\ Fails("write")
  BY Zenon, <1>1, StepGoes DEF start_commit, Succeeds, published
<1>3. LeakInv(u) => LeakInv(u)'
  BY Zenon, <1>2 DEF LeakInv
<1>4. AckInv(u)' /\ CommitKept(u)
  BY Zenon, <1>2, QuietAck, QuietCommit DEF Committing, Unsettled
<1>5. Ends(u) /\ PutWrites(u)
  BY Zenon, <1>1, <1>2, FailureBound DEF Ends, PutWrites
<1> QED
  BY Zenon, <1>3, <1>4, <1>5 DEF Kept

LEMMA write_metadata_tmp_Kept ==
  ASSUME IInv, NEW u \in Puts, reply[u] = "none", write_metadata_tmp(u)
  PROVE  Kept(u)
<1>1. TypeOK /\ u \in Requests
  BY Zenon, PutTyped
<1>2. /\ pc[u] = "writeMeta" /\ UNCHANGED <<object, metadata>> /\ reply'[u] = "none"
      /\ \/ pc'[u] = "backupObj" /\ failures' = failures
         \/ pc'[u] = "cleanData" /\ Fails("write")
  BY Zenon, <1>1, StepGoes DEF write_metadata_tmp, Succeeds, published
<1>3. LeakInv(u)'
  BY Zenon, <1>2 DEF LeakInv
<1>4. AckInv(u)' /\ CommitKept(u)
  BY Zenon, <1>2, QuietAck, QuietCommit DEF Committing, Unsettled
<1>5. Ends(u) /\ PutWrites(u)
  BY Zenon, <1>1, <1>2, FailureBound DEF Ends, PutWrites
<1> QED
  BY Zenon, <1>3, <1>4, <1>5 DEF Kept

(* The rollback links are what is published.                               *)
LEMMA backup_previous_Kept ==
  ASSUME IInv, NEW u \in Puts, reply[u] = "none", backup_previous(u)
  PROVE  Kept(u)
<1> DEFINE t == tmp[u]
<1>1. TypeOK /\ u \in Requests
  BY Zenon, PutTyped
<1>2. /\ UNCHANGED <<object, metadata>> /\ reply'[u] = "none"
      /\ \/ /\ pc[u] = "backupObj" /\ pc'[u] = "backupMeta" /\ failures' = failures
            /\ TmpBecomes(u, t["data"], t["meta"], object[KeyOf[u]], t["metaBackup"])
         \/ /\ pc[u] = "backupMeta" /\ pc'[u] = "renameObj" /\ failures' = failures
            /\ TmpBecomes(u, t["data"], t["meta"], t["objBackup"], metadata[KeyOf[u]])
         \/ pc[u] \in {"backupObj", "backupMeta"} /\ pc'[u] = "cleanData" /\ Fails("link")
  BY Zenon, <1>1, StepGoes, SetTmpLeaves DEF backup_previous, backup_existing_file, Succeeds, published
<1>3. LeakInv(u)' /\ AckInv(u)'
  BY Zenon, <1>2, QuietAck DEF LeakInv
<1>4. CommitKept(u)
  <2>1. CASE pc'[u] = "cleanData"
    BY Zenon, <1>2, <2>1, QuietCommit DEF Committing, Unsettled
  <2>2. CASE pc'[u] # "cleanData"
    BY Zenon, <1>2, <2>2 DEF TmpBecomes, CommitKept, CommitInv, Matched, NothingOlder, Unsettled
  <2> QED
    BY Zenon, <2>1, <2>2
<1>5. Ends(u) /\ PutWrites(u)
  BY Zenon, <1>1, <1>2, FailureBound DEF Ends, PutWrites
<1> QED
  BY Zenon, <1>3, <1>4, <1>5 DEF Kept

LEMMA rename_object_Kept ==
  ASSUME IInv, NEW u \in Puts, reply[u] = "none", rename_object(u)
  PROVE  Kept(u)
<1> DEFINE t == tmp[u]
<1>1. TypeOK /\ u \in Requests /\ (pc[u] = "renameObj" => t["data"] = u)
  BY Zenon, PutTyped DEF UploadInv
<1>2. /\ pc[u] = "renameObj" /\ metadata' = metadata /\ reply'[u] = "none"
      /\ \/ /\ pc'[u] = "renameMeta" /\ failures' = failures /\ object'[KeyOf[u]] = u
            /\ TmpBecomes(u, Nil, t["meta"], t["objBackup"], t["metaBackup"])
         \/ pc'[u] = "cleanData" /\ Fails("rename") /\ object' = object
  BY Zenon, <1>1, StepGoes, SetTmpLeaves, SetObjectEffect DEF rename_object, Succeeds
<1>3. LeakInv(u)'
  BY Zenon, <1>2 DEF LeakInv
<1>4. AckInv(u)'
  BY Zenon, <1>2 DEF AckInv
<1>5. CommitKept(u)
  <2>1. CASE pc'[u] = "cleanData"
    BY Zenon, <1>2, <2>1, QuietCommit DEF Committing, Unsettled
  <2>2. CASE pc'[u] # "cleanData"
    <3>1. u # Nil
      BY Zenon, SentinelsDistinct
    <3>2. ASSUME CommitInv(u), Matched(u)
          PROVE  metadata[KeyOf[u]] # u /\ t["objBackup"] = metadata[KeyOf[u]] /\ t["metaBackup"] = metadata[KeyOf[u]]
      BY Zenon, <1>2, <3>2 DEF CommitInv, Matched, Unsettled
    <3> QED
      BY Zenon, <1>2, <2>2, <3>2 DEF TmpBecomes, CommitKept, CommitInv, Matched, NothingOlder, Unsettled
  <2> QED
    BY Zenon, <2>1, <2>2
<1>6. Ends(u) /\ PutWrites(u)
  BY Zenon, <1>1, <1>2, FailureBound DEF Ends, PutWrites
<1> QED
  BY Zenon, <1>3, <1>4, <1>5, <1>6 DEF Kept

LEMMA rename_metadata_Kept ==
  ASSUME IInv, NEW u \in Puts, reply[u] = "none", rename_metadata(u)
  PROVE  Kept(u)
<1> DEFINE t == tmp[u]
<1>1. TypeOK /\ u \in Requests /\ (pc[u] = "renameMeta" => t["meta"] = u)
  BY Zenon, PutTyped DEF UploadInv
<1>2. /\ pc[u] = "renameMeta" /\ object' = object /\ reply'[u] = "none"
      /\ \/ /\ pc'[u] = "rmObjBackup" /\ failures' = failures /\ metadata'[KeyOf[u]] = u
            /\ TmpBecomes(u, t["data"], Nil, t["objBackup"], t["metaBackup"])
         \/ pc'[u] = "rbRmObj" /\ Fails("rename") /\ metadata' = metadata /\ tmp' = tmp
  BY Zenon, <1>1, StepGoes, SetTmpLeaves, SetMetadataEffect DEF rename_metadata, Succeeds
<1>3. LeakInv(u)'
  BY Zenon, <1>2 DEF LeakInv
<1>4. AckInv(u) => AckInv(u)'
  BY Zenon, <1>2 DEF AckInv
<1>5. CommitKept(u)
  <2>1. Fails("rename") /\ OneFailure => failures' = MaxFailures
    BY Zenon, <1>1, LastFailure
  <2>2. CASE pc'[u] = "rbRmObj"
    BY Zenon, <1>2, <2>1, <2>2 DEF CommitKept, CommitInv, Matched, NothingOlder, Unsettled
  <2>3. CASE pc'[u] # "rbRmObj"
    BY Zenon, <1>2, <2>3 DEF CommitKept, CommitInv, Matched, NothingOlder, Unsettled
  <2> QED
    BY Zenon, <2>2, <2>3
<1>6. Ends(u) /\ PutWrites(u)
  BY Zenon, <1>1, <1>2, FailureBound DEF Ends, PutWrites
<1> QED
  BY Zenon, <1>3, <1>4, <1>5, <1>6 DEF Kept

(* The one failure has happened: the calls of the rollback succeed.        *)
LEMMA rollback_object_Kept ==
  ASSUME IInv, NEW u \in Puts, reply[u] = "none", rollback_object(u)
  PROVE  Kept(u)
<1> DEFINE t == tmp[u]
<1>1. /\ TypeOK /\ u \in Requests /\ u # Nil
      /\ pc[u] = "rbObj" => t["objBackup"] # Nil
  BY Zenon, PutTyped DEF UploadInv
<1>2. /\ metadata' = metadata /\ reply'[u] = "none"
      /\ pc'[u] \in {"rbObj", "rbRmMeta"}
      /\ failures' = failures \/ \E call : Fails(call)
      /\ \/ /\ pc[u] = "rbRmObj" /\ tmp' = tmp
            /\ pc'[u] = IF t["objBackup"] # Nil THEN "rbObj" ELSE "rbRmMeta"
            /\ (object'[KeyOf[u]] = Nil /\ failures' = failures) \/ Fails("remove")
         \/ /\ pc[u] = "rbObj" /\ pc'[u] = "rbRmMeta"
            /\ \/ /\ object'[KeyOf[u]] = t["objBackup"] /\ failures' = failures
                  /\ tmp'[u]["metaBackup"] = t["metaBackup"]
               \/ Fails("rename")
  <2>1. CASE pc[u] = "rbRmObj"
    BY Zenon, <1>1, <2>1, StepGoes, SetObjectEffect DEF rollback_object, Succeeds
  <2>2. CASE pc[u] = "rbObj"
    BY ZenonT(30), <1>1, <2>2, StepGoes, SetTmpLeaves, SetObjectEffect DEF rollback_object, Succeeds, TmpBecomes
  <2> QED
    BY Zenon, <2>1, <2>2 DEF rollback_object
<1>3. LeakInv(u)' /\ AckInv(u)'
  BY Zenon, <1>2, QuietAck DEF LeakInv
<1>4. CommitKept(u)
  <2> SUFFICES ASSUME OneFailure, CommitInv(u), Matched(u)
               PROVE  CommitInv(u)' /\ Matched(u)' /\ NothingOlder(u)
    BY Zenon DEF CommitKept
  <2>1. failures = MaxFailures /\ failures' = failures /\ ~ \E call : Fails(call)
    BY Zenon, <1>1, <1>2, LastFailure DEF CommitInv
  <2>2. CASE pc[u] = "rbRmObj"
    BY Zenon, <1>1, <1>2, <2>1, <2>2 DEF CommitInv, Matched, NothingOlder, Unsettled
  <2>3. CASE pc[u] = "rbObj"
    BY Zenon, <1>1, <1>2, <2>1, <2>3 DEF CommitInv, Matched, NothingOlder, Unsettled
  <2> QED
    BY Zenon, <1>2, <2>2, <2>3
<1>5. Ends(u) /\ PutWrites(u)
  BY Zenon, <1>1, <1>2, FailureBound DEF Ends, PutWrites
<1> QED
  BY Zenon, <1>3, <1>4, <1>5 DEF Kept

LEMMA rollback_metadata_Kept ==
  ASSUME IInv, NEW u \in Puts, reply[u] = "none", rollback_metadata(u)
  PROVE  Kept(u)
<1> DEFINE t == tmp[u]
<1>1. /\ TypeOK /\ u \in Requests /\ u # Nil
      /\ pc[u] = "rbMeta" => t["metaBackup"] # Nil
  BY Zenon, PutTyped DEF UploadInv
<1>2. /\ object' = object /\ reply'[u] = "none"
      /\ pc'[u] \in {"rbMeta", "cleanData"}
      /\ failures' = failures \/ \E call : Fails(call)
      /\ \/ /\ pc[u] = "rbRmMeta" /\ tmp' = tmp
            /\ pc'[u] = IF t["metaBackup"] # Nil THEN "rbMeta" ELSE "cleanData"
            /\ (metadata'[KeyOf[u]] = Nil /\ failures' = failures) \/ Fails("remove")
         \/ /\ pc[u] = "rbMeta" /\ pc'[u] = "cleanData"
            /\ \/ metadata'[KeyOf[u]] = t["metaBackup"] /\ failures' = failures
               \/ Fails("rename")
  <2>1. CASE pc[u] = "rbRmMeta"
    BY Zenon, <1>1, <2>1, StepGoes, SetMetadataEffect DEF rollback_metadata, Succeeds
  <2>2. CASE pc[u] = "rbMeta"
    BY Zenon, <1>1, <2>2, StepGoes, SetMetadataEffect DEF rollback_metadata, Succeeds
  <2> QED
    BY Zenon, <2>1, <2>2 DEF rollback_metadata
<1>3. LeakInv(u)' /\ AckInv(u)'
  BY Zenon, <1>2, QuietAck DEF LeakInv
<1>4. CommitKept(u)
  <2> SUFFICES ASSUME OneFailure, CommitInv(u), Matched(u)
               PROVE  CommitInv(u)' /\ Matched(u)' /\ NothingOlder(u)
    BY Zenon DEF CommitKept
  <2>1. failures = MaxFailures /\ failures' = failures /\ ~ \E call : Fails(call)
    BY Zenon, <1>1, <1>2, LastFailure DEF CommitInv
  <2>2. CASE pc[u] = "rbRmMeta"
    BY Zenon, <1>1, <1>2, <2>1, <2>2 DEF CommitInv, Matched, NothingOlder, Unsettled
  <2>3. CASE pc[u] = "rbMeta"
    BY Zenon, <1>1, <1>2, <2>1, <2>3 DEF CommitInv, Matched, NothingOlder, Unsettled
  <2> QED
    BY Zenon, <1>2, <2>2, <2>3
<1>5. Ends(u) /\ PutWrites(u)
  BY Zenon, <1>1, <1>2, FailureBound DEF Ends, PutWrites
<1> QED
  BY Zenon, <1>3, <1>4, <1>5 DEF Kept

LEMMA remove_backups_Kept ==
  ASSUME IInv, NEW u \in Puts, reply[u] = "none", remove_backups(u)
  PROVE  Kept(u)
<1> DEFINE t == tmp[u]
<1>1. /\ TypeOK /\ u \in Requests
      /\ pc[u] = "rmMetaBackup" =>
           t["data"] = Nil /\ t["meta"] = Nil /\ t["objBackup"] = Nil
  BY Zenon, PutTyped DEF UploadInv
<1>2. /\ UNCHANGED <<object, metadata>> /\ last' = last
      /\ pc[u] \in {"rmObjBackup", "rmMetaBackup"}
      /\ \/ pc[u] = "rmObjBackup" /\ pc'[u] = "rmMetaBackup" /\ reply'[u] = "none" /\ failures' = failures
         \/ /\ pc[u] = "rmMetaBackup" /\ pc'[u] = "done" /\ reply'[u] = "ok" /\ failures' = failures
            /\ TmpBecomes(u, t["data"], t["meta"], t["objBackup"], Nil)
         \/ pc'[u] = "cleanData" /\ reply'[u] = "none" /\ Fails("remove")
  BY Zenon, <1>1, StepGoes, AnswerEnds, SetTmpLeaves DEF remove_backups, Succeeds, published, rest
<1>3. LeakInv(u)'
  BY Zenon, <1>1, <1>2 DEF LeakInv, TmpBecomes
<1>4. AckInv(u) => AckInv(u)'
  BY Zenon, <1>2 DEF AckInv
<1>5. CommitKept(u)
  <2>1. OneFailure => ~Fails("remove")
    BY Zenon DEF OneFailure, RemovalsSucceed, Fails
  <2> QED
    BY Zenon, <1>2, <2>1 DEF CommitKept, CommitInv, Matched, NothingOlder, Unsettled
<1>6. Ends(u) /\ PutWrites(u)
  BY Zenon, <1>1, <1>2, FailureBound DEF Ends, PutWrites
<1> QED
  BY Zenon, <1>3, <1>4, <1>5, <1>6 DEF Kept

LEMMA clean_up_failed_commit_Kept ==
  ASSUME IInv, NEW u \in Puts, reply[u] = "none", clean_up_failed_commit(u)
  PROVE  Kept(u)
<1> DEFINE t == tmp[u]
<1>1. TypeOK /\ u \in Requests
  BY Zenon, PutTyped
<1>2. /\ UNCHANGED <<object, metadata>>
      /\ pc[u] \in {"cleanData", "cleanMeta", "cleanObjBackup", "cleanMetaBackup"}
      /\ \/ reply'[u] = "none" /\ pc'[u] \in {"cleanMeta", "cleanObjBackup", "cleanMetaBackup"}
         \/ reply'[u] = "err" /\ pc'[u] = "done"
      /\ failures' = failures \/ Fails("remove")
      /\ ~Fails("remove") =>
           \/ /\ pc[u] = "cleanData" /\ pc'[u] = "cleanMeta"
              /\ TmpBecomes(u, Nil, t["meta"], t["objBackup"], t["metaBackup"])
           \/ /\ pc[u] = "cleanMeta" /\ pc'[u] = "cleanObjBackup"
              /\ TmpBecomes(u, t["data"], Nil, t["objBackup"], t["metaBackup"])
           \/ /\ pc[u] = "cleanObjBackup" /\ pc'[u] = "cleanMetaBackup"
              /\ TmpBecomes(u, t["data"], t["meta"], Nil, t["metaBackup"])
           \/ /\ pc[u] = "cleanMetaBackup" /\ pc'[u] = "done"
              /\ TmpBecomes(u, t["data"], t["meta"], t["objBackup"], Nil)
  <2>1. CASE clean_up(u, "cleanData", "data", "cleanMeta")
    BY Zenon, <1>1, <2>1, StepGoes, SetTmpLeaves DEF clean_up, Succeeds, published
  <2>2. CASE clean_up(u, "cleanMeta", "meta", "cleanObjBackup")
    BY Zenon, <1>1, <2>2, StepGoes, SetTmpLeaves DEF clean_up, Succeeds, published
  <2>3. CASE clean_up(u, "cleanObjBackup", "objBackup", "cleanMetaBackup")
    BY Zenon, <1>1, <2>3, StepGoes, SetTmpLeaves DEF clean_up, Succeeds, published
  <2>4. CASE clean_up(u, "cleanMetaBackup", "metaBackup", "done")
    BY Zenon, <1>1, <2>4, AnswerEnds, SetTmpLeaves DEF clean_up, Succeeds, published
  <2> QED
    BY Zenon, <2>1, <2>2, <2>3, <2>4 DEF clean_up_failed_commit
<1>3. RemovalsSucceed /\ LeakInv(u) => LeakInv(u)'
  <2>1. RemovalsSucceed => ~Fails("remove")
    BY Zenon DEF RemovalsSucceed, Fails
  <2> QED
    BY Zenon, <1>2, <2>1 DEF LeakInv, TmpBecomes
<1>4. AckInv(u)' /\ CommitKept(u)
  BY Zenon, <1>2, QuietAck, QuietCommit DEF Committing, Unsettled
<1>5. Ends(u) /\ PutWrites(u)
  BY Zenon, <1>1, <1>2, FailureBound DEF Ends, PutWrites
<1> QED
  BY Zenon, <1>3, <1>4, <1>5 DEF Kept

LEMMA Put_Kept ==
  ASSUME IInv, NEW u \in Puts, reply[u] = "none", Put(u)
  PROVE  Kept(u)
BY Zenon, create_temp_object_Kept, finish_Kept, refuse_upload_Kept, discard_Kept,
   start_commit_Kept, write_metadata_tmp_Kept, backup_previous_Kept,
   rename_object_Kept, rename_metadata_Kept, rollback_object_Kept,
   rollback_metadata_Kept, remove_backups_Kept, clean_up_failed_commit_Kept
DEF Put, commit_staged_object
=============================================================================
