------------------------ MODULE MultipartStoreProofs ------------------------
(***************************************************************************)
(* For any number of parts, aborts and completions, any overlap, failures, *)
(* dropped handlers and crashes: completions of an upload exclude each     *)
(* other, in the life of one process at most one publishes its object, and *)
(* an acknowledged part stays in the session until an abort.               *)
(***************************************************************************)
EXTENDS MultipartStore, TLAPS

Persisting == {"mkdir", "write", "renameSession"}

(* The types are not inductive: a part is renamed into place only when its *)
(* body is complete or was removed with the directory, and whoever         *)
(* persists a session has said why.                                        *)
BodyInv ==
  \A w \in Parts : pc[w] \in {"open", "mkPartDir", "link", "rename"} => tmp[w].body \in {w, Nil}

TaskInv == \A r \in Requests : pc[r] \in Persisting => task[r] # "none"

TInv == TypeOK /\ BodyInv /\ TaskInv

(* Nor is ExclusiveCompletion.  A session becomes open only by its         *)
(* creator, who has finished before any other request begins; by the one   *)
(* completion that gives it back; and by startup, when nothing runs.  An   *)
(* abort only ever inserts an aborted copy.                                *)
CreatorInv ==
  /\ reply[Creator] = "ok" => pc[Creator] = "done"
  /\ \A r \in Requests \ {Creator} : pc[r] # "idle" => reply[Creator] = "ok"

AbortInv ==
  \A a \in Aborts : pc[a] \in Persisting \cup {"abInsert"} => snapshot[a].state = "Aborted"

StartupInv == phase # "serving" => \A r \in Requests : ~Running(r)

(* A completion past its commit.                                           *)
Past(c) ==
  \/ pc[c] \in {"mark", "rmSession", "forget", "rmDir", "done"}
  \/ pc[c] \in Persisting /\ task[c] = "completed"

(* Without a restart nothing opens the session again once an object was    *)
(* committed.                                                              *)
CommittedInv ==
  /\ ~MayCrash => phase = "serving"
  /\ ~MayCrash => \A c \in committed :
       /\ Past(c)
       /\ ~IsOpen(session)
       /\ \A d \in Completes \ {c} : ~Completing(d) /\ d \notin committed

EInv ==
  /\ ExclusiveCompletion
  /\ CreatorInv
  /\ AbortInv
  /\ StartupInv
  /\ CommittedInv

IInv == TInv /\ EInv

(* What a step A must keep.                                                *)
KeepsTypes(A) == TInv /\ A => TInv'
KeepsExclusion(A) == TInv /\ EInv /\ A => EInv'
-----------------------------------------------------------------------------
(* What the steps of a request change.                                     *)

Outcomes == Steps \cup {"ok", "err"}
Replies == {"none", "ok", "err", "cancelled"}

LEMMA StepEffect ==
  ASSUME TypeOK, NEW r \in Requests, NEW next \in Outcomes, Step(r, next)
  PROVE  /\ pc' \in [Requests -> Steps]
         /\ reply' \in [Requests -> Replies]
         /\ pc'[r] \in {next, "done"}
         /\ reply'[r] = "ok" => reply[r] = "ok" \/ pc'[r] = "done"
         /\ reply[r] = "ok" /\ next \notin {"ok", "err"} => reply'[r] = "ok"
         /\ \A q \in Requests \ {r} : pc'[q] = pc[q] /\ reply'[q] = reply[q]
BY DEF TypeOK, Step, Outcomes, Steps, Replies, Cancelled

LEMMA PersistEffect ==
  ASSUME TypeOK, NEW r \in Requests, NEW s \in Session, NEW why \in Tasks, Persist(r, s, why)
  PROVE  /\ snapshot' \in [Requests -> Session]
         /\ task' \in [Requests -> Tasks]
         /\ snapshot'[r] = s
         /\ task'[r] = why
         /\ \A q \in Requests \ {r} : snapshot'[q] = snapshot[q] /\ task'[q] = task[q]
         /\ Step(r, "mkdir")
BY Zenon DEF TypeOK, Persist

(* Where a persisting request goes on.                                     *)
LEMMA PersistedOutcome ==
  ASSUME NEW why \in Tasks \ {"none"}
  PROVE  /\ Persisted(why) \in Outcomes \ (Persisting \cup {"open", "mkPartDir", "link", "rename"})
         /\ NotPersisted(why) \in Outcomes \ (Persisting \cup {"open", "mkPartDir", "link", "rename"})
         /\ why = "completed" => Persisted(why) = "rmSession" /\ NotPersisted(why) = "rmSession"
         /\ why \notin {"completing", "completed"} =>
              {Persisted(why), NotPersisted(why)} \subseteq
                {"crInsert", "rmBackup", "abInsert", "err", "rbRemove"}
BY Zenon DEF Tasks, Persisted, NotPersisted, Outcomes, Steps, MapSteps, CallSteps, Persisting

(* Updates of a session that exists.                                       *)
LEMMA SetState ==
  ASSUME NEW s \in Session, s # NoSession, NEW st \in States
  PROVE  /\ [s EXCEPT !.state = st] \in Session
         /\ [s EXCEPT !.state = st].state = st
BY Zenon DEF Session, States, PartMap

LEMMA SetPart ==
  ASSUME NEW s \in Session, s # NoSession, NEW n \in Numbers, NEW p \in Parts \cup {Nil}
  PROVE  /\ [s EXCEPT !.parts[n] = p] \in Session
         /\ [s EXCEPT !.parts[n] = p].state = s.state
BY Zenon DEF Session, States, PartMap

LEMMA OpenExists ==
  ASSUME NEW s \in Session, IsOpen(s)
  PROVE  s # NoSession
BY DEF IsOpen, NoSession

LEMMA NoSessionType == NoSession \in Session /\ ~IsOpen(NoSession)
BY Zenon DEF NoSession, Session, IsOpen

LEMMA NoPartsType == NoParts \in PartMap /\ NoParts \in [Numbers -> Parts \cup {Nil}]
BY Zenon DEF NoParts, PartMap

Content == [body : Parts \cup {Nil, Partial}, backup : Parts \cup {Nil}]

(* What happens to the files in the upload's directory.                    *)
LEMMA SetBody ==
  ASSUME TypeOK, NEW w \in Parts, NEW b \in Parts \cup {Nil, Partial}, SetTmp(w, "body", b)
  PROVE  /\ tmp' \in [Parts -> Content]
         /\ tmp'[w].body = b
         /\ \A v \in Parts \ {w} : tmp'[v] = tmp[v]
BY DEF TypeOK, SetTmp, Content

LEMMA SetBackup ==
  ASSUME TypeOK, NEW w \in Parts, NEW b \in Parts \cup {Nil}, SetTmp(w, "backup", b)
  PROVE  /\ tmp' \in [Parts -> Content]
         /\ \A v \in Parts : tmp'[v].body = tmp[v].body
BY DEF TypeOK, SetTmp, Content

LEMMA PublishFailsTmp ==
  ASSUME TypeOK, NEW w \in Parts, PublishFails(w)
  PROVE  /\ tmp' \in [Parts -> Content]
         /\ \A v \in Parts \ {w} : tmp'[v] = tmp[v]
         /\ Step(w, "err")
BY Zenon DEF TypeOK, PublishFails, Content, NoTmp

LEMMA RemoveDirTypes ==
  ASSUME TypeOK, RemoveDir \/ \E others \in BOOLEAN : RemoveDirFails(others)
  PROVE  /\ disk' \in Session
         /\ dir' \in BOOLEAN
         /\ files' \in [Numbers -> Parts \cup {Nil}]
         /\ tmp' \in [Parts -> Content]
         /\ \A w \in Parts : tmp'[w].body \in {tmp[w].body, Nil}
         /\ sessionTmp' \subseteq Requests
<1>1. CASE RemoveDir
  BY Zenon, <1>1, NoSessionType, NoPartsType DEF TypeOK, RemoveDir, Content, NoTmp
<1>2. ASSUME NEW others \in BOOLEAN, RemoveDirFails(others)
      PROVE  /\ disk' \in Session
             /\ files' \in [Numbers -> Parts \cup {Nil}]
             /\ tmp' \in [Parts -> Content]
             /\ \A w \in Parts : tmp'[w].body \in {tmp[w].body, Nil}
             /\ sessionTmp' \subseteq sessionTmp
             /\ UNCHANGED dir
  BY <1>2, NoSessionType DEF TypeOK, RemoveDirFails, Content
<1> QED
  BY Zenon, <1>1, <1>2 DEF TypeOK, Content

(* Types of a step of r that leaves the other requests' locals alone.      *)
LEMMA StepTInv ==
  ASSUME TInv, NEW r \in Requests, NEW next \in Outcomes, Step(r, next),
         tmp' \in [Parts -> Content],
         \A w \in Parts \ {r} : tmp'[w].body \in {tmp[w].body, Nil},
         \A q \in Requests \ {r} : task'[q] = task[q],
         next \in {"open", "mkPartDir", "link", "rename"} => (r \in Parts => tmp'[r].body \in {r, Nil}),
         next \in Persisting => task'[r] # "none"
  PROVE  BodyInv' /\ TaskInv' /\ pc' \in [Requests -> Steps] /\ reply' \in [Requests -> Replies]
<1>1. /\ pc' \in [Requests -> Steps]
      /\ reply' \in [Requests -> Replies]
      /\ pc'[r] \in {next, "done"}
      /\ \A q \in Requests \ {r} : pc'[q] = pc[q]
  BY Zenon, StepEffect DEF TInv
<1>2. BodyInv'
  BY Zenon, <1>1 DEF TInv, BodyInv, Requests
<1>3. TaskInv'
  BY Zenon, <1>1 DEF TInv, TaskInv, Persisting
<1> QED
  BY Zenon, <1>1, <1>2, <1>3

-----------------------------------------------------------------------------
(* TInv is preserved, one lemma per action.                               *)

LEMMA create_temp_part_TInv ==
  \A w \in Parts : KeepsTypes(create_temp_part(w))
<1> SUFFICES ASSUME NEW w \in Parts, TInv, create_temp_part(w)
             PROVE  TInv'
  BY Zenon DEF KeepsTypes
<1> USE SentinelsDistinct, ParameterTypes
<1>1. TypeOK /\ w \in Requests
  BY Zenon DEF TInv, Requests
<1>2. {"createTmp", "body", "err"} \subseteq Outcomes
  BY Zenon DEF Outcomes, Steps, MapSteps, CallSteps
<1>3. /\ pc' \in [Requests -> Steps]
      /\ reply' \in [Requests -> Replies]
      /\ pc'[w] \in {"createTmp", "body", "err", "done"}
      /\ \A q \in Requests \ {w} : pc'[q] = pc[q] /\ reply'[q] = reply[q]
  BY Zenon, <1>1, <1>2, StepEffect DEF create_temp_part
<1>a. /\ tmp' \in [Parts -> Content]
      /\ \A v \in Parts \ {w} : tmp'[v].body = tmp[v].body
  BY Zenon, <1>1, SetBody DEF create_temp_part, TypeOK, Content
<1>b. dir' \in BOOLEAN
  BY Zenon, <1>1 DEF create_temp_part, TypeOK
<1>c. failures' \in 0..MaxFailures
  BY <1>1 DEF create_temp_part, TypeOK, FailsUnless, Fails, Succeeds
<1>4. TypeOK'
  BY Zenon, <1>1, <1>3, <1>a, <1>b, <1>c DEF create_temp_part, TInv, BodyInv, TypeOK, Replies, Succeeds, Fails, storage, locals, Content
<1>5. BodyInv'
  BY Zenon, <1>1, <1>3, <1>a, <1>b, <1>c DEF create_temp_part, TInv, BodyInv, TypeOK, Requests, storage
<1>6. TaskInv'
  BY Zenon, <1>1, <1>3, <1>a, <1>b, <1>c DEF create_temp_part, TInv, TaskInv, Persisting, locals
<1> QED
  BY Zenon, <1>4, <1>5, <1>6 DEF TInv

LEMMA receive_body_TInv ==
  \A w \in Parts : KeepsTypes(receive_body(w))
<1> SUFFICES ASSUME NEW w \in Parts, TInv, receive_body(w)
             PROVE  TInv'
  BY Zenon DEF KeepsTypes
<1> USE SentinelsDistinct, ParameterTypes
<1>1. TypeOK /\ w \in Requests
  BY Zenon DEF TInv, Requests
<1>2. {"open", "discard"} \subseteq Outcomes
  BY Zenon DEF Outcomes, Steps, MapSteps, CallSteps
<1>3. /\ pc' \in [Requests -> Steps]
      /\ reply' \in [Requests -> Replies]
      /\ pc'[w] \in {"open", "discard", "done"}
      /\ \A q \in Requests \ {w} : pc'[q] = pc[q] /\ reply'[q] = reply[q]
  BY Zenon, <1>1, <1>2, StepEffect DEF receive_body
<1>a. /\ tmp' \in [Parts -> Content]
      /\ \A v \in Parts \ {w} : tmp'[v].body = tmp[v].body
      /\ pc'[w] = "open" => tmp'[w].body \in {w, Nil}
  <2>1. CASE SetTmp(w, "body", w)
    BY Zenon, <1>1, <2>1, SetBody
  <2>2. CASE ~SetTmp(w, "body", w)
    BY Zenon, <1>1, <2>2 DEF receive_body, TypeOK, Content, Step, Cancelled
  <2> QED
    BY Zenon, <2>1, <2>2
<1>4. TypeOK'
  BY Zenon, <1>1, <1>3, <1>a DEF receive_body, TInv, BodyInv, TypeOK, Replies, Succeeds, Fails, storage, locals, Content
<1>5. BodyInv'
  BY Zenon, <1>1, <1>3, <1>a DEF receive_body, TInv, BodyInv, TypeOK, Requests, storage
<1>6. TaskInv'
  BY Zenon, <1>1, <1>3, <1>a DEF receive_body, TInv, TaskInv, Persisting, locals
<1> QED
  BY Zenon, <1>4, <1>5, <1>6 DEF TInv

LEMMA discard_TInv ==
  \A w \in Parts : KeepsTypes(discard(w))
<1> SUFFICES ASSUME NEW w \in Parts, TInv, discard(w)
             PROVE  TInv'
  BY Zenon DEF KeepsTypes
<1> USE SentinelsDistinct, ParameterTypes
<1>1. TypeOK /\ w \in Requests
  BY Zenon DEF TInv, Requests
<1>2. {"err"} \subseteq Outcomes
  BY Zenon DEF Outcomes, Steps, MapSteps, CallSteps
<1>3. /\ pc' \in [Requests -> Steps]
      /\ reply' \in [Requests -> Replies]
      /\ pc'[w] \in {"err", "done"}
      /\ \A q \in Requests \ {w} : pc'[q] = pc[q] /\ reply'[q] = reply[q]
  BY Zenon, <1>1, <1>2, StepEffect DEF discard
<1>4. TypeOK'
  BY SMTT(30), <1>1, <1>3 DEF discard, TInv, BodyInv, TypeOK, Replies, Succeeds, Fails, storage, locals, States, Tasks, SetTmp
<1>5. BodyInv'
  BY Zenon, <1>1, <1>3 DEF discard, TInv, BodyInv, TypeOK, Requests, storage, SetTmp
<1>6. TaskInv'
  BY Zenon, <1>1, <1>3 DEF discard, TInv, TaskInv, Persisting, locals
<1> QED
  BY Zenon, <1>4, <1>5, <1>6 DEF TInv

LEMMA check_open_TInv ==
  \A w \in Parts : KeepsTypes(check_open(w))
<1> SUFFICES ASSUME NEW w \in Parts, TInv, check_open(w)
             PROVE  TInv'
  BY Zenon DEF KeepsTypes
<1> USE SentinelsDistinct, ParameterTypes
<1>1. TypeOK /\ w \in Requests
  BY Zenon DEF TInv, Requests
<1>2. {"mkPartDir", "err"} \subseteq Outcomes
  BY Zenon DEF Outcomes, Steps, MapSteps, CallSteps
<1>3. /\ pc' \in [Requests -> Steps]
      /\ reply' \in [Requests -> Replies]
      /\ pc'[w] \in {"mkPartDir", "err", "done"}
      /\ \A q \in Requests \ {w} : pc'[q] = pc[q] /\ reply'[q] = reply[q]
  BY ZenonT(30), <1>1, <1>2, StepEffect DEF check_open
<1>4. TypeOK'
  BY SMTT(30), <1>1, <1>3, OpenExists DEF check_open, TInv, BodyInv, TypeOK, Replies, Succeeds, Fails, storage, locals, States, Tasks, Session, PartMap
<1>5. BodyInv'
  BY Zenon, <1>1, <1>3 DEF check_open, TInv, BodyInv, TypeOK, Requests, storage, Session, PartMap
<1>6. TaskInv'
  BY Zenon, <1>1, <1>3 DEF check_open, TInv, TaskInv, Persisting, locals
<1> QED
  BY Zenon, <1>4, <1>5, <1>6 DEF TInv

LEMMA make_part_dir_TInv ==
  \A w \in Parts : KeepsTypes(make_part_dir(w))
<1> SUFFICES ASSUME NEW w \in Parts, TInv, make_part_dir(w)
             PROVE  TInv'
  BY Zenon DEF KeepsTypes
<1> USE SentinelsDistinct, ParameterTypes
<1>1. TypeOK /\ w \in Requests
  BY Zenon DEF TInv, Requests
<1>2. {"link", "rename", "err"} \subseteq Outcomes
  BY Zenon DEF Outcomes, Steps, MapSteps, CallSteps
<1>3. /\ pc' \in [Requests -> Steps]
      /\ reply' \in [Requests -> Replies]
      /\ pc'[w] \in {"link", "rename", "err", "done"}
      /\ \A q \in Requests \ {w} : pc'[q] = pc[q] /\ reply'[q] = reply[q]
  BY Zenon, <1>1, <1>2, StepEffect DEF make_part_dir, PublishFails
<1>a. /\ tmp' \in [Parts -> Content]
      /\ \A v \in Parts \ {w} : tmp'[v].body = tmp[v].body
      /\ pc'[w] # "done" => tmp'[w].body = tmp[w].body
  <2>1. CASE PublishFails(w)
    BY ZenonT(30), <1>1, <2>1, PublishFailsTmp DEF PublishFails, Step, TypeOK
  <2>2. CASE ~PublishFails(w)
    BY Zenon, <1>1, <2>2 DEF make_part_dir, TypeOK, Content
  <2> QED
    BY Zenon, <2>1, <2>2
<1>b. dir' \in BOOLEAN
  BY Zenon, <1>1 DEF make_part_dir, TypeOK
<1>c. failures' \in 0..MaxFailures
  BY SMTT(30), ZenonT(30), <1>1 DEF make_part_dir, TypeOK, Fails, Succeeds
<1>4. TypeOK'
  BY Zenon, <1>1, <1>3, <1>a, <1>b, <1>c DEF make_part_dir, TInv, BodyInv, TypeOK, Replies, Succeeds, Fails, storage, locals, Content
<1>5. BodyInv'
  BY Zenon, <1>1, <1>3, <1>a, <1>b, <1>c DEF make_part_dir, TInv, BodyInv, TypeOK, Requests, storage
<1>6. TaskInv'
  BY Zenon, <1>1, <1>3, <1>a, <1>b, <1>c DEF make_part_dir, TInv, TaskInv, Persisting, locals
<1> QED
  BY Zenon, <1>4, <1>5, <1>6 DEF TInv

LEMMA link_previous_TInv ==
  \A w \in Parts : KeepsTypes(link_previous(w))
<1> SUFFICES ASSUME NEW w \in Parts, TInv, link_previous(w)
             PROVE  TInv'
  BY Zenon DEF KeepsTypes
<1> USE SentinelsDistinct, ParameterTypes
<1>1. TypeOK /\ w \in Requests
  BY Zenon DEF TInv, Requests
<1>2. {"rename", "err"} \subseteq Outcomes
  BY Zenon DEF Outcomes, Steps, MapSteps, CallSteps
<1>3. /\ pc' \in [Requests -> Steps]
      /\ reply' \in [Requests -> Replies]
      /\ pc'[w] \in {"rename", "err", "done"}
      /\ \A q \in Requests \ {w} : pc'[q] = pc[q] /\ reply'[q] = reply[q]
  BY Zenon, <1>1, <1>2, StepEffect DEF link_previous, PublishFails
<1>a. /\ tmp' \in [Parts -> Content]
      /\ \A v \in Parts \ {w} : tmp'[v].body = tmp[v].body
      /\ pc'[w] # "done" => tmp'[w].body = tmp[w].body
  <2>1. CASE PublishFails(w)
    BY ZenonT(30), <1>1, <2>1, PublishFailsTmp DEF PublishFails, Step, TypeOK
  <2>2. CASE ~PublishFails(w)
    BY <1>1, <2>2 DEF link_previous, SetTmp, TypeOK, Content
  <2> QED
    BY Zenon, <2>1, <2>2
<1>b. failures' \in 0..MaxFailures
  BY <1>1 DEF link_previous, TypeOK, Fails, FailsUnless, Succeeds
<1>4. TypeOK'
  BY Zenon, <1>1, <1>3, <1>a, <1>b DEF link_previous, TypeOK, Replies, locals, Content
<1>5. BodyInv'
  BY Zenon, <1>1, <1>3, <1>a DEF link_previous, TInv, BodyInv, Requests
<1>6. TaskInv'
  BY Zenon, <1>1, <1>3 DEF link_previous, TInv, TaskInv, Persisting, locals
<1> QED
  BY Zenon, <1>4, <1>5, <1>6 DEF TInv

LEMMA rename_part_TInv ==
  \A w \in Parts : KeepsTypes(rename_part(w))
<1> SUFFICES ASSUME NEW w \in Parts, TInv, rename_part(w)
             PROVE  TInv'
  BY Zenon DEF KeepsTypes
<1> USE SentinelsDistinct, ParameterTypes
<1>1. TypeOK /\ w \in Requests
  BY Zenon DEF TInv, Requests
<1>2. {"insert", "err"} \subseteq Outcomes
  BY Zenon DEF Outcomes, Steps, MapSteps, CallSteps
<1>3. /\ pc' \in [Requests -> Steps]
      /\ reply' \in [Requests -> Replies]
      /\ pc'[w] \in {"insert", "err", "done"}
      /\ \A q \in Requests \ {w} : pc'[q] = pc[q] /\ reply'[q] = reply[q]
  BY ZenonT(30), <1>1, <1>2, StepEffect DEF rename_part, PublishFails
<1>4. TypeOK'
  BY SMTT(30), <1>1, <1>3 DEF rename_part, TInv, BodyInv, TypeOK, Replies, Succeeds, Fails, storage, locals, States, Tasks, PublishFails, NoTmp, SetTmp, SetFile, FailsUnless
<1>5. BodyInv'
  BY Zenon, <1>1, <1>3 DEF rename_part, TInv, BodyInv, TypeOK, Requests, storage, PublishFails, NoTmp, SetTmp, SetFile, FailsUnless
<1>6. TaskInv'
  BY Zenon, <1>1, <1>3 DEF rename_part, TInv, TaskInv, Persisting, locals
<1> QED
  BY Zenon, <1>4, <1>5, <1>6 DEF TInv

LEMMA insert_part_TInv ==
  \A w \in Parts : KeepsTypes(insert_part(w))
<1> SUFFICES ASSUME NEW w \in Parts, TInv, insert_part(w)
             PROVE  TInv'
  BY Zenon DEF KeepsTypes
<1> USE SentinelsDistinct, ParameterTypes
<1>1. TypeOK /\ w \in Requests
  BY Zenon DEF TInv, Requests
<1>2. {"mkdir", "err"} \subseteq Outcomes
  BY Zenon DEF Outcomes, Steps, MapSteps, CallSteps
<1>3. /\ pc' \in [Requests -> Steps]
      /\ reply' \in [Requests -> Replies]
      /\ pc'[w] \in {"mkdir", "err", "done"}
      /\ \A q \in Requests \ {w} : pc'[q] = pc[q] /\ reply'[q] = reply[q]
  BY Zenon, <1>1, <1>2, StepEffect DEF insert_part, Persist
<1>a. IsOpen(session) => session' \in Session
  <2> SUFFICES ASSUME IsOpen(session) PROVE session' \in Session
    BY Zenon
  <2>1. session \in Session /\ session # NoSession
    BY Zenon, <1>1, OpenExists DEF TypeOK
  <2>2. [session EXCEPT !.parts[NumberOf[w]] = w] \in Session
    BY Zenon, <1>1, <2>1, SetState, SetPart DEF States
  <2> QED
    BY Zenon, <2>2 DEF insert_part
<1>b. /\ session' \in Session
      /\ snapshot' \in [Requests -> Session]
      /\ task' \in [Requests -> Tasks]
      /\ \A q \in Requests \ {w} : task'[q] = task[q]
      /\ pc'[w] \in Persisting => task'[w] # "none"
  <2>1. CASE IsOpen(session)
    <3>1. Persist(w, session', "part")
      BY Zenon, <2>1 DEF insert_part
    <3> QED
      BY Zenon, <1>1, <1>a, <2>1, <3>1, PersistEffect DEF Tasks
  <2>2. CASE ~(IsOpen(session))
    BY Zenon, <1>1, <1>3, <2>2 DEF insert_part, TypeOK, Step, Persisting
  <2> QED
    BY Zenon, <2>1, <2>2
<1>4. TypeOK'
  BY Zenon, <1>1, <1>3, <1>b DEF insert_part, TInv, BodyInv, TypeOK, Replies, Succeeds, Fails, storage, locals
<1>5. BodyInv'
  BY Zenon, <1>1, <1>3, <1>b DEF insert_part, TInv, BodyInv, TypeOK, Requests, storage
<1>6. TaskInv'
  BY Zenon, <1>1, <1>3, <1>b DEF insert_part, TInv, TaskInv, Persisting, locals
<1> QED
  BY Zenon, <1>4, <1>5, <1>6 DEF TInv

LEMMA roll_back_part_TInv ==
  \A w \in Parts : KeepsTypes(roll_back_part(w))
<1> SUFFICES ASSUME NEW w \in Parts, TInv, roll_back_part(w)
             PROVE  TInv'
  BY Zenon DEF KeepsTypes
<1> USE SentinelsDistinct, ParameterTypes
<1>1. TypeOK /\ w \in Requests
  BY Zenon DEF TInv, Requests
<1>2. {"rbRename", "rbSession", "err"} \subseteq Outcomes
  BY Zenon DEF Outcomes, Steps, MapSteps, CallSteps
<1>3. /\ pc' \in [Requests -> Steps]
      /\ reply' \in [Requests -> Replies]
      /\ pc'[w] \in {"rbRename", "rbSession", "err", "done"}
      /\ \A q \in Requests \ {w} : pc'[q] = pc[q] /\ reply'[q] = reply[q]
  BY ZenonT(30), <1>1, <1>2, StepEffect DEF roll_back_part
<1>a. session' \in Session
  BY <1>1, SetPart DEF roll_back_part, TypeOK
<1>b. /\ tmp' \in [Parts -> Content]
      /\ \A v \in Parts \ {w} : tmp'[v].body = tmp[v].body
  BY Zenon, <1>1, SetBackup DEF roll_back_part, LeftBehind, TypeOK, Content
<1>c. files' \in [Numbers -> Parts \cup {Nil}]
  BY Zenon, <1>1 DEF roll_back_part, TypeOK, SetFile
<1>d. failures' \in 0..MaxFailures
  BY <1>1 DEF roll_back_part, TypeOK, FailsUnless, Fails, Succeeds
<1>4. TypeOK'
  BY Zenon, <1>1, <1>3, <1>a, <1>b, <1>c, <1>d DEF roll_back_part, TInv, BodyInv, TypeOK, Replies, Succeeds, Fails, storage, locals, Content
<1>5. BodyInv'
  BY Zenon, <1>1, <1>3, <1>a, <1>b, <1>c, <1>d DEF roll_back_part, TInv, BodyInv, TypeOK, Requests, storage
<1>6. TaskInv'
  BY Zenon, <1>1, <1>3, <1>a, <1>b, <1>c, <1>d DEF roll_back_part, TInv, TaskInv, Persisting, locals
<1> QED
  BY Zenon, <1>4, <1>5, <1>6 DEF TInv

LEMMA remove_backup_TInv ==
  \A w \in Parts : KeepsTypes(remove_backup(w))
<1> SUFFICES ASSUME NEW w \in Parts, TInv, remove_backup(w)
             PROVE  TInv'
  BY Zenon DEF KeepsTypes
<1> USE SentinelsDistinct, ParameterTypes
<1>1. TypeOK /\ w \in Requests
  BY Zenon DEF TInv, Requests
<1>2. {"ok", "err"} \subseteq Outcomes
  BY Zenon DEF Outcomes, Steps, MapSteps, CallSteps
<1>3. /\ pc' \in [Requests -> Steps]
      /\ reply' \in [Requests -> Replies]
      /\ pc'[w] \in {"ok", "err", "done"}
      /\ \A q \in Requests \ {w} : pc'[q] = pc[q] /\ reply'[q] = reply[q]
  BY ZenonT(30), <1>1, <1>2, StepEffect DEF remove_backup
<1>4. TypeOK'
  BY SMTT(30), <1>1, <1>3 DEF remove_backup, TInv, BodyInv, TypeOK, Replies, Succeeds, Fails, storage, locals, States, Tasks, SetTmp
<1>5. BodyInv'
  BY Zenon, <1>1, <1>3 DEF remove_backup, TInv, BodyInv, TypeOK, Requests, storage, SetTmp
<1>6. TaskInv'
  BY Zenon, <1>1, <1>3 DEF remove_backup, TInv, TaskInv, Persisting, locals
<1> QED
  BY Zenon, <1>4, <1>5, <1>6 DEF TInv

LEMMA insert_aborted_TInv ==
  \A a \in Aborts : KeepsTypes(insert_aborted(a))
<1> SUFFICES ASSUME NEW a \in Aborts, TInv, insert_aborted(a)
             PROVE  TInv'
  BY Zenon DEF KeepsTypes
<1> USE SentinelsDistinct, ParameterTypes
<1>1. TypeOK /\ a \in Requests
  BY Zenon DEF TInv, Requests
<1>2. {"abRmdir"} \subseteq Outcomes
  BY Zenon DEF Outcomes, Steps, MapSteps, CallSteps
<1>3. /\ pc' \in [Requests -> Steps]
      /\ reply' \in [Requests -> Replies]
      /\ pc'[a] \in {"abRmdir", "done"}
      /\ \A q \in Requests \ {a} : pc'[q] = pc[q] /\ reply'[q] = reply[q]
  BY Zenon, <1>1, <1>2, StepEffect DEF insert_aborted
<1>4. TypeOK'
  BY Zenon, <1>1, <1>3 DEF insert_aborted, TInv, BodyInv, TypeOK, Replies, Succeeds, Fails, storage, locals, States, Tasks
<1>5. BodyInv'
  BY Zenon, <1>1, <1>3 DEF insert_aborted, TInv, BodyInv, TypeOK, Requests, storage
<1>6. TaskInv'
  BY Zenon, <1>1, <1>3 DEF insert_aborted, TInv, TaskInv, Persisting, locals
<1> QED
  BY Zenon, <1>4, <1>5, <1>6 DEF TInv

LEMMA delete_storage_TInv ==
  \A a \in Aborts : KeepsTypes(delete_storage(a))
<1> SUFFICES ASSUME NEW a \in Aborts, TInv, delete_storage(a)
             PROVE  TInv'
  BY Zenon DEF KeepsTypes
<1> USE SentinelsDistinct, ParameterTypes
<1>1. TypeOK /\ a \in Requests
  BY Zenon DEF TInv, Requests
<1>2. {"abRemove", "err"} \subseteq Outcomes
  BY Zenon DEF Outcomes, Steps, MapSteps, CallSteps
<1>3. /\ pc' \in [Requests -> Steps]
      /\ reply' \in [Requests -> Replies]
      /\ pc'[a] \in {"abRemove", "err", "done"}
      /\ \A q \in Requests \ {a} : pc'[q] = pc[q] /\ reply'[q] = reply[q]
  BY Zenon, <1>1, <1>2, StepEffect DEF delete_storage
<1>a. RemoveDir \/ \E others \in BOOLEAN : RemoveDirFails(others)
  BY Zenon DEF delete_storage, OthersWrite
<1>b. /\ disk' \in Session
      /\ dir' \in BOOLEAN
      /\ files' \in [Numbers -> Parts \cup {Nil}]
      /\ tmp' \in [Parts -> Content]
      /\ \A v \in Parts : tmp'[v].body \in {tmp[v].body, Nil}
      /\ sessionTmp' \subseteq Requests
  BY Zenon, <1>1, <1>a, RemoveDirTypes
<1>c. failures' \in 0..MaxFailures
  BY SMTT(30), ZenonT(30), <1>1 DEF delete_storage, RemoveDirFails, Fails, Succeeds, TypeOK
<1>4. TypeOK'
  BY Zenon, <1>1, <1>3, <1>b, <1>c DEF delete_storage, TInv, BodyInv, TypeOK, Replies, Succeeds, Fails, storage, locals, Content
<1>5. BodyInv'
  BY Zenon, <1>1, <1>3, <1>b, <1>c DEF delete_storage, TInv, BodyInv, TypeOK, Requests, storage
<1>6. TaskInv'
  BY Zenon, <1>1, <1>3, <1>b, <1>c DEF delete_storage, TInv, TaskInv, Persisting, locals
<1> QED
  BY Zenon, <1>4, <1>5, <1>6 DEF TInv

LEMMA drop_aborted_TInv ==
  \A a \in Aborts : KeepsTypes(drop_aborted(a))
<1> SUFFICES ASSUME NEW a \in Aborts, TInv, drop_aborted(a)
             PROVE  TInv'
  BY Zenon DEF KeepsTypes
<1> USE SentinelsDistinct, ParameterTypes
<1>1. TypeOK /\ a \in Requests
  BY Zenon DEF TInv, Requests
<1>2. {"ok"} \subseteq Outcomes
  BY Zenon DEF Outcomes, Steps, MapSteps, CallSteps
<1>3. /\ pc' \in [Requests -> Steps]
      /\ reply' \in [Requests -> Replies]
      /\ pc'[a] \in {"ok", "done"}
      /\ \A q \in Requests \ {a} : pc'[q] = pc[q] /\ reply'[q] = reply[q]
  BY Zenon, <1>1, <1>2, StepEffect DEF drop_aborted
<1>4. TypeOK'
  BY Zenon, <1>1, <1>3, NoSessionType DEF drop_aborted, TInv, BodyInv, TypeOK, Replies, Succeeds, Fails, storage, locals, States, Tasks
<1>5. BodyInv'
  BY Zenon, <1>1, <1>3 DEF drop_aborted, TInv, BodyInv, TypeOK, Requests, storage
<1>6. TaskInv'
  BY Zenon, <1>1, <1>3 DEF drop_aborted, TInv, TaskInv, Persisting, locals
<1> QED
  BY Zenon, <1>4, <1>5, <1>6 DEF TInv

LEMMA begin_completion_TInv ==
  \A c \in Completes : KeepsTypes(begin_completion(c))
<1> SUFFICES ASSUME NEW c \in Completes, TInv, begin_completion(c)
             PROVE  TInv'
  BY Zenon DEF KeepsTypes
<1> USE SentinelsDistinct, ParameterTypes
<1>1. TypeOK /\ c \in Requests
  BY Zenon DEF TInv, Requests
<1>2. {"mkdir", "err"} \subseteq Outcomes
  BY Zenon DEF Outcomes, Steps, MapSteps, CallSteps
<1>3. /\ pc' \in [Requests -> Steps]
      /\ reply' \in [Requests -> Replies]
      /\ pc'[c] \in {"mkdir", "err", "done"}
      /\ \A q \in Requests \ {c} : pc'[q] = pc[q] /\ reply'[q] = reply[q]
  BY Zenon, <1>1, <1>2, StepEffect DEF begin_completion, Persist
<1>a. IsOpen(session) => session' \in Session
  <2> SUFFICES ASSUME IsOpen(session) PROVE session' \in Session
    BY Zenon
  <2>1. session \in Session /\ session # NoSession
    BY Zenon, <1>1, OpenExists DEF TypeOK
  <2>2. [session EXCEPT !.state = "Completing"] \in Session
    BY Zenon, <1>1, <2>1, SetState, SetPart DEF States
  <2> QED
    BY Zenon, <2>2 DEF begin_completion
<1>b. /\ session' \in Session
      /\ snapshot' \in [Requests -> Session]
      /\ task' \in [Requests -> Tasks]
      /\ \A q \in Requests \ {c} : task'[q] = task[q]
      /\ pc'[c] \in Persisting => task'[c] # "none"
  <2>1. CASE IsOpen(session)
    <3>1. Persist(c, session', "completing")
      BY Zenon, <2>1 DEF begin_completion
    <3> QED
      BY Zenon, <1>1, <1>a, <2>1, <3>1, PersistEffect DEF Tasks
  <2>2. CASE ~(IsOpen(session))
    BY Zenon, <1>1, <1>3, <2>2 DEF begin_completion, TypeOK, Step, Persisting
  <2> QED
    BY Zenon, <2>1, <2>2
<1>4. TypeOK'
  BY Zenon, <1>1, <1>3, <1>b DEF begin_completion, TInv, BodyInv, TypeOK, Replies, Succeeds, Fails, storage, locals
<1>5. BodyInv'
  BY Zenon, <1>1, <1>3, <1>b DEF begin_completion, TInv, BodyInv, TypeOK, Requests, storage
<1>6. TaskInv'
  BY Zenon, <1>1, <1>3, <1>b DEF begin_completion, TInv, TaskInv, Persisting, locals
<1> QED
  BY Zenon, <1>4, <1>5, <1>6 DEF TInv

LEMMA validate_parts_TInv ==
  \A c \in Completes : KeepsTypes(validate_parts(c))
<1> SUFFICES ASSUME NEW c \in Completes, TInv, validate_parts(c)
             PROVE  TInv'
  BY Zenon DEF KeepsTypes
<1> USE SentinelsDistinct, ParameterTypes
<1>1. TypeOK /\ c \in Requests
  BY Zenon DEF TInv, Requests
<1>2. {"copy", "restore"} \subseteq Outcomes
  BY Zenon DEF Outcomes, Steps, MapSteps, CallSteps
<1>3. /\ pc' \in [Requests -> Steps]
      /\ reply' \in [Requests -> Replies]
      /\ pc'[c] \in {"copy", "restore", "done"}
      /\ \A q \in Requests \ {c} : pc'[q] = pc[q] /\ reply'[q] = reply[q]
  BY Zenon, <1>1, <1>2, StepEffect DEF validate_parts
<1>4. TypeOK'
  BY Zenon, <1>1, <1>3 DEF validate_parts, TInv, BodyInv, TypeOK, Replies, Succeeds, Fails, storage, locals, States, Tasks
<1>5. BodyInv'
  BY Zenon, <1>1, <1>3 DEF validate_parts, TInv, BodyInv, TypeOK, Requests, storage
<1>6. TaskInv'
  BY Zenon, <1>1, <1>3 DEF validate_parts, TInv, TaskInv, Persisting, locals
<1> QED
  BY Zenon, <1>4, <1>5, <1>6 DEF TInv

LEMMA copy_part_TInv ==
  \A c \in Completes : KeepsTypes(copy_part(c))
<1> SUFFICES ASSUME NEW c \in Completes, TInv, copy_part(c)
             PROVE  TInv'
  BY Zenon DEF KeepsTypes
<1> USE SentinelsDistinct, ParameterTypes
<1>1. TypeOK /\ c \in Requests
  BY Zenon DEF TInv, Requests
<1>2. {"copy", "commit", "restore"} \subseteq Outcomes
  BY Zenon DEF Outcomes, Steps, MapSteps, CallSteps
<1>3. /\ pc' \in [Requests -> Steps]
      /\ reply' \in [Requests -> Replies]
      /\ pc'[c] \in {"copy", "commit", "restore", "done"}
      /\ \A q \in Requests \ {c} : pc'[q] = pc[q] /\ reply'[q] = reply[q]
  BY Zenon, <1>1, <1>2, StepEffect DEF copy_part
<1>a. built' \in [Completes -> PartMap] /\ failures' \in 0..MaxFailures
  <2>1. PICK n \in Numbers :
          \/ built' = [built EXCEPT ![c][n] = files[n]] /\ Succeeds
          \/ UNCHANGED built /\ FailsUnless(files[n] # Nil, "read")
    BY Zenon DEF copy_part, Requested
  <2>2. [built EXCEPT ![c][n] = files[n]] \in [Completes -> PartMap]
    BY Zenon, <1>1 DEF TypeOK, PartMap
  <2>4. built' \in [Completes -> PartMap]
    BY Zenon, <1>1, <2>1, <2>2 DEF TypeOK
  <2>3. failures' \in 0..MaxFailures
    BY SMTT(30), <1>1, <2>1 DEF TypeOK, Succeeds, FailsUnless, Fails
  <2> QED
    BY Zenon, <2>3, <2>4
<1>4. TypeOK'
  BY Zenon, <1>1, <1>3, <1>a DEF copy_part, TInv, BodyInv, TypeOK, Replies, Succeeds, Fails, storage, locals
<1>5. BodyInv'
  BY Zenon, <1>1, <1>3, <1>a DEF copy_part, TInv, BodyInv, TypeOK, Requests, storage, FailsUnless, Requested, PartMap
<1>6. TaskInv'
  BY Zenon, <1>1, <1>3, <1>a DEF copy_part, TInv, TaskInv, Persisting, locals
<1> QED
  BY Zenon, <1>4, <1>5, <1>6 DEF TInv

LEMMA commit_object_TInv ==
  \A c \in Completes : KeepsTypes(commit_object(c))
<1> SUFFICES ASSUME NEW c \in Completes, TInv, commit_object(c)
             PROVE  TInv'
  BY Zenon DEF KeepsTypes
<1> USE SentinelsDistinct, ParameterTypes
<1>1. TypeOK /\ c \in Requests
  BY Zenon DEF TInv, Requests
<1>2. {"mark", "restore"} \subseteq Outcomes
  BY ZenonT(30) DEF Outcomes, Steps, MapSteps, CallSteps
<1>3. /\ pc' \in [Requests -> Steps]
      /\ reply' \in [Requests -> Replies]
      /\ pc'[c] \in {"mark", "restore", "done"}
      /\ \A q \in Requests \ {c} : pc'[q] = pc[q] /\ reply'[q] = reply[q]
  BY Zenon, <1>1, <1>2, StepEffect DEF commit_object
<1>4. TypeOK'
  BY SMTT(30), <1>1, <1>3 DEF commit_object, TInv, BodyInv, TypeOK, Replies, Succeeds, Fails, storage, locals, States, Tasks
<1>5. BodyInv'
  BY Zenon, <1>1, <1>3 DEF commit_object, TInv, BodyInv, TypeOK, Requests, storage
<1>6. TaskInv'
  BY Zenon, <1>1, <1>3 DEF commit_object, TInv, TaskInv, Persisting, locals
<1> QED
  BY Zenon, <1>4, <1>5, <1>6 DEF TInv

LEMMA mark_completed_TInv ==
  \A c \in Completes : KeepsTypes(mark_completed(c))
<1> SUFFICES ASSUME NEW c \in Completes, TInv, mark_completed(c)
             PROVE  TInv'
  BY Zenon DEF KeepsTypes
<1> USE SentinelsDistinct, ParameterTypes
<1>1. TypeOK /\ c \in Requests
  BY Zenon DEF TInv, Requests
<1>2. {"mkdir", "rmSession"} \subseteq Outcomes
  BY Zenon DEF Outcomes, Steps, MapSteps, CallSteps
<1>3. /\ pc' \in [Requests -> Steps]
      /\ reply' \in [Requests -> Replies]
      /\ pc'[c] \in {"mkdir", "rmSession", "done"}
      /\ \A q \in Requests \ {c} : pc'[q] = pc[q] /\ reply'[q] = reply[q]
  BY Zenon, <1>1, <1>2, StepEffect DEF mark_completed, Persist
<1>a. session # NoSession => session' \in Session
  <2> SUFFICES ASSUME session # NoSession PROVE session' \in Session
    BY Zenon
  <2>1. session \in Session /\ session # NoSession
    BY Zenon, <1>1, OpenExists DEF TypeOK
  <2>2. [session EXCEPT !.state = "Completed"] \in Session
    BY Zenon, <1>1, <2>1, SetState, SetPart DEF States
  <2> QED
    BY Zenon, <2>2 DEF mark_completed
<1>b. /\ session' \in Session
      /\ snapshot' \in [Requests -> Session]
      /\ task' \in [Requests -> Tasks]
      /\ \A q \in Requests \ {c} : task'[q] = task[q]
      /\ pc'[c] \in Persisting => task'[c] # "none"
  <2>1. CASE session # NoSession
    <3>1. Persist(c, session', "completed")
      BY Zenon, <2>1 DEF mark_completed
    <3> QED
      BY Zenon, <1>1, <1>a, <2>1, <3>1, PersistEffect DEF Tasks
  <2>2. CASE ~(session # NoSession)
    BY Zenon, <1>1, <1>3, <2>2 DEF mark_completed, TypeOK, Step, Persisting
  <2> QED
    BY Zenon, <2>1, <2>2
<1>4. TypeOK'
  BY Zenon, <1>1, <1>3, <1>b DEF mark_completed, TInv, BodyInv, TypeOK, Replies, Succeeds, Fails, storage, locals
<1>5. BodyInv'
  BY Zenon, <1>1, <1>3, <1>b DEF mark_completed, TInv, BodyInv, TypeOK, Requests, storage
<1>6. TaskInv'
  BY Zenon, <1>1, <1>3, <1>b DEF mark_completed, TInv, TaskInv, Persisting, locals
<1> QED
  BY Zenon, <1>4, <1>5, <1>6 DEF TInv

LEMMA remove_session_file_TInv ==
  \A c \in Completes : KeepsTypes(remove_session_file(c))
<1> SUFFICES ASSUME NEW c \in Completes, TInv, remove_session_file(c)
             PROVE  TInv'
  BY Zenon DEF KeepsTypes
<1> USE SentinelsDistinct, ParameterTypes
<1>1. TypeOK /\ c \in Requests
  BY Zenon DEF TInv, Requests
<1>2. {"forget"} \subseteq Outcomes
  BY Zenon DEF Outcomes, Steps, MapSteps, CallSteps
<1>3. /\ pc' \in [Requests -> Steps]
      /\ reply' \in [Requests -> Replies]
      /\ pc'[c] \in {"forget", "done"}
      /\ \A q \in Requests \ {c} : pc'[q] = pc[q] /\ reply'[q] = reply[q]
  BY ZenonT(30), <1>1, <1>2, StepEffect DEF remove_session_file
<1>4. TypeOK'
  BY SMTT(30), <1>1, <1>3, NoSessionType DEF remove_session_file, TInv, BodyInv, TypeOK, Replies, Succeeds, Fails, storage, locals, States, Tasks
<1>5. BodyInv'
  BY Zenon, <1>1, <1>3 DEF remove_session_file, TInv, BodyInv, TypeOK, Requests, storage
<1>6. TaskInv'
  BY Zenon, <1>1, <1>3 DEF remove_session_file, TInv, TaskInv, Persisting, locals
<1> QED
  BY Zenon, <1>4, <1>5, <1>6 DEF TInv

LEMMA forget_session_TInv ==
  \A c \in Completes : KeepsTypes(forget_session(c))
<1> SUFFICES ASSUME NEW c \in Completes, TInv, forget_session(c)
             PROVE  TInv'
  BY Zenon DEF KeepsTypes
<1> USE SentinelsDistinct, ParameterTypes
<1>1. TypeOK /\ c \in Requests
  BY Zenon DEF TInv, Requests
<1>2. {"rmDir"} \subseteq Outcomes
  BY Zenon DEF Outcomes, Steps, MapSteps, CallSteps
<1>3. /\ pc' \in [Requests -> Steps]
      /\ reply' \in [Requests -> Replies]
      /\ pc'[c] \in {"rmDir", "done"}
      /\ \A q \in Requests \ {c} : pc'[q] = pc[q] /\ reply'[q] = reply[q]
  BY Zenon, <1>1, <1>2, StepEffect DEF forget_session
<1>4. TypeOK'
  BY Zenon, <1>1, <1>3, NoSessionType DEF forget_session, TInv, BodyInv, TypeOK, Replies, Succeeds, Fails, storage, locals, States, Tasks
<1>5. BodyInv'
  BY Zenon, <1>1, <1>3 DEF forget_session, TInv, BodyInv, TypeOK, Requests, storage
<1>6. TaskInv'
  BY Zenon, <1>1, <1>3 DEF forget_session, TInv, TaskInv, Persisting, locals
<1> QED
  BY Zenon, <1>4, <1>5, <1>6 DEF TInv

LEMMA remove_upload_dir_TInv ==
  \A c \in Completes : KeepsTypes(remove_upload_dir(c))
<1> SUFFICES ASSUME NEW c \in Completes, TInv, remove_upload_dir(c)
             PROVE  TInv'
  BY Zenon DEF KeepsTypes
<1> USE SentinelsDistinct, ParameterTypes
<1>1. TypeOK /\ c \in Requests
  BY Zenon DEF TInv, Requests
<1>2. {"ok"} \subseteq Outcomes
  BY Zenon DEF Outcomes, Steps, MapSteps, CallSteps
<1>3. /\ pc' \in [Requests -> Steps]
      /\ reply' \in [Requests -> Replies]
      /\ pc'[c] \in {"ok", "done"}
      /\ \A q \in Requests \ {c} : pc'[q] = pc[q] /\ reply'[q] = reply[q]
  BY Zenon, <1>1, <1>2, StepEffect DEF remove_upload_dir
<1>a. RemoveDir \/ \E others \in BOOLEAN : RemoveDirFails(others)
  BY Zenon DEF remove_upload_dir, OthersWrite
<1>b. /\ disk' \in Session
      /\ dir' \in BOOLEAN
      /\ files' \in [Numbers -> Parts \cup {Nil}]
      /\ tmp' \in [Parts -> Content]
      /\ \A v \in Parts : tmp'[v].body \in {tmp[v].body, Nil}
      /\ sessionTmp' \subseteq Requests
  BY ZenonT(30), <1>1, <1>a, RemoveDirTypes
<1>c. failures' \in 0..MaxFailures
  BY <1>1 DEF remove_upload_dir, RemoveDirFails, Fails, Succeeds, TypeOK
<1>4. TypeOK'
  BY Zenon, <1>1, <1>3, <1>b, <1>c DEF remove_upload_dir, TInv, BodyInv, TypeOK, Replies, Succeeds, Fails, storage, locals, Content
<1>5. BodyInv'
  BY Zenon, <1>1, <1>3, <1>b, <1>c DEF remove_upload_dir, TInv, BodyInv, TypeOK, Requests, storage
<1>6. TaskInv'
  BY Zenon, <1>1, <1>3, <1>b, <1>c DEF remove_upload_dir, TInv, TaskInv, Persisting, locals
<1> QED
  BY Zenon, <1>4, <1>5, <1>6 DEF TInv

LEMMA restore_open_upload_TInv ==
  \A c \in Completes : KeepsTypes(restore_open_upload(c))
<1> SUFFICES ASSUME NEW c \in Completes, TInv, restore_open_upload(c)
             PROVE  TInv'
  BY Zenon DEF KeepsTypes
<1> USE SentinelsDistinct, ParameterTypes
<1>1. TypeOK /\ c \in Requests
  BY Zenon DEF TInv, Requests
<1>2. {"mkdir", "err"} \subseteq Outcomes
  BY Zenon DEF Outcomes, Steps, MapSteps, CallSteps
<1>3. /\ pc' \in [Requests -> Steps]
      /\ reply' \in [Requests -> Replies]
      /\ pc'[c] \in {"mkdir", "err", "done"}
      /\ \A q \in Requests \ {c} : pc'[q] = pc[q] /\ reply'[q] = reply[q]
  BY Zenon, <1>1, <1>2, StepEffect DEF restore_open_upload, Persist
<1>a. session # NoSession => session' \in Session
  <2> SUFFICES ASSUME session # NoSession PROVE session' \in Session
    BY Zenon
  <2>1. session \in Session /\ session # NoSession
    BY Zenon, <1>1, OpenExists DEF TypeOK
  <2>2. [session EXCEPT !.state = "Open"] \in Session
    BY Zenon, <1>1, <2>1, SetState, SetPart DEF States
  <2> QED
    BY Zenon, <2>2 DEF restore_open_upload
<1>b. /\ session' \in Session
      /\ snapshot' \in [Requests -> Session]
      /\ task' \in [Requests -> Tasks]
      /\ \A q \in Requests \ {c} : task'[q] = task[q]
      /\ pc'[c] \in Persisting => task'[c] # "none"
  <2>1. CASE session # NoSession
    <3>1. Persist(c, session', "reopen")
      BY Zenon, <2>1 DEF restore_open_upload
    <3> QED
      BY Zenon, <1>1, <1>a, <2>1, <3>1, PersistEffect DEF Tasks
  <2>2. CASE ~(session # NoSession)
    BY ZenonT(30), <1>1, <1>3, <2>2 DEF restore_open_upload, TypeOK, Step, Persisting
  <2> QED
    BY Zenon, <2>1, <2>2
<1>4. TypeOK'
  BY Zenon, <1>1, <1>3, <1>b DEF restore_open_upload, TInv, BodyInv, TypeOK, Replies, Succeeds, Fails, storage, locals
<1>5. BodyInv'
  BY Zenon, <1>1, <1>3, <1>b DEF restore_open_upload, TInv, BodyInv, TypeOK, Requests, storage
<1>6. TaskInv'
  BY Zenon, <1>1, <1>3, <1>b DEF restore_open_upload, TInv, TaskInv, Persisting, locals
<1> QED
  BY Zenon, <1>4, <1>5, <1>6 DEF TInv

LEMMA persist_session_TInv ==
  \A r \in Requests : KeepsTypes(persist_session(r))
<1> SUFFICES ASSUME NEW r \in Requests, TInv, persist_session(r)
             PROVE  TInv'
  BY Zenon DEF KeepsTypes
<1>1. TypeOK /\ task[r] \in Tasks \ {"none"}
  BY Zenon DEF TInv, TypeOK, TaskInv, persist_session, persist_mkdir, persist_write, persist_rename,
     Persisting
<1>2. PICK next \in Outcomes \ {"mkdir", "open", "mkPartDir", "link", "rename"} : Step(r, next)
  <2>1. {"write", "renameSession"} \subseteq
          Outcomes \ {"mkdir", "open", "mkPartDir", "link", "rename"}
    BY Zenon DEF Outcomes, Steps, MapSteps, CallSteps
  <2>2. {Persisted(task[r]), NotPersisted(task[r])} \subseteq
          Outcomes \ {"mkdir", "open", "mkPartDir", "link", "rename"}
    BY SMTT(30), ZenonT(30), <1>1, PersistedOutcome DEF Persisting
  <2> QED
    BY Zenon, <2>1, <2>2 DEF persist_session, persist_mkdir, persist_write, persist_rename
<1>3. UNCHANGED <<session, files, tmp, locals, published, committed, phase>>
  BY Zenon DEF persist_session, persist_mkdir, persist_write, persist_rename
<1>4. BodyInv' /\ TaskInv' /\ pc' \in [Requests -> Steps] /\ reply' \in [Requests -> Replies]
  <2>1. tmp' \in [Parts -> Content] /\ task' = task
    BY Zenon, <1>1, <1>3 DEF TypeOK, Content, locals
  <2> QED
    BY Zenon, <1>1, <1>2, <1>3, <2>1, StepTInv
<1>5. disk' \in Session /\ sessionTmp' \subseteq Requests
  BY SMTT(30), <1>1 DEF persist_session, persist_mkdir, persist_write, persist_rename, TypeOK
<1>6. dir' \in BOOLEAN
  BY Zenon, <1>1 DEF persist_session, persist_mkdir, persist_write, persist_rename, TypeOK
<1>7. failures' \in 0..MaxFailures
  BY <1>1, ParameterTypes DEF persist_session, persist_mkdir, persist_write, persist_rename, TypeOK,
     Succeeds, FailsUnless, Fails
<1> QED
  BY Zenon, <1>1, <1>3, <1>4, <1>5, <1>6, <1>7 DEF TInv, TypeOK, locals, Replies

LEMMA create_upload_TInv ==
  KeepsTypes(create_parts_dir \/ insert_session)
<1> SUFFICES ASSUME TInv, create_parts_dir \/ insert_session
             PROVE  TInv'
  BY Zenon DEF KeepsTypes
<1>1. TypeOK /\ Creator \in Requests /\ tmp \in [Parts -> Content]
  BY Zenon DEF TInv, TypeOK, Requests, Content
<1>2. {"mkdir", "ok", "err"} \subseteq Outcomes
  BY Zenon DEF Outcomes, Steps, CallSteps
<1>3. CASE insert_session
  <2>1. BodyInv' /\ TaskInv' /\ pc' \in [Requests -> Steps] /\ reply' \in [Requests -> Replies]
    BY Zenon, <1>1, <1>2, <1>3, StepTInv DEF insert_session, storage, locals, Persisting
  <2> QED
    BY Zenon, <1>1, <1>3, <2>1 DEF insert_session, TInv, TypeOK, storage, locals, Replies
<1>4. CASE create_parts_dir
  <2> DEFINE new == [state |-> "Open", parts |-> NoParts]
  <2>1. new \in Session
    BY Zenon, NoPartsType DEF Session, States
  <2>2. CASE Persist(Creator, new, "create")
    <3>1. /\ snapshot' \in [Requests -> Session]
          /\ task' \in [Requests -> Tasks]
          /\ task'[Creator] # "none"
          /\ \A q \in Requests \ {Creator} : task'[q] = task[q]
          /\ Step(Creator, "mkdir")
      BY Zenon, <1>1, <2>1, <2>2, PersistEffect DEF Tasks
    <3>2. BodyInv' /\ TaskInv' /\ pc' \in [Requests -> Steps] /\ reply' \in [Requests -> Replies]
      BY Zenon, <1>1, <1>2, <1>4, <3>1, StepTInv DEF create_parts_dir
    <3>3. dir' \in BOOLEAN
      BY Zenon, <1>1, <1>4 DEF create_parts_dir, TypeOK
    <3>4. failures' \in 0..MaxFailures
      BY <1>1, <1>4, ParameterTypes DEF create_parts_dir, TypeOK, Succeeds, Fails
    <3> QED
      BY Zenon, <1>1, <1>4, <3>1, <3>2, <3>3, <3>4 DEF create_parts_dir, TInv, TypeOK, Replies
  <2>3. CASE Fails("mkdir") /\ Step(Creator, "err") /\ UNCHANGED <<dir, snapshot, task>>
    <3>1. BodyInv' /\ TaskInv' /\ pc' \in [Requests -> Steps] /\ reply' \in [Requests -> Replies]
      BY Zenon, <1>1, <1>2, <1>4, <2>3, StepTInv DEF create_parts_dir, Persisting
    <3>2. failures' \in 0..MaxFailures
      BY SMTT(30), <1>1, <2>3, ParameterTypes DEF TypeOK, Fails
    <3> QED
      BY Zenon, <1>1, <1>4, <2>3, <3>1, <3>2 DEF create_parts_dir, TInv, TypeOK, Replies
  <2> QED
    BY Zenon, <1>4, <2>2, <2>3 DEF create_parts_dir
<1> QED
  BY Zenon, <1>3, <1>4

(* What the arrival of r changes.                                          *)
BeginEffect(r) ==
  /\ wanted' \in [Completes -> PartMap]
  /\ snapshot' \in [Requests -> Session]
  /\ task' \in [Requests -> Tasks]
  /\ \A q \in Requests \ {r} : task'[q] = task[q]
  /\ \E next \in {"crMkdir", "mkTmpDir", "begin", "mkdir", "err"} :
       Step(r, next) /\ (next = "mkdir" => task'[r] # "none")

LEMMA Begin_TInv ==
  \A r \in Requests : KeepsTypes(Begin(r))
<1> SUFFICES ASSUME NEW r \in Requests, TInv, Begin(r)
             PROVE  TInv'
  BY Zenon DEF KeepsTypes
<1>1. TypeOK /\ tmp \in [Parts -> Content]
  BY Zenon DEF TInv, TypeOK, Content
<1>2. Arrives(r)
  BY Zenon DEF Begin, BeginCreate, BeginPart, BeginAbort, BeginComplete
<1>3. BeginEffect(r)
  <2>1. ASSUME r \in Aborts, IsOpen(session), Persist(r, [session EXCEPT !.state = "Aborted"], "abort"),
               UNCHANGED wanted
        PROVE  BeginEffect(r)
    <3>1. [session EXCEPT !.state = "Aborted"] \in Session
      BY Zenon, <1>1, <2>1, OpenExists, SetState DEF TypeOK, States
    <3> QED
      BY Zenon, <1>1, <2>1, <3>1, PersistEffect DEF TypeOK, Tasks, BeginEffect
  <2>2. ASSUME r \in Completes, BeginComplete(r), ~Refuse(r)
        PROVE  BeginEffect(r)
    <3>1. PICK list \in PartMap : wanted' = [wanted EXCEPT ![r] = list]
      BY Zenon, <2>2 DEF BeginComplete
    <3>2. wanted' \in [Completes -> PartMap]
      BY Zenon, <1>1, <3>1 DEF TypeOK
    <3>3. Step(r, "begin") /\ UNCHANGED <<snapshot, task>>
      BY Zenon, <2>2 DEF BeginComplete
    <3> QED
      BY Zenon, <1>1, <3>2, <3>3 DEF TypeOK, BeginEffect
  <2>3. CASE Refuse(r) \/ (r = Creator /\ BeginCreate) \/ (r \in Parts /\ BeginPart(r))
    BY Zenon, <1>1, <2>3 DEF Refuse, BeginCreate, BeginPart, TypeOK, BeginEffect
  <2>4. CASE r \in Aborts /\ BeginAbort(r)
    BY Zenon, <2>1, <2>3, <2>4 DEF BeginAbort
  <2>5. CASE r \in Completes /\ BeginComplete(r)
    BY Zenon, <2>2, <2>3, <2>5
  <2> QED
    BY Zenon, <2>3, <2>4, <2>5 DEF Begin
<1>4. {"crMkdir", "mkTmpDir", "begin", "mkdir", "err"} \subseteq Outcomes
  BY Zenon DEF Outcomes, Steps, MapSteps, CallSteps
<1>5. BodyInv' /\ TaskInv' /\ pc' \in [Requests -> Steps] /\ reply' \in [Requests -> Replies]
  <2>1. UNCHANGED tmp
    BY Zenon, <1>2 DEF Arrives, storage
  <2> QED
    BY Zenon, <1>1, <1>3, <1>4, <2>1, StepTInv DEF Persisting, BeginEffect
<1> QED
  BY Zenon, <1>1, <1>2, <1>3, <1>5 DEF TInv, TypeOK, Arrives, storage, Replies, BeginEffect

LEMMA Cancel_TInv ==
  \A r \in Requests : KeepsTypes(Cancel(r))
<1> SUFFICES ASSUME NEW r \in Requests, TInv, Cancel(r)
             PROVE  TInv'
  BY Zenon DEF KeepsTypes
<1>1. TypeOK'
  BY Zenon DEF TInv, Cancel, TypeOK, Steps, CallSteps, storage, locals
<1>2. BodyInv' /\ TaskInv'
  BY Zenon DEF TInv, Cancel, TypeOK, BodyInv, TaskInv, Persisting, Requests, storage, locals
<1> QED
  BY Zenon, <1>1, <1>2 DEF TInv

LEMMA Startup_TInv ==
  KeepsTypes(Crash \/ load_sessions \/ cleanup_stale_temp_files)
<1> SUFFICES ASSUME TInv, Crash \/ load_sessions \/ cleanup_stale_temp_files
             PROVE  TInv'
  BY Zenon DEF KeepsTypes
<1>1. TypeOK
  BY Zenon DEF TInv
<1>2. CASE Crash
  <2>1. TypeOK'
    BY Zenon, <1>1, <1>2, NoSessionType DEF Crash, TypeOK, Steps, Tasks, storage
  <2>2. BodyInv' /\ TaskInv'
    BY Zenon, <1>1, <1>2 DEF Crash, TInv, TypeOK, BodyInv, TaskInv, Persisting, Running, Requests, storage,
       locals
  <2> QED
    BY Zenon, <2>1, <2>2 DEF TInv
<1>3. CASE load_sessions
  <2>1. /\ disk' \in Session
        /\ dir' \in BOOLEAN
        /\ files' \in [Numbers -> Parts \cup {Nil}]
        /\ tmp' \in [Parts -> Content]
        /\ \A w \in Parts : tmp'[w].body \in {tmp[w].body, Nil}
        /\ sessionTmp' \subseteq Requests
    <3>1. CASE UNCHANGED storage
      BY Zenon, <1>1, <3>1 DEF TypeOK, storage, Content
    <3>2. CASE RemoveDir \/ RemoveDirFails(FALSE)
      BY Zenon, <1>1, <3>2, RemoveDirTypes
    <3> QED
      BY Zenon, <1>3, <3>1, <3>2 DEF load_sessions
  <2>2. session' \in Session /\ failures' \in 0..MaxFailures
    <3>1. session' \in {session, disk} /\ (Succeeds \/ RemoveDirFails(FALSE))
      BY Zenon, <1>3 DEF load_sessions
    <3>2. session' \in Session
      BY Zenon, <1>1, <3>1 DEF TypeOK
    <3>3. CASE Succeeds
      BY Zenon, <1>1, <3>2, <3>3 DEF TypeOK, Succeeds
    <3>4. CASE RemoveDirFails(FALSE)
      BY <1>1, <3>2, <3>4, ParameterTypes, SMTT(30) DEF TypeOK, RemoveDirFails, Fails
    <3> QED
      BY Zenon, <3>1, <3>3, <3>4
  <2>3. TypeOK'
    BY Zenon, <1>1, <1>3, <2>1, <2>2 DEF load_sessions, TypeOK, locals, Content
  <2>4. BodyInv' /\ TaskInv'
    BY Zenon, <1>3, <2>1 DEF load_sessions, TInv, BodyInv, TaskInv, locals
  <2> QED
    BY Zenon, <2>3, <2>4 DEF TInv
<1>4. CASE cleanup_stale_temp_files
  <2>1. tmp' \in [Parts -> Content] /\ \A w \in Parts : tmp'[w].body \in {tmp[w].body, Nil}
    <3>1. CASE tmp' = [w \in Parts |-> NoTmp]
      BY Zenon, <3>1 DEF Content, NoTmp
    <3>2. CASE UNCHANGED tmp
      BY Zenon, <1>1, <3>2 DEF TypeOK, Content
    <3> QED
      BY Zenon, <1>4, <3>1, <3>2 DEF cleanup_stale_temp_files
  <2>2. TypeOK'
    BY Zenon, <1>1, <1>4, <2>1 DEF cleanup_stale_temp_files, TypeOK, Content, locals
  <2>3. BodyInv' /\ TaskInv'
    BY Zenon, <1>4, <2>1 DEF cleanup_stale_temp_files, TInv, BodyInv, TaskInv, locals
  <2> QED
    BY Zenon, <2>2, <2>3 DEF TInv
<1> QED
  BY Zenon, <1>2, <1>3, <1>4

-----------------------------------------------------------------------------
(* EInv is preserved.                                                      *)

(* By a step that opens no session, starts no completion and publishes     *)
(* nothing.                                                                *)
LEMMA StepEInv ==
  ASSUME TInv, EInv, NEW r \in Requests, NEW next \in Outcomes, Step(r, next),
         Running(r),
         phase' = phase,
         committed' = committed,
         IsOpen(session)' => IsOpen(session),
         \A q \in Requests \ {r} : task'[q] = task[q] /\ snapshot'[q] = snapshot[q],
         r \in Completes => (Completing(r)' => Completing(r)),
         ~MayCrash /\ r \in Completes /\ r \in committed => Past(r)',
         r \in Aborts /\ pc'[r] \in Persisting \cup {"abInsert"} => snapshot'[r].state = "Aborted"
  PROVE  EInv'
<1>1. /\ pc'[r] \in {next, "done"}
      /\ reply'[r] = "ok" => reply[r] = "ok" \/ pc'[r] = "done"
      /\ \A q \in Requests \ {r} : pc'[q] = pc[q] /\ reply'[q] = reply[q]
  BY Zenon, StepEffect DEF TInv
<1>2. \A c \in Completes \ {r} : c \in Requests /\ (Completing(c)' <=> Completing(c)) /\ (Past(c)' <=> Past(c))
  BY Zenon, <1>1 DEF Completing, Past, Requests
<1>3. ExclusiveCompletion'
  BY Zenon, <1>2 DEF EInv, ExclusiveCompletion
<1>4. CreatorInv'
  BY Zenon, <1>1 DEF EInv, CreatorInv, Running, Requests
<1>5. AbortInv'
  BY ZenonT(30), <1>1 DEF EInv, AbortInv, Requests
<1>6. StartupInv'
  BY Zenon DEF EInv, StartupInv
<1>7. CommittedInv'
  <2>1. committed \subseteq Completes
    BY Zenon DEF TInv, TypeOK
  <2>2. \A c \in Completes : Completing(c)' => Completing(c)
    BY Zenon, <1>2
  <2>3. ~MayCrash => \A c \in committed : Past(c)'
    BY Zenon, <1>2, <2>1 DEF EInv, CommittedInv
  <2> QED
    BY Zenon, <2>1, <2>2, <2>3 DEF EInv, CommittedInv
<1> QED
  BY Zenon, <1>3, <1>4, <1>5, <1>6, <1>7 DEF EInv

LEMMA upload_part_EInv ==
  \A w \in Parts : KeepsExclusion(upload_part(w) /\ ~persist_session(w))
<1> SUFFICES ASSUME NEW w \in Parts, TInv, EInv, upload_part(w) /\ ~persist_session(w)
             PROVE  EInv'
  BY Zenon DEF KeepsExclusion
<1>1. w \in Requests /\ w \notin Completes /\ w \notin Aborts
  BY Zenon, KindsDisjoint DEF Requests
<1>2. Running(w) /\ phase' = phase /\ committed' = committed
  BY Zenon DEF upload_part, commit_part, create_temp_part, receive_body, discard, check_open, make_part_dir,
     link_previous, rename_part, insert_part, roll_back_part, remove_backup, Running, locals
<1>3. \E next \in Outcomes : Step(w, next)
  <2>1. {"createTmp", "body", "err", "open", "discard", "mkPartDir", "link", "rename", "insert", "mkdir",
         "rbRename", "rbSession", "ok"} \subseteq Outcomes
    BY Zenon DEF Outcomes, Steps, MapSteps, CallSteps
  <2> QED
    BY Zenon, <2>1 DEF upload_part, commit_part, create_temp_part, receive_body, discard, check_open,
       make_part_dir, link_previous, rename_part, insert_part, roll_back_part, remove_backup,
       PublishFails, Persist
<1>4. IsOpen(session)' => IsOpen(session)
  <2>1. CASE insert_part(w)
    BY Zenon, <2>1 DEF insert_part
  <2>2. CASE roll_back_part(w)
    <3>1. session \in Session /\ NumberOf[w] \in Numbers /\ previous[w] \in Parts \cup {Nil}
      BY Zenon, ParameterTypes DEF TInv, TypeOK
    <3>2. session # NoSession => [session EXCEPT !.parts[NumberOf[w]] = previous[w]].state = session.state
      BY Zenon, <3>1, SetPart
    <3> QED
      BY Zenon, <2>2, <3>2 DEF roll_back_part, IsOpen
  <2> QED
    BY Zenon, <2>1, <2>2 DEF upload_part, commit_part, create_temp_part, receive_body, discard, check_open,
       make_part_dir, link_previous, rename_part, remove_backup, IsOpen
<1>5. \A q \in Requests \ {w} : task'[q] = task[q] /\ snapshot'[q] = snapshot[q]
  <2>1. CASE insert_part(w)
    BY Zenon, <2>1 DEF insert_part, Persist, TInv, TypeOK
  <2> QED
    BY Zenon, <2>1 DEF upload_part, commit_part, create_temp_part, receive_body, discard, check_open,
       make_part_dir, link_previous, rename_part, roll_back_part, remove_backup, locals
<1> QED
  BY Zenon, <1>1, <1>2, <1>3, <1>4, <1>5, StepEInv

LEMMA persist_session_EInv ==
  \A r \in Requests : KeepsExclusion(persist_session(r))
<1> SUFFICES ASSUME NEW r \in Requests, TInv, EInv, persist_session(r)
             PROVE  EInv'
  BY Zenon DEF KeepsExclusion
<1>1. TypeOK /\ task[r] \in Tasks \ {"none"} /\ pc[r] \in Persisting
  BY Zenon DEF TInv, TypeOK, TaskInv, persist_session, persist_mkdir, persist_write, persist_rename,
     Persisting
<1>2. UNCHANGED <<session, locals, committed, phase>>
  BY Zenon DEF persist_session, persist_mkdir, persist_write, persist_rename
<1>3. PICK next \in {"write", "renameSession", Persisted(task[r]), NotPersisted(task[r])} : Step(r, next)
  BY Zenon DEF persist_session, persist_mkdir, persist_write, persist_rename
<1>4. next \in Outcomes
  <2>1. {"write", "renameSession"} \subseteq Outcomes
    BY Zenon DEF Outcomes, Steps, CallSteps
  <2> QED
    BY <1>1, <1>3, <2>1, PersistedOutcome
<1>5. pc'[r] \in {next, "done"}
  BY Zenon, <1>1, <1>3, <1>4, StepEffect
<1>6. r \in Completes => (Completing(r)' => Completing(r))
  <2>1. CASE task[r] \in {"completing", "completed"}
    BY Zenon, <1>1, <2>1 DEF Completing, Persisting
  <2>2. CASE task[r] \notin {"completing", "completed"}
    BY SMTT(30), ZenonT(30), <1>1, <1>2, <1>3, <1>5, <2>2, PersistedOutcome DEF Completing, Persisting, locals
  <2> QED
    BY Zenon, <2>1, <2>2
<1>7. Past(r) => Past(r)'
  BY <1>1, <1>2, <1>3, <1>5, PersistedOutcome DEF Past, Persisting, locals
<1>8. r \in committed => Past(r) \/ MayCrash
  BY Zenon DEF EInv, CommittedInv
<1>9. ASSUME r \in Aborts PROVE snapshot'[r].state = "Aborted"
  BY Zenon, <1>1, <1>2, <1>9 DEF EInv, AbortInv, locals
<1> QED
  BY Zenon, <1>1, <1>2, <1>3, <1>4, <1>6, <1>7, <1>8, <1>9, StepEInv DEF Running, Persisting, IsOpen, locals

LEMMA abort_upload_EInv ==
  \A a \in Aborts : KeepsExclusion(insert_aborted(a) \/ delete_storage(a) \/ drop_aborted(a))
<1> SUFFICES ASSUME NEW a \in Aborts, TInv, EInv, insert_aborted(a) \/ delete_storage(a) \/ drop_aborted(a)
             PROVE  EInv'
  BY Zenon DEF KeepsExclusion
<1>1. a \in Requests /\ a \notin Completes
  BY Zenon, KindsDisjoint DEF Requests
<1>2. Running(a) /\ UNCHANGED <<locals, phase, committed>>
  BY Zenon DEF insert_aborted, delete_storage, drop_aborted, Running
<1>3. PICK next \in {"abRmdir", "abRemove", "err", "ok"} : Step(a, next)
  BY Zenon DEF insert_aborted, delete_storage, drop_aborted
<1>4. next \in Outcomes
  BY Zenon DEF Outcomes, Steps, MapSteps, CallSteps
<1>5. pc'[a] \in {next, "done"}
  BY Zenon, <1>1, <1>3, <1>4, StepEffect DEF TInv
<1>6. IsOpen(session)' => IsOpen(session)
  <2>1. CASE insert_aborted(a)
    BY Zenon, <2>1 DEF insert_aborted, EInv, AbortInv, IsOpen
  <2>2. CASE delete_storage(a)
    BY Zenon, <2>2 DEF delete_storage, IsOpen
  <2>3. CASE drop_aborted(a)
    BY Zenon, <2>3, NoSessionType DEF drop_aborted, IsOpen
  <2> QED
    BY Zenon, <2>1, <2>2, <2>3
<1> QED
  BY Zenon, <1>1, <1>2, <1>3, <1>4, <1>5, <1>6, StepEInv DEF locals, Persisting

(* The steps of a completion that neither open the session nor publish.    *)
LEMMA completing_EInv ==
  \A c \in Completes : KeepsExclusion(validate_parts(c) \/ copy_part(c) \/ remove_session_file(c) \/ forget_session(c) \/ remove_upload_dir(c))
<1> SUFFICES ASSUME NEW c \in Completes, TInv, EInv, validate_parts(c) \/ copy_part(c) \/ remove_session_file(c) \/ forget_session(c) \/ remove_upload_dir(c)
             PROVE  EInv'
  BY Zenon DEF KeepsExclusion
<1>1. c \in Requests /\ c \notin Aborts
  BY Zenon, KindsDisjoint DEF Requests
<1>2. Running(c) /\ UNCHANGED <<snapshot, task, phase, committed>>
  BY Zenon DEF validate_parts, copy_part, remove_session_file, forget_session, remove_upload_dir, Running, locals
<1>3. PICK next \in {"copy", "commit", "restore", "forget", "rmDir", "ok"} :
        /\ Step(c, next)
        /\ next \in {"copy", "commit", "restore"} => pc[c] \in {"validate", "copy"}
        /\ next = "forget" => pc[c] = "rmSession"
  BY Zenon DEF validate_parts, copy_part, remove_session_file, forget_session, remove_upload_dir
<1>4. next \in Outcomes
  BY Zenon DEF Outcomes, Steps, MapSteps, CallSteps
<1>5. pc'[c] \in {next, "done"} /\ pc'[c] # "ok"
  BY Zenon, <1>1, <1>3, <1>4, StepEffect DEF TInv, Steps, MapSteps, CallSteps
<1>6. IsOpen(session)' => IsOpen(session)
  BY Zenon, NoSessionType DEF validate_parts, copy_part, remove_session_file, forget_session,
     remove_upload_dir, IsOpen
<1>7. Completing(c)' => Completing(c)
  BY Zenon, <1>3, <1>5 DEF Completing
<1>8. ~MayCrash /\ c \in committed => Past(c)'
  BY Zenon, <1>3, <1>5 DEF EInv, CommittedInv, Past, Persisting
<1> QED
  BY Zenon, <1>1, <1>2, <1>3, <1>4, <1>6, <1>7, <1>8, StepEInv

LEMMA mark_completed_EInv ==
  \A c \in Completes : KeepsExclusion(mark_completed(c))
<1> SUFFICES ASSUME NEW c \in Completes, TInv, EInv, mark_completed(c)
             PROVE  EInv'
  BY Zenon DEF KeepsExclusion
<1>1. c \in Requests /\ c \notin Aborts /\ TypeOK
  BY Zenon, KindsDisjoint DEF Requests, TInv
<1>2. Running(c) /\ UNCHANGED <<phase, committed>> /\ Completing(c)
  BY Zenon DEF mark_completed, Running, Completing
<1>3. {"mkdir", "rmSession"} \subseteq Outcomes
  BY Zenon DEF Outcomes, Steps, CallSteps
<1>4. CASE session = NoSession
  <2>1. Step(c, "rmSession") /\ UNCHANGED <<session, snapshot, task>>
    BY Zenon, <1>4 DEF mark_completed
  <2>2. pc'[c] \in {"rmSession", "done"}
    BY Zenon, <1>1, <1>3, <2>1, StepEffect
  <2>3. Past(c)'
    BY Zenon, <2>2 DEF Past
  <2> QED
    BY Zenon, <1>1, <1>2, <1>3, <2>1, <2>3, StepEInv DEF IsOpen
<1>5. CASE session # NoSession
  <2>1. session' = [session EXCEPT !.state = "Completed"] /\ Persist(c, session', "completed")
    BY Zenon, <1>5 DEF mark_completed
  <2>2. session' \in Session /\ ~IsOpen(session)'
    BY Zenon, <1>1, <1>5, <2>1, SetState DEF TypeOK, States, IsOpen
  <2>3. /\ task'[c] = "completed"
        /\ \A q \in Requests \ {c} : snapshot'[q] = snapshot[q] /\ task'[q] = task[q]
        /\ Step(c, "mkdir")
    BY Zenon, <1>1, <2>1, <2>2, PersistEffect DEF Tasks
  <2>4. pc'[c] \in {"mkdir", "done"}
    BY Zenon, <1>1, <1>3, <2>3, StepEffect
  <2>5. Past(c)'
    BY Zenon, <2>3, <2>4 DEF Past, Persisting
  <2> QED
    BY Zenon, <1>1, <1>2, <1>3, <2>2, <2>3, <2>5, StepEInv
<1> QED
  BY Zenon, <1>4, <1>5

LEMMA commit_object_EInv ==
  \A c \in Completes : KeepsExclusion(commit_object(c))
<1> SUFFICES ASSUME NEW c \in Completes, TInv, EInv, commit_object(c)
             PROVE  EInv'
  BY Zenon DEF KeepsExclusion
<1>1. c \in Requests /\ c \notin Aborts /\ TypeOK
  BY Zenon, KindsDisjoint DEF Requests, TInv
<1>2. Running(c) /\ UNCHANGED <<session, snapshot, task, phase>> /\ Completing(c)
  BY Zenon DEF commit_object, Running, Completing, locals
<1>3. {"mark", "restore"} \subseteq Outcomes
  BY Zenon DEF Outcomes, Steps, MapSteps
<1>4. ~MayCrash => committed = {}
  <2>1. ASSUME ~MayCrash, NEW d \in committed PROVE FALSE
    BY Zenon, <1>2, <2>1 DEF commit_object, EInv, CommittedInv, Past, Persisting
  <2> QED
    BY Zenon, <2>1
<1>5. CASE Step(c, "restore") /\ UNCHANGED committed
  BY Zenon, <1>1, <1>2, <1>3, <1>4, <1>5, StepEInv DEF IsOpen
<1>6. CASE Step(c, "mark") /\ committed' = committed \cup {c}
  <2>1. /\ pc'[c] \in {"mark", "done"}
        /\ reply'[c] = "ok" => reply[c] = "ok" \/ pc'[c] = "done"
        /\ \A q \in Requests \ {c} : pc'[q] = pc[q] /\ reply'[q] = reply[q]
    BY Zenon, <1>1, <1>3, <1>6, StepEffect
  <2>2. \A d \in Completes \ {c} : d \in Requests /\ (Completing(d)' <=> Completing(d))
    BY Zenon, <1>2, <2>1 DEF Completing, Requests
  <2>3. ExclusiveCompletion' /\ CommittedInv'
    <3>1. ~IsOpen(session)' /\ \A d \in Completes \ {c} : ~Completing(d)
      BY Zenon, <1>2 DEF EInv, ExclusiveCompletion, IsOpen
    <3>2. ExclusiveCompletion'
      BY Zenon, <2>2, <3>1 DEF ExclusiveCompletion
    <3>3. Past(c)'
      BY Zenon, <2>1 DEF Past
    <3>4. ~MayCrash => committed' = {c} /\ phase' = "serving"
      BY Zenon, <1>2, <1>4, <1>6 DEF EInv, CommittedInv
    <3>5. CommittedInv'
      BY Zenon, <2>2, <3>1, <3>3, <3>4 DEF CommittedInv
    <3> QED
      BY Zenon, <3>2, <3>5
  <2>4. CreatorInv' /\ AbortInv' /\ StartupInv'
    <3>1. c # Creator
      BY Zenon, KindsDisjoint
    <3> QED
      BY Zenon, <1>1, <1>2, <2>1, <3>1, KindsDisjoint DEF EInv, CreatorInv, AbortInv, StartupInv, Running, Requests
  <2> QED
    BY Zenon, <2>3, <2>4 DEF EInv
<1> QED
  BY Zenon, <1>5, <1>6 DEF commit_object

LEMMA begin_completion_EInv ==
  \A c \in Completes : KeepsExclusion(begin_completion(c))
<1> SUFFICES ASSUME NEW c \in Completes, TInv, EInv, begin_completion(c)
             PROVE  EInv'
  BY Zenon DEF KeepsExclusion
<1>1. c \in Requests /\ c \notin Aborts /\ c # Creator /\ TypeOK
  BY Zenon, KindsDisjoint DEF Requests, TInv
<1>2. Running(c) /\ pc[c] = "begin" /\ UNCHANGED <<phase, committed>>
  BY Zenon DEF begin_completion, Running
<1>3. {"mkdir", "err"} \subseteq Outcomes
  BY Zenon DEF Outcomes, Steps, CallSteps
<1>4. ~MayCrash => c \notin committed
  BY Zenon, <1>2 DEF EInv, CommittedInv, Past, Persisting
<1>5. CASE ~IsOpen(session)
  <2>1. Step(c, "err") /\ UNCHANGED <<session, snapshot, task>>
    BY Zenon, <1>5 DEF begin_completion
  <2>2. pc'[c] \in {"err", "done"}
    BY Zenon, <1>1, <1>3, <2>1, StepEffect
  <2>3. ~Completing(c)'
    BY Zenon, <2>2 DEF Completing
  <2> QED
    BY Zenon, <1>1, <1>2, <1>3, <1>4, <2>1, <2>3, StepEInv DEF IsOpen
<1>6. CASE IsOpen(session)
  <2>1. session' = [session EXCEPT !.state = "Completing"] /\ Persist(c, session', "completing")
    BY Zenon, <1>6 DEF begin_completion
  <2>2. session' \in Session /\ ~IsOpen(session)'
    BY Zenon, <1>1, <1>6, <2>1, OpenExists, SetState DEF TypeOK, States, IsOpen
  <2>3. /\ \A q \in Requests \ {c} : snapshot'[q] = snapshot[q] /\ task'[q] = task[q]
        /\ Step(c, "mkdir")
    BY Zenon, <1>1, <2>1, <2>2, PersistEffect DEF Tasks
  <2>4. /\ reply'[c] = "ok" => reply[c] = "ok" \/ pc'[c] = "done"
        /\ \A q \in Requests \ {c} : pc'[q] = pc[q] /\ reply'[q] = reply[q]
    BY Zenon, <1>1, <1>3, <2>3, StepEffect
  <2>5. \A d \in Completes \ {c} : d \in Requests /\ ~Completing(d)'
    BY Zenon, <1>6, <2>3, <2>4 DEF EInv, ExclusiveCompletion, Completing, Requests
  <2>6. ~MayCrash => committed = {}
    BY Zenon, <1>6 DEF EInv, CommittedInv
  <2>7. ExclusiveCompletion' /\ CommittedInv'
    BY Zenon, <1>2, <2>2, <2>5, <2>6 DEF ExclusiveCompletion, EInv, CommittedInv
  <2>8. CreatorInv' /\ AbortInv' /\ StartupInv'
    BY ZenonT(30), <1>1, <1>2, <2>3, <2>4, KindsDisjoint DEF EInv, CreatorInv, AbortInv, StartupInv, Running, Requests
  <2> QED
    BY Zenon, <2>7, <2>8 DEF EInv
<1> QED
  BY Zenon, <1>5, <1>6

LEMMA restore_open_upload_EInv ==
  \A c \in Completes : KeepsExclusion(restore_open_upload(c))
<1> SUFFICES ASSUME NEW c \in Completes, TInv, EInv, restore_open_upload(c)
             PROVE  EInv'
  BY Zenon DEF KeepsExclusion
<1>1. c \in Requests /\ c \notin Aborts /\ c # Creator /\ TypeOK
  BY Zenon, KindsDisjoint DEF Requests, TInv
<1>2. Running(c) /\ pc[c] = "restore" /\ Completing(c) /\ UNCHANGED <<phase, committed>>
  BY Zenon DEF restore_open_upload, Running, Completing
<1>3. {"mkdir", "err"} \subseteq Outcomes
  BY Zenon DEF Outcomes, Steps, CallSteps
<1>4. ~MayCrash => committed = {}
  <2>1. ASSUME ~MayCrash, NEW d \in committed PROVE FALSE
    BY Zenon, <1>2, <2>1 DEF EInv, CommittedInv, Past, Persisting
  <2> QED
    BY Zenon, <2>1
<1>5. CASE session = NoSession
  <2>1. Step(c, "err") /\ UNCHANGED <<session, snapshot, task>>
    BY Zenon, <1>5 DEF restore_open_upload
  <2> QED
    BY Zenon, <1>1, <1>2, <1>3, <1>4, <2>1, StepEInv DEF IsOpen
<1>6. CASE session # NoSession
  <2>1. session' = [session EXCEPT !.state = "Open"] /\ Persist(c, session', "reopen")
    BY Zenon, <1>6 DEF restore_open_upload
  <2>2. session' \in Session
    BY Zenon, <1>1, <1>6, <2>1, SetState DEF TypeOK, States
  <2>3. /\ task'[c] = "reopen"
        /\ \A q \in Requests \ {c} : snapshot'[q] = snapshot[q] /\ task'[q] = task[q]
        /\ Step(c, "mkdir")
    BY Zenon, <1>1, <2>1, <2>2, PersistEffect DEF Tasks
  <2>4. /\ pc'[c] \in {"mkdir", "done"}
        /\ reply'[c] = "ok" => reply[c] = "ok" \/ pc'[c] = "done"
        /\ \A q \in Requests \ {c} : pc'[q] = pc[q] /\ reply'[q] = reply[q]
    BY Zenon, <1>1, <1>3, <2>3, StepEffect
  <2>5. \A d \in Completes : ~Completing(d)'
    <3>1. ~Completing(c)'
      BY Zenon, <2>3, <2>4 DEF Completing
    <3> QED
      BY Zenon, <1>2, <2>3, <2>4, <3>1 DEF EInv, ExclusiveCompletion, Completing, Requests
  <2>6. ExclusiveCompletion' /\ CommittedInv'
    BY Zenon, <1>2, <1>4, <2>5 DEF ExclusiveCompletion, EInv, CommittedInv
  <2>7. CreatorInv' /\ AbortInv' /\ StartupInv'
    BY ZenonT(30), <1>1, <1>2, <2>3, <2>4, KindsDisjoint DEF EInv, CreatorInv, AbortInv, StartupInv, Running, Requests
  <2> QED
    BY Zenon, <2>6, <2>7 DEF EInv
<1> QED
  BY Zenon, <1>5, <1>6

(* While the creator runs no other request has begun.                      *)
LEMMA CreatorAlone ==
  ASSUME EInv, Running(Creator)
  PROVE  \A r \in Requests \ {Creator} : pc[r] = "idle"
BY Zenon DEF EInv, CreatorInv, Running

LEMMA create_upload_EInv ==
  KeepsExclusion(create_parts_dir \/ insert_session)
<1> SUFFICES ASSUME TInv, EInv, create_parts_dir \/ insert_session
             PROVE  EInv'
  BY Zenon DEF KeepsExclusion
<1>1. Creator \in Requests /\ Creator \notin Completes /\ Creator \notin Aborts /\ TypeOK
  BY Zenon, KindsDisjoint DEF Requests, TInv
<1>2. Running(Creator) /\ UNCHANGED <<phase, committed>>
  BY Zenon DEF create_parts_dir, insert_session, Running
<1>3. PICK next \in {"mkdir", "err", "ok"} : Step(Creator, next)
  BY Zenon DEF create_parts_dir, insert_session, Persist
<1>4. {"mkdir", "err", "ok"} \subseteq Outcomes
  BY Zenon DEF Outcomes, Steps, CallSteps
<1>5. /\ reply'[Creator] = "ok" => reply[Creator] = "ok" \/ pc'[Creator] = "done"
      /\ \A q \in Requests \ {Creator} : pc'[q] = pc[q]
  BY Zenon, <1>1, <1>3, <1>4, StepEffect
<1>6. \A q \in Requests \ {Creator} : pc'[q] = "idle"
  BY Zenon, <1>2, <1>5, CreatorAlone
<1>7. \A c \in Completes : ~Completing(c)' /\ (c \notin committed \/ MayCrash)
  BY Zenon, <1>1, <1>2, <1>6, CreatorAlone DEF Completing, EInv, CommittedInv, Past, Persisting, Requests
<1>8. ExclusiveCompletion' /\ CommittedInv'
  <2>1. committed \subseteq Completes
    BY Zenon, <1>1 DEF TypeOK
  <2> QED
    BY Zenon, <1>2, <1>7, <2>1 DEF ExclusiveCompletion, EInv, CommittedInv
<1>9. CreatorInv' /\ AbortInv' /\ StartupInv'
  BY Zenon, <1>1, <1>2, <1>5, <1>6 DEF EInv, CreatorInv, AbortInv, StartupInv, Running, Persisting, Requests
<1> QED
  BY Zenon, <1>8, <1>9 DEF EInv

LEMMA Begin_EInv ==
  \A r \in Requests : KeepsExclusion(Begin(r))
<1> SUFFICES ASSUME NEW r \in Requests, TInv, EInv, Begin(r)
             PROVE  EInv'
  BY Zenon DEF KeepsExclusion
<1>1. TypeOK /\ Arrives(r)
  BY Zenon DEF TInv, Begin, BeginCreate, BeginPart, BeginAbort, BeginComplete
<1>2. /\ pc[r] = "idle"
      /\ phase = "serving"
      /\ r # Creator => reply[Creator] = "ok"
      /\ UNCHANGED <<session, phase, committed>>
  BY Zenon, <1>1 DEF Arrives
<1>3. PICK next \in {"crMkdir", "mkTmpDir", "begin", "mkdir", "err"} :
        /\ Step(r, next)
        /\ next = "mkdir" => r \in Aborts
  BY Zenon, KindsDisjoint DEF Begin, BeginCreate, BeginPart, BeginAbort, BeginComplete, Refuse, Persist
<1>4. {"crMkdir", "mkTmpDir", "begin", "mkdir", "err"} \subseteq Outcomes
  BY Zenon DEF Outcomes, Steps, MapSteps, CallSteps
<1>5. /\ pc'[r] \in {next, "done"}
      /\ reply'[r] = "ok" => reply[r] = "ok" \/ pc'[r] = "done"
      /\ reply[r] = "ok" /\ next # "err" => reply'[r] = "ok"
      /\ \A q \in Requests \ {r} : pc'[q] = pc[q] /\ reply'[q] = reply[q]
  BY Zenon, <1>1, <1>3, <1>4, StepEffect
<1>6. ASSUME r \notin Aborts PROVE UNCHANGED <<snapshot, task>>
  BY Zenon, <1>6, KindsDisjoint DEF Begin, BeginCreate, BeginPart, BeginComplete, Refuse
<1>7. \A q \in Requests \ {r} : snapshot'[q] = snapshot[q] /\ task'[q] = task[q]
  <2>1. CASE r \in Aborts
    <3>1. BeginAbort(r)
      BY Zenon, <2>1, KindsDisjoint DEF Begin
    <3> QED
      BY Zenon, <1>1, <3>1 DEF BeginAbort, Persist, Refuse, TypeOK
  <2> QED
    BY Zenon, <1>6, <2>1
<1>8. \A c \in Completes : /\ Completing(c)' <=> Completing(c)
                           /\ c \in committed => (Past(c) => Past(c)')
  <2>1. ASSUME NEW c \in Completes, c # r
        PROVE  (Completing(c)' <=> Completing(c)) /\ (Past(c)' <=> Past(c))
    BY Zenon, <1>5, <1>7, <2>1 DEF Completing, Past, Requests
  <2>2. ASSUME r \in Completes
        PROVE  ~Completing(r)' /\ ~Completing(r) /\ ~Past(r)
    <3>1. next \in {"crMkdir", "mkTmpDir", "begin", "err"}
      BY Zenon, <1>3, <2>2, KindsDisjoint
    <3> QED
      BY Zenon, <1>2, <1>5, <3>1 DEF Completing, Past, Persisting
  <2> QED
    BY Zenon, <2>1, <2>2
<1>9. ExclusiveCompletion' /\ CommittedInv'
  <2>1. committed \subseteq Completes
    BY Zenon, <1>1 DEF TypeOK
  <2> QED
    BY Zenon, <1>2, <1>8, <2>1 DEF EInv, ExclusiveCompletion, CommittedInv, IsOpen
<1>10. AbortInv'
  <2>1. ASSUME r \in Aborts, pc'[r] \in Persisting \cup {"abInsert"}
        PROVE  snapshot'[r].state = "Aborted"
    <3>1. BeginAbort(r)
      BY Zenon, <2>1, KindsDisjoint DEF Begin
    <3>2. ~Refuse(r)
      BY Zenon, <1>1, <2>1 DEF Refuse, Step, Persisting, TypeOK
    <3>3. snapshot'[r] = [session EXCEPT !.state = "Aborted"] /\ IsOpen(session)
      BY Zenon, <1>1, <3>1, <3>2 DEF BeginAbort, Persist, TypeOK
    <3> QED
      BY SMTT(30), ZenonT(30), <1>1, <3>3, OpenExists, SetState DEF TypeOK, States
  <2> QED
    BY Zenon, <1>5, <1>7, <2>1 DEF EInv, AbortInv, Requests
<1>11. CreatorInv' /\ StartupInv'
  <2>1. Creator \in Requests
    BY Zenon DEF Requests
  <2> QED
    BY Zenon, <1>2, <1>5, <2>1 DEF EInv, CreatorInv, StartupInv
<1> QED
  BY Zenon, <1>9, <1>10, <1>11 DEF EInv

LEMMA Cancel_EInv ==
  \A r \in Requests : KeepsExclusion(Cancel(r))
<1> SUFFICES ASSUME NEW r \in Requests, TInv, EInv, Cancel(r)
             PROVE  EInv'
  BY Zenon DEF KeepsExclusion
<1>1. /\ Running(r)
      /\ UNCHANGED <<session, snapshot, task, committed, phase>>
      /\ pc'[r] \in {pc[r], "discard", "done"}
      /\ pc'[r] = pc[r] \/ pc[r] = "body" \/ pc'[r] = "done"
      /\ reply'[r] = "cancelled"
      /\ \A q \in Requests \ {r} : pc'[q] = pc[q] /\ reply'[q] = reply[q]
  BY Zenon DEF Cancel, InFlight, TInv, TypeOK, locals
<1>2. \A c \in Completes : (Completing(c)' => Completing(c)) /\ (Past(c) => Past(c)')
  BY Zenon, <1>1 DEF Completing, Past, Persisting, Requests
<1>3. ExclusiveCompletion' /\ CommittedInv'
  <2>1. committed \subseteq Completes
    BY Zenon DEF TInv, TypeOK
  <2> QED
    BY Zenon, <1>1, <1>2, <2>1 DEF EInv, ExclusiveCompletion, CommittedInv, IsOpen
<1>4. CreatorInv' /\ AbortInv' /\ StartupInv'
  BY ZenonT(30), <1>1 DEF EInv, CreatorInv, AbortInv, StartupInv, Running, Persisting, Requests
<1> QED
  BY Zenon, <1>3, <1>4 DEF EInv

LEMMA Startup_EInv ==
  KeepsExclusion(Crash \/ load_sessions \/ cleanup_stale_temp_files)
<1> SUFFICES ASSUME TInv, EInv, Crash \/ load_sessions \/ cleanup_stale_temp_files
             PROVE  EInv'
  BY Zenon DEF KeepsExclusion
<1>1. Creator \in Requests /\ committed \subseteq Completes /\ TypeOK
  BY Zenon DEF Requests, TInv, TypeOK
<1>2. MayCrash
  BY Zenon DEF EInv, CommittedInv, Crash, load_sessions, cleanup_stale_temp_files
<1>3. /\ \A r \in Requests : pc'[r] \in {"idle", "done"}
      /\ \A r \in Requests : pc'[r] = "idle" <=> pc[r] = "idle"
      /\ pc[Creator] = "done" => pc'[Creator] = "done"
      /\ reply' = reply
  <2>1. CASE Crash
    BY Zenon, <1>1, <2>1 DEF Crash, Running, TypeOK
  <2>2. CASE load_sessions \/ cleanup_stale_temp_files
    BY Zenon, <1>1, <2>2 DEF load_sessions, cleanup_stale_temp_files, EInv, StartupInv, Running
  <2> QED
    BY Zenon, <2>1, <2>2
<1>4. ExclusiveCompletion' /\ CommittedInv'
  BY Zenon, <1>2, <1>3 DEF ExclusiveCompletion, Completing, CommittedInv, Requests
<1>5. CreatorInv' /\ AbortInv' /\ StartupInv'
  BY Zenon, <1>1, <1>3 DEF EInv, CreatorInv, AbortInv, StartupInv, Running, Persisting, Requests
<1> QED
  BY Zenon, <1>4, <1>5 DEF EInv

-----------------------------------------------------------------------------
(* The theorems.                                                           *)

LEMMA InitIInv == Init => IInv
<1> SUFFICES ASSUME Init PROVE IInv
  BY Zenon
<1>1. TypeOK
  <2>1. failures \in 0..MaxFailures
    BY SMTT(30), ZenonT(30), ParameterTypes DEF Init
  <2>2. dir \in BOOLEAN
    BY Zenon DEF Init
  <2>3. /\ session \in Session
        /\ disk \in Session
        /\ files \in [Numbers -> Parts \cup {Nil}]
        /\ sessionTmp \subseteq Requests
        /\ snapshot \in [Requests -> Session]
        /\ published \subseteq Completes
        /\ committed \subseteq Completes
    BY Zenon, NoSessionType, NoPartsType DEF Init
  <2>4. /\ wanted \in [Completes -> PartMap]
        /\ built \in [Completes -> PartMap]
        /\ previous \in [Parts -> Parts \cup {Nil}]
        /\ tmp \in [Parts -> [body : Parts \cup {Nil, Partial}, backup : Parts \cup {Nil}]]
    BY Zenon, NoPartsType DEF Init, NoTmp
  <2>5. /\ task \in [Requests -> Tasks]
        /\ pc \in [Requests -> Steps]
        /\ reply \in [Requests -> {"none", "ok", "err", "cancelled"}]
        /\ phase \in {"load", "rmTmp", "serving"}
    BY Zenon DEF Init, Tasks, Steps
  <2> QED
    BY Zenon, <2>1, <2>2, <2>3, <2>4, <2>5 DEF TypeOK
<1>2. BodyInv /\ TaskInv
  BY Zenon DEF Init, BodyInv, TaskInv, Persisting, Requests
<1>3. EInv
  BY Zenon DEF Init, EInv, ExclusiveCompletion, Completing, CreatorInv, AbortInv, StartupInv, CommittedInv,
     Running, Persisting, Requests
<1> QED
  BY Zenon, <1>1, <1>2, <1>3 DEF IInv, TInv

LEMMA ServeTInv ==
  ASSUME TInv, NEW r \in Requests, Serve(r)
  PROVE  TInv'
<1>1. CASE r = Creator /\ create_upload
  BY Zenon, <1>1, persist_session_TInv, create_upload_TInv DEF create_upload, KeepsTypes
<1>2. CASE r \in Parts /\ upload_part(r)
  BY Zenon, <1>2, persist_session_TInv, create_temp_part_TInv, receive_body_TInv, discard_TInv,
     check_open_TInv, make_part_dir_TInv, link_previous_TInv, rename_part_TInv, insert_part_TInv,
     roll_back_part_TInv, remove_backup_TInv DEF upload_part, commit_part, KeepsTypes
<1>3. CASE r \in Aborts /\ abort_upload(r)
  BY Zenon, <1>3, persist_session_TInv, insert_aborted_TInv, delete_storage_TInv, drop_aborted_TInv
     DEF abort_upload, KeepsTypes
<1>4. CASE r \in Completes /\ complete_upload(r)
  BY Zenon, <1>4, persist_session_TInv, begin_completion_TInv, validate_parts_TInv, copy_part_TInv,
     commit_object_TInv, mark_completed_TInv, remove_session_file_TInv, forget_session_TInv,
     remove_upload_dir_TInv, restore_open_upload_TInv DEF complete_upload, KeepsTypes
<1> QED
  BY Zenon, <1>1, <1>2, <1>3, <1>4 DEF Serve

LEMMA ServeEInv ==
  ASSUME TInv, EInv, NEW r \in Requests, Serve(r)
  PROVE  EInv'
<1>1. CASE r = Creator /\ create_upload
  BY Zenon, <1>1, persist_session_EInv, create_upload_EInv DEF create_upload, KeepsExclusion
<1>2. CASE r \in Parts /\ upload_part(r)
  BY Zenon, <1>2, persist_session_EInv, upload_part_EInv DEF KeepsExclusion
<1>3. CASE r \in Aborts /\ abort_upload(r)
  BY Zenon, <1>3, persist_session_EInv, abort_upload_EInv DEF abort_upload, KeepsExclusion
<1>4. CASE r \in Completes /\ complete_upload(r)
  BY Zenon, <1>4, persist_session_EInv, completing_EInv, begin_completion_EInv, commit_object_EInv,
     mark_completed_EInv, restore_open_upload_EInv DEF complete_upload, KeepsExclusion
<1> QED
  BY Zenon, <1>1, <1>2, <1>3, <1>4 DEF Serve

LEMMA NextIInv == IInv /\ [Next]_vars => IInv'
<1> SUFFICES ASSUME IInv, [Next]_vars PROVE IInv'
  BY Zenon
<1>1. CASE UNCHANGED vars
  <2>1. TInv'
    BY Zenon, <1>1 DEF IInv, TInv, TypeOK, BodyInv, TaskInv, vars, storage, locals
  <2>2. EInv'
    BY ZenonT(30), <1>1 DEF IInv, EInv, ExclusiveCompletion, Completing, IsOpen, CreatorInv, AbortInv, StartupInv,
       CommittedInv, Past, Running, vars, locals
  <2> QED
    BY Zenon, <2>1, <2>2 DEF IInv
<1>2. ASSUME NEW r \in Requests, Begin(r) \/ Serve(r) \/ Cancel(r) PROVE IInv'
  BY Zenon, <1>2, Begin_TInv, Begin_EInv, ServeTInv, ServeEInv, Cancel_TInv, Cancel_EInv DEF IInv, KeepsTypes, KeepsExclusion
<1>3. CASE Crash \/ load_sessions \/ cleanup_stale_temp_files
  BY Zenon, <1>3, Startup_TInv, Startup_EInv DEF IInv, KeepsTypes, KeepsExclusion
<1> QED
  BY Zenon, <1>1, <1>2, <1>3 DEF Next

(* The inductive invariant holds in every reachable state.                 *)
THEOREM Invariance == Spec => []IInv
BY InitIInv, NextIInv, PTL DEF Spec

(* Every variable keeps its type; in particular commit_part never puts a   *)
(* half-written part in place.                                             *)
THEOREM TypeCorrect == Spec => []TypeOK
BY Invariance, PTL DEF IInv, TInv

(* begin_completion admits one completion at a time, and the session stays *)
(* closed to everyone else until it ends, whatever aborts, parts, dropped  *)
(* handlers and restarts do meanwhile.                                     *)
THEOREM CompletionsExclude == Spec => []ExclusiveCompletion
BY Invariance, PTL DEF IInv, EInv

(* Only commit_object puts an object in place.                             *)
LEMMA OthersPublishNothing ==
  ASSUME Next, \A c \in Completes : ~commit_object(c)
  PROVE  published' = published
<1>1. ASSUME NEW r \in Requests, Begin(r) PROVE published' = published
  BY Zenon, <1>1 DEF Begin, BeginCreate, BeginPart, BeginAbort, BeginComplete, Arrives
<1>2. ASSUME NEW r \in Requests, persist_session(r) PROVE published' = published
  BY Zenon, <1>2 DEF persist_session, persist_mkdir, persist_write, persist_rename
<1>3. ASSUME create_upload PROVE published' = published
  BY Zenon, <1>2, <1>3 DEF create_upload, create_parts_dir, insert_session, Requests
<1>4. ASSUME NEW w \in Parts, upload_part(w) PROVE published' = published
  BY Zenon, <1>2, <1>4 DEF upload_part, create_temp_part, receive_body, discard, commit_part,
     check_open, make_part_dir, link_previous, rename_part, insert_part, roll_back_part,
     remove_backup, Requests
<1>5. ASSUME NEW a \in Aborts, abort_upload(a) PROVE published' = published
  BY Zenon, <1>2, <1>5 DEF abort_upload, insert_aborted, delete_storage, drop_aborted, Requests
<1>6. ASSUME NEW c \in Completes, complete_upload(c) PROVE published' = published
  BY Zenon, <1>2, <1>6 DEF complete_upload, begin_completion, validate_parts, copy_part,
     mark_completed, remove_session_file, forget_session, remove_upload_dir,
     restore_open_upload, Requests
<1>7. ASSUME NEW r \in Requests, Serve(r) PROVE published' = published
  BY Zenon, <1>3, <1>4, <1>5, <1>6, <1>7 DEF Serve
<1>8. ASSUME NEW r \in Requests, Cancel(r) PROVE published' = published
  BY Zenon, <1>8 DEF Cancel
<1>9. ASSUME Crash \/ load_sessions \/ cleanup_stale_temp_files PROVE published' = published
  BY Zenon, <1>9 DEF Crash, load_sessions, cleanup_stale_temp_files
<1> QED
  BY Zenon, <1>1, <1>7, <1>8, <1>9 DEF Next

(* A process that does not restart puts nothing in place for an upload     *)
(* once complete_upload has had a commit of it return, though the session  *)
(* is only marked Completed several calls later.                           *)
THEOREM CompletedOnce ==
  ASSUME ~MayCrash
  PROVE  Spec => SingleCompletion
<1>1. ASSUME IInv, NEW c \in Completes, commit_object(c) PROVE committed = {}
  <2>1. Completing(c) /\ ~Past(c)
    BY Zenon, <1>1 DEF commit_object, Completing, Past, Persisting
  <2>2. ASSUME NEW d \in committed PROVE FALSE
    BY Zenon, <1>1, <2>1, <2>2 DEF IInv, EInv, CommittedInv
  <2> QED
    BY Zenon, <2>2
<1>2. IInv /\ [Next]_vars => (committed # {} => published' = published)
  <2>1. ASSUME IInv, Next, committed # {} PROVE published' = published
    BY Zenon, <1>1, <2>1, OthersPublishNothing
  <2>2. ASSUME UNCHANGED vars PROVE published' = published
    BY Zenon, <2>2 DEF vars
  <2> QED
    BY Zenon, <2>1, <2>2
<1> QED
  BY <1>2, Invariance, PTL DEF Spec, SingleCompletion

-----------------------------------------------------------------------------
(* What an acknowledged part keeps, whatever overlaps and whoever is       *)
(* dropped.                                                                *)

Lists(s, w) == s.parts[NumberOf[w]] = w
Alone(w) == \A v \in Parts \ {w} : NumberOf[v] = NumberOf[w] => ~Begun(v)
NoAbort == \A a \in Aborts : ~Begun(a)

(* A part that has been inserted and not rolled back is in the map, unless *)
(* it was uploaded again or the session is gone.  An abort may insert an   *)
(* older copy of the session, a restart may load one.                      *)
KeptInv ==
  \A w \in Parts :
    /\ reply[w] = "ok" => pc[w] = "done"
    /\ NoAbort /\ Alone(w) /\ (reply[w] = "ok" \/ pc[w] \in Persisting \cup {"rmBackup"})
         => session = NoSession \/ Lists(session, w)

KeepsParts(A) == IInv /\ KeptInv /\ A => KeptInv'

LEMMA Kinds ==
  /\ Requests = Parts \cup Aborts \cup Completes \cup {Creator}
  /\ \A w \in Parts : w \in Requests /\ w \notin Aborts \cup Completes \cup {Creator}
  /\ \A a \in Aborts : a \in Requests /\ a \notin Parts \cup Completes \cup {Creator}
  /\ \A c \in Completes : c \in Requests /\ c \notin Parts \cup Aborts \cup {Creator}
  /\ Creator \in Requests /\ Creator \notin Parts \cup Aborts \cup Completes
BY Zenon, KindsDisjoint DEF Requests

Inserted(w) == reply[w] = "ok" \/ pc[w] \in Persisting \cup {"rmBackup"}
Kept(w) == session = NoSession \/ Lists(session, w)

LEMMA KeptStep ==
  ASSUME IInv, KeptInv, NEW r \in Requests, pc[r] # "done", NEW next \in Outcomes \ {"idle"}, Step(r, next),
         \A w \in Parts \ {r} : NoAbort' /\ Alone(w)' /\ Inserted(w) /\ Kept(w) => Kept(w)',
         r \in Parts => (NoAbort /\ Alone(r) /\ Inserted(r)' /\ (Inserted(r) => Kept(r)) => Kept(r)')
  PROVE  KeptInv'
<1>1. /\ pc'[r] \in {next, "done"} /\ pc'[r] # "idle"
      /\ reply'[r] = "ok" => reply[r] = "ok" \/ pc'[r] = "done"
      /\ \A q \in Requests \ {r} : pc'[q] = pc[q] /\ reply'[q] = reply[q]
  BY Zenon, StepEffect DEF IInv, TInv
<1>2. NoAbort' => NoAbort
  BY Zenon, <1>1, Kinds DEF NoAbort, Begun
<1>3. \A w \in Parts : Alone(w)' => Alone(w)
  BY Zenon, <1>1, Kinds DEF Alone, Begun
<1>4. \A w \in Parts : reply'[w] = "ok" => pc'[w] = "done"
  BY Zenon, <1>1, Kinds DEF KeptInv
<1>5. ASSUME NEW w \in Parts \ {r}, NoAbort', Alone(w)', Inserted(w)' PROVE Kept(w)'
  <2>1. Inserted(w)
    BY Zenon, <1>1, <1>5, Kinds DEF Inserted
  <2>2. Kept(w)
    BY Zenon, <1>2, <1>3, <1>5, <2>1 DEF KeptInv, Inserted, Kept
  <2> QED
    BY Zenon, <1>5, <2>1, <2>2
<1>6. ASSUME r \in Parts, NoAbort', Alone(r)', Inserted(r)' PROVE Kept(r)'
  <2>1. NoAbort /\ Alone(r)
    BY Zenon, <1>2, <1>3, <1>6
  <2>2. Inserted(r) => Kept(r)
    BY Zenon, <1>6, <2>1 DEF KeptInv, Inserted, Kept
  <2> QED
    BY Zenon, <1>6, <2>1, <2>2
<1> QED
  BY Zenon, <1>4, <1>5, <1>6 DEF KeptInv, Inserted, Kept

LEMMA upload_part_Kept ==
  \A w \in Parts : KeepsParts(upload_part(w))
<1> SUFFICES ASSUME NEW w \in Parts, IInv, KeptInv, upload_part(w)
             PROVE  KeptInv'
  BY Zenon DEF KeepsParts
<1>1. w \in Requests /\ pc[w] \notin {"idle", "done"} /\ NumberOf[w] \in Numbers
  BY ZenonT(30), Kinds, ParameterTypes DEF upload_part, commit_part, create_temp_part, receive_body, discard, check_open, make_part_dir,
     link_previous, rename_part, insert_part, persist_session, persist_mkdir, persist_write, persist_rename,
     roll_back_part, remove_backup
<1>2. TypeOK /\ reply[w] # "ok"
  BY Zenon, <1>1 DEF IInv, TInv, KeptInv
<1>3. CASE insert_part(w) /\ IsOpen(session)
  <2>1. session' = [session EXCEPT !.parts[NumberOf[w]] = w] /\ Step(w, "mkdir") /\ session # NoSession
    BY Zenon, <1>3, NoSessionType DEF insert_part, Persist
  <2>2. /\ session'.parts[NumberOf[w]] = w
        /\ \A n \in Numbers \ {NumberOf[w]} : session'.parts[n] = session.parts[n]
    BY Zenon, <1>1, <1>2, <2>1 DEF TypeOK, Session, PartMap
  <2>3. \A v \in Parts \ {w} : Alone(v)' => NumberOf[v] # NumberOf[w]
    <3>1. pc'[w] # "idle"
      BY <1>1, <1>2, <2>1, StepEffect DEF Outcomes, Steps, CallSteps
    <3> QED
      BY Zenon, <3>1 DEF Alone, Begun
  <2>4. \A v \in Parts \ {w} : Alone(v)' /\ Kept(v) => Kept(v)'
    BY Zenon, <2>1, <2>2, <2>3, ParameterTypes DEF Kept, Lists
  <2>5. Kept(w)'
    BY Zenon, <2>2 DEF Kept, Lists
  <2>6. "mkdir" \in Outcomes \ {"idle"}
    BY Zenon DEF Outcomes, Steps, CallSteps
  <2> QED
    BY ZenonT(30), <1>1, <2>1, <2>4, <2>5, <2>6, KeptStep
<1>4. CASE roll_back_part(w) /\ pc[w] = "rbSession"
  <2>1. /\ session' = IF session = NoSession THEN session ELSE [session EXCEPT !.parts[NumberOf[w]] = previous[w]]
        /\ Step(w, "err")
    BY Zenon, <1>4 DEF roll_back_part
  <2>2. session # NoSession => \A n \in Numbers \ {NumberOf[w]} : session'.parts[n] = session.parts[n]
    BY Zenon, <1>1, <1>2, <2>1 DEF TypeOK, Session, PartMap
  <2>3. pc'[w] = "done" /\ reply'[w] # "ok"
    BY Zenon, <1>1, <1>2, <2>1 DEF Step, TypeOK, Cancelled
  <2>4. \A v \in Parts \ {w} : Alone(v)' => NumberOf[v] # NumberOf[w]
    BY Zenon, <2>3 DEF Alone, Begun
  <2>5. \A v \in Parts \ {w} : Alone(v)' /\ Kept(v) => Kept(v)'
    BY Zenon, <2>1, <2>2, <2>4, ParameterTypes DEF Kept, Lists
  <2>6. ~Inserted(w)'
    BY Zenon, <2>3 DEF Inserted, Persisting
  <2>7. "err" \in Outcomes \ {"idle"}
    BY Zenon DEF Outcomes
  <2> QED
    BY ZenonT(30), <1>1, <2>1, <2>5, <2>6, <2>7, KeptStep
<1>5. CASE persist_session(w) \/ remove_backup(w)
  <2>1. pc[w] \in Persisting \cup {"rmBackup"} /\ session' = session
    BY ZenonT(30), <1>5 DEF persist_session, persist_mkdir, persist_write, persist_rename, remove_backup, Persisting
  <2>2. \E next \in Outcomes \ {"idle"} : Step(w, next)
    <3>1. {"write", "renameSession", "ok", "err"} \subseteq Outcomes \ {"idle"}
      BY Zenon DEF Outcomes, Steps, CallSteps
    <3>2. ASSUME pc[w] \in Persisting
          PROVE  {Persisted(task[w]), NotPersisted(task[w])} \subseteq Outcomes \ {"idle"}
      <4>1. task[w] \in Tasks \ {"none"}
        BY ZenonT(30), <1>1, <3>2 DEF IInv, TInv, TypeOK, TaskInv
      <4>2. \A why \in Tasks \ {"none"} : Persisted(why) # "idle" /\ NotPersisted(why) # "idle"
        BY Zenon DEF Tasks, Persisted, NotPersisted
      <4> QED
        BY <4>1, <4>2, PersistedOutcome
    <3> QED
      BY ZenonT(30), <1>5, <3>1, <3>2 DEF persist_session, persist_mkdir, persist_write, persist_rename, remove_backup, Persisting
  <2>3. \A v \in Parts : Kept(v) => Kept(v)'
    BY Zenon, <2>1 DEF Kept, Lists
  <2>4. Inserted(w)
    BY Zenon, <2>1 DEF Inserted
  <2> QED
    BY ZenonT(30), <1>1, <2>2, <2>3, <2>4, KeptStep
<1>6. CASE ~(insert_part(w) /\ IsOpen(session)) /\ ~(roll_back_part(w) /\ pc[w] = "rbSession")
           /\ ~(persist_session(w) \/ remove_backup(w))
  <2>1. session' = session
    BY ZenonT(30), <1>6 DEF upload_part, commit_part, create_temp_part, receive_body, discard, check_open, make_part_dir,
       link_previous, rename_part, insert_part, roll_back_part
  <2>2. PICK next \in {"createTmp", "body", "open", "discard", "mkPartDir", "link", "rename", "insert", "rbRename",
                       "rbSession", "err"} : Step(w, next)
    BY ZenonT(30), <1>6 DEF upload_part, commit_part, create_temp_part, receive_body, discard, check_open, make_part_dir,
       link_previous, rename_part, insert_part, roll_back_part, PublishFails
  <2>3. next \in Outcomes \ {"idle"}
    BY Zenon DEF Outcomes, Steps, CallSteps, MapSteps
  <2>4. ~Inserted(w)'
    BY Zenon, <1>1, <1>2, <2>2 DEF Inserted, Persisting, Step, TypeOK, Cancelled
  <2>5. \A v \in Parts : Kept(v) => Kept(v)'
    BY Zenon, <2>1 DEF Kept, Lists
  <2> QED
    BY ZenonT(30), <1>1, <2>2, <2>3, <2>4, <2>5, KeptStep
<1> QED
  BY Zenon, <1>3, <1>4, <1>5, <1>6

LEMMA complete_upload_Kept ==
  \A c \in Completes : KeepsParts(complete_upload(c))
<1> SUFFICES ASSUME NEW c \in Completes, IInv, KeptInv, complete_upload(c)
             PROVE  KeptInv'
  BY Zenon DEF KeepsParts
<1>1. c \in Requests \ Parts /\ pc[c] \notin {"idle", "done"}
  BY ZenonT(30), Kinds DEF complete_upload, begin_completion, persist_session, persist_mkdir, persist_write, persist_rename,
     validate_parts, copy_part, commit_object, mark_completed, remove_session_file, forget_session, remove_upload_dir,
     restore_open_upload
<1>2. \/ session' = session \/ session' = NoSession
      \/ session # NoSession /\ \E st \in States : session' = [session EXCEPT !.state = st]
  BY Zenon, NoSessionType DEF complete_upload, begin_completion, persist_session, persist_mkdir, persist_write, persist_rename,
     validate_parts, copy_part, commit_object, mark_completed, remove_session_file, forget_session, remove_upload_dir,
     restore_open_upload, States
<1>3. \A w \in Parts : Kept(w) => Kept(w)'
  <2>1. session' = NoSession \/ (session' = session) \/ (session # NoSession /\ session'.parts = session.parts)
    BY Zenon, <1>2 DEF IInv, TInv, TypeOK, Session, PartMap
  <2> QED
    BY Zenon, <2>1 DEF Kept, Lists
<1>4. \E next \in Outcomes \ {"idle"} : Step(c, next)
  <2>1. {"write", "renameSession", "ok", "err", "mkdir", "copy", "restore", "commit", "mark", "rmSession", "forget", "rmDir"}
          \subseteq Outcomes \ {"idle"}
    BY ZenonT(30) DEF Outcomes, Steps, CallSteps, MapSteps
  <2>2. ASSUME pc[c] \in Persisting
        PROVE  {Persisted(task[c]), NotPersisted(task[c])} \subseteq Outcomes \ {"idle"}
    <3>1. task[c] \in Tasks \ {"none"}
      BY Zenon, <1>1, <2>2 DEF IInv, TInv, TypeOK, TaskInv
    <3>2. \A why \in Tasks \ {"none"} : Persisted(why) # "idle" /\ NotPersisted(why) # "idle"
      BY Zenon DEF Tasks, Persisted, NotPersisted
    <3> QED
      BY <3>1, <3>2, PersistedOutcome
  <2>3. CASE persist_session(c)
    BY ZenonT(30), <2>1, <2>2, <2>3 DEF persist_session, persist_mkdir, persist_write, persist_rename, Persisting
  <2>4. CASE ~persist_session(c)
    BY ZenonT(30), <2>1, <2>4 DEF complete_upload, begin_completion, validate_parts, copy_part, commit_object, mark_completed,
       remove_session_file, forget_session, remove_upload_dir, restore_open_upload, Persist
  <2> QED
    BY Zenon, <2>3, <2>4
<1> QED
  BY Zenon, <1>1, <1>3, <1>4, KeptStep

LEMMA other_Kept ==
  \A r \in Requests : KeepsParts((r = Creator /\ create_upload) \/ (r \in Aborts /\ abort_upload(r)))
<1> SUFFICES ASSUME NEW r \in Requests, IInv, KeptInv, (r = Creator /\ create_upload) \/ (r \in Aborts /\ abort_upload(r))
             PROVE  KeptInv'
  BY Zenon DEF KeepsParts
<1>1. r \notin Parts /\ pc[r] \notin {"idle", "done"}
  BY Zenon, Kinds DEF create_upload, create_parts_dir, insert_session, abort_upload, insert_aborted, delete_storage, drop_aborted,
     persist_session, persist_mkdir, persist_write, persist_rename
<1>2. PICK next \in Outcomes \ {"idle"} : Step(r, next)
  <2>1. {"write", "renameSession", "ok", "err", "mkdir", "abRmdir", "abRemove"} \subseteq Outcomes \ {"idle"}
    BY Zenon DEF Outcomes, Steps, CallSteps, MapSteps
  <2>2. ASSUME pc[r] \in Persisting
        PROVE  {Persisted(task[r]), NotPersisted(task[r])} \subseteq Outcomes \ {"idle"}
    <3>1. task[r] \in Tasks \ {"none"}
      BY Zenon, <2>2 DEF IInv, TInv, TypeOK, TaskInv
    <3>2. \A why \in Tasks \ {"none"} : Persisted(why) # "idle" /\ NotPersisted(why) # "idle"
      BY Zenon DEF Tasks, Persisted, NotPersisted
    <3> QED
      BY <3>1, <3>2, PersistedOutcome
  <2>3. CASE persist_session(r)
    BY ZenonT(30), <2>1, <2>2, <2>3 DEF persist_session, persist_mkdir, persist_write, persist_rename, Persisting
  <2>4. CASE ~persist_session(r)
    BY ZenonT(30), <2>1, <2>4 DEF create_upload, create_parts_dir, insert_session, abort_upload, insert_aborted, delete_storage,
       drop_aborted, Persist
  <2> QED
    BY Zenon, <2>3, <2>4
<1>3. pc'[r] # "idle"
  BY Zenon, <1>2, StepEffect DEF IInv, TInv
<1>4. CASE r = Creator
  <2>1. reply[Creator] # "ok"
    BY Zenon, <1>1, <1>4 DEF IInv, EInv, CreatorInv
  <2>2. \A w \in Parts : ~Inserted(w)
    BY Zenon, <2>1, Kinds DEF IInv, EInv, CreatorInv, KeptInv, Inserted, Persisting
  <2> QED
    BY ZenonT(30), <1>1, <1>2, <2>2, KeptStep
<1>5. CASE r \in Aborts
  <2>1. ~NoAbort'
    BY Zenon, <1>3, <1>5 DEF NoAbort, Begun
  <2> QED
    BY Zenon, <1>1, <1>2, <2>1, KeptStep
<1> QED
  BY Zenon, <1>4, <1>5

LEMMA Begin_Kept ==
  \A r \in Requests : KeepsParts(Begin(r) \/ Cancel(r))
<1> SUFFICES ASSUME NEW r \in Requests, IInv, KeptInv, Begin(r) \/ Cancel(r)
             PROVE  KeptInv'
  BY Zenon DEF KeepsParts
<1>1. session' = session
  BY Zenon DEF Begin, BeginCreate, BeginPart, BeginAbort, BeginComplete, Arrives, Cancel
<1>2. \A w \in Parts : Kept(w) => Kept(w)'
  BY Zenon, <1>1 DEF Kept, Lists
<1>3. CASE Begin(r)
  <2>1. pc[r] = "idle"
    BY ZenonT(30), <1>3 DEF Begin, BeginCreate, BeginPart, BeginAbort, BeginComplete, Arrives
  <2>2. PICK next \in {"crMkdir", "mkTmpDir", "mkdir", "begin", "err"} :
          Step(r, next) /\ (r \in Parts => next \in {"mkTmpDir", "err"})
    BY ZenonT(30), <1>3, Kinds DEF Begin, BeginCreate, BeginPart, BeginAbort, BeginComplete, Refuse, Persist
  <2>3. next \in Outcomes \ {"idle"}
    BY Zenon DEF Outcomes, Steps, CallSteps, MapSteps
  <2>4. r \in Parts => ~Inserted(r)'
    <3>1. r \in Parts => reply[r] # "ok"
      BY Zenon, <2>1 DEF KeptInv
    <3> QED
      BY ZenonT(30), <2>2, <3>1 DEF Inserted, Persisting, Step, Cancelled, IInv, TInv, TypeOK
  <2> QED
    BY ZenonT(30), <1>2, <2>1, <2>2, <2>3, <2>4, KeptStep
<1>4. CASE Cancel(r)
  <2>1. /\ pc'[r] \in {pc[r], "discard", "done"} /\ reply'[r] = "cancelled" /\ pc[r] # "idle"
        /\ \A q \in Requests \ {r} : pc'[q] = pc[q] /\ reply'[q] = reply[q]
    BY ZenonT(30), <1>4 DEF Cancel, InFlight, Running, IInv, TInv, TypeOK
  <2>2. \A q \in Requests : pc'[q] = "idle" => pc[q] = "idle"
    BY Zenon, <2>1
  <2>3. (NoAbort' => NoAbort) /\ \A w \in Parts : Alone(w)' => Alone(w)
    BY Zenon, <2>2, Kinds DEF NoAbort, Alone, Begun
  <2>4. \A w \in Parts : Inserted(w)' => Inserted(w)
    BY Zenon, <2>1, Kinds DEF Inserted, Persisting
  <2>5. \A w \in Parts : reply'[w] = "ok" => pc'[w] = "done"
    BY Zenon, <2>1, Kinds DEF KeptInv
  <2> QED
    BY ZenonT(30), <1>2, <2>3, <2>4, <2>5 DEF KeptInv, Inserted, Kept
<1> QED
  BY Zenon, <1>3, <1>4

(* AckedPartKept: whatever other parts, completions and dropped handlers   *)
(* do meanwhile, an acknowledged part stays in the map, until an abort is  *)
(* asked for: insert_part inserts in place, under get_mut, and never from  *)
(* an older copy of the session.                                           *)
THEOREM AckedPartKeptUntilAbort ==
  ASSUME ~MayCrash
  PROVE  Spec => [](NoAbort => AckedPartKept)
<1>1. Init => IInv /\ KeptInv
  BY Zenon, InitIInv, Kinds DEF Init, KeptInv, Persisting
<1>2. IInv /\ KeptInv /\ [Next]_vars => KeptInv'
  <2> SUFFICES ASSUME IInv, KeptInv, [Next]_vars PROVE KeptInv'
    BY Zenon
  <2>1. CASE UNCHANGED vars
    BY Zenon, <2>1 DEF KeptInv, NoAbort, Alone, Begun, Lists, vars
  <2>2. ASSUME NEW r \in Requests, Begin(r) \/ Serve(r) \/ Cancel(r) PROVE KeptInv'
    <3>1. CASE Begin(r) \/ Cancel(r)
      BY Zenon, <3>1, Begin_Kept DEF KeepsParts
    <3>2. CASE r \in Parts /\ upload_part(r)
      BY Zenon, <3>2, upload_part_Kept DEF KeepsParts
    <3>3. CASE r \in Completes /\ complete_upload(r)
      BY ZenonT(30), <3>3, complete_upload_Kept DEF KeepsParts
    <3>4. CASE (r = Creator /\ create_upload) \/ (r \in Aborts /\ abort_upload(r))
      BY ZenonT(30), <3>4, other_Kept DEF KeepsParts
    <3> QED
      BY ZenonT(30), <2>2, <3>1, <3>2, <3>3, <3>4 DEF Serve
  <2>3. ~(Crash \/ load_sessions \/ cleanup_stale_temp_files)
    BY Zenon DEF Crash, load_sessions, cleanup_stale_temp_files, IInv, EInv, CommittedInv
  <2> QED
    BY Zenon, <2>1, <2>2, <2>3 DEF Next
<1>3. KeptInv => (NoAbort => AckedPartKept)
  BY Zenon, NoSessionType DEF KeptInv, AckedPartKept, Alone, Lists
<1> QED
  BY <1>1, <1>2, <1>3, NextIInv, PTL DEF Spec
=============================================================================
