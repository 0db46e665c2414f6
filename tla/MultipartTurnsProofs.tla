----------------------- MODULE MultipartTurnsProofs ------------------------
(***************************************************************************)
(* What the parts of an upload keep of their promises.  The session is in  *)
(* memory, on disk and, as a promise, in the answers clients were given;   *)
(* these proofs say how far the three agree, for any number of parts,      *)
(* aborts and completions.                                                 *)
(***************************************************************************)
EXTENDS MultipartStoreProofs

(* The client takes turns, and no handler is dropped.                      *)
TakeTurns == ~Overlap /\ ~MayCancel

(* At most one call fails, and no removal.                                 *)
OneFailure == MaxFailures <= 1 /\ "remove" \notin FailingCalls

-----------------------------------------------------------------------------
(* When the client takes turns, one request runs at a time, and what       *)
(* persist_session needs is there.                                         *)
TaskOf(r) ==
  /\ r \in Parts => task[r] = "part"
  /\ r \in Aborts => task[r] = "abort"
  /\ r \in Completes => task[r] \in {"completing", "completed", "reopen"}

TurnInv ==
  /\ \A r \in Requests :
       /\ reply[r] # "cancelled"
       /\ reply[r] \in {"ok", "err"} => pc[r] = "done"
       /\ pc[r] \in Persisting => TaskOf(r)
       /\ pc[r] = "write" => dir
       /\ pc[r] = "renameSession" => r \in sessionTmp
  /\ \A r, s \in Requests : Running(r) /\ Running(s) => r = s

(* Each record of the session that could make it open again is one failed  *)
(* call: persisting Completing, persisting Completed, removing             *)
(* session.json and removing the directory.                                *)
Marks(c, why) == pc[c] \in Persisting /\ task[c] = why
OpenCosts(n) == IsOpen(disk) => failures >= n

FinishOf(c) ==
  /\ pc[c] \in {"validate", "copy", "commit", "mark", "restore"} \/ Marks(c, "completing")
       => session.state = "Completing"
  /\ Marks(c, "completing") => snapshot[c].state = "Completing"
  /\ Marks(c, "completed") => snapshot[c].state = "Completed"
  /\ pc[c] \in {"validate", "copy", "commit", "mark"} \/ Marks(c, "completed") => OpenCosts(1)
  /\ pc[c] = "rmSession" => OpenCosts(2)
  /\ pc[c] \in {"forget", "rmDir"} => OpenCosts(3)
  /\ pc[c] = "rmDir" => session = NoSession

AbortOf(a) ==
  /\ pc[a] = "abRmdir" => session.state = "Aborted"
  /\ pc[a] = "abRemove" => ~IsOpen(disk)

Quiet == \A r \in Requests : ~Running(r)
FinishInv ==
  /\ \A c \in Completes : FinishOf(c)
  /\ \A a \in Aborts : AbortOf(a)
  /\ Finished /\ MaxFailures <= 3 => Quiet /\ ~IsOpen(session) /\ OpenCosts(4)

(* Where an acknowledged part is.                                          *)
Unfinished == \A r \in Aborts \cup Completes : ~Begun(r)
Has(s, w) == IsOpen(s) /\ Lists(s, w)

Stored(w) ==
  /\ files[NumberOf[w]] = w
  /\ Has(disk, w)
  /\ phase # "load" => Has(session, w)

DurableOf(w) ==
  /\ pc[w] \in Persisting \cup {"insert"} => files[NumberOf[w]] = w
  /\ pc[w] \in Persisting => Has(session, w) /\ Has(snapshot[w], w)
  /\ pc[w] = "rmBackup" => Stored(w)
  /\ reply[w] = "ok" => Stored(w) /\ \A v \in Parts : pc[v] \in Persisting => Has(snapshot[v], w)

DurableInv ==
  ~MayExpire => \A w \in Parts : Unfinished /\ Alone(w) => DurableOf(w)

(* The part files follow the session in memory, but for the one number     *)
(* that is being uploaded.                                                 *)
Publishing == {"mkPartDir", "link", "rename"}
RollBack == {"rbRemove", "rbRename", "rbSession"}
Unmatched == {"insert", "rbRename", "rbSession"}
Live == session.state \in {"Open", "Completing"}

MatchOf(w) ==
  LET n == NumberOf[w]
  IN  /\ pc[w] \in Publishing \cup RollBack \cup Persisting \cup {"insert", "rmBackup"} =>
           /\ IsOpen(session)
           /\ previous[w] # Nil => reply[previous[w]] = "ok" /\ NumberOf[previous[w]] = n
      /\ pc[w] \in Publishing \cup {"insert"} => session.parts[n] = previous[w]
      /\ pc[w] \in RollBack \cup Persisting => session.parts[n] = w
      /\ pc[w] \in {"rename", "insert", "rbRemove", "rbRename"} \cup Persisting =>
           (previous[w] # Nil => tmp[w].backup = previous[w])
      /\ pc[w] \in RollBack => failures >= 1
      /\ pc[w] = "insert" => files[n] = w
      /\ pc[w] = "rbRename" => previous[w] # Nil /\ files[n] = Nil
      /\ pc[w] = "rbSession" => files[n] = previous[w]
      /\ pc[w] \in Unmatched => \A m \in Numbers \ {n} : files[m] = session.parts[m]

Matched == \A n \in Numbers : files[n] = session.parts[n]

(* Only an acknowledged part, or one that may still be rolled back, is     *)
(* listed.                                                                 *)
ListedInv ==
  Live => \A w \in Parts, n \in Numbers :
    session.parts[n] = w =>
      NumberOf[w] = n /\ (reply[w] = "ok" \/ pc[w] \in Persisting \cup RollBack \cup {"rmBackup"})

CreatedInv ==
  /\ reply[Creator] # "ok" => session = NoSession /\ files = NoParts
  /\ pc[Creator] \in Persisting \cup {"crInsert"} =>
       snapshot[Creator] = [state |-> "Open", parts |-> NoParts]

MatchInv ==
  /\ Live /\ (\A w \in Parts : pc[w] \notin Unmatched) => Matched
  /\ \A w \in Parts : MatchOf(w)
  /\ ListedInv
  /\ CreatedInv

(* What a completion has copied is what its client asked for.              *)
BytesOf(c) ==
  /\ pc[c] \in {"idle", "begin", "validate"} \/ Marks(c, "completing") => built[c] = NoParts
  /\ pc[c] = "idle" => wanted[c] = NoParts
  /\ pc[c] = "validate" \/ Marks(c, "completing") => snapshot[c] = session
  /\ pc[c] = "copy" =>
       /\ \A n \in Requested(c) : session.parts[n] = wanted[c][n]
       /\ \A n \in Numbers : built[c][n] \in {Nil, wanted[c][n]}
       /\ \A m, n \in Requested(c) : m < n /\ built[c][n] # Nil => built[c][m] # Nil
  /\ pc[c] = "commit" \/ c \in published => built[c] = wanted[c]
  /\ pc[c] \in {"idle", "begin", "validate", "copy", "commit"} \/ Marks(c, "completing")
       => c \notin published

SerialInv == OneFailure /\ ~MayCrash => MatchInv /\ \A c \in Completes : BytesOf(c)

PInv == TurnInv /\ FinishInv /\ DurableInv /\ SerialInv

(* What a step A must keep.                                                *)
KeepsPromises(A) == IInv /\ PInv /\ A => PInv'

-----------------------------------------------------------------------------
(* Steps of the request whose turn it is.                                  *)

Ending == {"ok", "err"}

Others(r) == \A q \in Requests \ {r} : pc'[q] = pc[q] /\ reply'[q] = reply[q]

To(r, next) ==
  /\ pc'[r] = IF next \in Ending THEN "done" ELSE next
  /\ reply'[r] = IF next \in Ending THEN next ELSE reply[r]
  /\ Others(r)

LEMMA StepTo ==
  ASSUME IInv, TurnInv, NEW r \in Requests, NEW next, Step(r, next)
  PROVE  To(r, next)
<1>1. /\ DOMAIN pc = Requests /\ DOMAIN reply = Requests
      /\ pc = [q \in Requests |-> pc[q]] /\ reply = [q \in Requests |-> reply[q]]
  BY Zenon DEF IInv, TInv, TypeOK
<1>2. ~Cancelled(r)
  BY Zenon DEF TurnInv, Cancelled
<1> QED
  BY Zenon, <1>1, <1>2 DEF Step, To, Others, Ending

(* Everyone else rests.                                                    *)
LEMMA OthersRest ==
  ASSUME TurnInv, NEW r \in Requests, Running(r), Others(r)
  PROVE  \A q \in Requests \ {r} : /\ pc[q] \in {"idle", "done"} /\ pc'[q] = pc[q]
                                   /\ reply'[q] = reply[q]
BY Zenon DEF TurnInv, Running, Others

LEMMA TurnStep ==
  ASSUME TurnInv, NEW r \in Requests, Running(r), NEW next, To(r, next),
         next \notin {"idle", "done", "cancelled"},
         next \in Persisting => TaskOf(r)',
         next = "write" => dir',
         next = "renameSession" => r \in sessionTmp'
  PROVE  TurnInv'
<1>1. \A q \in Requests \ {r} : /\ pc[q] \in {"idle", "done"} /\ pc'[q] = pc[q]
                                /\ reply'[q] = reply[q]
  BY Zenon, OthersRest DEF To
<1>2. /\ pc'[r] = IF next \in Ending THEN "done" ELSE next
      /\ reply'[r] = IF next \in Ending THEN next ELSE reply[r]
      /\ reply[r] \notin {"cancelled", "ok", "err"}
  BY Zenon DEF To, TurnInv, Running
<1>3. \A q \in Requests :
        /\ reply'[q] # "cancelled"
        /\ reply'[q] \in {"ok", "err"} => pc'[q] = "done"
        /\ pc'[q] \in Persisting => TaskOf(q)'
        /\ pc'[q] = "write" => dir'
        /\ pc'[q] = "renameSession" => q \in sessionTmp'
  BY Zenon, <1>1, <1>2 DEF TurnInv, Persisting, Ending
<1>4. \A q \in Requests : Running(q)' => q = r
  BY Zenon, <1>1 DEF Running
<1> QED
  BY Zenon, <1>3, <1>4 DEF TurnInv

LEMMA FinishStep ==
  ASSUME TurnInv, FinishInv, NEW r \in Requests, Running(r), NEW next, To(r, next),
         next \notin {"idle", "done", "cancelled"},
         r \in Completes => FinishOf(r)',
         r \in Aborts => AbortOf(r)',
         r \in Aborts \cup Completes => (next = "ok" => ~IsOpen(session)' /\ OpenCosts(4)')
  PROVE  FinishInv'
<1>1. \A q \in Requests \ {r} : /\ pc[q] \in {"idle", "done"} /\ pc'[q] = pc[q]
                                /\ reply'[q] = reply[q]
  BY Zenon, OthersRest DEF To
<1>2. /\ pc'[r] = IF next \in Ending THEN "done" ELSE next
      /\ reply'[r] = IF next \in Ending THEN next ELSE reply[r]
      /\ reply[r] \notin {"cancelled", "ok"}
  BY Zenon DEF To, TurnInv, Running
<1>3. MaxFailures <= 3 => ~Finished
  BY Zenon DEF FinishInv, Quiet
<1>4. \A c \in Completes : FinishOf(c)'
  BY <1>1, Kinds DEF FinishOf, Marks, Persisting
<1>5. \A a \in Aborts : AbortOf(a)'
  BY <1>1, Kinds DEF AbortOf
<1>6. Finished' /\ MaxFailures <= 3 => r \in Aborts \cup Completes /\ next = "ok"
  BY Zenon, <1>1, <1>2, <1>3, Kinds DEF Finished, Ending
<1>7. next = "ok" => Quiet'
  BY Zenon, <1>1, <1>2 DEF Quiet, Running, Ending
<1> QED
  BY Zenon, <1>4, <1>5, <1>6, <1>7 DEF FinishInv

(* Whoever is not a part has no business with parts that are uploaded      *)
(* while nobody finishes the upload.                                       *)
LEMMA DurableOther ==
  ASSUME IInv, TurnInv, DurableInv, NEW r \in Requests \ Parts, Running(r), Others(r), pc'[r] # "idle"
  PROVE  DurableInv'
<1>1. CASE r = Creator
  <2>1. reply[Creator] # "ok"
    BY Zenon, <1>1 DEF IInv, EInv, CreatorInv, Running
  <2>2. \A w \in Parts : pc[w] = "idle" /\ pc'[w] = "idle" /\ reply'[w] # "ok"
    BY Zenon, <1>1, <2>1, Kinds DEF IInv, EInv, CreatorInv, Others, TurnInv
  <2> QED
    BY Zenon, <2>2 DEF DurableInv, DurableOf, Persisting
<1>2. CASE r \in Aborts \cup Completes
  BY Zenon, <1>2 DEF DurableInv, Unfinished, Begun
<1> QED
  BY Zenon, <1>1, <1>2, Kinds

LEMMA DurableStep ==
  ASSUME TurnInv, DurableInv, NEW r \in Parts, Running(r), Others(r), pc'[r] # "idle",
         Unfinished /\ Alone(r) /\ DurableOf(r) => DurableOf(r)',
         \A w \in Parts :
           /\ NumberOf[w] # NumberOf[r] /\ Stored(w) /\ (pc[r] \in Persisting => Has(snapshot[r], w))
           => Stored(w)' /\ (pc'[r] \in Persisting => Has(snapshot[r], w)')
  PROVE  DurableInv'
<1>1. \A q \in Requests \ {r} : /\ pc[q] \in {"idle", "done"} /\ pc'[q] = pc[q]
                                /\ reply'[q] = reply[q]
  BY Zenon, OthersRest, Kinds
<1>2. Begun(r) /\ Begun(r)'
  BY Zenon DEF Begun, Running
<1>3. Unfinished' => Unfinished
  BY Zenon, <1>1, Kinds DEF Unfinished, Begun
<1>4. \A w \in Parts : Alone(w)' => Alone(w)
  BY Zenon, <1>1, <1>2, Kinds DEF Alone, Begun
<1>5. \A w \in Parts \ {r} : Alone(w) => NumberOf[w] # NumberOf[r]
  BY Zenon, <1>2 DEF Alone
<1>6. ASSUME ~MayExpire, NEW w \in Parts \ {r}, Unfinished, Alone(w) PROVE DurableOf(w)'
  <2>1. pc'[w] \in {"idle", "done"} /\ reply'[w] = reply[w] /\ DurableOf(w) /\ NumberOf[w] # NumberOf[r]
    BY Zenon, <1>1, <1>5, <1>6, Kinds DEF DurableInv
  <2>2. reply[w] = "ok" => Stored(w)' /\ (pc'[r] \in Persisting => Has(snapshot[r], w)')
    BY Zenon, <2>1 DEF DurableOf
  <2>3. \A v \in Parts : pc'[v] \in Persisting => v = r
    BY Zenon, <1>1, Kinds DEF Persisting
  <2> QED
    BY Zenon, <2>1, <2>2, <2>3 DEF DurableOf, Persisting
<1> QED
  BY Zenon, <1>3, <1>4, <1>6 DEF DurableInv

(* MatchInv, when a part is uploaded; and when someone else runs.          *)
LEMMA MatchStep ==
  ASSUME IInv, TurnInv, MatchInv, NEW r \in Parts, Running(r), Others(r),
         MatchOf(r)',
         pc'[r] \notin Unmatched => (Live' => Matched'),
         ListedInv'
  PROVE  MatchInv'
<1>1. \A q \in Requests \ {r} : pc'[q] \in {"idle", "done"} /\ reply'[q] = reply[q]
  BY Zenon, OthersRest, Kinds
<1>2. \A w \in Parts : MatchOf(w)'
  BY <1>1, Kinds DEF MatchOf, Publishing, RollBack, Unmatched, Persisting
<1>3. reply'[Creator] = "ok" /\ pc'[Creator] \in {"idle", "done"}
  BY Zenon, <1>1, Kinds DEF IInv, EInv, CreatorInv, Running
<1>4. CreatedInv'
  BY Zenon, <1>3 DEF CreatedInv, Persisting
<1> QED
  BY Zenon, <1>2, <1>4 DEF MatchInv

LEMMA MatchOther ==
  ASSUME IInv, TurnInv, MatchInv, NEW r \in Requests \ Parts, Running(r), Others(r),
         Live' => Matched',
         ListedInv',
         CreatedInv'
  PROVE  MatchInv'
<1>1. \A w \in Parts : pc'[w] \in {"idle", "done"}
  BY Zenon, OthersRest, Kinds
<1>2. \A w \in Parts : MatchOf(w)'
  BY Zenon, <1>1 DEF MatchOf, Publishing, RollBack, Unmatched, Persisting
<1> QED
  BY Zenon, <1>2 DEF MatchInv

(* Nobody is listed or answered anew.                                      *)
LEMMA ListedSame ==
  ASSUME ListedInv, NEW r \in Requests, Others(r),
         Live' => Live /\ session'.parts = session.parts,
         r \in Parts /\ (reply[r] = "ok" \/ pc[r] \in Persisting \cup RollBack \cup {"rmBackup"}) =>
           reply'[r] = "ok" \/ pc'[r] \in Persisting \cup RollBack \cup {"rmBackup"}
  PROVE  ListedInv'
BY Kinds DEF ListedInv, Others

(* The other completions have built what they have built.                  *)
LEMMA BytesStep ==
  ASSUME TurnInv, \A c \in Completes : BytesOf(c), NEW r \in Requests, Running(r), Others(r),
         r \in Completes => BytesOf(r)',
         \A c \in Completes \ {r} :
           built'[c] = built[c] /\ wanted'[c] = wanted[c] /\ (c \in published' => c \in published)
  PROVE  \A c \in Completes : BytesOf(c)'
<1>1. \A q \in Requests \ {r} : pc[q] \in {"idle", "done"} /\ pc'[q] = pc[q]
  BY Zenon, OthersRest
<1>2. ASSUME NEW c \in Completes \ {r} PROVE BytesOf(c)'
  <2>1. pc[c] \in {"idle", "done"} /\ pc'[c] = pc[c]
    BY Zenon, <1>1, Kinds
  <2> QED
    BY <2>1 DEF BytesOf, Marks, Persisting
<1> QED
  BY Zenon, <1>2

-----------------------------------------------------------------------------
(* Steps of UploadPart.                                                    *)

Busy == Persisting \cup RollBack \cup {"rmBackup"}

LEMMA PartStep ==
  ASSUME IInv, PInv, NEW w \in Parts, NEW next, Running(w), To(w, next),
         next \notin {"idle", "done", "cancelled", "begin", "validate", "copy", "commit"},
         next \in Persisting => task'[w] = "part",
         next = "write" => dir',
         next = "renameSession" => w \in sessionTmp',
         UNCHANGED <<wanted, built, published>>,
         Unfinished /\ Alone(w) /\ DurableOf(w) => DurableOf(w)',
         \A v \in Parts :
           /\ NumberOf[v] # NumberOf[w] /\ Stored(v) /\ (pc[w] \in Persisting => Has(snapshot[w], v))
           => Stored(v)' /\ (pc'[w] \in Persisting => Has(snapshot[w], v)'),
         OneFailure /\ MatchInv =>
           /\ MatchOf(w)'
           /\ pc'[w] \notin Unmatched => (Live' => Matched')
           /\ ListedInv'
  PROVE  PInv'
<1>1. w \in Requests /\ w \notin Completes \cup Aborts /\ Others(w) /\ pc'[w] # "idle"
  BY Zenon, Kinds DEF To, Ending
<1>2. TaskOf(w)' \/ next \notin Persisting
  BY Zenon, <1>1 DEF TaskOf
<1>3. TurnInv'
  BY Zenon, <1>1, <1>2, TurnStep DEF PInv
<1>4. FinishInv'
  BY Zenon, <1>1, FinishStep DEF PInv
<1>5. DurableInv'
  BY Zenon, <1>1, DurableStep DEF PInv
<1>6. ASSUME OneFailure, ~MayCrash PROVE MatchInv' /\ \A c \in Completes : BytesOf(c)'
  <2>1. MatchInv /\ \A c \in Completes : BytesOf(c)
    BY Zenon, <1>6 DEF PInv, SerialInv
  <2>2. MatchInv'
    BY Zenon, <1>1, <1>6, <2>1, MatchStep DEF PInv
  <2>3. \A c \in Completes : BytesOf(c)'
    BY Zenon, <1>1, <2>1, BytesStep DEF PInv
  <2> QED
    BY Zenon, <2>2, <2>3
<1> QED
  BY Zenon, <1>3, <1>4, <1>5, <1>6 DEF PInv, SerialInv

(* Before its file is in place a part changes nothing others see.          *)
LEMMA EarlyStep ==
  ASSUME IInv, PInv, NEW w \in Parts, NEW next, Running(w), To(w, next),
         pc[w] \in {"mkTmpDir", "createTmp", "body", "discard", "open"} \cup Publishing,
         next \in {"createTmp", "body", "discard", "open", "err"} \cup Publishing,
         UNCHANGED <<session, disk, files, phase, wanted, built, published>>,
         OneFailure /\ MatchInv => MatchOf(w)'
  PROVE  PInv'
<1>1. pc'[w] \notin Persisting \cup {"insert", "rmBackup"} /\ reply'[w] # "ok"
  BY Zenon, Kinds DEF To, Publishing, Persisting, Ending, PInv, TurnInv, Running
<1>2. DurableOf(w)'
  BY Zenon, <1>1 DEF DurableOf
<1>3. \A v \in Parts : Stored(v) => Stored(v)'
  BY Zenon DEF Stored, Has, Lists, IsOpen
<1>4. MatchInv => (Live' => Matched')
  <2>1. \A v \in Parts : pc[v] \notin Unmatched
    BY ZenonT(30), Kinds DEF PInv, TurnInv, Running, Unmatched, Publishing
  <2> QED
    BY Zenon, <2>1 DEF MatchInv, Live, Matched
<1>5. MatchInv => ListedInv'
  BY Zenon, Kinds, ListedSame DEF MatchInv, Live, To, PInv, TurnInv, Persisting, RollBack, Publishing
<1> QED
  BY Zenon, <1>1, <1>2, <1>3, <1>4, <1>5, PartStep DEF Publishing, Persisting

LEMMA receiving_PInv ==
  \A w \in Parts : KeepsPromises(create_temp_part(w) \/ receive_body(w) \/ discard(w))
<1> SUFFICES ASSUME NEW w \in Parts, IInv, PInv, create_temp_part(w) \/ receive_body(w) \/ discard(w)
             PROVE  PInv'
  BY Zenon DEF KeepsPromises
<1>1. /\ pc[w] \in {"mkTmpDir", "createTmp", "body", "discard"}
      /\ UNCHANGED <<session, disk, files, phase, wanted, built, published>>
  BY Zenon DEF create_temp_part, receive_body, discard, locals
<1>2. PICK next \in {"createTmp", "body", "discard", "open", "err"} : Step(w, next)
  BY Zenon DEF create_temp_part, receive_body, discard
<1>3. To(w, next) /\ Running(w)
  BY Zenon, <1>1, <1>2, StepTo, Kinds DEF PInv, Running
<1>4. MatchOf(w)'
  BY Zenon, <1>3 DEF To, MatchOf, Publishing, RollBack, Unmatched, Persisting, Ending
<1> QED
  BY Zenon, <1>1, <1>3, <1>4, EarlyStep

LEMMA check_open_PInv ==
  \A w \in Parts : KeepsPromises(check_open(w))
<1> SUFFICES ASSUME NEW w \in Parts, IInv, PInv, check_open(w)
             PROVE  PInv'
  BY Zenon DEF KeepsPromises
<1>1. /\ pc[w] = "open"
      /\ UNCHANGED <<session, disk, files, phase, wanted, built, published>>
  BY Zenon DEF check_open, storage
<1>2. PICK next \in {"mkPartDir", "err"} :
        /\ Step(w, next)
        /\ next = "mkPartDir" => IsOpen(session) /\ previous' = [previous EXCEPT ![w] = session.parts[NumberOf[w]]]
  BY Zenon DEF check_open
<1>3. To(w, next) /\ Running(w)
  BY Zenon, <1>1, <1>2, StepTo, Kinds DEF PInv, Running
<1>4. next = "mkPartDir" => previous'[w] = session.parts[NumberOf[w]]
  BY Zenon, <1>2 DEF IInv, TInv, TypeOK
<1>5. \A v \in Parts : pc[v] \in Busy => FALSE
  BY ZenonT(30), <1>1, Kinds DEF PInv, TurnInv, Running, Busy, Persisting, RollBack
<1>6. IsOpen(session) => session.parts[NumberOf[w]] \in Parts \cup {Nil}
  BY Zenon, ParameterTypes, OpenExists DEF IInv, TInv, TypeOK, Session, PartMap
<1>7. ASSUME MatchInv, next = "mkPartDir", previous'[w] # Nil
      PROVE  reply'[previous'[w]] = "ok" /\ NumberOf[previous'[w]] = NumberOf[w]
  <2>1. previous'[w] \in Parts /\ session.parts[NumberOf[w]] = previous'[w]
    BY Zenon, <1>2, <1>4, <1>6, <1>7
  <2>2. reply[previous'[w]] = "ok" /\ NumberOf[previous'[w]] = NumberOf[w]
    BY <1>2, <1>5, <1>7, <2>1, ParameterTypes DEF MatchInv, ListedInv, Live, IsOpen, Busy
  <2> QED
    BY Zenon, <1>1, <1>3, <2>1, <2>2, Kinds DEF To, Others, PInv, TurnInv
<1>8. MatchInv => MatchOf(w)'
  BY Zenon, <1>1, <1>2, <1>3, <1>4, <1>7 DEF To, MatchOf, Publishing, RollBack, Unmatched, Persisting, Ending, IsOpen
<1> QED
  BY Zenon, <1>1, <1>3, <1>8, EarlyStep DEF Publishing

LEMMA make_part_dir_PInv ==
  \A w \in Parts : KeepsPromises(make_part_dir(w))
<1> SUFFICES ASSUME NEW w \in Parts, IInv, PInv, make_part_dir(w)
             PROVE  PInv'
  BY Zenon DEF KeepsPromises
<1>1. /\ pc[w] = "mkPartDir"
      /\ UNCHANGED <<session, disk, files, phase, previous, wanted, built, published>>
  BY Zenon DEF make_part_dir, locals
<1>2. PICK next \in {"link", "rename", "err"} : Step(w, next) /\ (next = "rename" => previous[w] = Nil)
  BY Zenon DEF make_part_dir, PublishFails
<1>3. To(w, next) /\ Running(w)
  BY Zenon, <1>1, <1>2, StepTo, Kinds DEF PInv, Running
<1>4. MatchOf(w) /\ previous[w] \in Parts \cup {Nil} /\ previous[w] # w => MatchOf(w)'
  BY ZenonT(30), <1>1, <1>2, <1>3, Kinds DEF To, Others, MatchOf, Publishing, RollBack, Unmatched, Persisting, Ending, IsOpen
<1>5. MatchInv => previous[w] \in Parts \cup {Nil} /\ previous[w] # w
  BY <1>1, Kinds, SentinelsDistinct DEF MatchInv, MatchOf, PInv, TurnInv, IInv, TInv, TypeOK, Publishing
<1> QED
  BY Zenon, <1>1, <1>3, <1>4, <1>5, EarlyStep DEF Publishing, MatchInv

LEMMA link_previous_PInv ==
  \A w \in Parts : KeepsPromises(link_previous(w))
<1> SUFFICES ASSUME NEW w \in Parts, IInv, PInv, link_previous(w)
             PROVE  PInv'
  BY Zenon DEF KeepsPromises
<1>1. /\ pc[w] = "link"
      /\ UNCHANGED <<session, disk, files, phase, previous, wanted, built, published>>
  BY Zenon DEF link_previous, locals
<1>2. PICK next \in {"rename", "err"} :
        Step(w, next) /\ (next = "rename" => SetTmp(w, "backup", files[NumberOf[w]]))
  BY Zenon DEF link_previous, PublishFails
<1>3. To(w, next) /\ Running(w)
  BY Zenon, <1>1, <1>2, StepTo, Kinds DEF PInv, Running
<1>4. next = "rename" => tmp'[w].backup = files[NumberOf[w]]
  BY ZenonT(30), <1>2 DEF SetTmp, IInv, TInv, TypeOK
<1>5. MatchInv => previous[w] \in Parts \cup {Nil} /\ previous[w] # w /\ files[NumberOf[w]] = previous[w]
  <2>1. \A v \in Parts : pc[v] \notin Unmatched
    BY ZenonT(30), <1>1, Kinds DEF PInv, TurnInv, Running, Unmatched
  <2>2. previous[w] \in Parts \cup {Nil} /\ NumberOf[w] \in Numbers
    BY Zenon, ParameterTypes DEF IInv, TInv, TypeOK
  <2>3. MatchInv => IsOpen(session) /\ session.parts[NumberOf[w]] = previous[w] /\ previous[w] # w
    BY <1>1, Kinds, SentinelsDistinct DEF MatchInv, MatchOf, PInv, TurnInv, Publishing
  <2> QED
    BY Zenon, <2>1, <2>2, <2>3 DEF MatchInv, Live, Matched, IsOpen
<1>6. MatchInv => MatchOf(w)'
  BY ZenonT(30), <1>1, <1>3, <1>4, <1>5, Kinds DEF MatchInv, To, Others, MatchOf, Publishing, RollBack, Unmatched, Persisting,
     Ending, IsOpen
<1> QED
  BY Zenon, <1>1, <1>3, <1>6, EarlyStep DEF Publishing

LEMMA rename_part_PInv ==
  \A w \in Parts : KeepsPromises(rename_part(w))
<1> SUFFICES ASSUME NEW w \in Parts, IInv, PInv, rename_part(w)
             PROVE  PInv'
  BY Zenon DEF KeepsPromises
<1>1. /\ pc[w] = "rename"
      /\ UNCHANGED <<session, disk, phase, previous, snapshot, wanted, built, published>>
  BY Zenon DEF rename_part, locals
<1>2. CASE Step(w, "err") /\ UNCHANGED files
  <2>1. To(w, "err") /\ Running(w)
    BY Zenon, <1>1, <1>2, StepTo, Kinds DEF PInv, Running
  <2>2. MatchOf(w)'
    BY Zenon, <2>1 DEF To, MatchOf, Publishing, RollBack, Unmatched, Persisting, Ending
  <2> QED
    BY Zenon, <1>1, <1>2, <2>1, <2>2, EarlyStep DEF Publishing
<1>3. CASE tmp[w].body # Nil /\ SetFile(w, tmp[w].body) /\ SetTmp(w, "body", Nil) /\ Step(w, "insert")
  <2>1. To(w, "insert") /\ Running(w)
    BY Zenon, <1>1, <1>3, StepTo, Kinds DEF PInv, Running
  <2>2. pc'[w] = "insert" /\ Others(w) /\ reply'[w] = reply[w] /\ reply[w] # "ok" /\ w \in Requests
    BY Zenon, <1>1, <2>1, Kinds DEF To, Ending, PInv, TurnInv
  <2>3. /\ files'[NumberOf[w]] = w
        /\ \A m \in Numbers \ {NumberOf[w]} : files'[m] = files[m]
        /\ tmp'[w].backup = tmp[w].backup
    BY ZenonT(30), <1>1, <1>3, ParameterTypes DEF SetFile, SetTmp, IInv, TInv, TypeOK, BodyInv
  <2>4. DurableOf(w)'
    BY Zenon, <2>2, <2>3 DEF DurableOf, Persisting
  <2>5. ASSUME NEW v \in Parts, NumberOf[v] # NumberOf[w], Stored(v) PROVE Stored(v)' /\ pc'[w] \notin Persisting
    BY Zenon, <1>1, <2>2, <2>3, <2>5, ParameterTypes DEF Stored, Has, Lists, IsOpen, Persisting
  <2>6. ASSUME MatchInv PROVE MatchOf(w)' /\ pc'[w] \in Unmatched /\ ListedInv'
    <3>1. \A v \in Parts : pc[v] \notin Unmatched
      BY Zenon, <1>1, Kinds DEF PInv, TurnInv, Running, Unmatched
    <3>2. MatchOf(w) /\ previous[w] \in Parts \cup {Nil} /\ previous[w] # w
      BY <1>1, <2>2, <2>6, SentinelsDistinct DEF MatchInv, MatchOf, Publishing, IInv, TInv, TypeOK
    <3>3. \A m \in Numbers \ {NumberOf[w]} : files'[m] = session'.parts[m]
      BY ZenonT(30), <1>1, <2>3, <2>6, <3>1, <3>2 DEF MatchInv, MatchOf, Publishing, Live, Matched, IsOpen
    <3>4. MatchOf(w)'
      BY Zenon, <1>1, <2>2, <2>3, <3>2, <3>3, Kinds DEF MatchOf, Others, Publishing, RollBack, Unmatched, Persisting, IsOpen
    <3>5. ListedInv'
      BY Zenon, <1>1, <2>2, <2>6, ListedSame DEF MatchInv, Live, Persisting, RollBack
    <3> QED
      BY Zenon, <2>2, <3>4, <3>5 DEF Unmatched
  <2> QED
    BY Zenon, <1>1, <2>1, <2>2, <2>4, <2>5, <2>6, PartStep DEF Persisting
<1> QED
  BY Zenon, <1>2, <1>3 DEF rename_part, PublishFails

LEMMA insert_part_PInv ==
  \A w \in Parts : KeepsPromises(insert_part(w))
<1> SUFFICES ASSUME NEW w \in Parts, IInv, PInv, insert_part(w)
             PROVE  PInv'
  BY Zenon DEF KeepsPromises
<1>1. /\ pc[w] = "insert"
      /\ UNCHANGED <<disk, files, tmp, phase, previous, wanted, built, published>>
      /\ w \in Requests /\ NumberOf[w] \in Numbers
  BY Zenon, Kinds, ParameterTypes DEF insert_part, storage
<1>2. \A v \in Parts : v # w => pc[v] \in {"idle", "done"}
  BY Zenon, <1>1, Kinds DEF PInv, TurnInv, Running
<1>3. CASE IsOpen(session) /\ session' = [session EXCEPT !.parts[NumberOf[w]] = w] /\ Persist(w, session', "part")
  <2>1. To(w, "mkdir") /\ Running(w)
    BY Zenon, <1>1, <1>3, StepTo DEF PInv, Running, Persist
  <2>2. pc'[w] = "mkdir" /\ Others(w) /\ reply'[w] = reply[w] /\ reply[w] # "ok"
    BY Zenon, <1>1, <2>1 DEF To, Ending, PInv, TurnInv
  <2>3. snapshot'[w] = session' /\ task'[w] = "part"
    BY Zenon, <1>1, <1>3 DEF Persist, IInv, TInv, TypeOK
  <2>4. /\ session'.state = session.state
        /\ session'.parts[NumberOf[w]] = w
        /\ \A m \in Numbers \ {NumberOf[w]} : session'.parts[m] = session.parts[m]
    BY Zenon, <1>1, <1>3, OpenExists DEF IInv, TInv, TypeOK, Session, PartMap
  <2>5. Has(session, w)' /\ IsOpen(session)' /\ Has(snapshot'[w], w)
    BY Zenon, <1>3, <2>3, <2>4 DEF Has, Lists, IsOpen
  <2>6. DurableOf(w) => DurableOf(w)'
    BY Zenon, <1>1, <2>2, <2>5 DEF DurableOf, Persisting, Has, Lists, IsOpen
  <2>7. ASSUME NEW v \in Parts, NumberOf[v] # NumberOf[w], Stored(v) PROVE Stored(v)' /\ Has(snapshot[w], v)'
    <3>1. phase = "serving"
      BY Zenon, <1>1, <2>1 DEF IInv, EInv, StartupInv
    <3>2. NumberOf[v] \in Numbers
      BY Zenon, ParameterTypes
    <3>3. Has(session, v)'
      BY Zenon, <2>4, <2>7, <3>1, <3>2 DEF Stored, Has, Lists, IsOpen
    <3> QED
      BY Zenon, <1>1, <2>3, <2>7, <3>3 DEF Stored, Has, Lists, IsOpen
  <2>8. ASSUME MatchInv PROVE MatchOf(w)' /\ Matched' /\ ListedInv'
    <3>1. MatchOf(w) /\ previous[w] \in Parts \cup {Nil} /\ previous[w] # w
      BY <1>1, <2>2, <2>8, SentinelsDistinct DEF MatchInv, MatchOf, IInv, TInv, TypeOK
    <3>2. MatchOf(w)'
      BY Zenon, <1>1, <2>2, <2>4, <2>5, <3>1, Kinds DEF MatchOf, Others, Publishing, RollBack, Unmatched, Persisting
    <3>3. Matched'
      BY Zenon, <1>1, <2>4, <3>1 DEF MatchOf, Matched, Unmatched
    <3>4. ListedInv'
      BY <1>1, <1>2, <1>3, <2>2, <2>4, <2>8, Kinds DEF MatchInv, ListedInv, Live, IsOpen, Others, Persisting, RollBack
    <3> QED
      BY ZenonT(30), <3>2, <3>3, <3>4
  <2> QED
    BY Zenon, <1>1, <2>1, <2>2, <2>3, <2>6, <2>7, <2>8, PartStep DEF Persisting
<1>4. CASE ~IsOpen(session) /\ Step(w, "err") /\ UNCHANGED <<session, snapshot, task>>
  <2>1. To(w, "err") /\ Running(w)
    BY Zenon, <1>1, <1>4, StepTo DEF PInv, Running
  <2>2. pc'[w] = "done" /\ Others(w) /\ reply'[w] = "err"
    BY Zenon, <2>1 DEF To, Ending
  <2>3. DurableOf(w)'
    BY Zenon, <2>2 DEF DurableOf, Persisting
  <2>4. \A v \in Parts : Stored(v) => Stored(v)' /\ pc'[w] \notin Persisting
    BY Zenon, <1>1, <1>4, <2>2 DEF Stored, Has, Lists, IsOpen, Persisting
  <2>5. ~MatchInv
    BY Zenon, <1>1, <1>4 DEF MatchInv, MatchOf
  <2> QED
    BY Zenon, <1>1, <2>1, <2>3, <2>4, <2>5, PartStep DEF Persisting
<1> QED
  BY Zenon, <1>3, <1>4 DEF insert_part

(* persist_session, for any request.                                       *)
LEMMA persist_session_To ==
  ASSUME IInv, PInv, NEW r \in Requests, persist_session(r)
  PROVE  /\ pc[r] \in Persisting /\ Running(r) /\ TaskOf(r)
         /\ UNCHANGED <<session, files, tmp, locals, published, phase>>
         /\ \/ To(r, "write") /\ dir' /\ UNCHANGED <<disk, failures>>
            \/ To(r, "renameSession") /\ r \in sessionTmp' /\ UNCHANGED <<disk, failures>>
            \/ To(r, Persisted(task[r])) /\ disk' = snapshot[r] /\ UNCHANGED failures
            \/ To(r, NotPersisted(task[r])) /\ failures' = failures + 1 /\ UNCHANGED disk
<1>1. /\ pc[r] \in Persisting
      /\ UNCHANGED <<session, files, tmp, locals, published, phase>>
  BY Zenon DEF persist_session, persist_mkdir, persist_write, persist_rename, Persisting
<1>2. Running(r) /\ TaskOf(r)
  BY Zenon, <1>1 DEF PInv, TurnInv, Running, Persisting
<1>3. CASE persist_mkdir(r)
  BY Zenon, <1>1, <1>2, <1>3, StepTo DEF persist_mkdir, Succeeds, Fails, PInv
<1>4. CASE persist_write(r)
  <2>1. dir
    BY Zenon, <1>4 DEF persist_write, PInv, TurnInv
  <2> QED
    BY Zenon, <1>1, <1>2, <1>4, <2>1, StepTo DEF persist_write, Succeeds, Fails, FailsUnless, PInv
<1>5. CASE persist_rename(r)
  <2>1. r \in sessionTmp
    BY Zenon, <1>5 DEF persist_rename, PInv, TurnInv
  <2> QED
    BY Zenon, <1>1, <1>2, <1>5, <2>1, StepTo DEF persist_rename, Succeeds, Fails, FailsUnless, PInv
<1> QED
  BY Zenon, <1>1, <1>2, <1>3, <1>4, <1>5 DEF persist_session

LEMMA persist_part_PInv ==
  \A w \in Parts : KeepsPromises(persist_session(w))
<1> SUFFICES ASSUME NEW w \in Parts, IInv, PInv, persist_session(w)
             PROVE  PInv'
  BY ZenonT(30) DEF KeepsPromises
<1>1. /\ pc[w] \in Persisting /\ Running(w) /\ w \in Requests
      /\ UNCHANGED <<session, files, tmp, previous, snapshot, task, wanted, built, published, phase>>
      /\ task[w] = "part" /\ reply[w] # "ok"
      /\ failures \in Nat
  BY persist_session_To, Kinds DEF TaskOf, locals, PInv, TurnInv, Running, IInv, TInv, TypeOK
<1>2. PICK next \in {"write", "renameSession", "rmBackup", "rbRemove"} :
        /\ To(w, next)
        /\ next = "write" => dir'
        /\ next = "renameSession" => w \in sessionTmp'
        /\ disk' = IF next = "rmBackup" THEN snapshot[w] ELSE disk
        /\ failures' = IF next = "rbRemove" THEN failures + 1 ELSE failures
  <2>1. Persisted(task[w]) = "rmBackup" /\ NotPersisted(task[w]) = "rbRemove"
    BY Zenon, <1>1 DEF Persisted, NotPersisted
  <2> QED
    BY Zenon, <1>1, <2>1, persist_session_To
<1>3. pc'[w] = next /\ Others(w) /\ reply'[w] = reply[w]
  BY Zenon, <1>2 DEF To, Ending
<1>4. DurableOf(w) => DurableOf(w)'
  BY Zenon, <1>1, <1>2, <1>3 DEF DurableOf, Stored, Persisting, Has, Lists, IsOpen
<1>5. ASSUME NEW v \in Parts, Stored(v), Has(snapshot[w], v)
      PROVE  Stored(v)' /\ Has(snapshot[w], v)'
  BY Zenon, <1>1, <1>2, <1>5 DEF Stored, Has, Lists, IsOpen
<1>6. ASSUME MatchInv PROVE MatchOf(w)' /\ (Live' => Matched') /\ ListedInv'
  <2>1. MatchOf(w) /\ previous[w] \in Parts \cup {Nil} /\ previous[w] # w
    BY <1>1, <1>6, SentinelsDistinct DEF MatchInv, MatchOf, IInv, TInv, TypeOK
  <2>2. MatchOf(w)'
    BY <1>1, <1>2, <1>3, <2>1, Kinds DEF MatchOf, Others, Publishing, RollBack, Unmatched, Persisting, IsOpen
  <2>3. \A v \in Parts : pc[v] \notin Unmatched
    BY ZenonT(30), <1>1, Kinds DEF PInv, TurnInv, Running, Unmatched, Persisting
  <2>4. Live' => Matched'
    BY Zenon, <1>1, <1>6, <2>3 DEF MatchInv, Live, Matched
  <2>5. ListedInv'
    BY Zenon, <1>1, <1>2, <1>3, <1>6, ListedSame DEF MatchInv, Live, Persisting, RollBack
  <2> QED
    BY ZenonT(30), <2>2, <2>4, <2>5
<1> QED
  BY Zenon, <1>1, <1>2, <1>3, <1>4, <1>5, <1>6, PartStep DEF Persisting, locals

LEMMA roll_back_part_PInv ==
  \A w \in Parts : KeepsPromises(roll_back_part(w))
<1> SUFFICES ASSUME NEW w \in Parts, IInv, PInv, roll_back_part(w)
             PROVE  PInv'
  BY Zenon DEF KeepsPromises
<1>1. /\ pc[w] \in RollBack /\ Running(w) /\ w \in Requests
      /\ UNCHANGED <<disk, previous, snapshot, wanted, built, published, phase>>
      /\ NumberOf[w] \in Numbers /\ failures \in Nat /\ failures <= MaxFailures
      /\ previous[w] \in Parts \cup {Nil}
  BY Kinds, ParameterTypes DEF roll_back_part, RollBack, locals, Running, IInv, TInv, TypeOK
<1>2. /\ \A v \in Parts \ {w} : pc[v] \in {"idle", "done"}
      /\ reply[w] # "ok"
  BY Zenon, <1>1, Kinds DEF PInv, TurnInv, Running
<1>3. failures' \in Nat /\ failures' >= failures
  BY <1>1 DEF roll_back_part, Succeeds, Fails, FailsUnless
<1>4. \A m \in Numbers \ {NumberOf[w]} : files'[m] = files[m]
  BY Zenon, <1>1 DEF roll_back_part, SetFile, IInv, TInv, TypeOK
<1>5. CASE pc[w] \in {"rbRemove", "rbRename"}
  <2>1. session' = session
    BY Zenon, <1>5 DEF roll_back_part
  <2>2. PICK next \in {"rbRename", "rbSession"} :
          /\ Step(w, next)
          /\ pc[w] = "rbRemove" => next = (IF previous[w] # Nil THEN "rbRename" ELSE "rbSession")
          /\ pc[w] = "rbRename" => next = "rbSession"
    BY Zenon, <1>5 DEF roll_back_part
  <2>3. To(w, next)
    BY Zenon, <1>1, <2>2, StepTo DEF PInv
  <2>4. pc'[w] = next /\ Others(w) /\ reply'[w] = reply[w]
    BY Zenon, <2>3 DEF To, Ending
  <2>5. DurableOf(w)'
    BY Zenon, <1>2, <2>4 DEF DurableOf, Persisting
  <2>6. \A v \in Parts : NumberOf[v] # NumberOf[w] /\ Stored(v) => Stored(v)' /\ pc'[w] \notin Persisting
    BY Zenon, <1>1, <1>4, <2>1, <2>4, ParameterTypes DEF Stored, Has, Lists, IsOpen, Persisting
  <2>7. ASSUME OneFailure, MatchInv PROVE MatchOf(w)' /\ pc'[w] \in Unmatched /\ ListedInv'
    <3>1. MatchOf(w) /\ previous[w] # w /\ failures = MaxFailures
      BY <1>1, <1>2, <2>7, SentinelsDistinct, ParameterTypes DEF MatchInv, MatchOf, OneFailure
    <3>2. \A m \in Numbers \ {NumberOf[w]} : files'[m] = session'.parts[m]
      BY SMTT(30), <1>1, <1>2, <1>4, <1>5, <2>1, <2>7, <3>1 DEF MatchInv, MatchOf, Live, Matched, IsOpen, Unmatched, RollBack
    <3>3. ASSUME pc[w] = "rbRemove" PROVE MatchOf(w)'
      <4>1. files'[NumberOf[w]] = Nil /\ tmp' = tmp
        BY ZenonT(30), <1>1, <2>7, <3>3 DEF roll_back_part, SetFile, Fails, OneFailure, IInv, TInv, TypeOK
      <4> QED
        BY <1>1, <1>3, <2>1, <2>2, <2>4, <3>1, <3>2, <3>3, <4>1, Kinds
           DEF MatchOf, Others, Publishing, RollBack, Unmatched, Persisting, IsOpen
    <3>4. ASSUME pc[w] = "rbRename" PROVE MatchOf(w)'
      <4>1. tmp[w].backup = previous[w] /\ previous[w] # Nil
        BY Zenon, <3>1, <3>4 DEF MatchOf
      <4>2. files'[NumberOf[w]] = previous[w]
        BY <1>1, <3>1, <3>4, <4>1 DEF roll_back_part, SetFile, Fails, FailsUnless, IInv, TInv, TypeOK
      <4> QED
        BY <1>1, <1>3, <2>1, <2>2, <2>4, <3>1, <3>2, <3>4, <4>1, <4>2, Kinds
           DEF MatchOf, Others, Publishing, RollBack, Unmatched, Persisting, IsOpen
    <3>5. ListedInv'
      BY Zenon, <1>1, <2>1, <2>4, <2>7, ListedSame DEF MatchInv, Live, RollBack
    <3> QED
      BY ZenonT(30), <1>5, <2>4, <3>3, <3>4, <3>5 DEF Unmatched
  <2> QED
    BY Zenon, <1>1, <2>3, <2>5, <2>6, <2>7, PartStep DEF Persisting
<1>6. CASE pc[w] = "rbSession"
  <2>1. /\ Step(w, "err") /\ files' = files
        /\ session' = IF session = NoSession THEN session
                      ELSE [session EXCEPT !.parts[NumberOf[w]] = previous[w]]
    BY Zenon, <1>6 DEF roll_back_part
  <2>2. To(w, "err")
    BY Zenon, <1>1, <2>1, StepTo DEF PInv
  <2>3. pc'[w] = "done" /\ Others(w) /\ reply'[w] = "err"
    BY Zenon, <2>2 DEF To, Ending
  <2>4. /\ session'.state = session.state
        /\ session # NoSession => session'.parts[NumberOf[w]] = previous[w]
        /\ \A m \in Numbers \ {NumberOf[w]} : session'.parts[m] = session.parts[m]
    BY Zenon, <1>1, <2>1 DEF IInv, TInv, TypeOK, Session, PartMap
  <2>5. DurableOf(w)'
    BY Zenon, <2>3 DEF DurableOf, Persisting
  <2>6. \A v \in Parts : NumberOf[v] # NumberOf[w] /\ Stored(v) => Stored(v)' /\ pc'[w] \notin Persisting
    BY Zenon, <1>1, <2>1, <2>3, <2>4, ParameterTypes DEF Stored, Has, Lists, IsOpen, Persisting
  <2>7. ASSUME OneFailure, MatchInv PROVE MatchOf(w)' /\ Matched' /\ ListedInv'
    <3>1. MatchOf(w) /\ session # NoSession /\ files[NumberOf[w]] = previous[w]
      BY ZenonT(30), <1>1, <1>6, <2>7, NoSessionType DEF MatchInv, MatchOf, RollBack
    <3>2. MatchOf(w)'
      BY Zenon, <2>3 DEF MatchOf, Publishing, RollBack, Unmatched, Persisting
    <3>3. Matched'
      BY ZenonT(30), <1>1, <1>6, <2>1, <2>4, <3>1 DEF MatchOf, Matched, Unmatched
    <3>4. previous[w] # Nil => /\ previous[w] \in Parts /\ reply[previous[w]] = "ok" /\ previous[w] # w
                               /\ NumberOf[previous[w]] = NumberOf[w]
      BY ZenonT(30), <1>1, <1>2, <3>1 DEF MatchOf
    <3>5. ListedInv'
      BY SMTT(30), <1>1, <1>2, <2>3, <2>4, <2>7, <3>1, <3>4, Kinds, SentinelsDistinct DEF MatchInv, ListedInv, Live, Others, Persisting, RollBack
    <3> QED
      BY Zenon, <3>2, <3>3, <3>5
  <2> QED
    BY Zenon, <1>1, <2>2, <2>5, <2>6, <2>7, PartStep DEF Persisting
<1> QED
  BY Zenon, <1>1, <1>5, <1>6 DEF RollBack

LEMMA remove_backup_PInv ==
  \A w \in Parts : KeepsPromises(remove_backup(w))
<1> SUFFICES ASSUME NEW w \in Parts, IInv, PInv, remove_backup(w)
             PROVE  PInv'
  BY Zenon DEF KeepsPromises
<1>1. /\ pc[w] = "rmBackup" /\ Running(w) /\ w \in Requests
      /\ UNCHANGED <<session, disk, files, snapshot, wanted, built, published, phase>>
  BY Zenon, Kinds DEF remove_backup, locals, Running
<1>2. \A v \in Parts \ {w} : pc[v] \in {"idle", "done"}
  BY Zenon, <1>1, Kinds DEF PInv, TurnInv, Running
<1>3. PICK next \in {"ok", "err"} : Step(w, next) /\ (next = "err" => "remove" \in FailingCalls)
  BY Zenon DEF remove_backup, Fails
<1>4. To(w, next)
  BY Zenon, <1>1, <1>3, StepTo DEF PInv
<1>5. pc'[w] = "done" /\ Others(w) /\ reply'[w] = next
  BY Zenon, <1>4 DEF To, Ending
<1>6. Unfinished /\ Alone(w) /\ DurableOf(w) => DurableOf(w)'
  <2>1. \A v \in Parts : pc'[v] \notin Persisting
    BY Zenon, <1>2, <1>5, Kinds DEF Others, Persisting
  <2> QED
    BY Zenon, <1>1, <1>5, <2>1 DEF DurableOf, Stored, Persisting, Has, Lists, IsOpen
<1>7. \A v \in Parts : Stored(v) => Stored(v)' /\ pc'[w] \notin Persisting
  BY Zenon, <1>1, <1>5 DEF Stored, Has, Lists, IsOpen, Persisting
<1>8. ASSUME OneFailure, MatchInv PROVE MatchOf(w)' /\ (Live' => Matched') /\ ListedInv'
  <2>1. MatchOf(w)'
    BY Zenon, <1>5 DEF MatchOf, Publishing, RollBack, Unmatched, Persisting
  <2>2. Live' => Matched'
    BY Zenon, <1>1, <1>2, <1>8 DEF MatchInv, Live, Matched, Unmatched
  <2>3. next = "ok"
    BY Zenon, <1>3, <1>8 DEF OneFailure
  <2>4. ListedInv'
    BY Zenon, <1>1, <1>5, <1>8, <2>3, ListedSame DEF MatchInv, Live
  <2> QED
    BY Zenon, <2>1, <2>2, <2>4
<1> QED
  BY Zenon, <1>1, <1>4, <1>6, <1>7, <1>8, PartStep DEF Persisting

LEMMA upload_part_PInv ==
  \A w \in Parts : KeepsPromises(upload_part(w))
<1> SUFFICES ASSUME NEW w \in Parts, IInv, PInv, upload_part(w)
             PROVE  PInv'
  BY Zenon DEF KeepsPromises
<1> QED
  BY ZenonT(30), receiving_PInv, check_open_PInv, make_part_dir_PInv, link_previous_PInv, rename_part_PInv, insert_part_PInv,
   persist_part_PInv, roll_back_part_PInv, remove_backup_PInv DEF upload_part, commit_part, KeepsPromises

-----------------------------------------------------------------------------
(* Steps of the other requests.                                            *)

LEMMA OtherStep ==
  ASSUME IInv, PInv, NEW r \in Requests \ Parts, NEW next, Running(r), To(r, next),
         next \notin {"idle", "done", "cancelled"},
         next \in Persisting => TaskOf(r)',
         next = "write" => dir',
         next = "renameSession" => r \in sessionTmp',
         r \in Completes => FinishOf(r)',
         r \in Aborts => AbortOf(r)',
         r \in Aborts \cup Completes => (next = "ok" => ~IsOpen(session)' /\ OpenCosts(4)'),
         \A c \in Completes \ {r} :
           built'[c] = built[c] /\ wanted'[c] = wanted[c] /\ (c \in published' => c \in published),
         OneFailure /\ ~MayCrash /\ MatchInv /\ (\A c \in Completes : BytesOf(c)) =>
           /\ Live' => Matched'
           /\ ListedInv'
           /\ CreatedInv'
           /\ r \in Completes => BytesOf(r)'
  PROVE  PInv'
<1>1. Others(r) /\ pc'[r] # "idle"
  BY Zenon DEF To, Ending
<1>2. TurnInv'
  BY Zenon, TurnStep DEF PInv
<1>3. FinishInv'
  BY Zenon, FinishStep DEF PInv
<1>4. DurableInv'
  BY Zenon, <1>1, DurableOther DEF PInv
<1>5. ASSUME OneFailure, ~MayCrash PROVE MatchInv' /\ \A c \in Completes : BytesOf(c)'
  <2>1. MatchInv /\ \A c \in Completes : BytesOf(c)
    BY Zenon, <1>5 DEF PInv, SerialInv
  <2>2. MatchInv'
    BY Zenon, <1>1, <1>5, <2>1, MatchOther DEF PInv
  <2>3. \A c \in Completes : BytesOf(c)'
    BY Zenon, <1>1, <1>5, <2>1, BytesStep DEF PInv
  <2> QED
    BY Zenon, <2>2, <2>3
<1> QED
  BY Zenon, <1>2, <1>3, <1>4, <1>5 DEF PInv, SerialInv

(* The parts rest.                                                         *)
LEMMA PartsRest ==
  ASSUME PInv, NEW r \in Requests \ Parts, Running(r)
  PROVE  /\ \A w \in Parts : pc[w] \in {"idle", "done"}
         /\ MatchInv => (Live => Matched)
<1>1. \A w \in Parts : pc[w] \in {"idle", "done"}
  BY Zenon, Kinds DEF PInv, TurnInv, Running
<1> QED
  BY Zenon, <1>1 DEF MatchInv, Unmatched

(* Files and listed parts stay as they are.                                *)
LEMMA MatchedSame ==
  ASSUME PInv, MatchInv, NEW r \in Requests \ (Parts \cup {Creator}), Running(r), Others(r), IInv,
         Live' => Live /\ session'.parts = session.parts /\ files' = files
  PROVE  /\ Live' => Matched'
         /\ ListedInv'
         /\ CreatedInv'
<1>1. Live' => Matched'
  BY Zenon, PartsRest DEF Matched
<1>2. ListedInv'
  BY Zenon, ListedSame DEF MatchInv
<1>3. pc'[Creator] \in {"idle", "done"} /\ reply'[Creator] = "ok"
  BY Zenon, OthersRest, Kinds DEF PInv, IInv, EInv, CreatorInv, Running
<1>4. CreatedInv'
  BY Zenon, <1>3 DEF CreatedInv, Persisting
<1> QED
  BY Zenon, <1>1, <1>2, <1>4

LEMMA create_upload_PInv ==
  KeepsPromises(create_upload)
<1> SUFFICES ASSUME IInv, PInv, create_upload
             PROVE  PInv'
  BY Zenon DEF KeepsPromises
<1>1. /\ Creator \in Requests \ Parts /\ Creator \notin Aborts \cup Completes
      /\ UNCHANGED <<files, wanted, built, published, phase>>
      /\ Running(Creator)
  BY Zenon, Kinds DEF create_upload, create_parts_dir, insert_session, persist_session, persist_mkdir, persist_write,
     persist_rename, storage, locals, Running
<1>2. reply[Creator] # "ok"
  BY Zenon, <1>1 DEF PInv, TurnInv, Running
<1>3. TaskOf(Creator)'
  BY Zenon, <1>1 DEF TaskOf
<1>4. SUFFICES \E next : /\ To(Creator, next)
                         /\ next \notin {"idle", "done", "cancelled"}
                         /\ next = "write" => dir'
                         /\ next = "renameSession" => Creator \in sessionTmp'
                         /\ MatchInv => (Live' => Matched') /\ ListedInv' /\ CreatedInv'
  BY Zenon, <1>1, <1>3, OtherStep
<1>5. MatchInv => session = NoSession /\ files = NoParts
  BY Zenon, <1>2 DEF MatchInv, CreatedInv
<1>6. CASE create_parts_dir
  <2>1. PICK next \in {"mkdir", "err"} :
          /\ Step(Creator, next) /\ session' = session
          /\ next = "mkdir" => snapshot' = [snapshot EXCEPT ![Creator] = [state |-> "Open", parts |-> NoParts]]
    BY Zenon, <1>6 DEF create_parts_dir, Persist
  <2>2. To(Creator, next)
    BY Zenon, <1>1, <2>1, StepTo DEF PInv
  <2>3. next = "mkdir" => snapshot'[Creator] = [state |-> "Open", parts |-> NoParts]
    BY Zenon, <1>1, <2>1 DEF IInv, TInv, TypeOK
  <2>4. MatchInv => CreatedInv'
    BY Zenon, <1>1, <1>5, <2>1, <2>2, <2>3 DEF CreatedInv, To, Ending, Persisting
  <2>5. MatchInv => ListedInv'
    BY Zenon, <1>1, <2>1, <2>2, ListedSame DEF MatchInv, Live, To
  <2>6. MatchInv => ~Live'
    BY <1>5, <2>1 DEF Live, NoSession
  <2> QED
    BY Zenon, <2>1, <2>2, <2>4, <2>5, <2>6
<1>7. CASE insert_session
  <2>1. /\ pc[Creator] = "crInsert" /\ Step(Creator, "ok") /\ session' = snapshot[Creator]
    BY Zenon, <1>7 DEF insert_session
  <2>2. To(Creator, "ok")
    BY Zenon, <1>1, <2>1, StepTo DEF PInv
  <2>3. MatchInv => session' = [state |-> "Open", parts |-> NoParts]
    BY Zenon, <2>1 DEF MatchInv, CreatedInv
  <2>4. MatchInv => Matched' /\ ListedInv'
    BY <1>1, <1>5, <2>3, SentinelsDistinct DEF Matched, ListedInv, NoParts
  <2>5. CreatedInv'
    BY Zenon, <2>2 DEF CreatedInv, To, Ending, Persisting
  <2> QED
    BY Zenon, <2>2, <2>4, <2>5
<1>8. CASE persist_session(Creator)
  <2>1. /\ pc[Creator] \in Persisting
        /\ session' = session /\ snapshot' = snapshot
        /\ \/ To(Creator, "write") /\ dir'
           \/ To(Creator, "renameSession") /\ Creator \in sessionTmp'
           \/ To(Creator, Persisted(task[Creator]))
           \/ To(Creator, NotPersisted(task[Creator]))
    BY Zenon, <1>1, <1>8, persist_session_To DEF locals
  <2>2. /\ Persisted(task[Creator]) \in Outcomes \ Persisting
        /\ NotPersisted(task[Creator]) \in Outcomes \ Persisting
    BY <1>1, <2>1, PersistedOutcome DEF IInv, TInv, TypeOK, TaskInv
  <2>3. PICK next : /\ To(Creator, next)
                    /\ next \notin {"idle", "done", "cancelled"}
                    /\ next = "write" => dir'
                    /\ next = "renameSession" => Creator \in sessionTmp'
                    /\ next # "ok"
    <3>1. ASSUME NEW why \in Tasks \ {"none"}
          PROVE  {Persisted(why), NotPersisted(why)} \cap {"idle", "done", "cancelled", "ok"} = {}
      BY Zenon, <3>1 DEF Tasks, Persisted, NotPersisted
    <3>2. task[Creator] \in Tasks \ {"none"}
      BY Zenon, <1>1, <2>1 DEF IInv, TInv, TypeOK, TaskInv
    <3>3. {"write", "renameSession"} \cap {"idle", "done", "cancelled", "ok"} = {}
      BY Zenon
    <3> QED
      BY ZenonT(30), <2>1, <2>2, <3>1, <3>2, <3>3 DEF Persisting
  <2>4. MatchInv => CreatedInv'
    BY Zenon, <1>1, <1>5, <2>1, <2>3 DEF MatchInv, CreatedInv
  <2>5. MatchInv => ListedInv'
    BY Zenon, <1>1, <2>1, <2>3, ListedSame DEF MatchInv, Live, To
  <2>6. MatchInv => ~Live'
    BY <1>5, <2>1 DEF Live, NoSession
  <2> QED
    BY Zenon, <2>3, <2>4, <2>5, <2>6
<1> QED
  BY Zenon, <1>6, <1>7, <1>8 DEF create_upload

LEMMA abort_upload_PInv ==
  \A a \in Aborts : KeepsPromises(abort_upload(a))
<1> SUFFICES ASSUME NEW a \in Aborts, IInv, PInv, abort_upload(a)
             PROVE  PInv'
  BY Zenon DEF KeepsPromises
<1>1. /\ a \in Requests \ (Parts \cup {Creator}) /\ a \notin Completes
      /\ UNCHANGED <<wanted, built, published, phase>>
      /\ Running(a)
  BY Zenon, Kinds DEF abort_upload, insert_aborted, delete_storage, drop_aborted, persist_session, persist_mkdir,
     persist_write, persist_rename, storage, locals, Running
<1>2. SUFFICES \E next : /\ To(a, next)
                         /\ next \notin {"idle", "done", "cancelled"}
                         /\ next \in Persisting => TaskOf(a)'
                         /\ next = "write" => dir'
                         /\ next = "renameSession" => a \in sessionTmp'
                         /\ next = "abRmdir" => session'.state = "Aborted"
                         /\ next = "abRemove" => ~IsOpen(disk)'
                         /\ next = "ok" => ~IsOpen(session)' /\ OpenCosts(4)'
                         /\ Live' => Live /\ session'.parts = session.parts /\ files' = files
  <2>1. ASSUME NEW next, To(a, next)
        PROVE  Others(a) /\ (pc'[a] \in {"abRmdir", "abRemove"} => pc'[a] = next)
    BY Zenon, <2>1 DEF To
  <2> QED
    BY ZenonT(30), <1>1, <1>2, <2>1, OtherStep, MatchedSame DEF AbortOf
<1>3. CASE insert_aborted(a)
  <2>1. Step(a, "abRmdir") /\ session' = snapshot[a] /\ snapshot[a].state = "Aborted"
    BY Zenon, <1>3 DEF insert_aborted, IInv, EInv, AbortInv
  <2> QED
    BY Zenon, <1>1, <2>1, StepTo DEF PInv, Persisting, Live
<1>4. CASE delete_storage(a)
  <2>1. PICK next \in {"abRemove", "err"} : Step(a, next) /\ (next = "abRemove" => RemoveDir)
    BY Zenon, <1>4 DEF delete_storage
  <2>2. next = "abRemove" => ~IsOpen(disk)'
    BY Zenon, <2>1, NoSessionType DEF RemoveDir, IsOpen
  <2>3. session' = session /\ ~Live
    <3>1. session.state = "Aborted"
      BY Zenon, <1>4 DEF delete_storage, PInv, FinishInv, AbortOf
    <3> QED
      BY Zenon, <1>4, <3>1 DEF delete_storage, Live
  <2> QED
    BY Zenon, <1>1, <2>1, <2>2, <2>3, StepTo DEF PInv, Persisting, Live
<1>5. CASE drop_aborted(a)
  <2>1. pc[a] = "abRemove" /\ Step(a, "ok") /\ session' = NoSession /\ disk' = disk
    BY Zenon, <1>5 DEF drop_aborted, storage
  <2>2. ~IsOpen(disk)' /\ ~IsOpen(session)' /\ ~Live'
    BY Zenon, <2>1, NoSessionType DEF PInv, FinishInv, AbortOf, IsOpen, Live, NoSession
  <2> QED
    BY Zenon, <1>1, <2>1, <2>2, StepTo DEF PInv, Persisting, OpenCosts
<1>6. CASE persist_session(a)
  <2>1. /\ TaskOf(a) /\ UNCHANGED <<session, files, task>>
        /\ \/ To(a, "write") /\ dir'
           \/ To(a, "renameSession") /\ a \in sessionTmp'
           \/ To(a, Persisted(task[a]))
           \/ To(a, NotPersisted(task[a]))
    BY Zenon, <1>1, <1>6, persist_session_To DEF locals
  <2>2. Persisted(task[a]) = "abInsert" /\ NotPersisted(task[a]) = "err" /\ TaskOf(a)'
    BY Zenon, <2>1 DEF TaskOf, Persisted, NotPersisted
  <2>3. Live' => Live
    BY Zenon, <2>1 DEF Live
  <2>4. PICK next \in {"write", "renameSession", "abInsert", "err"} :
          To(a, next) /\ (next = "write" => dir') /\ (next = "renameSession" => a \in sessionTmp')
    BY Zenon, <2>1, <2>2
  <2> QED
    BY Zenon, <2>1, <2>2, <2>3, <2>4
<1> QED
  BY Zenon, <1>3, <1>4, <1>5, <1>6 DEF abort_upload

LEMMA CompleteStep ==
  ASSUME IInv, PInv, NEW c \in Completes, NEW next, Running(c), To(c, next),
         next \notin {"idle", "done", "cancelled"},
         next \in Persisting => TaskOf(c)',
         next = "write" => dir',
         next = "renameSession" => c \in sessionTmp',
         FinishOf(c)',
         next = "ok" => ~IsOpen(session)' /\ OpenCosts(4)',
         \A d \in Completes \ {c} :
           built'[d] = built[d] /\ wanted'[d] = wanted[d] /\ (d \in published' => d \in published),
         Live' => Live /\ session'.parts = session.parts /\ files' = files,
         ~MayCrash /\ MatchInv /\ BytesOf(c) => BytesOf(c)'
  PROVE  PInv'
<1>1. c \in Requests \ (Parts \cup {Creator}) /\ c \notin Aborts /\ Others(c)
  BY ZenonT(30), Kinds DEF To
<1> QED
  BY ZenonT(30), <1>1, OtherStep, MatchedSame

(* c has begun, and what it does not touch.                                *)
LEMMA CompleteTurn ==
  ASSUME IInv, PInv, NEW c \in Completes, Running(c), NEW next, Step(c, next)
  PROVE  /\ c \in Requests
         /\ To(c, next)
         /\ FinishOf(c)
         /\ failures \in Nat
         /\ reply[c] # "ok"
         /\ pc'[c] = IF next \in Ending THEN "done" ELSE next
<1>1. c \in Requests
  BY Zenon, Kinds
<1> QED
  BY <1>1, StepTo DEF PInv, FinishInv, To, TurnInv, Running, IInv, TInv, TypeOK

LEMMA begin_completion_PInv ==
  \A c \in Completes : KeepsPromises(begin_completion(c))
<1> SUFFICES ASSUME NEW c \in Completes, IInv, PInv, begin_completion(c)
             PROVE  PInv'
  BY Zenon DEF KeepsPromises
<1>1. /\ pc[c] = "begin" /\ Running(c)
      /\ UNCHANGED <<files, wanted, built, published>>
  BY Zenon DEF begin_completion, storage, Running
<1>2. CASE IsOpen(session) /\ session' = [session EXCEPT !.state = "Completing"] /\ Persist(c, session', "completing")
  <2>1. To(c, "mkdir") /\ c \in Requests /\ pc'[c] = "mkdir"
    BY Zenon, <1>1, <1>2, CompleteTurn DEF Persist, Ending
  <2>2. snapshot'[c] = session' /\ task'[c] = "completing"
    BY Zenon, <1>2, <2>1 DEF Persist, IInv, TInv, TypeOK
  <2>3. session'.state = "Completing" /\ session'.parts = session.parts /\ Live
    BY ZenonT(30), <1>2, OpenExists DEF IInv, TInv, TypeOK, Session, PartMap, Live, IsOpen
  <2>4. FinishOf(c)'
    BY Zenon, <2>1, <2>2, <2>3 DEF FinishOf, Marks, Persisting
  <2>5. BytesOf(c) => BytesOf(c)'
    BY Zenon, <1>1, <2>1, <2>2 DEF BytesOf, Marks, Persisting
  <2>6. TaskOf(c)'
    BY Zenon, <2>2, Kinds DEF TaskOf
  <2> QED
    BY ZenonT(30), <1>1, <2>1, <2>3, <2>4, <2>5, <2>6, CompleteStep DEF Persisting
<1>3. CASE Step(c, "err") /\ UNCHANGED <<session, snapshot, task>>
  <2>1. To(c, "err") /\ pc'[c] = "done"
    BY Zenon, <1>1, <1>3, CompleteTurn DEF Ending
  <2>2. FinishOf(c)'
    BY Zenon, <2>1 DEF FinishOf, Marks, Persisting
  <2>3. BytesOf(c) => BytesOf(c)'
    BY Zenon, <1>1, <2>1 DEF BytesOf, Marks, Persisting
  <2> QED
    BY Zenon, <1>1, <1>3, <2>1, <2>2, <2>3, CompleteStep DEF Persisting, Live
<1> QED
  BY Zenon, <1>2, <1>3 DEF begin_completion

LEMMA persist_complete_PInv ==
  \A c \in Completes : KeepsPromises(persist_session(c))
<1> SUFFICES ASSUME NEW c \in Completes, IInv, PInv, persist_session(c)
             PROVE  PInv'
  BY ZenonT(30) DEF KeepsPromises
<1>1. /\ c \in Requests /\ pc[c] \in Persisting /\ Running(c) /\ failures \in Nat
      /\ UNCHANGED <<session, files, snapshot, task, wanted, built, published>>
      /\ task[c] \in {"completing", "completed", "reopen"}
      /\ FinishOf(c)
  BY persist_session_To, Kinds DEF TaskOf, locals, PInv, FinishInv, IInv, TInv, TypeOK
<1>2. PICK next : /\ To(c, next)
                  /\ next = "write" => dir'
                  /\ next = "renameSession" => c \in sessionTmp'
                  /\ \/ next \in {"write", "renameSession"} /\ UNCHANGED <<disk, failures>>
                     \/ /\ next = Persisted(task[c])
                        /\ \/ disk' = snapshot[c] /\ UNCHANGED failures
                           \/ disk' = disk /\ failures' = failures + 1
  <2>1. NotPersisted(task[c]) = Persisted(task[c]) /\ Persisted(task[c]) \notin {"write", "renameSession"}
    BY Zenon, <1>1 DEF Persisted, NotPersisted
  <2> QED
    BY Zenon, <1>1, <2>1, persist_session_To
<1>3. /\ task[c] = "completing" => Persisted(task[c]) = "validate"
      /\ task[c] = "completed" => Persisted(task[c]) = "rmSession"
      /\ task[c] = "reopen" => Persisted(task[c]) = "err"
  BY Zenon DEF Persisted
<1>4. pc'[c] = IF next \in Ending THEN "done" ELSE next
  BY Zenon, <1>2 DEF To
<1>5. next \notin {"idle", "done", "cancelled", "ok"} /\ TaskOf(c)'
  BY Zenon, <1>1, <1>2, <1>3, Kinds DEF TaskOf
<1>6. FinishOf(c)'
  <2>1. CASE next \in {"write", "renameSession"}
    BY <1>1, <1>2, <1>4, <2>1 DEF FinishOf, Marks, OpenCosts, IsOpen, Ending, Persisting
  <2>2. CASE next = "validate"
    BY <1>1, <1>2, <1>3, <1>4, <2>2 DEF FinishOf, Marks, OpenCosts, IsOpen, Ending, Persisting
  <2>3. CASE next = "rmSession"
    BY <1>1, <1>2, <1>3, <1>4, <2>3 DEF FinishOf, Marks, OpenCosts, IsOpen, Ending, Persisting
  <2>4. CASE next = "err"
    BY Zenon, <1>4, <2>4 DEF FinishOf, Marks, Ending, Persisting
  <2> QED
    BY ZenonT(30), <1>1, <1>2, <1>3, <2>1, <2>2, <2>3, <2>4
<1>7. BytesOf(c) => BytesOf(c)'
  BY Zenon, <1>1, <1>2, <1>3, <1>4 DEF BytesOf, Marks, Ending, Persisting
<1> QED
  BY Zenon, <1>1, <1>2, <1>5, <1>6, <1>7, CompleteStep DEF Live

LEMMA validate_parts_PInv ==
  \A c \in Completes : KeepsPromises(validate_parts(c))
<1> SUFFICES ASSUME NEW c \in Completes, IInv, PInv, validate_parts(c)
             PROVE  PInv'
  BY Zenon DEF KeepsPromises
<1>1. /\ pc[c] = "validate" /\ Running(c)
      /\ UNCHANGED <<session, disk, files, failures, snapshot, task, wanted, built, published>>
  BY Zenon DEF validate_parts, storage, locals, Running
<1>2. PICK next \in {"copy", "restore"} :
        Step(c, next) /\ (next = "copy" => \A n \in Requested(c) : snapshot[c].parts[n] = wanted[c][n])
  BY Zenon DEF validate_parts
<1>3. To(c, next) /\ FinishOf(c) /\ pc'[c] = next
  BY Zenon, <1>1, <1>2, CompleteTurn DEF Ending
<1>4. FinishOf(c)'
  BY Zenon, <1>1, <1>3 DEF FinishOf, Marks, OpenCosts, IsOpen, Persisting
<1>5. BytesOf(c) => BytesOf(c)'
  <2>1. \A n \in Numbers : NoParts[n] = Nil
    BY Zenon DEF NoParts
  <2> QED
    BY Zenon, <1>1, <1>2, <1>3, <2>1 DEF BytesOf, Marks, Persisting, Requested
<1> QED
  BY Zenon, <1>1, <1>3, <1>4, <1>5, CompleteStep DEF Persisting, Live

LEMMA copy_part_PInv ==
  \A c \in Completes : KeepsPromises(copy_part(c))
<1> SUFFICES ASSUME NEW c \in Completes, IInv, PInv, copy_part(c)
             PROVE  PInv'
  BY Zenon DEF KeepsPromises
<1>1. /\ pc[c] = "copy" /\ Running(c)
      /\ UNCHANGED <<session, disk, files, snapshot, task, wanted, published>>
  BY Zenon DEF copy_part, storage, Running
<1>2. PICK n \in Requested(c), next \in {"copy", "commit", "restore"} :
        /\ Step(c, next)
        /\ built[c][n] = Nil
        /\ \A m \in Requested(c) : m < n => built[c][m] # Nil
        /\ \/ next = "restore" /\ UNCHANGED built
           \/ /\ files[n] # Nil /\ built' = [built EXCEPT ![c][n] = files[n]]
              /\ next \in {"copy", "commit"}
              /\ next = "commit" => ~\E m \in Requested(c) : m > n
        /\ failures' \in {failures, failures + 1}
  BY Zenon DEF copy_part, Succeeds, Fails, FailsUnless
<1>3. To(c, next) /\ FinishOf(c) /\ failures \in Nat /\ pc'[c] = next
  BY ZenonT(30), <1>1, <1>2, CompleteTurn DEF Ending
<1>4. FinishOf(c)'
  BY <1>1, <1>2, <1>3 DEF FinishOf, Marks, OpenCosts, IsOpen, Persisting
<1>5. \A d \in Completes \ {c} : built'[d] = built[d]
  BY Zenon, <1>2 DEF IInv, TInv, TypeOK
<1>6. ASSUME ~MayCrash, MatchInv, BytesOf(c) PROVE BytesOf(c)'
  <2>1. c \notin published
    BY Zenon, <1>1, <1>6 DEF BytesOf
  <2>2. CASE next = "restore"
    BY ZenonT(30), <1>1, <1>3, <2>1, <2>2 DEF BytesOf, Marks, Persisting
  <2>3. CASE next # "restore"
    <3>1. n \in Numbers /\ wanted[c] \in PartMap /\ built[c] \in PartMap /\ built'[c] \in PartMap
      <4>1. n \in Numbers /\ wanted[c] \in PartMap /\ built[c] \in PartMap /\ files[n] \in Parts \cup {Nil}
        BY Zenon DEF Requested, IInv, TInv, TypeOK
      <4>2. built'[c] = [built[c] EXCEPT ![n] = files[n]]
        BY Zenon, <1>2, <2>3 DEF IInv, TInv, TypeOK
      <4> QED
        BY Zenon, <4>1, <4>2 DEF PartMap
    <3>2. files[n] = wanted[c][n]
      BY ZenonT(30), <1>1, <1>3, <1>6, <3>1, Kinds, PartsRest DEF FinishOf, Live, Matched, BytesOf
    <3>3. built'[c][n] = wanted[c][n] /\ \A m \in Numbers \ {n} : built'[c][m] = built[c][m]
      BY <1>2, <2>3, <3>1, <3>2 DEF IInv, TInv, TypeOK, PartMap
    <3>4. /\ \A m \in Requested(c) : session.parts[m] = wanted[c][m]
          /\ \A m \in Numbers : built[c][m] \in {Nil, wanted[c][m]}
          /\ \A l, m \in Requested(c) : l < m /\ built[c][m] # Nil => built[c][l] # Nil
      BY Zenon, <1>1, <1>6 DEF BytesOf
    <3>5. \A m \in Numbers : built'[c][m] \in {Nil, wanted[c][m]}
      BY Zenon, <3>3, <3>4
    <3>6. Requested(c) \subseteq Nat /\ Requested(c) \subseteq Numbers
      BY Zenon, NumbersOrdered DEF Requested
    <3>7. \A l, m \in Requested(c) : l < m /\ built'[c][m] # Nil => built'[c][l] # Nil
      <4>1. wanted[c][n] # Nil
        BY Zenon, <1>2 DEF Requested
      <4> QED
        BY ZenonT(30), <1>2, <3>3, <3>4, <3>6, <4>1
    <3>8. ASSUME next = "commit" PROVE built'[c] = wanted[c]
      <4>1. \A m \in Requested(c) : m = n \/ m < n
        BY <1>2, <2>3, <3>6, <3>8
      <4>2. \A m \in Numbers : built'[c][m] = wanted[c][m]
        BY <1>2, <3>3, <3>5, <4>1 DEF Requested
      <4> QED
        BY <3>1, <4>2 DEF PartMap
    <3>9. Requested(c)' = Requested(c)
      BY Zenon, <1>1 DEF Requested
    <3> QED
      BY ZenonT(30), <1>1, <1>2, <1>3, <2>1, <2>3, <3>4, <3>5, <3>7, <3>8, <3>9 DEF BytesOf, Marks, Persisting
  <2> QED
    BY Zenon, <2>2, <2>3
<1> QED
  BY Zenon, <1>1, <1>3, <1>4, <1>5, <1>6, CompleteStep DEF Persisting, Live

LEMMA commit_object_PInv ==
  \A c \in Completes : KeepsPromises(commit_object(c))
<1> SUFFICES ASSUME NEW c \in Completes, IInv, PInv, commit_object(c)
             PROVE  PInv'
  BY Zenon DEF KeepsPromises
<1>1. /\ pc[c] = "commit" /\ Running(c)
      /\ UNCHANGED <<session, disk, files, snapshot, task, wanted, built>>
  BY Zenon DEF commit_object, storage, locals, Running
<1>2. PICK next \in {"mark", "restore"} :
        /\ Step(c, next)
        /\ published' \in {published, published \cup {c}}
        /\ failures' \in {failures, failures + 1}
  BY Zenon DEF commit_object, Succeeds, Fails
<1>3. To(c, next) /\ FinishOf(c) /\ failures \in Nat /\ pc'[c] = next
  BY ZenonT(30), <1>1, <1>2, CompleteTurn DEF Ending
<1>4. FinishOf(c)'
  BY <1>1, <1>2, <1>3 DEF FinishOf, Marks, OpenCosts, IsOpen, Persisting
<1>5. BytesOf(c) => BytesOf(c)'
  BY Zenon, <1>1, <1>3 DEF BytesOf, Marks, Persisting
<1>6. \A d \in Completes \ {c} : d \in published' => d \in published
  BY Zenon, <1>2
<1> QED
  BY Zenon, <1>1, <1>3, <1>4, <1>5, <1>6, CompleteStep DEF Persisting, Live

(* mark_upload_state, both ways.                                           *)
LEMMA mark_PInv ==
  \A c \in Completes : KeepsPromises(mark_completed(c) \/ restore_open_upload(c))
<1> SUFFICES ASSUME NEW c \in Completes, IInv, PInv, mark_completed(c) \/ restore_open_upload(c)
             PROVE  PInv'
  BY Zenon DEF KeepsPromises
<1>1. /\ pc[c] \in {"mark", "restore"} /\ Running(c)
      /\ UNCHANGED <<disk, files, failures, wanted, built, published>>
  BY Zenon DEF mark_completed, restore_open_upload, storage, Running
<1>2. FinishOf(c)
  BY ZenonT(30) DEF PInv, FinishInv
<1>3. session # NoSession /\ session.state = "Completing"
  BY <1>1, <1>2 DEF FinishOf, NoSession
<1>4. PICK why \in {"completed", "reopen"} :
        /\ why = "completed" <=> pc[c] = "mark"
        /\ session' = [session EXCEPT !.state = IF why = "completed" THEN "Completed" ELSE "Open"]
        /\ Persist(c, session', why)
  BY Zenon, <1>3 DEF mark_completed, restore_open_upload
<1>5. To(c, "mkdir") /\ c \in Requests /\ pc'[c] = "mkdir"
  BY Zenon, <1>1, <1>4, CompleteTurn DEF Persist, Ending
<1>6. snapshot'[c] = session' /\ task'[c] = why
  BY ZenonT(30), <1>4, <1>5 DEF Persist, IInv, TInv, TypeOK
<1>7. /\ session'.state = IF why = "completed" THEN "Completed" ELSE "Open"
      /\ session'.parts = session.parts /\ Live
  BY Zenon, <1>3, <1>4 DEF IInv, TInv, TypeOK, Session, PartMap, Live
<1>8. FinishOf(c)'
  BY ZenonT(30), <1>1, <1>2, <1>4, <1>5, <1>6, <1>7 DEF FinishOf, Marks, OpenCosts, IsOpen, Persisting
<1>9. BytesOf(c) => BytesOf(c)'
  BY Zenon, <1>1, <1>5, <1>6 DEF BytesOf, Marks, Persisting
<1>10. TaskOf(c)'
  BY Zenon, <1>6, Kinds DEF TaskOf
<1> QED
  BY ZenonT(30), <1>1, <1>5, <1>7, <1>8, <1>9, <1>10, CompleteStep DEF Persisting

LEMMA removing_PInv ==
  \A c \in Completes : KeepsPromises(remove_session_file(c) \/ forget_session(c))
<1> SUFFICES ASSUME NEW c \in Completes, IInv, PInv, remove_session_file(c) \/ forget_session(c)
             PROVE  PInv'
  BY Zenon DEF KeepsPromises
<1>1. /\ pc[c] \in {"rmSession", "forget"} /\ Running(c)
      /\ UNCHANGED <<files, wanted, built, published>>
  BY Zenon DEF remove_session_file, forget_session, storage, locals, Running
<1>2. PICK next \in {"forget", "rmDir"} :
        /\ Step(c, next)
        /\ next = "forget" => /\ pc[c] = "rmSession" /\ UNCHANGED session
                              /\ \/ disk' = NoSession /\ UNCHANGED failures
                                 \/ disk' = disk /\ failures' = failures + 1
        /\ next = "rmDir" => pc[c] = "forget" /\ session' = NoSession /\ UNCHANGED <<disk, failures>>
  BY Zenon DEF remove_session_file, forget_session, storage, Succeeds, Fails
<1>3. To(c, next) /\ FinishOf(c) /\ failures \in Nat /\ pc'[c] = next
  BY ZenonT(30), <1>1, <1>2, CompleteTurn DEF Ending
<1>4. FinishOf(c)'
  BY <1>1, <1>2, <1>3, NoSessionType DEF FinishOf, Marks, OpenCosts, IsOpen, Persisting
<1>5. BytesOf(c) => BytesOf(c)'
  BY Zenon, <1>1, <1>3 DEF BytesOf, Marks, Persisting
<1>6. Live' => Live /\ session' = session
  BY <1>2 DEF Live, NoSession
<1> QED
  BY ZenonT(30), <1>1, <1>3, <1>4, <1>5, <1>6, CompleteStep DEF Persisting

LEMMA remove_upload_dir_PInv ==
  \A c \in Completes : KeepsPromises(remove_upload_dir(c))
<1> SUFFICES ASSUME NEW c \in Completes, IInv, PInv, remove_upload_dir(c)
             PROVE  PInv'
  BY Zenon DEF KeepsPromises
<1>1. /\ pc[c] = "rmDir" /\ Running(c)
      /\ UNCHANGED <<session, wanted, built, published>>
      /\ Step(c, "ok")
  BY Zenon DEF remove_upload_dir, locals, Running
<1>2. To(c, "ok") /\ FinishOf(c) /\ failures \in Nat /\ pc'[c] = "done" /\ c \in Requests
  BY Zenon, <1>1, CompleteTurn DEF Ending
<1>3. session = NoSession /\ OpenCosts(3)
  BY Zenon, <1>1, <1>2 DEF FinishOf
<1>4. ~OthersWrite(c)
  <2>1. \A s \in Requests \ {c} : pc[s] \in {"idle", "done"}
    BY Zenon, <1>1, <1>2 DEF PInv, TurnInv, Running
  <2> QED
    BY Zenon, <2>1 DEF OthersWrite, CallSteps
<1>5. disk' = NoSession \/ (disk' \in {disk, NoSession} /\ failures' = failures + 1)
  BY Zenon, <1>4 DEF remove_upload_dir, RemoveDir, RemoveDirFails, Fails
<1>6. OpenCosts(4)' /\ ~IsOpen(session)' /\ ~Live'
  BY <1>1, <1>2, <1>3, <1>5, NoSessionType DEF OpenCosts, IsOpen, Live, NoSession
<1>7. FinishOf(c)'
  BY Zenon, <1>2 DEF FinishOf, Marks, Persisting
<1>8. BytesOf(c) => BytesOf(c)'
  BY Zenon, <1>1, <1>2 DEF BytesOf, Marks, Persisting
<1> QED
  BY Zenon, <1>1, <1>2, <1>6, <1>7, <1>8, CompleteStep DEF Persisting

LEMMA complete_upload_PInv ==
  \A c \in Completes : KeepsPromises(complete_upload(c))
<1> SUFFICES ASSUME NEW c \in Completes, IInv, PInv, complete_upload(c)
             PROVE  PInv'
  BY Zenon DEF KeepsPromises
<1> QED
  BY ZenonT(30), begin_completion_PInv, persist_complete_PInv, validate_parts_PInv, copy_part_PInv, commit_object_PInv, mark_PInv,
   removing_PInv, remove_upload_dir_PInv DEF complete_upload, KeepsPromises

-----------------------------------------------------------------------------
(* Requests arrive when nothing runs; crash and startup.                   *)

LEMMA Begin_PInv ==
  ASSUME TakeTurns PROVE \A r \in Requests : KeepsPromises(Begin(r))
<1> SUFFICES ASSUME NEW r \in Requests, IInv, PInv, Begin(r)
             PROVE  PInv'
  BY Zenon DEF KeepsPromises
<1>1. /\ pc[r] = "idle" /\ phase = "serving"
      /\ r # Creator => reply[Creator] = "ok"
      /\ \A q \in Requests : pc[q] \in {"idle", "done"}
      /\ UNCHANGED <<session, storage, previous, built, published, phase, failures>>
  BY Zenon DEF Begin, BeginCreate, BeginPart, BeginAbort, BeginComplete, Arrives, TakeTurns, InFlight, Running, Cancelled,
     PInv, TurnInv
<1>2. PICK next \in {"crMkdir", "mkTmpDir", "mkdir", "begin", "err"} :
        /\ Step(r, next)
        /\ next = "crMkdir" => r = Creator
        /\ next = "mkTmpDir" => r \in Parts
        /\ next = "mkdir" => r \in Aborts /\ task' = [task EXCEPT ![r] = "abort"]
        /\ next = "begin" => r \in Completes
        /\ r # Creator => next = "err" \/ IsOpen(session)
        /\ next = "err" => r # Creator
  BY Zenon, Kinds DEF Begin, BeginCreate, BeginPart, BeginAbort, BeginComplete, Refuse, Persist
<1>3. pc'[r] = (IF next = "err" THEN "done" ELSE next) /\ reply'[r] = (IF next = "err" THEN "err" ELSE reply[r]) /\ Others(r)
  BY Zenon, <1>2, StepTo DEF To, Ending, PInv
<1>4. \A q \in Requests \ {r} : pc'[q] = pc[q] /\ reply'[q] = reply[q] /\ pc[q] \in {"idle", "done"}
  BY ZenonT(30), <1>1, <1>3 DEF Others
<1>5. \A c \in Completes \ {r} : wanted'[c] = wanted[c]
  BY Zenon DEF Begin, BeginCreate, BeginPart, BeginAbort, BeginComplete, Refuse, IInv, TInv, TypeOK
<1>6. reply[r] \notin {"ok", "err", "cancelled"}
  BY Zenon, <1>1 DEF PInv, TurnInv
<1>7. TurnInv'
  <2>1. next = "mkdir" => TaskOf(r)'
    BY Zenon, <1>2, Kinds DEF TaskOf, IInv, TInv, TypeOK
  <2>2. \A q \in Requests : Running(q)' => q = r
    BY Zenon, <1>4 DEF Running
  <2> QED
    BY ZenonT(30), <1>3, <1>4, <1>6, <2>1, <2>2 DEF PInv, TurnInv, Persisting
<1>8. Finished' => Finished
  BY Zenon, <1>3, <1>4, <1>6, Kinds DEF Finished
<1>9. FinishInv'
  <2>1. ~IsOpen(session) /\ r # Creator => Quiet'
    BY Zenon, <1>2, <1>3, <1>4 DEF Quiet, Running
  <2>2. Finished => r # Creator
    <3>1. ASSUME Finished, r = Creator PROVE FALSE
      <4>1. PICK q \in Aborts \cup Completes : reply[q] = "ok"
        BY Zenon, <3>1 DEF Finished
      <4>2. q \in Requests \ {Creator} /\ pc[q] = "done"
        BY Zenon, <4>1, Kinds DEF PInv, TurnInv
      <4>3. reply[Creator] = "ok"
        BY Zenon, <4>2 DEF IInv, EInv, CreatorInv
      <4> QED
        BY Zenon, <1>1, <3>1, <4>3 DEF IInv, EInv, CreatorInv
    <3> QED
      BY Zenon, <3>1
  <2>3. \A c \in Completes : FinishOf(c)'
    BY ZenonT(30), <1>2, <1>3, <1>4, Kinds DEF FinishOf, Marks, Persisting
  <2>4. \A a \in Aborts : AbortOf(a)'
    BY Zenon, <1>2, <1>3, <1>4, Kinds DEF AbortOf
  <2> QED
    BY ZenonT(30), <1>1, <1>8, <2>1, <2>2, <2>3, <2>4 DEF PInv, FinishInv, OpenCosts, IsOpen, storage
<1>10. DurableInv'
  <2>1. Unfinished' => Unfinished
    BY Zenon, <1>3, <1>4, Kinds, <1>1 DEF Unfinished, Begun
  <2>2. \A w \in Parts : Alone(w)' => Alone(w)
    BY Zenon, <1>1, <1>4, Kinds DEF Alone, Begun
  <2>3. \A w \in Parts : Stored(w) => Stored(w)'
    BY Zenon, <1>1 DEF Stored, Has, Lists, IsOpen, storage
  <2>4. \A w \in Parts : pc'[w] \notin Persisting \cup {"insert", "rmBackup"} /\ (reply'[w] = "ok" => reply[w] = "ok")
    BY Zenon, <1>2, <1>3, <1>4, Kinds DEF Persisting
  <2> QED
    BY Zenon, <2>1, <2>2, <2>3, <2>4 DEF PInv, DurableInv, DurableOf
<1>11. MatchInv => MatchInv'
  <2>1. \A w \in Parts : pc'[w] \notin Busy \cup Publishing \cup Unmatched /\ (reply[w] = "ok" => reply'[w] = "ok")
    BY ZenonT(30), <1>2, <1>3, <1>4, <1>6, Kinds DEF Busy, Publishing, Unmatched, RollBack, Persisting
  <2>2. \A w \in Parts : MatchOf(w)'
    BY Zenon, <2>1 DEF MatchOf, Busy, Unmatched, Publishing, RollBack
  <2>3. \A w \in Parts : pc[w] \notin Unmatched \cup Busy
    BY Zenon, <1>1, Kinds DEF Unmatched, Busy, RollBack, Persisting
  <2>4. MatchInv => (Live' => Matched')
    BY ZenonT(30), <1>1, <2>3 DEF MatchInv, Live, Matched, storage
  <2>5. MatchInv => ListedInv'
    BY <1>1, <2>1, <2>3 DEF MatchInv, ListedInv, Live, Busy
  <2>6. MatchInv => CreatedInv'
    BY ZenonT(30), <1>1, <1>2, <1>3, <1>4, Kinds DEF MatchInv, CreatedInv, storage, Persisting
  <2> QED
    BY Zenon, <2>2, <2>4, <2>5, <2>6 DEF MatchInv
<1>12. ASSUME ~MayCrash, \A c \in Completes : BytesOf(c) PROVE \A c \in Completes : BytesOf(c)'
  <2>1. ASSUME NEW c \in Completes \ {r} PROVE BytesOf(c)'
    <3>1. pc'[c] = pc[c] /\ pc[c] \in {"idle", "done"} /\ wanted'[c] = wanted[c] /\ BytesOf(c)
      BY ZenonT(30), <1>4, <1>5, <1>12, <2>1, Kinds
    <3> QED
      BY Zenon, <1>1, <3>1 DEF BytesOf, Marks, Persisting
  <2>2. ASSUME r \in Completes PROVE BytesOf(r)'
    <3>1. next \in {"begin", "err"} /\ BytesOf(r)
      BY ZenonT(30), <1>2, <1>12, <2>2, Kinds
    <3>2. r \notin published
      BY Zenon, <1>1, <3>1 DEF BytesOf
    <3> QED
      BY Zenon, <1>1, <1>3, <3>1, <3>2 DEF BytesOf, Marks, Persisting
  <2> QED
    BY Zenon, <2>1, <2>2
<1> QED
  BY Zenon, <1>7, <1>9, <1>10, <1>11, <1>12 DEF PInv, SerialInv

LEMMA Startup_PInv ==
  KeepsPromises(Crash \/ load_sessions \/ cleanup_stale_temp_files)
<1> SUFFICES ASSUME IInv, PInv, Crash \/ load_sessions \/ cleanup_stale_temp_files
             PROVE  PInv'
  BY Zenon DEF KeepsPromises
<1>1. /\ MayCrash
      /\ UNCHANGED <<published, reply>>
      /\ \A q \in Requests : pc'[q] \in {"idle", "done"} /\ (pc'[q] = "idle" <=> pc[q] = "idle")
      /\ \A q \in Requests : pc[q] = "done" => pc'[q] = "done"
  <2>1. MayCrash
    BY Zenon DEF IInv, EInv, CommittedInv, Crash, load_sessions, cleanup_stale_temp_files
  <2>2. CASE Crash
    BY ZenonT(30), <2>1, <2>2 DEF Crash, Running, IInv, TInv, TypeOK
  <2>3. CASE load_sessions \/ cleanup_stale_temp_files
    BY Zenon, <2>1, <2>3 DEF load_sessions, cleanup_stale_temp_files, IInv, EInv, StartupInv, Running
  <2> QED
    BY ZenonT(30), <2>2, <2>3
<1>2. TurnInv'
  BY ZenonT(30), <1>1 DEF PInv, TurnInv, Running, Persisting
<1>3. /\ session' \in {session, NoSession, disk}
      /\ disk' \in {disk, NoSession}
      /\ failures' \in {failures, failures + 1}
      /\ failures \in Nat /\ failures <= MaxFailures /\ MaxFailures \in Nat
  BY ParameterTypes DEF Crash, load_sessions, cleanup_stale_temp_files, storage, RemoveDir, RemoveDirFails, Succeeds, Fails,
     IInv, TInv, TypeOK
<1>4. session' \in {session, NoSession} \/ (IsOpen(disk) /\ session' = disk)
  BY Zenon DEF Crash, load_sessions, cleanup_stale_temp_files
<1>5. FinishInv'
  <2>1. \A c \in Completes : FinishOf(c)'
    BY ZenonT(30), <1>1, Kinds DEF FinishOf, Marks, Persisting
  <2>2. \A a \in Aborts : AbortOf(a)'
    BY Zenon, <1>1, Kinds DEF AbortOf
  <2>3. Quiet' /\ (Finished' => Finished)
    BY Zenon, <1>1 DEF Quiet, Running, Finished
  <2>4. Finished /\ MaxFailures <= 3 => OpenCosts(4)' /\ ~IsOpen(session)'
    BY <1>3, <1>4, NoSessionType DEF PInv, FinishInv, OpenCosts, IsOpen
  <2> QED
    BY Zenon, <2>1, <2>2, <2>3, <2>4 DEF FinishInv
<1>6. DurableInv'
  <2>1. (Unfinished' => Unfinished) /\ \A w \in Parts : Alone(w)' => Alone(w)
    BY Zenon, <1>1, Kinds DEF Unfinished, Alone, Begun
  <2>2. ASSUME ~MayExpire, NEW w \in Parts, Stored(w) PROVE Stored(w)'
    <3>1. CASE Crash
      BY Zenon, <2>2, <3>1 DEF Crash, Stored, Has, Lists, IsOpen, storage
    <3>2. CASE load_sessions
      <4>1. IsOpen(disk) /\ disk # NoSession
        BY Zenon, <2>2, NoSessionType DEF Stored, Has
      <4>2. session' = disk /\ UNCHANGED storage
        BY Zenon, <2>2, <3>2, <4>1 DEF load_sessions
      <4> QED
        BY Zenon, <2>2, <4>2 DEF Stored, Has, Lists, IsOpen, storage
    <3>3. CASE cleanup_stale_temp_files
      BY Zenon, <2>2, <3>3 DEF cleanup_stale_temp_files, Stored, Has, Lists, IsOpen
    <3> QED
      BY Zenon, <3>1, <3>2, <3>3
  <2>3. \A w \in Parts : pc'[w] \notin Persisting \cup {"insert", "rmBackup"} /\ reply'[w] = reply[w]
    BY Zenon, <1>1, Kinds DEF Persisting
  <2> QED
    BY Zenon, <2>1, <2>2, <2>3 DEF PInv, DurableInv, DurableOf
<1> QED
  BY Zenon, <1>1, <1>2, <1>5, <1>6 DEF PInv, SerialInv

-----------------------------------------------------------------------------
LEMMA InitPInv == Init => PInv
<1> SUFFICES ASSUME Init PROVE PInv
  BY Zenon
<1>1. \A r \in Requests : pc[r] = "idle" /\ reply[r] = "none"
  BY Zenon DEF Init
<1>2. TurnInv
  BY Zenon, <1>1 DEF TurnInv, Running, Persisting
<1>3. FinishInv
  BY Zenon, <1>1, Kinds DEF FinishInv, FinishOf, Marks, AbortOf, Finished, Persisting
<1>4. DurableInv
  BY Zenon, <1>1, Kinds DEF DurableInv, DurableOf, Persisting
<1>5. MatchInv
  <2>1. \A w \in Parts : MatchOf(w)
    BY ZenonT(30), <1>1, Kinds DEF MatchOf, Publishing, RollBack, Unmatched, Persisting
  <2>2. ~Live /\ CreatedInv
    BY Zenon, <1>1, Kinds DEF Init, Live, NoSession, CreatedInv, Persisting
  <2> QED
    BY Zenon, <2>1, <2>2 DEF MatchInv, ListedInv
<1>6. \A c \in Completes : BytesOf(c)
  BY Zenon, <1>1, Kinds DEF Init, BytesOf, Marks, Persisting
<1> QED
  BY Zenon, <1>2, <1>3, <1>4, <1>5, <1>6 DEF PInv, SerialInv

LEMMA NextPInv ==
  ASSUME TakeTurns
  PROVE  IInv /\ PInv /\ [Next]_vars => PInv'
<1> SUFFICES ASSUME IInv, PInv, [Next]_vars PROVE PInv'
  BY Zenon
<1>1. CASE UNCHANGED vars
  <2>0. /\ session' = session /\ disk' = disk /\ dir' = dir /\ files' = files /\ tmp' = tmp
        /\ sessionTmp' = sessionTmp /\ previous' = previous /\ snapshot' = snapshot /\ task' = task
        /\ wanted' = wanted /\ built' = built /\ published' = published /\ pc' = pc
        /\ reply' = reply /\ phase' = phase /\ failures' = failures
    BY <1>1 DEF vars, storage, locals
  <2>1. TurnInv'
    BY ZenonT(30), <2>0 DEF PInv, TurnInv, Running, Finished, Quiet, TaskOf, IsOpen
  <2>2. FinishInv'
    BY ZenonT(30), <2>0 DEF PInv, FinishInv, FinishOf, AbortOf, Marks, OpenCosts, IsOpen, TaskOf,
       Running, Finished, Quiet
  <2>3. DurableInv'
    BY ZenonT(60), <2>0 DEF PInv, DurableInv, DurableOf, Stored, Has, Lists, IsOpen, Unfinished,
       Alone, Begun
  <2>4. MatchInv => MatchInv'
    <3>1. ASSUME NEW w \in Parts, MatchOf(w) PROVE MatchOf(w)'
      BY ZenonT(30), <2>0, <3>1 DEF MatchOf, IsOpen
    <3>2. /\ Live' = Live /\ Matched' = Matched
          /\ ListedInv => ListedInv'
          /\ CreatedInv => CreatedInv'
      BY ZenonT(30), <2>0 DEF Live, Matched, ListedInv, CreatedInv
    <3> QED
      BY Zenon, <2>0, <3>1, <3>2 DEF MatchInv
  <2>5. \A c \in Completes : BytesOf(c) => BytesOf(c)'
    BY ZenonT(30), <2>0 DEF BytesOf, Marks, Requested
  <2> QED
    BY ZenonT(30), <2>0, <2>1, <2>2, <2>3, <2>4, <2>5 DEF PInv, SerialInv
<1>2. ASSUME NEW r \in Requests, Serve(r) PROVE PInv'
  BY ZenonT(30), <1>2, create_upload_PInv, upload_part_PInv, abort_upload_PInv, complete_upload_PInv DEF Serve, KeepsPromises
<1>3. ASSUME NEW r \in Requests, Begin(r) PROVE PInv'
  BY Zenon, <1>3, Begin_PInv DEF KeepsPromises
<1>4. CASE Crash \/ load_sessions \/ cleanup_stale_temp_files
  BY Zenon, <1>4, Startup_PInv DEF KeepsPromises
<1>5. ASSUME NEW r \in Requests, Cancel(r) PROVE FALSE
  BY Zenon, <1>5 DEF Cancel, TakeTurns
<1> QED
  BY ZenonT(30), <1>1, <1>2, <1>3, <1>4, <1>5 DEF Next

(* The inductive invariant of a client that takes turns.                   *)
THEOREM TurnsInvariance ==
  ASSUME TakeTurns
  PROVE  Spec => [](IInv /\ PInv)
<1>1. Init => IInv /\ PInv
  BY Zenon, InitIInv, InitPInv
<1>2. (IInv /\ PInv) /\ [Next]_vars => (IInv /\ PInv)'
  BY Zenon, NextIInv, NextPInv
<1> QED
  BY <1>1, <1>2, PTL DEF Spec

(* FinishedStaysFinished: a client that was told its upload is completed   *)
(* or aborted never finds it open again, over any number of crashes and    *)
(* restarts, unless four filesystem calls fail: complete_upload goes on    *)
(* when it cannot persist Completing, cannot persist Completed, cannot     *)
(* remove session.json and cannot remove the directory.                    *)
THEOREM FinishedStaysFinishedAlways ==
  ASSUME TakeTurns, MaxFailures <= 3
  PROVE  Spec => []FinishedStaysFinished
<1>1. IInv /\ PInv => FinishedStaysFinished
  BY Zenon DEF PInv, FinishInv, FinishedStaysFinished
<1> QED
  BY <1>1, TurnsInvariance, PTL

(* AckedPartDurable: an acknowledged part survives any number of crashes,  *)
(* restarts and failing calls; commit_part answers only when the part file *)
(* and the session.json that lists it are in place.                        *)
THEOREM AckedPartDurableAlways ==
  ASSUME TakeTurns, ~MayExpire
  PROVE  Spec => []AckedPartDurable
<1>1. IInv /\ PInv => AckedPartDurable
  BY Zenon DEF PInv, DurableInv, DurableOf, Stored, Has, Lists, Unfinished, Alone, AckedPartDurable
<1> QED
  BY <1>1, TurnsInvariance, PTL

(* CompletedBytesMatch: an object is assembled from the parts whose        *)
(* numbers and ETags the completion named, though the part files are only  *)
(* read after the session was validated.                                   *)
THEOREM CompletedBytesMatchAlways ==
  ASSUME TakeTurns, OneFailure, ~MayCrash
  PROVE  Spec => []CompletedBytesMatch
<1>1. IInv /\ PInv => CompletedBytesMatch
  BY Zenon DEF IInv, TInv, TypeOK, PInv, SerialInv, BytesOf, CompletedBytesMatch
<1> QED
  BY <1>1, TurnsInvariance, PTL

(* PartsMatchFiles: after every upload of a part, also one that commit_part*)
(* rolled back, the session lists what the part files hold.                *)
THEOREM PartsMatchFilesAlways ==
  ASSUME TakeTurns, OneFailure, ~MayCrash
  PROVE  Spec => []PartsMatchFiles
<1>1. ASSUME IInv, PInv, IsOpen(session), NEW n \in Numbers, Answered(n)
      PROVE  files[n] = session.parts[n]
  <2>1. MatchInv /\ Live
    BY Zenon, <1>1 DEF PInv, SerialInv, Live, IsOpen
  <2>2. CASE \A w \in Parts : pc[w] \notin Unmatched
    BY ZenonT(30), <1>1, <2>1, <2>2 DEF MatchInv, Matched
  <2>3. ASSUME NEW w \in Parts, pc[w] \in Unmatched
        PROVE  files[n] = session.parts[n]
    <3>1. Begun(w) /\ reply[w] \notin {"ok", "err"}
      BY Zenon, <1>1, <2>3, Kinds DEF PInv, TurnInv, Begun, Unmatched, RollBack
    <3>2. NumberOf[w] # n
      BY Zenon, <1>1, <2>3, <3>1 DEF Answered
    <3> QED
      BY <1>1, <2>1, <2>3, <3>2 DEF MatchInv, MatchOf
  <2> QED
    BY Zenon, <2>2, <2>3
<1>2. IInv /\ PInv => PartsMatchFiles
  BY Zenon, <1>1 DEF PartsMatchFiles
<1> QED
  BY <1>2, TurnsInvariance, PTL
=============================================================================
