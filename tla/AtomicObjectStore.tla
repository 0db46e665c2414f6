------------------------- MODULE AtomicObjectStore -------------------------
(***************************************************************************)
(* What an object store promises to clients that take turns on a key: a    *)
(* map from keys to uploads.  A PUT replaces the object in one step and is *)
(* acknowledged only once it has, or fails having done nothing; a DELETE   *)
(* removes it in one step; a read returns the bytes and the metadata of    *)
(* the same, current upload.                                               *)
(***************************************************************************)
CONSTANTS Keys, Puts, Deletes, Gets, Heads, KeyOf, Nil

VARIABLES
  store,   \* store[k]: the upload that is the object of k, or Nil
  answer,  \* answer[r]: what request r has been answered
  read     \* read[r]: the metadata and bytes request r was answered with

avars == <<store, answer, read>>

Pending(r) == answer[r] = "none"
Reply(r, a) == Pending(r) /\ answer' = [answer EXCEPT ![r] = a]

AtomicInit ==
  /\ store = [k \in Keys |-> Nil]
  /\ answer = [r \in Puts \cup Deletes \cup Gets \cup Heads |-> "none"]
  /\ read = [r \in Gets \cup Heads |-> [meta |-> Nil, bytes |-> Nil]]

(* A PUT or DELETE that is still pending takes effect.                     *)
TakeEffect(r, new) ==
  /\ Pending(r)
  /\ store' = [store EXCEPT ![KeyOf[r]] = new]
  /\ UNCHANGED <<answer, read>>

PutAnswer(u) ==
  /\ \/ store[KeyOf[u]] = u /\ Reply(u, "ok")
     \/ store[KeyOf[u]] # u /\ Reply(u, "err")
  /\ UNCHANGED <<store, read>>

DeleteAnswer(d) ==
  /\ \/ store[KeyOf[d]] = Nil /\ Reply(d, "ok")
     \/ Reply(d, "err")
  /\ UNCHANGED <<store, read>>

ReadAnswer(r) ==
  /\ \/ /\ Reply(r, "ok")
        /\ read' = [read EXCEPT ![r] =
                      [meta |-> store[KeyOf[r]],
                       bytes |-> IF r \in Gets THEN store[KeyOf[r]] ELSE Nil]]
     \/ Reply(r, "err") /\ UNCHANGED read
  /\ UNCHANGED store

AtomicNext ==
  \/ \E u \in Puts : TakeEffect(u, u) \/ PutAnswer(u)
  \/ \E d \in Deletes : TakeEffect(d, Nil) \/ DeleteAnswer(d)
  \/ \E r \in Gets \cup Heads : ReadAnswer(r)

AtomicSpec == AtomicInit /\ [][AtomicNext]_avars
=============================================================================
