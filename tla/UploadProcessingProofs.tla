----------------------- MODULE UploadProcessingProofs -----------------------
(***************************************************************************)
(* For any contents, sizes and number of processors, any failing calls and *)
(* a handler dropped anywhere: what is committed is what the processors    *)
(* approved, its metadata describes it, and neither an answered upload nor  *)
(* a dropped one leaves more behind than the failed or overtaken calls     *)
(* explain.                                                                *)
(***************************************************************************)
EXTENDS UploadProcessing, TLAPS

(* Where the handler runs the processors, and where it has passed them.    *)
Processing == {"process", "unused", "metadata", "remove", "rename"}
Approving == {"flush", "process", "metadata", "summarize", "commit"}

(* A processor is at work exactly while the handler is in its loop.        *)
IndexInv ==
  /\ pc \in {"body", "flush"} => index = 1
  /\ pc \in Processing => index <= processors
  /\ pc \in {"summarize", "commit"} => index = processors + 1
  /\ pc \in Processing \ {"process"} => answer # None
  /\ pc \in {"metadata", "remove", "rename"} => answer = "replace"
  /\ pc = "unused" => answer # "replace"
  /\ pc \in {"body", "flush", "process", "summarize", "commit"} => answer = None

(* The staged file is what has been approved so far, and the body itself   *)
(* when there are no processors.                                           *)
StagedInv ==
  /\ pc \in Approving \/ (pc = "unused" /\ answer = "keep") =>
       staged = approved /\ staged \in Contents
  /\ pc \in Approving /\ processors = 0 => staged = body
  /\ pc = "commit" => summary = staged /\ Size[staged] <= MaxObjectSize
  /\ pc \in {"remove", "rename"} => replacement[index] \in Contents

(* What commit_staged_object is given.                                     *)
Ready ==
  /\ staged = approved /\ staged \in Contents /\ index = processors + 1
  /\ summary = staged /\ Size[staged] <= MaxObjectSize
  /\ processors = 0 => staged = body

(* Calls are left running, and an object is there, only at the end.        *)
EndInv ==
  /\ pc \notin {"ended", "dropped"} => pending = {} /\ object = {}
  /\ pc \notin {"commit", "discard", "ended", "dropped"} => guard
  /\ pc = "commit" => ~guard
  /\ pc = "ended" => pending \subseteq {"remove_staged"}
  /\ "rename" \in pending =>
       /\ pending \subseteq {"rename", "remove_staged"}
       /\ index <= processors /\ replacement[index] \in Contents
  /\ "commit" \in pending => pending = {"commit"} /\ Ready

(* Only a handler dropped in its commit has a summary and no answer.       *)
CommitInv ==
  /\ pc \notin {"commit", "discard", "ended", "dropped"} => summary = None
  /\ pc \notin {"discard", "ended", "dropped"} => result = None
  /\ pc = "discard" => result # None
  /\ pc = "dropped" /\ DroppedInCommit =>
       /\ pending \subseteq {"commit"}
       /\ \A i \in 1..MaxProcessors : replacement[i] = None

(* Files: only the processor at work has one, and what is left of it or of *)
(* the staged file at the end has a reason.                                *)
FileInv ==
  /\ \A i \in 1..MaxProcessors : i # index => replacement[i] = None
  /\ pc \in {"body", "flush", "summarize", "commit"} =>
       \A i \in 1..MaxProcessors : replacement[i] = None
  /\ pc \in {"discard", "ended"} /\ ~failedRemoval =>
       \A i \in 1..MaxProcessors :
         replacement[i] # None => answer = "replace" /\ result = "internal"
  /\ pc = "ended" /\ ~failedRemoval => staged = None \/ "remove_staged" \in pending

IInv ==
  /\ TypeOK /\ IndexInv /\ StagedInv /\ EndInv /\ CommitInv /\ FileInv
  /\ CommittedAsApproved /\ MetadataDescribesBytes

-----------------------------------------------------------------------------
USE ContentSizes
USE DEF Goto, Answer, DropGuard, Discard, Remove, SetReplacement, AfterProcessor, Advance,
        Renamed, Processing, Approving, Operations, Answers, Results, PCs, input, files, history,
        None, Directory

LEMMA InitIInv == Init => IInv
<1> SUFFICES ASSUME Init PROVE IInv
  BY Zenon
<1>1. TypeOK
  <2>1. index \in 1..(MaxProcessors + 1)
    BY DEF Init
  <2>2. replacement \in [1..MaxProcessors -> Contents \cup {None, Directory}]
    BY Zenon DEF Init
  <2> QED
    BY Zenon, <2>1, <2>2 DEF Init, TypeOK
<1>2. IndexInv /\ StagedInv /\ EndInv /\ CommitInv
  BY Zenon DEF Init, IndexInv, StagedInv, EndInv, CommitInv
<1>3. FileInv
  BY Zenon DEF Init, FileInv
<1>4. CommittedAsApproved /\ MetadataDescribesBytes
  BY Zenon DEF Init, CommittedAsApproved, MetadataDescribesBytes
<1> QED
  BY Zenon, <1>1, <1>2, <1>3, <1>4 DEF IInv

LEMMA receive_body_IInv == IInv /\ receive_body => IInv'
<1> SUFFICES ASSUME TypeOK, IndexInv, StagedInv, EndInv, CommitInv, FileInv, CommittedAsApproved,
                    MetadataDescribesBytes, receive_body
             PROVE  IInv'
  BY Zenon DEF IInv
<1> USE DEF receive_body
<1>1. TypeOK'
  BY ZenonT(30) DEF TypeOK, IndexInv, StagedInv
<1>2. IndexInv'
  BY Zenon DEF TypeOK, IndexInv
<1>3. StagedInv'
  BY Zenon DEF TypeOK, IndexInv, StagedInv
<1>4. EndInv'
  BY Zenon DEF TypeOK, IndexInv, StagedInv, EndInv
<1>5. FileInv'
  BY Zenon DEF TypeOK, IndexInv, EndInv, FileInv
<1>6. CommittedAsApproved' /\ MetadataDescribesBytes'
  BY Zenon DEF TypeOK, IndexInv, StagedInv, EndInv, CommittedAsApproved, MetadataDescribesBytes
<1>7. CommitInv'
  BY Zenon DEF TypeOK, IndexInv, StagedInv, EndInv, CommitInv, FileInv, DroppedInCommit, map_processor_error
<1> QED
  BY Zenon, <1>1, <1>2, <1>3, <1>4, <1>5, <1>6, <1>7 DEF IInv

LEMMA assemble_parts_IInv == IInv /\ assemble_parts => IInv'
<1> SUFFICES ASSUME TypeOK, IndexInv, StagedInv, EndInv, CommitInv, FileInv, CommittedAsApproved,
                    MetadataDescribesBytes, assemble_parts
             PROVE  IInv'
  BY Zenon DEF IInv
<1> USE DEF assemble_parts
<1>1. TypeOK'
  BY ZenonT(30) DEF TypeOK, IndexInv, StagedInv
<1>2. IndexInv'
  BY Zenon DEF TypeOK, IndexInv
<1>3. StagedInv'
  BY Zenon DEF TypeOK, IndexInv, StagedInv
<1>4. EndInv'
  BY Zenon DEF TypeOK, IndexInv, StagedInv, EndInv
<1>5. FileInv'
  BY Zenon DEF TypeOK, IndexInv, EndInv, FileInv
<1>6. CommittedAsApproved' /\ MetadataDescribesBytes'
  BY Zenon DEF TypeOK, IndexInv, StagedInv, EndInv, CommittedAsApproved, MetadataDescribesBytes
<1>7. CommitInv'
  BY Zenon DEF TypeOK, IndexInv, StagedInv, EndInv, CommitInv, FileInv, DroppedInCommit, map_processor_error
<1> QED
  BY Zenon, <1>1, <1>2, <1>3, <1>4, <1>5, <1>6, <1>7 DEF IInv

LEMMA finish_IInv == IInv /\ finish => IInv'
<1> SUFFICES ASSUME TypeOK, IndexInv, StagedInv, EndInv, CommitInv, FileInv, CommittedAsApproved,
                    MetadataDescribesBytes, finish
             PROVE  IInv'
  BY Zenon DEF IInv
<1> USE DEF finish
<1>1. TypeOK'
  BY ZenonT(30) DEF TypeOK, IndexInv, StagedInv
<1>2. IndexInv'
  BY DEF TypeOK, IndexInv
<1>3. StagedInv'
  BY Zenon DEF TypeOK, IndexInv, StagedInv
<1>4. EndInv'
  BY Zenon DEF TypeOK, IndexInv, StagedInv, EndInv
<1>5. FileInv'
  BY Zenon DEF TypeOK, IndexInv, EndInv, FileInv
<1>6. CommittedAsApproved' /\ MetadataDescribesBytes'
  BY Zenon DEF TypeOK, IndexInv, StagedInv, EndInv, CommittedAsApproved, MetadataDescribesBytes
<1>7. CommitInv'
  BY Zenon DEF TypeOK, IndexInv, StagedInv, EndInv, CommitInv, FileInv, DroppedInCommit, map_processor_error
<1> QED
  BY Zenon, <1>1, <1>2, <1>3, <1>4, <1>5, <1>6, <1>7 DEF IInv

LEMMA process_IInv == IInv /\ process => IInv'
<1> SUFFICES ASSUME TypeOK, IndexInv, StagedInv, EndInv, CommitInv, FileInv, CommittedAsApproved,
                    MetadataDescribesBytes, process
             PROVE  IInv'
  BY Zenon DEF IInv
<1> USE DEF process
<1>1. TypeOK'
  BY DEF TypeOK, IndexInv, StagedInv
<1>2. IndexInv'
  BY Zenon DEF TypeOK, IndexInv
<1>3. StagedInv'
  BY Zenon DEF TypeOK, IndexInv, StagedInv
<1>4. EndInv'
  BY Zenon DEF TypeOK, IndexInv, StagedInv, EndInv
<1>5. FileInv'
  BY Zenon DEF TypeOK, IndexInv, EndInv, FileInv
<1>6. CommittedAsApproved' /\ MetadataDescribesBytes'
  BY Zenon DEF TypeOK, IndexInv, StagedInv, EndInv, CommittedAsApproved, MetadataDescribesBytes
<1>7. CommitInv'
  BY Zenon DEF TypeOK, IndexInv, StagedInv, EndInv, CommitInv, FileInv, DroppedInCommit, map_processor_error
<1> QED
  BY Zenon, <1>1, <1>2, <1>3, <1>4, <1>5, <1>6, <1>7 DEF IInv

LEMMA remove_unused_replacement_IInv == IInv /\ remove_unused_replacement => IInv'
<1> SUFFICES ASSUME TypeOK, IndexInv, StagedInv, EndInv, CommitInv, FileInv, CommittedAsApproved,
                    MetadataDescribesBytes, remove_unused_replacement
             PROVE  IInv'
  BY Zenon DEF IInv
<1> USE DEF remove_unused_replacement
<1>1. TypeOK'
  <2>1. index' \in 1..(MaxProcessors + 1)
    BY DEF TypeOK, IndexInv
  <2>2. replacement' \in [1..MaxProcessors -> Contents \cup {None, Directory}]
    BY Zenon DEF TypeOK
  <2>3. guard' \in BOOLEAN /\ failedRemoval' \in BOOLEAN
    BY Zenon DEF TypeOK
  <2>4. /\ pc' \in PCs /\ result' \in Results \cup {None} /\ answer' \in Answers \cup {None}
        /\ pending' \subseteq {"remove_staged", "rename", "remove_replacement", "write", "commit"}
    BY Zenon DEF TypeOK, map_processor_error
  <2> QED
    BY Zenon, <2>1, <2>2, <2>3, <2>4 DEF TypeOK
<1>2. IndexInv'
  BY DEF TypeOK, IndexInv
<1>3. StagedInv'
  BY DEF TypeOK, IndexInv, StagedInv
<1>4. EndInv'
  BY Zenon DEF TypeOK, IndexInv, StagedInv, EndInv
<1>5. FileInv'
  BY ZenonT(30) DEF TypeOK, IndexInv, EndInv, FileInv
<1>6. CommittedAsApproved' /\ MetadataDescribesBytes'
  BY Zenon DEF TypeOK, IndexInv, StagedInv, EndInv, CommittedAsApproved, MetadataDescribesBytes
<1>7. CommitInv'
  BY Zenon DEF TypeOK, IndexInv, StagedInv, EndInv, CommitInv, FileInv, DroppedInCommit, map_processor_error
<1> QED
  BY Zenon, <1>1, <1>2, <1>3, <1>4, <1>5, <1>6, <1>7 DEF IInv

LEMMA check_replacement_IInv == IInv /\ check_replacement => IInv'
<1> SUFFICES ASSUME TypeOK, IndexInv, StagedInv, EndInv, CommitInv, FileInv, CommittedAsApproved,
                    MetadataDescribesBytes, check_replacement
             PROVE  IInv'
  BY Zenon DEF IInv
<1> USE DEF check_replacement
<1>1. TypeOK'
  BY ZenonT(30) DEF TypeOK, IndexInv, StagedInv
<1>2. IndexInv'
  BY Zenon DEF TypeOK, IndexInv
<1>3. StagedInv'
  BY Zenon DEF TypeOK, IndexInv, StagedInv
<1>4. EndInv'
  BY Zenon DEF TypeOK, IndexInv, StagedInv, EndInv
<1>5. FileInv'
  BY Zenon DEF TypeOK, IndexInv, EndInv, FileInv
<1>6. CommittedAsApproved' /\ MetadataDescribesBytes'
  BY Zenon DEF TypeOK, IndexInv, StagedInv, EndInv, CommittedAsApproved, MetadataDescribesBytes
<1>7. CommitInv'
  BY Zenon DEF TypeOK, IndexInv, StagedInv, EndInv, CommitInv, FileInv, DroppedInCommit, map_processor_error
<1> QED
  BY Zenon, <1>1, <1>2, <1>3, <1>4, <1>5, <1>6, <1>7 DEF IInv

LEMMA remove_staged_IInv == IInv /\ remove_staged => IInv'
<1> SUFFICES ASSUME TypeOK, IndexInv, StagedInv, EndInv, CommitInv, FileInv, CommittedAsApproved,
                    MetadataDescribesBytes, remove_staged
             PROVE  IInv'
  BY Zenon DEF IInv
<1> USE DEF remove_staged
<1>1. TypeOK'
  BY ZenonT(30) DEF TypeOK, IndexInv, StagedInv
<1>2. IndexInv'
  BY Zenon DEF TypeOK, IndexInv
<1>3. StagedInv'
  BY Zenon DEF TypeOK, IndexInv, StagedInv
<1>4. EndInv'
  BY Zenon DEF TypeOK, IndexInv, StagedInv, EndInv
<1>5. FileInv'
  BY Zenon DEF TypeOK, IndexInv, EndInv, FileInv
<1>6. CommittedAsApproved' /\ MetadataDescribesBytes'
  BY Zenon DEF TypeOK, IndexInv, StagedInv, EndInv, CommittedAsApproved, MetadataDescribesBytes
<1>7. CommitInv'
  BY Zenon DEF TypeOK, IndexInv, StagedInv, EndInv, CommitInv, FileInv, DroppedInCommit, map_processor_error
<1> QED
  BY Zenon, <1>1, <1>2, <1>3, <1>4, <1>5, <1>6, <1>7 DEF IInv

LEMMA rename_replacement_IInv == IInv /\ rename_replacement => IInv'
<1> SUFFICES ASSUME TypeOK, IndexInv, StagedInv, EndInv, CommitInv, FileInv, CommittedAsApproved,
                    MetadataDescribesBytes, rename_replacement
             PROVE  IInv'
  BY Zenon DEF IInv
<1> USE DEF rename_replacement
<1>1. TypeOK'
  <2>1. index' \in 1..(MaxProcessors + 1)
    BY DEF TypeOK, IndexInv
  <2>2. replacement' \in [1..MaxProcessors -> Contents \cup {None, Directory}]
    BY Zenon DEF TypeOK
  <2>3. {staged', approved'} \subseteq Contents \cup {None}
    BY Zenon DEF TypeOK, StagedInv
  <2> QED
    BY <2>1, <2>2, <2>3, ZenonT(30) DEF TypeOK
<1>2. IndexInv'
  BY DEF TypeOK, IndexInv
<1>3. StagedInv'
  BY DEF TypeOK, IndexInv, StagedInv
<1>4. EndInv'
  BY Zenon DEF TypeOK, IndexInv, StagedInv, EndInv
<1>5. FileInv'
  BY ZenonT(30) DEF TypeOK, IndexInv, EndInv, FileInv
<1>6. CommittedAsApproved' /\ MetadataDescribesBytes'
  BY Zenon DEF TypeOK, IndexInv, StagedInv, EndInv, CommittedAsApproved, MetadataDescribesBytes
<1>7. CommitInv'
  BY Zenon DEF TypeOK, IndexInv, StagedInv, EndInv, CommitInv, FileInv, DroppedInCommit, map_processor_error
<1> QED
  BY Zenon, <1>1, <1>2, <1>3, <1>4, <1>5, <1>6, <1>7 DEF IInv

LEMMA summarize_staged_upload_IInv == IInv /\ summarize_staged_upload => IInv'
<1> SUFFICES ASSUME TypeOK, IndexInv, StagedInv, EndInv, CommitInv, FileInv, CommittedAsApproved,
                    MetadataDescribesBytes, summarize_staged_upload
             PROVE  IInv'
  BY Zenon DEF IInv
<1> USE DEF summarize_staged_upload
<1>1. TypeOK'
  BY ZenonT(30) DEF TypeOK, IndexInv, StagedInv
<1>2. IndexInv'
  BY Zenon DEF TypeOK, IndexInv
<1>3. StagedInv'
  BY Zenon DEF TypeOK, IndexInv, StagedInv
<1>4. EndInv'
  BY Zenon DEF TypeOK, IndexInv, StagedInv, EndInv
<1>5. FileInv'
  BY Zenon DEF TypeOK, IndexInv, EndInv, FileInv
<1>6. CommittedAsApproved' /\ MetadataDescribesBytes'
  BY Zenon DEF TypeOK, IndexInv, StagedInv, EndInv, CommittedAsApproved, MetadataDescribesBytes
<1>7. CommitInv'
  BY Zenon DEF TypeOK, IndexInv, StagedInv, EndInv, CommitInv, FileInv, DroppedInCommit, map_processor_error
<1> QED
  BY Zenon, <1>1, <1>2, <1>3, <1>4, <1>5, <1>6, <1>7 DEF IInv

(* What putting a ready upload in place commits.                           *)
LEMMA InPlaceCommits ==
  ASSUME TypeOK, Ready, InPlace, UNCHANGED <<input, index, approved>>
  PROVE  /\ object' \subseteq [bytes : Contents, metadata : Metadata]
         /\ CommittedAsApproved' /\ MetadataDescribesBytes'
<1>1. /\ staged \in Contents /\ staged = approved /\ index = processors + 1
      /\ summary = staged /\ Size[staged] <= MaxObjectSize
      /\ processors = 0 => body = staged
  BY Zenon DEF Ready
<1>2. FinalMetadata \in Metadata
  BY <1>1 DEF FinalMetadata, Metadata, TypeOK
<1>3. /\ FinalMetadata.size = Size[staged]
      /\ FinalMetadata.etag.of = staged
      /\ requested => FinalMetadata.checksum = staged
  BY <1>1 DEF FinalMetadata, TypeOK
<1>4. object' = {[bytes |-> staged, metadata |-> FinalMetadata]}
  BY Zenon DEF InPlace
<1>5. object' \subseteq [bytes : Contents, metadata : Metadata]
  BY <1>1, <1>2, <1>4
<1>6. CommittedAsApproved' /\ MetadataDescribesBytes'
  BY <1>1, <1>3, <1>4 DEF CommittedAsApproved, MetadataDescribesBytes
<1> QED
  BY Zenon, <1>5, <1>6

LEMMA commit_staged_object_IInv == IInv /\ commit_staged_object => IInv'
<1> SUFFICES ASSUME TypeOK, IndexInv, StagedInv, EndInv, CommitInv, FileInv, CommittedAsApproved,
                    MetadataDescribesBytes, commit_staged_object
             PROVE  IInv'
  BY Zenon DEF IInv
<1>1. /\ pc = "commit" /\ pc' = "ended" /\ result' \in {"ok", "internal"}
      /\ UNCHANGED <<input, body, index, answer, replacement, guard, pending, summary, approved>>
  BY Zenon DEF commit_staged_object
<1>2. Ready /\ object = {} /\ pending = {}
  BY Zenon, <1>1 DEF StagedInv, IndexInv, EndInv, Ready
<1>3. \/ InPlace
      \/ /\ Remove(staged, staged') /\ failedRemoval' = (failedRemoval \/ staged' # None)
         /\ UNCHANGED object
  BY Zenon DEF commit_staged_object
<1>4. /\ object' \subseteq [bytes : Contents, metadata : Metadata]
      /\ CommittedAsApproved' /\ MetadataDescribesBytes'
  <2>1. CASE InPlace
    BY Zenon, <1>1, <1>2, <2>1, InPlaceCommits
  <2>2. CASE UNCHANGED object
    BY Zenon, <1>2, <2>2 DEF CommittedAsApproved, MetadataDescribesBytes
  <2> QED
    BY Zenon, <1>3, <2>1, <2>2
<1>5. /\ staged' \in Contents \cup {None}
      /\ failedRemoval' \in BOOLEAN
      /\ ~failedRemoval' => staged' = None
  BY Zenon, <1>3 DEF InPlace, TypeOK
<1>6. TypeOK'
  BY Zenon, <1>1, <1>4, <1>5 DEF TypeOK
<1>7. IndexInv' /\ StagedInv' /\ EndInv' /\ CommitInv'
  BY Zenon, <1>1, <1>2 DEF IndexInv, StagedInv, EndInv, CommitInv
<1>8. FileInv'
  BY Zenon, <1>1, <1>5 DEF FileInv
<1> QED
  BY Zenon, <1>4, <1>6, <1>7, <1>8 DEF IInv

LEMMA discard_IInv == IInv /\ discard => IInv'
<1> SUFFICES ASSUME TypeOK, IndexInv, StagedInv, EndInv, CommitInv, FileInv, CommittedAsApproved,
                    MetadataDescribesBytes, discard
             PROVE  IInv'
  BY Zenon DEF IInv
<1> USE DEF discard
<1>1. TypeOK'
  BY DEF TypeOK, IndexInv, StagedInv
<1>2. IndexInv'
  BY Zenon DEF TypeOK, IndexInv
<1>3. StagedInv'
  BY Zenon DEF TypeOK, IndexInv, StagedInv
<1>4. EndInv'
  BY Zenon DEF TypeOK, IndexInv, StagedInv, EndInv
<1>5. FileInv'
  BY Zenon DEF TypeOK, IndexInv, EndInv, FileInv
<1>6. CommittedAsApproved' /\ MetadataDescribesBytes'
  BY Zenon DEF TypeOK, IndexInv, StagedInv, EndInv, CommittedAsApproved, MetadataDescribesBytes
<1>7. CommitInv'
  BY Zenon DEF TypeOK, IndexInv, StagedInv, EndInv, CommitInv, FileInv, DroppedInCommit, map_processor_error
<1> QED
  BY Zenon, <1>1, <1>2, <1>3, <1>4, <1>5, <1>6, <1>7 DEF IInv

LEMMA write_replacement_IInv == IInv /\ write_replacement => IInv'
<1> SUFFICES ASSUME TypeOK, IndexInv, StagedInv, EndInv, CommitInv, FileInv, CommittedAsApproved,
                    MetadataDescribesBytes, write_replacement
             PROVE  IInv'
  BY Zenon DEF IInv
<1> USE DEF write_replacement
<1>1. TypeOK'
  <2>1. replacement' \in [1..MaxProcessors -> Contents \cup {None, Directory}]
    BY Zenon DEF TypeOK
  <2> QED
    BY <2>1 DEF TypeOK
<1>2. IndexInv'
  BY Zenon DEF TypeOK, IndexInv
<1>3. StagedInv'
  BY Zenon DEF TypeOK, IndexInv, StagedInv
<1>4. EndInv'
  BY Zenon DEF TypeOK, IndexInv, StagedInv, EndInv
<1>5. FileInv'
  BY Zenon DEF TypeOK, IndexInv, EndInv, FileInv
<1>6. CommittedAsApproved' /\ MetadataDescribesBytes'
  BY Zenon DEF TypeOK, IndexInv, StagedInv, EndInv, CommittedAsApproved, MetadataDescribesBytes
<1>7. CommitInv'
  BY Zenon DEF TypeOK, IndexInv, StagedInv, EndInv, CommitInv, FileInv, DroppedInCommit, map_processor_error
<1> QED
  BY Zenon, <1>1, <1>2, <1>3, <1>4, <1>5, <1>6, <1>7 DEF IInv

LEMMA Drop_IInv == IInv /\ Drop => IInv'
<1> SUFFICES ASSUME TypeOK, IndexInv, StagedInv, EndInv, CommitInv, FileInv, CommittedAsApproved,
                    MetadataDescribesBytes, Drop
             PROVE  IInv'
  BY Zenon DEF IInv
<1> USE DEF Drop
<1>1. TypeOK'
  <2>1. pending' \subseteq {"remove_staged", "rename", "remove_replacement", "write", "commit"}
    BY Zenon DEF InFlight
  <2>2. /\ pc' = "dropped" /\ guard' = FALSE
        /\ UNCHANGED <<input, body, index, answer, files, summary, object, result, history>>
    BY Zenon
  <2> HIDE DEF Drop
  <2> QED
    BY <2>1, <2>2, ZenonT(60) DEF TypeOK
<1>2. IndexInv'
  BY Zenon DEF TypeOK, IndexInv
<1>3. StagedInv'
  BY Zenon DEF TypeOK, IndexInv, StagedInv
<1>4. EndInv'
  <2>1. /\ pc' = "dropped" /\ UNCHANGED <<input, body, index, files, summary, approved>>
        /\ pending' = InFlight \cup (IF guard THEN {"remove_staged"} ELSE {})
    BY Zenon
  <2> HIDE DEF Drop
  <2>2. ASSUME "rename" \in pending'
        PROVE  /\ pending' \subseteq {"rename", "remove_staged"}
               /\ index' <= processors' /\ replacement'[index'] \in Contents
    <3>1. pc = "rename"
      BY SMTT(30), <2>1, <2>2 DEF InFlight
    <3> QED
      BY Zenon, <2>1, <3>1 DEF InFlight, IndexInv, StagedInv
  <2>3. ASSUME "commit" \in pending' PROVE pending' = {"commit"} /\ Ready'
    <3>1. pc = "commit"
      BY SMTT(30), <2>1, <2>3 DEF InFlight
    <3>2. pending' = {"commit"}
      BY Zenon, <2>1, <3>1 DEF InFlight, EndInv
    <3> QED
      BY Zenon, <2>1, <3>1, <3>2 DEF IndexInv, StagedInv, Ready
  <2> QED
    BY Zenon, <2>1, <2>2, <2>3 DEF EndInv
<1>5. FileInv'
  BY Zenon DEF TypeOK, IndexInv, EndInv, FileInv
<1>6. CommittedAsApproved' /\ MetadataDescribesBytes'
  BY Zenon DEF TypeOK, IndexInv, StagedInv, EndInv, CommittedAsApproved, MetadataDescribesBytes
<1>7. CommitInv'
  <2>1. /\ pc \notin {"ended", "dropped"} /\ pc' = "dropped"
        /\ UNCHANGED <<files, summary, result>>
        /\ pending' = InFlight \cup (IF guard THEN {"remove_staged"} ELSE {})
    BY Zenon
  <2>2. DroppedInCommit' => pc = "commit"
    BY Zenon, <2>1 DEF CommitInv, DroppedInCommit
  <2>3. pc = "commit" => /\ pending' \subseteq {"commit"}
                         /\ \A i \in 1..MaxProcessors : replacement'[i] = None
    BY Zenon, <2>1 DEF InFlight, EndInv, FileInv
  <2> QED
    BY Zenon, <2>1, <2>2, <2>3 DEF CommitInv
<1> QED
  BY Zenon, <1>1, <1>2, <1>3, <1>4, <1>5, <1>6, <1>7 DEF IInv

LEMMA late_call_IInv == IInv /\ late_call => IInv'
<1> SUFFICES ASSUME TypeOK, IndexInv, StagedInv, EndInv, CommitInv, FileInv, CommittedAsApproved,
                    MetadataDescribesBytes, late_call
             PROVE  IInv'
  BY Zenon DEF IInv
<1>1. /\ pc \in {"ended", "dropped"}
      /\ UNCHANGED <<input, pc, body, index, answer, guard, summary, result, approved>>
  BY Zenon DEF late_call, EndInv
<1>2. PICK call \in pending :
        /\ pending' = pending \ {call}
        /\ \/ call = "remove_staged" /\ Remove(staged, staged')
                /\ failedRemoval' = (failedRemoval \/ staged' # None)
                /\ UNCHANGED <<replacement, object>>
           \/ call = "remove_replacement" /\ UNCHANGED <<staged, object>>
                /\ \E c \in {None, replacement[index]} :
                     /\ replacement[index] = Directory => c = Directory
                     /\ SetReplacement(index, c)
                     /\ failedRemoval' = (failedRemoval \/ c # None)
           \/ call = "rename" /\ (Renamed \/ UNCHANGED files) /\ UNCHANGED <<object, failedRemoval>>
           \/ call = "write" /\ UNCHANGED <<staged, object, failedRemoval>>
                /\ \E c \in Contents \cup {replacement[index]} : SetReplacement(index, c)
           \/ call = "commit" /\ UNCHANGED replacement
                /\ \/ InPlace
                   \/ staged' \in {staged, None} /\ UNCHANGED <<object, failedRemoval>>
  BY Zenon DEF late_call
<1>3. CASE call = "commit"
  <2>1. pending' = {} /\ Ready /\ UNCHANGED replacement
    BY Zenon, <1>2, <1>3 DEF EndInv
  <2>2. /\ object' \subseteq [bytes : Contents, metadata : Metadata]
        /\ CommittedAsApproved' /\ MetadataDescribesBytes'
    <3>1. CASE InPlace
      BY Zenon, <1>1, <2>1, <3>1, InPlaceCommits
    <3>2. CASE UNCHANGED object
      BY Zenon, <1>1, <3>2 DEF TypeOK, CommittedAsApproved, MetadataDescribesBytes
    <3> QED
      BY Zenon, <1>2, <1>3, <3>1, <3>2
  <2>3. staged' \in Contents \cup {None} /\ failedRemoval' \in BOOLEAN
    BY Zenon, <1>2, <1>3 DEF InPlace, TypeOK
  <2>4. TypeOK'
    BY ZenonT(60), <1>1, <2>1, <2>2, <2>3 DEF TypeOK
  <2>5. pc = "dropped"
    BY Zenon, <1>1, <1>2, <1>3 DEF EndInv
  <2>6. IndexInv' /\ StagedInv' /\ EndInv'
    BY Zenon, <1>1, <2>1, <2>5 DEF IndexInv, StagedInv, EndInv
  <2>7. CommitInv' /\ FileInv'
    BY Zenon, <1>1, <2>1, <2>5 DEF CommitInv, FileInv, DroppedInCommit
  <2> QED
    BY Zenon, <2>2, <2>4, <2>6, <2>7 DEF IInv
<1>4. CASE call # "commit"
  <2>1. object' = object /\ "commit" \notin pending'
    BY Zenon, <1>2, <1>4 DEF EndInv
  <2>2. replacement' \in [1..MaxProcessors -> Contents \cup {None, Directory}]
    BY ZenonT(30), <1>2, <1>4 DEF TypeOK
  <2>3. staged' \in Contents \cup {None}
    BY Zenon, <1>2, <1>4 DEF TypeOK, EndInv
  <2>4. failedRemoval' \in BOOLEAN
    BY Zenon, <1>2, <1>4 DEF TypeOK
  <2>5. TypeOK'
    <3>1. pending' \subseteq {"remove_staged", "rename", "remove_replacement", "write", "commit"}
      BY Zenon, <1>2 DEF TypeOK
    <3> QED
      BY ZenonT(60), <1>1, <2>1, <2>2, <2>3, <2>4, <3>1 DEF TypeOK
  <2>6. IndexInv' /\ StagedInv'
    BY Zenon, <1>1 DEF IndexInv, StagedInv
  <2>7. EndInv'
    <3>1. ASSUME "rename" \in pending'
          PROVE  /\ pending' \subseteq {"rename", "remove_staged"}
                 /\ index' <= processors' /\ replacement'[index'] \in Contents
      BY Zenon, <1>1, <1>2, <1>4, <3>1 DEF EndInv
    <3> QED
      BY Zenon, <1>1, <1>2, <2>1, <3>1 DEF EndInv
  <2>8. FileInv'
    BY ZenonT(30), <1>1, <1>2, <1>4 DEF TypeOK, EndInv, FileInv
  <2>9. CommitInv'
    BY Zenon, <1>1, <1>2, <1>4 DEF CommitInv, DroppedInCommit
  <2>10. CommittedAsApproved' /\ MetadataDescribesBytes'
    BY Zenon, <1>1, <2>1 DEF CommittedAsApproved, MetadataDescribesBytes
  <2> QED
    BY Zenon, <2>5, <2>6, <2>7, <2>8, <2>9, <2>10 DEF IInv
<1> QED
  BY Zenon, <1>3, <1>4

-----------------------------------------------------------------------------
LEMMA Invariance == Spec => []IInv
<1>1. IInv /\ UNCHANGED vars => IInv'
  BY DEF vars, IInv, TypeOK, IndexInv, StagedInv, EndInv, CommitInv, FileInv, CommittedAsApproved,
         MetadataDescribesBytes, CommitInv, DroppedInCommit, Ready
<1>2. IInv /\ [Next]_vars => IInv'
  BY Zenon, <1>1, receive_body_IInv, assemble_parts_IInv, finish_IInv, process_IInv,
     remove_unused_replacement_IInv, check_replacement_IInv, remove_staged_IInv,
     rename_replacement_IInv, summarize_staged_upload_IInv, commit_staged_object_IInv,
     discard_IInv, write_replacement_IInv, Drop_IInv, late_call_IInv
     DEF Next, Handle
<1> QED
  BY <1>2, InitIInv, PTL DEF Spec

(* Every variable keeps its type: the staged file is always a regular file *)
(* or gone.                                                                *)
THEOREM TypeCorrect == Spec => []TypeOK
<1>1. IInv => TypeOK
  BY Zenon DEF IInv
<1> QED
  BY <1>1, Invariance, PTL

(* Only bytes that every processor approved, as the last one left them,    *)
(* are committed.                                                          *)
THEOREM CommittedAsApprovedAlways == Spec => []CommittedAsApproved
<1>1. IInv => CommittedAsApproved
  BY Zenon DEF IInv
<1> QED
  BY <1>1, Invariance, PTL

(* Committed metadata describes the committed bytes, which respect the     *)
(* size limit.                                                             *)
THEOREM MetadataDescribesBytesAlways == Spec => []MetadataDescribesBytes
<1>1. IInv => MetadataDescribesBytes
  BY Zenon DEF IInv
<1> QED
  BY <1>1, Invariance, PTL

(* An answered upload has left nothing in tmp/ but after a failed removal  *)
(* or a failed replacement.                                                *)
THEOREM AnswerLeavesNoFilesAlways == Spec => []AnswerLeavesNoFiles
<1>1. IInv => AnswerLeavesNoFiles
  BY Zenon DEF IInv, TypeOK, FileInv, AnswerLeavesNoFiles, AtRest
<1> QED
  BY <1>1, Invariance, PTL

-----------------------------------------------------------------------------
(* After a drop the staged file is gone, or its removal is still to come,  *)
(* or the rename of replace_with overtook it, or the commit was dropped;   *)
(* the call that was in flight says what the processor had answered.       *)
DropInv ==
  pc = "dropped" =>
    /\ "write" \in pending => answer = None
    /\ "remove_replacement" \in pending => answer # "replace"
    /\ "rename" \in pending => answer = "replace"
    /\ "commit" \in pending => DroppedInCommit
    /\ ~failedRemoval => \/ staged = None \/ "remove_staged" \in pending
                         \/ answer = "replace" /\ replacement[index] = None
                         \/ DroppedInCommit

LEMMA Drop_DropInv == IInv /\ Drop => DropInv'
<1> SUFFICES ASSUME IInv, Drop PROVE DropInv'
  BY Zenon
<1>1. /\ pending' = InFlight \cup (IF guard THEN {"remove_staged"} ELSE {})
      /\ UNCHANGED <<answer, summary, result>> /\ pc \notin {"ended", "dropped"}
  BY Zenon DEF Drop
<1>2. "remove_staged" \in pending' \/ pc = "commit"
  BY Zenon, <1>1 DEF IInv, EndInv, InFlight
<1>3. /\ "write" \in pending' => pc = "process"
      /\ "remove_replacement" \in pending' => pc = "unused"
      /\ "rename" \in pending' => pc = "rename"
      /\ "commit" \in pending' => pc = "commit"
  BY Zenon, <1>1 DEF InFlight
<1>4. pc = "commit" => DroppedInCommit'
  BY Zenon, <1>1 DEF IInv, StagedInv, CommitInv, DroppedInCommit
<1> QED
  BY Zenon, <1>1, <1>2, <1>3, <1>4 DEF DropInv, IInv, IndexInv

LEMMA late_call_DropInv == IInv /\ DropInv /\ late_call => DropInv'
<1> SUFFICES ASSUME IInv, DropInv, late_call, pc' = "dropped" PROVE DropInv'
  BY Zenon DEF DropInv
<1>1. /\ pc = "dropped" /\ answer' = answer /\ index' = index
      /\ DroppedInCommit' <=> DroppedInCommit
  BY Zenon DEF late_call, DroppedInCommit
<1>2. PICK call \in pending :
        /\ pending' = pending \ {call}
        /\ \/ call = "remove_staged" /\ Remove(staged, staged')
                /\ failedRemoval' = (failedRemoval \/ staged' # None) /\ UNCHANGED replacement
           \/ call = "remove_replacement" /\ UNCHANGED staged
                /\ (failedRemoval => failedRemoval')
           \/ call = "rename" /\ (Renamed \/ UNCHANGED files) /\ UNCHANGED failedRemoval
           \/ call = "write" /\ UNCHANGED <<staged, failedRemoval>>
           \/ call = "commit" /\ UNCHANGED failedRemoval
  BY Zenon DEF late_call, InPlace
<1>3. /\ "write" \in pending' => answer' = None
      /\ "remove_replacement" \in pending' => answer' # "replace"
      /\ "rename" \in pending' => answer' = "replace"
      /\ "commit" \in pending' => DroppedInCommit'
  BY Zenon, <1>1, <1>2 DEF DropInv
<1>4. ASSUME ~failedRemoval'
      PROVE  \/ staged' = None \/ "remove_staged" \in pending'
             \/ answer' = "replace" /\ replacement'[index'] = None
             \/ DroppedInCommit'
  <2>1. ~failedRemoval
    BY Zenon, <1>2, <1>4
  <2>2. CASE call = "remove_staged"
    BY Zenon, <1>2, <1>4, <2>2
  <2>3. CASE call = "rename"
    <3>1. answer = "replace" /\ index \in 1..MaxProcessors
      BY <1>1, <1>2, <2>3 DEF DropInv, IInv, EndInv, TypeOK
    <3>2. CASE Renamed
      BY Zenon, <1>1, <3>1, <3>2 DEF IInv, TypeOK
    <3>3. CASE UNCHANGED files
      BY Zenon, <1>1, <1>2, <2>1, <2>3, <3>3 DEF DropInv
    <3> QED
      BY Zenon, <1>2, <2>3, <3>2, <3>3
  <2>4. CASE call \in {"remove_replacement", "write"}
    BY Zenon, <1>1, <1>2, <2>1, <2>4 DEF DropInv
  <2>5. CASE call = "commit"
    BY Zenon, <1>1, <1>2, <2>5 DEF DropInv
  <2> QED
    BY Zenon, <1>2, <2>2, <2>3, <2>4, <2>5
<1> QED
  BY Zenon, <1>3, <1>4 DEF DropInv

LEMMA DropInvariance == Spec => []DropInv
<1>1. Init => DropInv
  BY Zenon DEF Init, DropInv
<1>2. IInv /\ DropInv /\ UNCHANGED vars => DropInv'
  BY DEF vars, DropInv, DroppedInCommit
<1>3. Handle \/ write_replacement => pc' # "dropped"
  BY ZenonT(30) DEF Handle, receive_body, assemble_parts, finish, process, write_replacement,
     remove_unused_replacement, check_replacement, remove_staged, rename_replacement,
     summarize_staged_upload, commit_staged_object, discard
<1>4. IInv /\ DropInv /\ [Next]_vars => DropInv'
  BY Zenon, <1>2, <1>3, Drop_DropInv, late_call_DropInv DEF Next, DropInv
<1> QED
  BY <1>1, <1>4, Invariance, PTL DEF Spec

(* A dropped upload has left no staged file but where a rename overtook    *)
(* its removal or the commit had taken it over, and at most the            *)
(* replacement of the processor at work.                                   *)
THEOREM DropLeavesLittleAlways == Spec => []DropLeavesLittle
<1>1. IInv /\ DropInv => DropLeavesLittle
  BY Zenon DEF IInv, FileInv, CommitInv, DropInv, DropLeavesLittle, AtRest
<1> QED
  BY <1>1, Invariance, DropInvariance, PTL
=============================================================================
