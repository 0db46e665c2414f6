--------------------------- MODULE Configuration ---------------------------
(***************************************************************************)
(* Settings and what the server makes of them: the validation of           *)
(* src/config.rs, the credentials file of src/main.rs, and AuthState, the  *)
(* table of access keys that requests are checked against.                 *)
(*                                                                         *)
(* Texts are tokens; BadTexts are the ones a validator turns down.  An     *)
(* Option is a set with at most one element.                               *)
(***************************************************************************)
EXTENDS Routing

S3Action == {"PutObject", "GetObject", "HeadObject", "DeleteObject", "CreateMultipartUpload",
             "UploadPart", "CompleteMultipartUpload", "AbortMultipartUpload",
             "ListMultipartUploadParts", "HeadBucket"}

BadTexts == {"", "control"}                \* nowhere accepted
WithSpace == {"a b"}                       \* not accepted in an access key id
BadRegions == BadTexts \cup WithSpace \cup {"US-EAST-1", "us-"}

validate_access_key_id(s) == s \notin BadTexts \cup WithSpace
validate_secret_key(s) == s \notin BadTexts
validate_session_token(t) == "" \notin t
is_valid_region(s) == s \notin BadRegions

-----------------------------------------------------------------------------
(* The credentials file.  An entry may leave `active' out; an action is    *)
(* spelled <<form, name>>, in one of the three forms from_str reads.       *)

ActionForms == {"s3:", "plain", "kebab"}
from_str(spelled) == IF spelled[1] \in ActionForms THEN {spelled[2]} \cap S3Action ELSE {}

(* AccessKeyConfig of a file entry (try_into_config).                      *)
EntryConfig(e) ==
  [id |-> e.id, secret |-> e.secret, token |-> e.token,
   active |-> e.active # {FALSE},
   buckets |-> e.buckets,
   actions |-> UNION {from_str(a) : a \in e.actions}]

(* load_credentials_file: the credentials, or nothing when it fails.       *)
load_credentials_file(file) ==
  CASE file.is = "absent" -> {<<>>}
    [] file.is \in {"unreadable", "notJson"} -> {}
    [] file.is = "json" ->
         IF \E i \in DOMAIN file.entries : \E a \in file.entries[i].actions : from_str(a) = {}
           THEN {}
           ELSE {[i \in DOMAIN file.entries |-> EntryConfig(file.entries[i])]}

-----------------------------------------------------------------------------
(* Validation.                                                             *)

(* UploadLimits::validated, then the comparison UploadLimits::validate adds. *)
ValidLimits(limits) ==
  /\ \A l \in DOMAIN limits : limits[l] # 0
  /\ limits.min_non_final_part_size <= limits.max_part_size

ValidTuning(tuning) == \A b \in DOMAIN tuning : tuning[b] # 0

ValidKey(k) ==
  /\ validate_access_key_id(k.id)
  /\ validate_secret_key(k.secret)
  /\ validate_session_token(k.token)
  /\ \A b \in k.buckets : BucketNameErrors(b) = {}

(* The primary key and the credentials, in the order they are inserted.    *)
AllKeys(auth) == <<auth.primary>> \o auth.credentials

MutantDuplicates(auth) ==
  /\ \A i \in DOMAIN AllKeys(auth) : ValidKey(AllKeys(auth)[i])
  /\ is_valid_region(auth.region)
  /\ auth.max_skew_seconds >= 0

ValidAuth(auth) ==
  LET keys == AllKeys(auth)
  IN  /\ \A i \in DOMAIN keys : ValidKey(keys[i])
      /\ is_valid_region(auth.region)
      /\ auth.max_skew_seconds >= 0
      /\ \A i, j \in DOMAIN keys : i # j => keys[i].id # keys[j].id

ValidConfig(config) == ValidLimits(config.upload_limits) /\ ValidAuth(config.auth)

(* validate_health_path; the path is {} when the health route is off.      *)
ValidHealthPath(path) ==
  \A p \in path : Len(p) > 1 /\ p[1] = Slash /\ At(p, Plain("*")) = {}

-----------------------------------------------------------------------------
(* AuthState::new: a map that a later key of the same id would overwrite.  *)

AuthState(auth) ==
  LET keys == AllKeys(auth)
      last(id) == CHOOSE i \in DOMAIN keys :
                    keys[i].id = id /\ \A j \in DOMAIN keys : keys[j].id = id => j <= i
  IN  [allow_anonymous  |-> auth.allow_anonymous,
       region           |-> auth.region,
       max_skew_seconds |-> auth.max_skew_seconds,
       anonymous_allowed_buckets |-> auth.primary.buckets,
       credentials |-> [id \in {keys[i].id : i \in DOMAIN keys} |-> keys[last(id)]]]

(* AuthConfig::permits, which the handlers do not call.                    *)
permits(auth, bucket, action) ==
  /\ auth.primary.buckets = {} \/ bucket \in auth.primary.buckets
  /\ auth.primary.actions = {} \/ action \in auth.primary.actions

permits_anonymous_bucket(state, bucket) ==
  state.anonymous_allowed_buckets = {} \/ bucket \in state.anonymous_allowed_buckets

permits_credential(state, id, bucket, action) ==
  /\ id \in DOMAIN state.credentials
  /\ LET k == state.credentials[id]
     IN  /\ k.buckets = {} \/ bucket \in k.buckets
         /\ k.actions = {} \/ action \in k.actions
=============================================================================
