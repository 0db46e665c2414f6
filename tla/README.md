# s3-endpoint: TLA+ models, checks and proofs

s3-endpoint is an S3-compatible HTTP server (axum and tokio) that keeps objects
and multipart uploads in a directory of the local filesystem. This directory
holds TLA+ models of the way of a request through the server - start-up,
authentication, routing, admission, the body, the processors and the two stores -
with TLC configurations that check them on small instances, and TLAPS proofs of
the central invariants for instances of any size. All paths below are relative
to `src/src/`.

## The system

| Part | Sources | Modelled by |
|---|---|---|
| Object store: staged commit, rollback, read, delete, startup clean-up | `storage/object.rs`, `storage/fs_util.rs` | `ObjectStore`, `AtomicObjectStore` |
| Temporary files and their drop guards | `storage/temp.rs` | both stores, `UploadProcessing` |
| Multipart store: sessions, parts, completion, abort, persistence, startup | `storage/multipart.rs`, `storage/model.rs` | `MultipartStore` |
| Dispatch, admission, hooks, tenant operations, the handlers' checks | `handlers/*.rs`, `lib.rs`, `hooks.rs` | `RequestLifecycle` |
| Upload processors, and the PutObject and CompleteMultipartUpload handlers around them | `middleware.rs`, `handlers/put_object.rs`, `handlers/multipart.rs` | `UploadProcessing` |
| Body pipeline: aws-chunked decoding, chunk signatures, limits | `body/upload.rs`, `body/aws_chunked.rs` | `UploadBody`, `AwsChunked` |
| Checksums of a body, and of a completed upload | `body/checksum.rs`, `storage/complete_checksum.rs` | `Checksums` |
| Routing, targets, the tenant's view of a request | `handlers/s3.rs`, `s3/*.rs` | `Routing`, `Endpoint` |
| Configuration, credentials file, start-up | `config.rs`, `main.rs`, `lib.rs` | `Configuration`, `Endpoint` |
| Authentication and grants | `auth.rs` | `Authentication`, `Endpoint` |
| Ranges, conditional requests, streamed bodies | `handlers/get_object.rs`, `head_object.rs` | `ObjectReads` |
| ListParts | `handlers/multipart.rs` | `PartListing` |
| Formatting of answers, the router's table | `error.rs`, `http.rs` | not modelled |

A request is admitted, routed (`handlers/s3.rs`), authenticated, and handed to a
handler, which runs as one future. The handler stages a body in a temporary file,
lets the processors work on it, and asks a store to publish it. Handlers run
concurrently; the stores take no lock across an await. A completion of a
multipart upload stages an object from its parts and commits it to the object
store.

Three facts about the platform shape the models of files and requests.

* Every awaited `tokio::fs` call, and every access to the session map between
  two awaits, is one step. Between steps any other request may run.
* When the tenant timeout fires, or the client goes away, the handler's future is
  dropped (`Cancel` in the stores, `timeout` and `Drop` elsewhere). The filesystem
  call in flight was handed to the blocking pool and still completes; nothing
  after it runs, except the `Drop` of permits, leases and temporary-file guards
  that are still armed.
* The process may die between any two steps of a store (`Crash`). Files stay;
  memory is lost; startup runs pass by pass, and an error or another crash may
  end a pass after any part of its work.

A power failure that loses renames the kernel has acknowledged is not modelled:
the code does not sync directories and does not claim to survive it.

## Modules

**ObjectStore.** State: `object[k]` and `metadata[k]`, the upload whose file is
published under a key (or `Nil`); `tmp[u]`, the four temporary files of an
upload (staged bytes, metadata, two rollback links), each absent, partial or
holding the file of some upload; a program counter and a reply per request; what
a read has got so far; the startup phase; the number of failed calls so far.
Content is abstracted to the name of the upload it came from, which is what
torn, mixed or stale files differ in. There is one action per filesystem call of
`create_temp_object`, `finish`, `discard`, `commit_staged_object` (with
`backup_existing_file`, both renames, both rollbacks, the removals and the
clean-up after an error), `delete_object`, `head_object` and `open_object`, and one
per pass of startup (`Pass`), which no request runs beside. `LeftBehind` is rename(2)
between two links of one file, which does nothing and succeeds: a rollback can meet
it. `last[k]` is history: the write on a key that began last while no other ran.

**AtomicObjectStore.** What a store promises to clients that take turns: a map
from keys to uploads, with writes that take effect in one step or not at all.
`RefinesAtomicStore` in `ObjectStore` maps the two files to it: a key's object is the
upload its metadata file names; within the two calls of a metadata rollback it is
what the rollback link holds.

**MultipartStore.** One upload: `session` (the entry of the in-memory map),
`disk` (session.json), the part files, the upload directory, the temporary files
of each part and of each writer of session.json, and per request a program
counter, the snapshot it cloned, the ETags it asks for and the parts it has
copied. Actions: `create_upload`, `upload_part` with `commit_part`,
`abort_upload`, `complete_upload` with its transition, validation, copying,
commit and clean-up, `restore_open_upload`, the three calls of
`persist_session`, and the two passes of startup. The session map is keyed by
upload id and no operation touches two entries, so one upload is enough. The
object commit of a completion is one step here with three outcomes: it returns, it
fails before the object is in place, or it fails after that, because a rollback
link could not be removed. `published` has the completions that put an object in
place, `committed` those whose commit returned. The inside of the commit is
`ObjectStore`'s subject.

The constants that set the environment are the same in both stores: `Overlap`
(may requests overlap on a key or an upload, or do clients take turns),
`MayCancel`, `MayCrash`, `FailingCalls` (the kinds of call that may fail) and
`MaxFailures` (how many may). `MultipartStore` has the flags of
`MultipartLifecycle` and `MayExpire` as well.

**RequestLifecycle.** Requests from arrival to answer. State, per request: where
`s3_entrypoint` is, what was asked, which step of the handler comes next, the
permits it holds, the checks it has passed, its tenant lease, what the provider
was told; and the free permits of the four semaphores. `HandlerSteps` is, for each
operation, the order in which its handler calls the checks, takes the permits,
reads the body and calls a store. Hooks, policies, providers and stores answer as
they like. A timeout ends the handler at any of its steps, a disconnect the task
at any await.

**UploadProcessing.** One PutObject or completion from its staged file to its
answer: staged file and guard, the replacement file of each processor, the
processors' answers, `replace_with` call by call, summary, size limit, metadata,
commit and discard. Any call may fail, and the handler may be dropped at any await,
with the call in flight and the guard's removal still to come in either order
(`late_call`). The commit disarms the guard first, so a handler dropped in it leaves
the staged file to whatever the call in flight still does. A processor may write its replacement file, or make a directory of
it, before answering whatever it likes.

**AwsChunked** holds the tokens of a chunked body - data bytes and CR and LF one by
one, the head of a chunk header, an extension or a trailer as one token - and
`decode_aws_chunked_body`, the whole-buffer decoder. A line ends at CR LF; a lone CR or
LF within it is part of the text, and `trim` takes it off the ends. So a trailer is
the sequence of tokens it was read from, and what is signed is the canonical text of
all trailers, as in `verify_trailer`. **UploadBody** is the incremental parser of
`body/upload.rs` with the frames a body arrives in, chunk and trailer signatures,
size limit, declared length, and the plain bodies. `size + 2` wraps at the width
of usize, as it does in a release build.

**Routing** (`detect_operation`, query helpers, target resolvers, the log
context), **Configuration** (validation, credentials file, the table of keys) and
**Authentication** (header and presigned requests, canonical request, time
windows, tokens, grants) are operators. **Endpoint** makes a system of them:
start-up in the order of `main` and `from_builder`, a client that signs a request,
a transport that may alter or repeat it, the clock, and deliveries. `Decide` follows
`dispatch`: an operation the server does not implement is refused before
authentication, a target that does not parse with the error the code names. Raw text is a
sequence of characters, each plain or percent-encoded, because decoding is what the
properties are about. A signature is the record of what entered the HMAC.

**Checksums.** Headers are read first and settle which digests are computed; the
body is fed in pieces; trailers and comparisons come last. Framing and payload hash
mode come in headers of their own, and `validate_upload_headers` and
`validate_payload_hash_mode` refuse the combinations that do not go together.

**ObjectReads.** A download that resumes with Range and If-Match, a cache that
revalidates, and single requests with every kind of range and condition, beside a
writer that replaces and deletes the object. `open_object` is three steps - read the
metadata, look for the object file, open it - and a write is two, so the headers
of a response can be of one version and its bytes of another. A response is
*sure* when no write took a step, or was half done, meanwhile. Numbers in a range
are u64 (`U64`).

**PartListing.** A client pages through the parts while parts are added and the
upload is closed.

**Decisions** runs `Endpoint`, `Checksums`, `ObjectReads` and `PartListing`, which
share no state, one per behaviour.

**ObjectStoreProofs**, **ObjectStoreTurnsProofs**, **MultipartStoreProofs**,
**MultipartTurnsProofs**, **RequestLifecycleProofs**, **UploadProcessingProofs**,
**ObjectReadsProofs.** The theorems. The **MC** modules give the constants their
values for TLC.

## Runs

Bounds of the stores. One key (or one upload) carries the interesting interference; the second
key of `object_serial` shows that keys do not disturb each other. The failures of
properties described below need at most two writers and, but for one that is
named, one failing call, dropped handler or crash. So two or three writers, a
deletion or abort, readers and one failing call reach every kind of interference
between two requests; `mp_turns` allows two failing calls, because a finished
upload leaves its session.json behind only when two removals fail. Each request
is made once. The number of crashes and dropped handlers is not bounded.

Bounds of the other models. Two requests are enough for a semaphore of one
permit to be contended, and the request pool has one or two. Two processors show
one that runs after another has replaced, kept or refused. Chunked bodies have up to three
chunks, and each is also sent with one token lost, repeated, swapped or cut off, with a
chunk moved, or with an odd header; every way of cutting the body into frames is
tried. A day is 3 seconds long and the clock stops at 4 (`DayLength`,
`MaxNow`), so that windows end and days change; usize spans 64 values (`UsizeSpan`);
a page of a listing has at most 2 of 4 parts (`MaxPartsLimit`); a reader makes at
most 3 requests (`MaxRequests`) for objects of up to 4 bytes, with bounds of
ranges from 0 to beyond the end, and beyond `U64`.

Deadlock is not checked in any run: a run ends when its requests have been served.

Checks that pass:

| Run | Requests and environment | Shows |
|---|---|---|
| `object_overlap` | 2 PUT, DELETE, GET on one key, overlapping; any call may fail; dropped handlers; crashes | Published files are complete and of their key (`PublishedWhole`); an acknowledged write that began alone survives crashes and startup (`AckedWriteSurvives`); startup leaves pairs (`RecoveryLeavesPairs`); only a DELETE or a rollback makes an object disappear (`OverwriteNeverHides`) |
| `object_serial` | 3 PUT, DELETE, GET, HEAD on two keys, taking turns on a key; a call that is not a removal may fail | The store is an atomic map (`RefinesAtomicStore`), in which failed uploads have no effect; bytes and metadata match (`WholeAtRest`); failed uploads leave no temporary file (`NoTempLeak`) |
| `mp_overlap` | UploadPart, Abort, 2 Complete overlapping; any call may fail | Completions exclude each other (`ExclusiveCompletion`); after a commit that returned nothing writes the object again (`SingleCompletion`) |
| `mp_parts` | 2 UploadPart of different parts, Complete, overlapping; any call may fail; dropped handlers | No acknowledged part is dropped from the listing (`AckedPartKept`); a completion that is not dropped does not leave the upload in Completing (`CompletingEnds`) |
| `mp_turns` | 3 UploadPart (one part twice), Abort, Complete taking turns; any two calls may fail; crashes | Acknowledged parts survive restarts (`AckedPartDurable`); finished uploads stay finished (`FinishedStaysFinished`); after at most one failure, `commit_part` has taken effect whole or not at all (`PartsMatchFiles`) and a completed object has the bytes whose ETags were named (`CompletedBytesMatch`) |
| `request_lifecycle` | An upload and a request of any kind; scarce permits; hooks, stores and bodies that fail; timeouts; disconnects | No permit or lease is kept by a request that has ended (`NothingKept`); the limits bound the work (`UploadsBounded`); a tenant provider hears of each answered operation once, and what the client hears (`ReportedOnce`); nobody waits for anybody, and a timeout ends also a stalled body (`BodylessRequestsEnd`) |
| `upload_processing` | One upload, up to 2 processors, 3 contents, one beyond the limit; any call may fail; dropped at any await | Only approved bytes are committed (`CommittedAsApproved`), described by their own size, ETag and checksums, within the limit (`MetadataDescribesBytes`); an answer leaves no temporary file (`AnswerLeavesNoFiles`), a drop at most those named below (`DropLeavesLittle`) |
| `upload_body` | Plain and chunked bodies in all modes, intact and damaged, in all frames | What is accepted is what the whole-buffer decoder makes of the body (`AcceptsLikeReference`), and framing causes no refusal (`RefusesLikeReference`); in the signed modes only the client's bytes are written, in order (`SignedBytesOnly`); what is written never exceeds the limit (`TypeOK`) |
| `decisions` | Start-up with good and refused settings; requests in both addressing styles, signed or not, altered, late or repeated | Routing and target agree (`RouteAgreesWithTarget`, `AddressingStyles`), also with what the tenant is charged for (`TenantContextMatches`); what is served was signed, by a key with that grant, in time (`ServedAsSigned`, `ServedWithinGrant`, `ServedInTime`) |
| | Uploads in every framing and payload hash mode, with checksums in headers, trailers or both | An accepted checksum, and one sent back, is of the bytes stored (`SuppliedIsVerified`); a BadDigest is a real difference (`BadDigestIsReal`) |
| | Readers whose calls interleave with those of a writer; a listing beside uploads | A resumed download of sure responses is of one version (`DownloadIsOneVersion`), a 304 is fresh (`NotModifiedIsFresh`), a range is the one asked for (`RangeIsExact`); each part is on one page (`NothingSkipped`) |

Checks that fail, each against a sentence of the repository that `PROJECT.json`
quotes:

| Run | The code |
|---|---|
| `object_torn` | Two overlapping uploads to one key can leave the bytes of one beside the metadata of the other, and nothing repairs it (`WholeAtRest`) |
| `tenant_unreported` | A task dropped by a disconnect never calls `finish_operation` for the operation it began (`EveryBegunReported`) |
| `anonymous_actions` | The global list of actions does not restrict anonymous requests (`AnonymousWithinLists`) |

### Limits of the results

The passing runs exclude what the code does not provide. Each exclusion can be
seen at work by changing constants of a run, or adding the property named:

- `object_torn` with `Overlap = FALSE` and `MayCrash = TRUE`: a crash between the two
  renames of an overwrite leaves a torn object too; startup sees two files and
  keeps them (`WholeAtRest`).
- `object_torn` with `FailingCalls = {"rename"}` and `MaxFailures = 1`: a failed
  upload's rollback can undo an upload acknowledged meanwhile
  (`FailedWritesUndoNothing`).
- `object_serial` with `MayCancel = TRUE`: a handler dropped between the two
  renames leaves a torn object (`WholeAtRest`), and one dropped anywhere in the
  commit leaves its temporary files, because `commit_staged_object` disarms the
  guard first (`NoTempLeak`). It is the same for parts.
- `object_serial` with `"remove"` in `FailingCalls`: an upload is answered with an
  error although it is published, when a rollback link cannot be removed
  (`FailedPutHasNoEffect`).
- `object_serial` with `Overlap = TRUE`: a GET can pair old headers with new bytes
  (`ReadsWhole`).
- `mp_turns` with `Overlap = TRUE`: a part uploaded again during a completion gets
  into the object unchecked (`CompletedBytesMatch`); two overlapping uploads of one
  part leave its listing and its bytes different (`PartsMatchFiles`); two snapshots
  of session.json renamed out of order lose an acknowledged part at the next restart
  (`AckedPartDurable`).
- `PartsMatchFiles` and `CompletedBytesMatch` are about parts whose uploads have been
  answered: a crash between the rename of a part and that of session.json leaves
  new bytes under the old listing. And they allow one failure: when persisting the
  session and renaming the old part back both fail, listing and bytes differ; the
  comment in the code says "where possible".
- `SingleCompletion` starts from a commit that returned: one that fails after its
  renames opens the session again, and a retry writes the object a second time.
- In `mp_overlap` an abort and a completion can both be acknowledged, and a failing
  completion can reopen an upload that is being aborted; with `MayCrash = TRUE` a
  restart can resume it (`FinishedStaysFinished`).
- In `mp_parts` with `MayCrash = TRUE`, startup treats a session persisted as
  Completing as finished and removes it. A completion that is dropped leaves the
  upload in Completing until then, which is why `CompletingEnds` excepts it.

Some properties of the other models carry an exception of their own, for the same
reason:

- `ReportedOnce` is about requests that are answered; of dropped ones,
  `tenant_unreported` shows that they may go unreported.
- `AnswerLeavesNoFiles`: when `replace_with` fails, the replacement file stays
  behind, for no guard owns it, as does any file whose removal fails.
- `DropLeavesLittle`: a handler dropped in a processor leaves that processor's
  replacement file; a rename in flight can be overtaken by the guard's removal and
  leave the staged file; so does a drop in the commit. Start-up removes them.
- `RefusesLikeReference` says nothing of leniency: when the final trailer ends a
  frame, the frames after it are not read, so data there goes unnoticed; and
  an over-long control line passes if its end comes in the same frame. Such bodies
  decode to the same bytes either way.
- `SignedBytesOnly` promises the canonical text of the trailers, not the trailers: a
  lone LF is part of a value, so when the CR between two trailers is lost, the second
  becomes part of the first and the text signed is the same.
- `DownloadIsOneVersion` and, for the bytes a cache holds, `NotModifiedIsFresh` need sure
  responses: a GET beside a write can send the ETag of one version with the bytes of
  another. Both are about conditions by ETag.
  If-Unmodified-Since and If-Modified-Since compare whole seconds and cannot tell two
  versions of one second apart.
- A Content-MD5 trailer beside a Content-MD5 header is ignored; `SuppliedIsVerified`
  is about the header then.

## Fairness

In `MultipartStore`, `FairSpec` has weak fairness on the next step of each begun request
and on startup. Tokio polls every ready task and a filesystem call returns with a
result or an error, so a handler that can go on does. There is no fairness on
`Begin`, `Cancel`, `Crash` or on a call's failing: nobody has to send a request,
and nothing has to go wrong. `ObjectStore` needs no fairness.

In `RequestLifecycle` the steps of a task and the timer of a lease are weakly fair:
hooks and stores return. Arrivals, disconnects and the arrival of a body are
not: `receive_body` may never happen, which is why `BodylessRequestsEnd` promises
an end only to requests without a body or with a timeout.

## Proofs

The theorems hold for every set of keys, parts, requests, contents, versions and
readers, and every setting of the environment constants, from the assumptions
named in the component's module: in the stores, the sets of requests are
disjoint, `Nil` and `Partial` are none of their elements, `KeyOf` and `NumberOf` have
their types, part numbers and `MaxFailures` are natural numbers; in `RequestLifecycle`, there
are finitely many requests and no limit is zero (`config.rs` refuses zero); in
`UploadProcessing`, contents have sizes; in `ObjectReads`, ETags tell contents apart,
there is a version, and the stream buffer is not empty. Leaves that ask for more
time or a particular prover (`SMTT`, `ZenonT`) do so because the default limit is
close. `TypeCorrect` establishes the type invariant of each model but `ObjectReads`, where it
is a conjunct of the inductive invariant.

*ObjectStoreProofs.* `IInv` adds to the type invariant
- `UploadInv`: what the temporary files of an upload hold at each point of its
  commit, and that a rollback link is a link to something published under the
  key. `PublishedWhole` needs it because a rename publishes whatever the temporary
  file holds, and a rollback whatever the link holds;
- `KeyInv`: published files are complete and of their key;
- `StartupInv`: what each finished pass of startup has established, and that no
  request runs meanwhile. `RecoveryLeavesPairs` needs it because the second pass
  must not undo the first.

A step of an upload touches only its own temporary files and the files of its
key (`PutEffect`); `PutStep` shows once that such a step keeps `IInv` if it keeps
`UploadInv` of that upload, and each action's lemma shows the latter.

From `Invariance` follow `TypeCorrect`, `PublishedWholeAlways`,
`AckedPutLeavesNoTempAlways`, and, as an action property, `RecoveryPairs`.

*ObjectStoreTurnsProofs.* Three more invariants on top of `IInv`:
- `TempInv`: which temporary files an upload can have at each point. `NoTempLeakAlways`
  follows, with overlap, when removals succeed and nothing is cut off;
- `AckedInv`: a write that began alone, and is still the last, finds the files of its
  key as it left them. `AckedWriteSurvivesAlways` follows without any assumption on
  overlap, failures, drops or crashes;
- `PairInv`: under `TakeTurns`, `OneFailure` and without crashes, object and metadata agree
  except at the points of a commit, rollback or deletion that it lists, and a reader's
  key is not written. `WholeAtRestAlways`, `FailedPutHasNoEffectAlways`,
  `ReadsWholeAlways` and the refinement `ImplementsAtomicStore` follow.

`OverwriteNeverHidesAlways` is an action property and follows from `IInv`.

*MultipartStoreProofs.* `IInv` adds to the type invariant
- `BodyInv` and `TaskInv`: a part reaches its rename only with a complete body or
  with none, and what a request will do when `persist_session` returns;
- `CreatorInv`, `AbortInv`, `StartupInv`: the creation has ended before any other
  request begins, an abort only ever inserts an aborted copy, and nothing runs
  during startup. So nobody but the completion that closed the session opens it
  while that completion runs, which is what `ExclusiveCompletion` lacks to be
  inductive;
- `CommittedInv`: without restarts, once a commit has returned, its completion is past
  all that could open the session again, and no other one is at work.
  `SingleCompletion` needs it.

From `Invariance` follow `TypeCorrect`, `CompletionsExclude` and, for a process
that does not crash, `CompletedOnce`. The last needs its assumption: when
persisting Completing fails and a crash follows the publication, the loaded
session is open and can be completed a second time. `KeptInv` says that a
part once inserted stays in the map until it is rolled back or uploaded again or
the session is gone; `AckedPartKeptUntilAbort` follows for a process that does not crash,
as long as no abort has begun, however requests overlap, fail and are dropped.

*MultipartTurnsProofs.* For a client that takes turns (`TakeTurns`), `PInv` consists of
- `TurnInv`: one request runs at a time, and what `persist_session` needs is there;
- `FinishInv`: every record that could open a finished upload again was paid for with
  a failed call, four in all, so `FinishedStaysFinishedAlways` holds up to three;
- `DurableInv`: where an acknowledged part is - file, map, session.json, and the
  snapshot of a writer - at each point; `AckedPartDurableAlways` follows over any
  crashes and failures, if uploads do not expire;
- `SerialInv`: with one failure that is no removal and without crashes, files and
  listing agree except at the points of `commit_part` that it lists, and a completion
  has copied what its client named. `PartsMatchFilesAlways` and
  `CompletedBytesMatchAlways` follow; with crashes and failing removals the two
  are model-checked (`mp_turns`).

*RequestLifecycleProofs.* `IInv` adds to the type invariant and
`PermitsConserved`, for each request,
- `AtInv` and `HeldInv`: a handler holds exactly the permits of the steps behind it,
  and a request outside its handler none of them. `PermitsConserved` needs it: a
  permit taken by a request that already held it would be counted once and
  missing twice;
- `PassedInv`: every step behind the handler's position has passed, from which
  `AuthorizedBeforeStorage` follows by the order of each handler's steps: a body is
  read, and a store written, only after the operation policy, authentication and
  authorisation for the target, and for uploads the upload policy, have passed;
- `LeaseInv` and `ReportInv`: where a lease lives and when its outcome is
  reported, for `NothingKept` and `ReportedOnce`.

`StepKeeps` shows once that a step of one request keeps the invariant of the others.
`UploadsBounded` follows from `PermitsConserved`: those at work hold a permit each, and
no more are held than there are.

*UploadProcessingProofs.* `IndexInv` says which processor is at work at each point,
`StagedInv` that the staged file is what has been approved so far, `EndInv` that
calls are left running only at the end, `CommitInv` how a handler dropped in its
commit is told from others, `FileInv` that only the processor at work has a
replacement file. `CommittedAsApproved`, `MetadataDescribesBytes` and
`AnswerLeavesNoFiles` follow for any number of processors, and with `DropInv`, which
says what the call in flight at a drop can still do, `DropLeavesLittle`.

*ObjectReadsProofs.* `RangeParsing` is about `parse_range_header` alone: for every size
and all numbers it yields the bytes the header names, or refuses when there are
none or a number is no u64. `FileInv` says when metadata and object file agree, and
that an opening that is still sure has the version in place. `ResponseInv` ties the
open stream to the reply it belongs to (`StreamInv`, `ReplyInv`), the reply to the
range asked for (`AskInv`), a cached copy to its version (`CacheInv`), and the bytes
collected by a download to one version (`DownloadInv`), which a resumption keeps
because If-Match compares ETags. From them follow `RangeIsExactAlways`,
`DownloadIsOneVersionAlways` and `NotModifiedIsFreshAlways`, of `ReadSpec`, the part of
`Decisions` that the reads are.

Only model-checked: liveness, which the provers cannot treat; `UploadBody` and
`AwsChunked`, whose reference decoder is recursive; `Endpoint`, `Checksums` and
`PartListing`, whose properties rest on sequences and counting of any length, that
is, on induction.

## Not modelled

- In `ObjectStore` and `MultipartStore`, requests refused before the first call of a
  store change nothing and are left out; they are `RequestLifecycle`'s and
  `Endpoint`'s subject.
- `MultipartStore::write_part` is a second entry to `commit_part` with no caller
  in the crate.
- Digests, ETags and signatures as computations: they are ideal, different for
  different inputs. Two uploads with the same bytes are indistinguishable to
  clients and torn files between them harmless. The byte arithmetic of composite
  checksums (`storage/checksum.rs`) is left out for the same reason.
- Text: the character rules of bucket names, keys and regions beyond a few
  representatives, dates as strings, the XML of multipart requests and answers,
  headers copied into metadata (`handlers/upload_metadata.rs`), the values of overrides
  of response headers (only whether they are valid, `ObjectReads`), parsing of environment variables and of the command
  line (`config.rs`, `main.rs`), the setters of the builder (`lib.rs`).
- Custom authenticators, which are the embedder's; `authorize` admits what they admit.
- The injected `Clock`: authentication reads `Utc::now()`, so `Endpoint`'s clock is
  that of the system.
- The answers of the bucket and health handlers, the formatting of errors
  (`error.rs`), the router's table (`http.rs`).
- Two processes on one storage root. The code assumes one, and its start-up
  clears `tmp/` before it binds the address.

## Plan

1. Composition of the two stores: a completion commits to a key that PUT and
   DELETE also write. Today the commit is one step of `MultipartStore`.
2. Theorems: `PartsMatchFiles` and `CompletedBytesMatch` over crashes.
