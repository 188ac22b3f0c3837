# A formal model of the daily-speak backend

daily-speak is a speaking trainer. A client uploads a spoken answer; workers
transcribe it, have a language model review it, rewrite it, and synthesize the
corrected text so that the learner can shadow it. API and worker processes share
a PostgreSQL database and a private object store and nothing else. What is hard
in this system is therefore not one algorithm but the meeting of three things: a
durable job queue that delivers *at least* once, handlers that hold no lock while
they talk to outside services for minutes, and clients that retry, repeat and
delete in the meantime.

This directory holds TLA+ modules translated from the Go sources
(`src/backend/internal/...`), configurations that check them with TLC, and proofs
checked with TLAPS. `PROJECT.json` maps each definition to the lines it models
and lists the hazards, runs, mutants, findings and theorems.

## 1. Inventory

| Component | State | Operations | Hard behaviour | What makes it correct |
|---|---|---|---|---|
| Durable job queue (`workqueue/queue.go`, `runner.go`, `worker/runtime.go`) | rows of `processing_jobs`; the `Job` in each consumer's memory; its job context | Enqueue, Claim, Heartbeat, Complete, Fail with a finalizer, PruneTerminal | leases that run out under a live handler, consumers that die, late reports, budget copies | one fence holder; late reports change nothing; no row waits that Claim would pass over; every job settles |
| Recording processing (`recording/`) | `recordings`: status, stage, pipeline, transcript, suggestions, corrected text, strengths, job ids | Create, Retry, RetryStrengths, ScheduleFeedback (reanalysis), Delete; handlers `recording.process`, `recording.strengths`; two finalizers | repeated deliveries resume by stage; slow handlers come back after retry, reanalysis or deletion | pending work has a job; no job outlives its cause; published parts belong to one analysis; a failure can be retried |
| Shadowing (`shadowing/`) | `shadowing_*` columns, `media_assets`, objects | Schedule, LoadWork, Put, Complete, discard, FinalizeFailure | two stores without a common transaction; a commit whose acknowledgement is lost | audio speaks the text shown; attached = referenced; ready means stored; a failure is visible |
| Dispatcher, maintenance (`background/`) | – | Handle, FinalizeFailure, Maintain | deadlines, pruning while stale handlers live | each kind has a finalizer; pruning touches terminal rows only |
| Media uploads (`media/service.go`, `repository.go`, `storage/`) | `media_uploads`, `media_assets`, multipart uploads, objects and their metadata | CreateUpload, parts, Complete, Abort, expiry | store calls between two transactions, unknown commits, stale claims, requests that die | an aborted upload never becomes an asset; what is attached is stored; the limits hold; every upload ends |
| Media cleanup (`media/cleanup.go`) | assets, `media.delete` jobs | EnqueueExpiredAssets, Delete, FinalizeFailure | sweep against attach, fixed job key | no attached asset is deleted; every unattached one goes in the end, unless its job is stranded |
| Generated assets, feedback audio (`media/generated_assets.go`, `recording/feedback_audio*.go`) | reserved and ready assets | Reserve, Put, Publish, RetireArtifacts | crash after reservation or Put | no object without a row; no published asset swept |
| Guest preview and promotion (`guestpreview/`, `auth/guest_promotion.go`) | `guest_previews`, its job, its audio, the interview it was made from | Create, processing, expiry, promotion | promotion or expiry beside a running job, a login that read its clock before its locks | a preview ends; it is promoted whole or not at all; what is due is erased |
| Sessions, refresh (`auth/`, `httpapi/identity_handlers.go`; browser: `web/src/lib/identity.ts`) | `device_sessions`, `refresh_tokens`, merged guests; the cookie of a browser, the identity and pending refresh of each tab | anonymous, login, register, refresh, logout, revoke one or all, merge a guest | lost answers, concurrent tabs, revoke against rotate | one usable token per session and none of a revoked one; no reuse without a loss; the cookie belongs to the identity shown |
| Adaptive interview (`interview/`) | sessions, turns, the reserve of questions, jobs keyed by turn; answer attempts, artifacts | prepare, start, advance, skip, attach audio, save a transcript, refill, cancel, link, finalize, expire | two transcripts of one answer, one job key per turn, audio after the end | a question follows the answer that is kept; what was linked stays answered; the questions do not run out |
| Rate limits, readiness (`operations/`) | window counters; pressure | allow, observe | window rollover in one upsert | at most the limit per window |
| Feedback text (`recording/rewrite.go`, `feedback_span.go`) | – | span search, edit application | overlaps, order of edits | edits apply to the span they name |
| Storage drivers, providers, HTTP rendering, practice, activity, profile, subscription, web views, deployment | I/O, queries, text | – | – | not modelled, see section 8 |

How they interact: the API and the handlers write their resource **and** its job
in one transaction (`Enqueue` takes the `pgx.Tx`). Consumers poll `Claim`, call
`background.Runtime.Handle`, and report with `Complete` or `Fail`. `Fail` runs the
resource's finalizer in its own transaction on the last attempt. Handlers fence
what they write by the job id stored in the resource, by the lease token, and
mostly by the lease's expiry. API transactions retire jobs by setting them
`cancelled`; maintenance removes terminal rows.

## 2. Modules and how they correspond to the code

| Module | Models |
|---|---|
| `WorkQueue` | `processing_jobs` and the consumers; the safety and liveness properties of the queue |
| `JobContract` | abstract: what a caller of `Enqueue` may rely on (pending, delivered within budget, settled once) |
| `RecordingProcessing` | one recording with its process, strengths and synthesis jobs, EXTENDS `WorkQueue` |
| `Shadowing` | the audio of one recording with its assets and objects, EXTENDS `WorkQueue` |
| `WorkQueueProofs` | theorems about `WorkQueue`, including that it implements `JobContract` |
| `RecordingProofs` | theorems about `RecordingProcessing`, from the lemmas of `WorkQueueProofs` |
| `ShadowingProofs` | theorems about `Shadowing`, from the lemmas of `WorkQueueProofs` |
| `AuthSessions` | device sessions and refresh tokens, with the browser that uses them |
| `AuthSessionsProofs` | theorems about `AuthSessions`, its tables and, with one tab, its browser |
| `MediaAssets` | rows of `media_assets`, objects and metadata in the store, the sweep, the `media.delete` handler |
| `MediaUploads` | uploads by clients over a multipart store, EXTENDS `MediaAssets` |
| `GeneratedAudio` | the spoken feedback a worker makes and publishes, EXTENDS `MediaAssets` |
| `MediaLibrary` | both over one store with one cleanup |
| `MediaProofs` | theorems about `MediaLibrary` |
| `InterviewSession` | one interview: session, turns, reserve, jobs and their handlers |
| `InterviewProofs` | theorems about `InterviewSession` |
| `GuestPreview` | a guest's preview with its interview, its audio, the sweep and the login, EXTENDS `InterviewSession` |
| `GuestProofs` | theorems about `GuestPreview` |
| `MCWorkQueue`, `MCRecordingProcessing`, `MCShadowing`, `MCAuthSessions`, `MCMediaLibrary`, `MCGuestPreview` | constants and initial states for TLC |

**WorkQueue.** `row[j]` is the row of an idempotency key (`absent` if none):
state, attempts, lease token, and two booleans that stand for comparisons with
`NOW()`: `live` (`lease_expires_at > NOW()`) and `due` (`available_at <= NOW()`).
`claim[w]` is what consumer `w` has in memory: the `Job` returned by `Claim` with
the token and attempts of *that* delivery, the phase of `runClaim`, and whether
`jobCtx` is alive. Actions: `Enqueue` (`ON CONFLICT DO NOTHING`), `Claim`,
`Heartbeat` (extends, or cancels the context when the fence fails; it does not ask
that the lease be unexpired, so it may revive one), `CancelContext`,
`HandlerReturns`, `Complete`, `Fail`, `Vanish`, `Cancel`, `PruneTerminal`, and time:
`LeaseExpires`, `BackoffElapses`. `Vanish` is a crash at any moment, and equally a
report whose statement failed: `runClaim` only logs it. An expired lease may belong
to a handler that is alive, so two handlers of a job can run at once.

**RecordingProcessing.** `rec` is the row of `recordings`, `work[w]` the transaction
the handler of `w` comes to next and the analysis it loaded or saved itself. One
database transaction is one action; provider calls lie between actions, and
`ReturnError` may come between any two. Content is modelled by its origin: an
analysis is the delivery (job, attempt) that made it; the corrected text and the
strengths carry the analysis they were written from. That is what lets
`PublishedAgrees` tell a mixed result from a consistent one. Both pipelines are
there: `focused-v1` publishes strengths with the analysis; `legacy-v2` enqueues
`<job>:strengths`. `Retry` resets what `sqlRetryTransaction.Claim` resets for the
stage that failed; `Reanalyze` is `ScheduleFeedback`; `Delete` cancels every active
job of the recording. `Init` allows a recording that was in work when migration
0021 added the pipeline column.

**Shadowing.** `rec` holds the columns of the recording that concern audio, `asset`
the rows of `media_assets`, `store` the stored objects by the version of the text
they speak. `Put` and the commit in `CompleteWork` may each report an error though
they took effect; `Discard` is the best-effort `MediaStore.Delete` that follows,
under a context of its own. `Publish` and `Reanalyze` are the effects on these
columns of the actions `CompleteRecording` and `Reanalyze` of RecordingProcessing.
`Sweep` and `DeleteObject` are the effects of media cleanup.

**AuthSessions.** `session` and `token` are the rows of the server (`revoked` is the
`revocation_reason`, an anonymous principal's columns are kept with its one session).
A call of a tab goes through phases: sent, answered by the server, headers processed
(the cookie is set or cleared), body read (`currentIdentity` is set). `refresh[t]` is
`refreshPromise`; `sign[t]` the anonymous, login, register or logout call. A call may
be lost before its headers (`LoseRefresh`, `LoseSign`) or before its body
(`BodyFails`); the request of a refresh given up may still be served later
(`ServeAdrift`), and a page may be reloaded at any moment. A commit may take effect
and be reported as an error. An error of the refresh handler, a 500 as well, clears
the cookie; one of the rate limit before it does not. `lost` and `split` remember
that an answer went missing, so that the properties can say what holds otherwise.

In `RecordingProcessing` and `Shadowing` each composed step conjoins an action of
the queue with what the handler or the finalizer does to the resource (`FailJob` is
`Fail` plus the finalizer, in one transaction as in the code). The modules below keep
of the queue only what `WorkQueue` shows of it: a row with its attempts, a lease that
may run out (`LoseDelete`, `LoseAudio`, `LoseLease`, `LosePreview`), a handler that
lost it and may go on beside the next one, a report that only the holder makes. Their
failures are counted in `faults` up to `MaxFaults`.

**MediaAssets.** `asset[a]` is the row (state, `attached`, `due` for
`retention_until <= NOW()`, `erased` for `deleted_at`, the checksum), `file[a]` and
`meta[a]` the object and what describes it: two files of the local driver, one object
of a bucket, so that a crash can come between them (`driver` is chosen at the start).
`EnqueueExpiredAssets` is the sweep, `QueueAsset` the deletion of a recording,
`ClaimDelete` to `EraseMark` the handler of `media.delete`: select, remove the object,
remove the metadata, update the row whatever it has become. `FailDelete` retries or runs
`Cleanup.FinalizeFailure`, which gives the asset back to the sweep once the attempts
(`DeleteTries`, 20 in the code) are spent. `LoseDelete` lets the lease expire: the row can
be claimed if an attempt is left, and until then the handler still holds it, so a late
report is accepted, as in `Store.Complete`. `StrandedDelete` is a lapsed row with no
attempt left, which nothing claims. `swept` remembers
for which assets a delete job was ever made.

**MediaUploads.** `upload[u]` is the row of `media_uploads`, `parts[u]` the multipart
upload in the store, `request[r]` where a request (or the sweep of expired uploads) is
between its database statements and its calls of the store. `CreateUpload` opens the
multipart upload before `InsertUpload` finds out whether the key, the guest or the
interview admits it. `CompleteUpload` claims, then `LoadParts`, `PublishParts`,
`DescribeObject`, `DropUploaded` (local) or `CompleteInBucket` (S3), then
`MarkCompleted`, whose outcome may be unknown; `CheckUpload` and `EraseObject` are what
the service does then. `AbortUpload`, `AbortExpiredUpload`, `AbortMultipart` and
`MarkAborted` are the other side. A request may die anywhere (`RequestDies`).

**GeneratedAudio.** `audio[p]` is the row of `recording_feedback_audio` with its job,
`voice[w]` where a worker is: `FindObject`, synthesis, `ReserveGenerated` (the row comes
before the object), `StatBeforePut`, the steps of `Put` of either driver,
`RegisterGenerated`, `CompleteAudio`. The bytes are the worker that made them, since
speech is never the same twice; every attempt writes the same key.

**InterviewSession.** `session`, `turns`, `reserve` and `job` are rows; `worker[w]` is
the phase of a handler with the answer it heard and whether the session was live when it
loaded its work. A question carries the turn it was made from and the text the model was
shown, which is what `AdaptiveFollowsAnswer` compares. Client actions are the requests
under the session's row lock: `CreateSession`, `Start`, `Advance` (which may skip),
`SkipTurn`, `AttachAudio`, `SaveTurnTranscript`, `EnsureRefill` (inside every poll),
`Cancel`, `LinkRecording`, `Finalize`. `LoadWork`, `SavePreparation`, `SaveTranscript`,
`SaveAdaptive`, `SaveRefill` are the transactions of `interview.process`, `ReturnError`
its failure with `FinalizeFailure`; `ExpireSessions` is the sweep.

**GuestPreview.** `preview` is the row with its `guest.preview` job and the stage its
recording starts at, `clip` the state of its audio, `login` a sign-in that has read its
clock (`fresh`) and has yet to take its locks, `previewer[p]` a handler. `Promote` is the
whole transaction of the login: merge, promotion, transfer of the interview, or nothing.
`ExpirePreview` is the sweep, `EraseClip`, `FailErase` and `LoseErase` the outcomes of the
`media.delete` job it makes: the audio is erased, the job fails for good and the sweep comes
back to it, or the consumer of its last attempt is lost (`stranded`). `SealInterviewLastTurn` asks for the job and its token
(`Working`), the other writes also that the preview is not due (`Fenced`).

## 3. Runs

| Run | Checks | Shows |
|---|---|---|
| `work_queue` | `QueueTypeOK` `QueueInv` `ExclusiveHolder`; `LiveLeaseIsKept` `OnlyHolderReports` `ContractKept` `LostDeliveryIsReclaimed` `SettlesOrStrands` | leases exclude each other, stale reports change nothing, the budget is spent exactly, the queue implements `JobContract`; a lost delivery is made again while budget is left; a job settles unless stranded. `QueueInv` is the invariant the proofs use |
| `work_queue_stranded` | `EveryJobSettles` (**violated**) | a consumer lost on the last attempt leaves the row running for ever |
| `recording` | `TypeOK` `PendingWorkHasItsJob` `ActiveJobIsCurrent` `FailedIsRetryable` `PublishedAgrees`; `StageNeverRegresses` | recording and jobs never part; results never mix |
| `recording_live` | `PendingWorkEnds` | a client that polls sees an end, unless the job is stranded |
| `shadowing` | `TypeOK` `AudioSpeaksText` `AttachedIsReferenced` `FailureIsPublished` | no withdrawn text is spoken, no attached asset is lost or swept |
| `shadowing_audio` | `ReadyAudioIsStored` (**violated**) | ready, but the object was discarded after an unacknowledged commit |
| `shadowing_lost` | `SynthesisEnds` (**violated**) | a lease that expires before the first query ends the job as a success with nothing done |
| `sessions` | `TypeOK` `OneUsableToken` `UsableTokenIsLive` `MergedGuestIsOut` `SerializedRefresh` `IdentityHasItsCookie`; `RevocationIsFinal` | in one tab rotation, reuse detection and revocation agree, and a session is revoked for reuse only after an answer was lost |
| `sessions_tabs` | `SerializedRefresh` (**violated**) | two tabs refresh with one cookie, and the session is revoked though nothing was lost |
| `media_library` | `LibraryTypeOK` `AttachedIsStored` `AbortFencesCompletion` `TurnBudget` `ReadyAudioPlays` `GeneratedIsRegistered`; `UnusedIsErased` `UploadSettles` | what is in use stays in the store, an abort wins over every late completion, limits hold over racing requests, no generated object is without a row, what nobody uses is erased unless its job is stranded, every upload ends |
| `guest_preview` | `AdaptiveFollowsAnswer` `LinkedIsAnswered` `PromotionIsWhole`; `QuestionComes` `PreviewEnds` `ExpiredIsErased` | questions follow the answer shown, what was linked stays answered, a promotion is whole, the interview does not run dry, a preview ends and is erased when due, unless the job is stranded |
| `guest_skipped` | `SkippedIsLeftOut` (**violated**) | a preview of an interview with a skipped question before an answered one always fails |

Each property of a passing run has a mutant in `PROJECT.json`: an operator next to
the one it replaces, changed as a plausible mistake in that line would change it,
under which TLC finds the property violated.

### What the violated runs say of the code

1. **Stranded jobs** (`queue.go:213`). `Claim` requires `attempts < max_attempts`
   also for expired running rows, and only `Fail`, called by the consumer itself,
   writes a terminal failure. ARCHITECTURE.md:81-82 says workers "publish terminal
   failure". After a crash on the last attempt the row is in `running` for ever, and
   so is the resource's `processing`. `SettlesOrStrands` shows this is the only way
   a job does not settle. A `media.delete` job is no exception: its asset stays in
   `deleting`, which neither the sweep (`media/cleanup.go:89`) nor the expiry of a preview
   (`guestpreview/store.go:231`) takes up, and `UnusedIsErased` and `ExpiredIsErased` have
   to except it.
2. **A job that succeeds without doing its work** (`shadowing/store.go:69`,
   `processor.go:45-48`). `LoadWork` takes an expired lease for "nothing to do" and
   the handler returns nil; `Complete` does not ask for a live lease, so the job is
   `succeeded` while the recording remains in `processing`, and `Schedule` refuses
   another attempt. The recording handlers do not have this fault: their load asks
   for the job id only and a failed lease check is an error, so the job is retried
   (`PendingWorkHasItsJob` holds).
3. **A ready recording without audio** (`shadowing/processor.go:88`). Any error of
   `Store.Complete` is followed by a delete of the object, also one from `Commit`
   whose effect is unknown. Migration 0011 names the "false-ready state" it is meant
   to exclude.
4. **Tabs do not serialize their refreshes** (`identity.ts:144`).
   api-compatibility.md:38-39 asks every client to serialize refresh attempts per
   device. `refreshOnce` does so within a tab; the cookie is shared by all tabs. A tab
   whose request leaves before the answer to another tab's has set the new cookie
   presents the consumed token, and the server revokes the session for reuse. The
   `sessions` run shows that a single tab never does this.
5. **A skipped question fails a guest's preview** (`guestpreview/processing_store.go:57`).
   `LoadInterviewTurns` leaves out skipped turns; `ComposeInterviewTranscript` takes
   "the complete stored timeline" in which "skipped turns remain ... so its sequence
   can be validated" (`recording/interview_timeline.go:17-18`) and refuses a first turn
   numbered 2. Every attempt fails the same way. The account's path
   (`recording/processing_repository.go`) loads skipped rows and does not have the fault.

`UnusedIsErased` has a second exception of that kind: the asset of a deleted recording keeps
`attached_at` (`recording/delete_repository.go:60-65`), so when its delete job fails for good
it becomes `failed` with `attached_at` set, and the sweep, which asks for `attached_at IS
NULL`, does not take it up.

Two other properties of `media_library` state the conditions under which they hold, and each
condition stands for something the code does not exclude. `ReadyAudioPlays` and
`GeneratedIsRegistered` speak of phrases no delete job was made for: the delete handler
updates the row whatever it has become (`media/cleanup.go:156`), and the key of generated
audio is used again, so a handler that lost its lease may remove what was made since.
`ReadyAudioPlays` speaks of the local store: `S3Store.Put` sends without a condition and
deletes what it finds instead of its own bytes (`storage/s3.go:104-118`), which may be
what another worker has published.

## 4. Bounds, and why they are enough

* Two consumers: a current and a stale handler of one job. A third would be another
  stale one, and stale handlers interact only through rows.
* `MaxAttempts` is 2 for one job and 1 for the others: a delivery that is not the
  last, one that is, and a first that is the last. In `recording` and `shadowing` the
  second consumer serves only the job with two attempts: it is then the stale handler
  beside the next delivery, or beside any later job.
* Three tokens: a job's row has at most one and the other consumer another, so a
  fresh one is always left. `Fresh` excludes tokens still in use; UUIDs never repeat.
* Two process jobs with their strengths jobs, one strengths job of a retry, one
  synthesis job in `recording`; two synthesis jobs, two objects and two texts in
  `shadowing`: an old and a new one of each. Identifiers come back into use when
  nothing refers to them any more (`Unused`, `NewJob`, `NewText`, `NewKey`), so runs
  are not cut short: histories may be of any length.
* In `sessions` two sessions, a guest and the account it signs in to (or two of
  either), and three refresh tokens, so that either session can be rotated. Sessions
  and tokens are never deleted, so these bound a history; a second rotation of the
  same session is in it when only one session is created. One tab in the passing run,
  two in the other: the property it refutes is about tabs.
* `media_library`: two uploads and one phrase, two requests (a completion beside an
  abort, a sweep or another completion), one delete job of two
  attempts, `TurnLimit` 1 so that a second answer is one too many, `MaxTries` 2, one fault of any kind per history. Uploads and
  generated audio touch different rows and meet only in cleanup, so an initial state
  offers one of three histories: an upload beside an earlier one that is attached, or was
  aborted and erased (whose fault is then spent or not); a phrase; or an asset whose removal
  has failed once, so that the one fault can fall on the last attempt: the job fails for
  good, or is stranded. Two inserts at once are not in the run (with the early phases of
  both requests its liveness checks would not fit); that the budget of answers holds then
  is the theorem `TurnsStayWithinBudget`. `GuestKeys` is
  empty: a guest's second upload is refused by the index that refuses a second key.
* `guest_preview`: two turns (one that is asked from nothing, one that follows an
  answer), one realtime and one batch text, two attempts, one fault. The initial states
  offer five histories, each of which the program reaches: an interview from its start
  without faults; an uploaded answer with an empty reserve, of an account or of a guest
  who has signed in; a guest who answered both questions, or skipped the first; a guest
  who gave a talk. `Bound` lets a second consumer of `interview.process` take part when
  the guest may no longer call, and one of `guest.preview` when there is no interview: a
  stale handler beside a current one, where nothing else would be in its way.
* Tokens, object keys and text versions are symmetric sets in `recording`, `shadowing`,
  `shadowing_audio`, and sessions and tokens in the `sessions` runs, tabs not. The runs
  with liveness properties use no symmetry.
* `CHECK_DEADLOCK FALSE` in the `shadowing` and the `guest` runs: a deleted recording does
  not come back within those bounds, and a history of a guest is over once its preview
  was promoted or erased.

## 5. Fairness

`FairSpec`, `RecordingFairSpec` and `ShadowingFairSpec` assume: a handler returns
(`background.Handle` puts a deadline on every kind); its outcome is reported or the
consumer vanishes; a lease nobody renews runs out and a backoff elapses; and a job
that is claimable again and again is claimed at last (strong fairness, because
consumers are busy in between: they poll without end and `ORDER BY available_at,
created_at` takes the oldest first among equal priorities). In these
modules nothing is assumed of clients, of maintenance, of heartbeats, or of a
provider's success. Heartbeats of a
live handler may keep its lease for ever only as long as the handler does not
return.

The media, interview and guest modules assume the same of their consumers:
`CleanupFairness`, `VoiceFairness`, `InterviewFairness` and `GuestFairness` have strong
fairness of a delivery and weak fairness of a handler's next step. Beyond that:

* The sweeps come back (`worker.runMaintenanceLoop` runs `Sweep` at every interval):
  strong fairness of `EnqueueExpiredAssets` and `AbortExpiredUpload`, because a request
  at work may disable them in between; weak fairness of `ExpirePreview`, which is enabled
  until it happens. `ExpireSessions` is not assumed to happen. `Runtime.Sweep` ends at its
  first error, in the order uploads, previews, interviews, assets; the assumption is that
  no sweep fails for ever.
* Time passes: `RetentionEnds`, `Elapse`, `BecomeStale`. Not `PreviewDue`: `PreviewEnds`
  holds of previews that never fall due.
* The `media.delete` job of a preview's audio runs (`EraseClip`) as long as it is not
  stranded; once it is, only its lost consumer could end it, and that is not assumed.
* A request that is not killed runs on (`RequestStep`).
* A client that shows an interview polls it (`Poll`): `QuestionComes` is a promise to
  such a client only.

## 6. What is proved

`WorkQueueProofs`, for every set of jobs, consumers and tokens, every assignment of
jobs to pools and every budget (`QueueAssumption`: each consumer serves a set of
jobs, budgets are positive, NULL is not a token):

* `TypeCorrect`, `QueueInvariant`: `Spec => []QueueTypeOK`, `Spec => []QueueInv`.
* `Exclusion`, `NothingWaitsInVain`: `[]ExclusiveHolder`, `[]WaitingIsClaimable` (a
  conjunct of `QueueInv`).
* `LeaseKept`, `ReportsAreFenced`: the action properties.
* `QueueKeepsContract`: the queue implements `JobContract`.

The argument. `ExclusiveHolder` is not inductive: a consumer that has lost its lease
and is idle no longer matters, but one that is still busy could, as far as
exclusion alone says, remember the very token the next claim writes. `TokensDiffer`
excludes that, and is kept because `Fresh` avoids the tokens that the row and the
busy consumers of the job have. `HolderKnowsAttempt` ties the attempt in memory to
the row, which with `WithinBudget` gives `WaitingIsClaimable` (a `Fail` that parks
the row has attempts below the budget) and the contract's `GiveUp` (a terminal
`Fail` has spent the budget exactly). `RowStep` and `RowColumns` say once how any
step changes rows; each conjunct of `QueueInv` has its own preservation lemma;
`ContractStep` maps each step to a contract step or a stutter.

`RecordingProofs`, for every set of process, strengths and synthesis jobs, consumers,
tokens and analyses (`RecordingAssumption`: the three kinds of job are disjoint, and each
process job has its own key for its strengths job, which is how `SaveAnalysis` builds it):
`RecordingIsInvariant` (`[]RecordingInv`), `RecordingTypes`, `NothingPendingIsOrphaned`
(`[]PendingWorkHasItsJob`), `NoJobOutlivesItsAnalysis` (`[]ActiveJobIsCurrent`),
`FailureCanBeRetried` (`[]FailedIsRetryable`), `PublishedIsOfOneAnalysis`
(`[]PublishedAgrees`) and the action property `StagesAdvance` (`StageNeverRegresses`).

The argument. Neither half of the tie between a row and its jobs is inductive alone: that
pending work has its job (`PendingWorkHasItsJob`) breaks when a handler whose lease is
good reports success before its part is done, and that a job in the queue is current
(`ActiveJobIsCurrent`) breaks when `SaveAnalysis` meets a strengths job that is already in
the table. `HandlersAgree` excludes the first: whoever holds the job of the recording is
where `stage` says and has not returned; what a stale consumer remembers is not
constrained at all, because the fences make it harmless. `JobsAgree` excludes the second:
while a recording is before its analysis, the row of its strengths job is absent, and what
has failed has no job left beside which a retry would run. `RecordAgrees` is what the
columns say together (a stage that was passed has left its result); `FailedIsRetryable`
follows from it and the types. `PublishedAgrees` needs the clause of `HandlerAgrees` that
the rewriting handler has the analysis the row shows, and that clause needs
`TokensDiffer`, so that no second holder replaces it meanwhile. Requests cancel and
enqueue several jobs in one transaction (`Rows`), which is no step of the queue's own
`Next`: `RowsType` and `RowsHolder` carry types and leases over it, the lemmas of
`WorkQueueProofs` (`NextType`, `DeliveryKept`) over everything else.

`ShadowingProofs`, for every set of jobs, consumers, object keys and versions of the text
(`ShadowingAssumption`: the three null values are not among them): `ShadowingIsInvariant`
(`[]ShadowingInv`), `ShadowingTypes`, `AudioIsOfTheText` (`[]AudioSpeaksText`),
`AttachmentIsExact` (`[]AttachedIsReferenced`) and `FailuresAreShown`
(`[]FailureIsPublished`).

The argument. Exclusion of consumers plays no part in it: a handler whose lease is gone may
go on to `Put` and `Complete` beside its successor, and the invariant holds of both.
`HandlerAgrees` says that whoever works for the attempt the row names speaks the text the
row has, lease or not, and that an object between `Put` and `Complete` has no asset row,
so no sweep can take it. `KeysDiffer` (fresh keys) keeps one handler's discard from
touching another's object. `ColumnsAgree` ties `attempt` to the status. `CompleteWork`
then attaches the text now shown, and the trigger on the recording keeps attachment and
reference together. `ReadyAudioIsStored` is no consequence of it: it is false, as the run
`shadowing_audio` shows.

The queue below both. `WorkQueue` promises what it does of a queue that is used one job at
a time. Its users are not such a queue: a deletion cancels several jobs and a reanalysis
cancels some and enqueues another, in one transaction with the rows of the recording. The
last section of `WorkQueueProofs` adds such a `Transaction` to the steps of the queue
(`UserStep`) and shows once that its invariant and promises survive (`UserKeeps`);
`RecordingUsesQueue` and `ShadowingUsesQueue` show that every step of the two composed
systems is a `UserStep`. From that, for each of the two: `[]QueueInv`
(`RecordingQueueIsSound`, `ShadowingQueueIsSound`), `LiveLeaseIsKept`
(`RecordingLeaseKept`, `ShadowingLeaseKept`), `OnlyHolderReports`
(`RecordingReportsAreFenced`, `ShadowingReportsAreFenced`) and, job by job, the steps of
`JobContract` (`RecordingKeepsContract`, `ShadowingKeepsContract`). The contract can only
hold job by job: `JobContract` moves one job in a step, a transaction several.

`AuthSessionsProofs`, for every set of tabs, sessions and tokens
(`SessionAssumption`: NULL is neither a session nor a token): `TypeCorrect`,
`OneToken`, `RevokedSessionHasNoToken`, `MergedGuestSignedOut` and `RevocationFinal`
prove `TypeOK`, `OneUsableToken`, `UsableTokenIsLive`, `MergedGuestIsOut` and
`RevocationIsFinal`.

The argument. `NextIsServerStep` reduces every action, of a tab or of anyone else, to
five ways in which the tables change: a rotation, a revocation of a set of sessions,
a grant, a grant with a merge, an expiry. `SessionInv` is preserved by each of them.
`OneUsableToken` needs `UsableTokenIsLive`: a grant to a new session must not meet an
old token of that session. `RevocationIsFinal` needs `UnbornIsUnrevoked`, since a
grant resets the row it creates.

About the browser, under the further hypothesis `OneTab` (any two tabs are the same):
`OneTabIsSerialized` (`OneTab /\ Spec => []SerializedRefresh`) and `IdentityRenews`
(`OneTab /\ Spec => []IdentityHasItsCookie`). `OneTab` is not an assumption of the module:
with two tabs `SerializedRefresh` is false and `sessions_tabs` shows it. The argument
follows the one token a session can be renewed with. `TokenInv`: while no answer was lost,
the cookie is a token that was consumed only while the answer replacing it is under way,
and what an answer carries was never presented and is not the cookie. So a refresh never
presents a consumed token, and no step revokes a session for reuse. `IdentityInv` adds
whose the token is: the cookie, or the answer in flight, renews the session the tab is
about to identify with (`Renews`). `IssuedTokens`, that a token is revoked only with its
session, holds for any number of tabs. Every step of the server that is not the tab's own
is a `QuietStep` (revocations and expiries), which only takes tokens away.

`MediaProofs`, for every set of assets, uploads, phrases, requests, workers and delete jobs,
both storage drivers, any bound on faults, any positive budget of delete attempts and any limit on answers (`MediaAssumption`,
`UploadAssumption`, `GeneratedAssumption`, `LibraryAssumption`: uploads and phrases are
disjoint sets of assets, null and the names of workers are not assets, keys of guests and
of interviews differ): `LibraryIsInvariant` (`[]LibraryInv`), `LibraryTypes`,
`AttachedStaysStored` (`[]AttachedIsStored`), `AbortWins` (`[]AbortFencesCompletion`),
`TurnsStayWithinBudget` (`[]TurnBudget`), `ReadyAudioCanPlay` (`[]ReadyAudioPlays`) and
`GeneratedStaysRegistered` (`[]GeneratedIsRegistered`). They are about `LibrarySpec`, which
starts from empty tables; the run starts from histories that lead further (`MCInit`).

The argument. `LibraryInv` has a part for each protocol. *Uploads*: `UploadAgrees` is the
table of the states that the upload row and the asset row may have together, and what the
store has in each. An object that is still wanted (`Wanted`: the upload was not given up,
or the asset is ready) is never metadata without bytes, and on S3 both come together.
`RequestAgrees` is, for each phase of a request, what it has seen or done *as far as it
still holds*: a completion that is about to mark the asset knows that the object is
stored, unless the upload has been given up since, in which case the fence of
`MarkCompleted` refuses it; whoever erases an object works for an upload that was fenced
as aborting. Two requests can complete one upload after a lost answer or a stale claim, so
the local driver's window between the object and its metadata belongs to one request
only. *Cleanup*: an eraser works only for what was swept
(`CleanupInv`), and of uploads nothing swept is ready again (`UploadAgrees`). *Generated audio*:
`PhraseAgrees` and `VoiceAgrees` say that a row was reserved before the first byte was
stored, and on the local driver that what a worker registers is what it found. `swept`
marks assets for which a delete job was ever made, about which the parts on generated
audio say nothing: a late eraser may take what a retry has published again, which is why
`ReadyAudioPlays` makes the same exception. `TurnBudget` needs that the answers that count
are finitely many and that only `CreateUpload`, whose guard reads the sum, adds one: `BudgetShrinks` and `CountedIsFinite` use the library's facts on cardinalities.

`InterviewProofs`, for every set of consumers and texts and every number of turns, attempts
and faults (`InterviewAssumption`: the bounds are natural numbers, those on turns and
attempts positive): `InterviewIsInvariant` (`[]InterviewInv`),
`AdaptiveAlwaysFollows` (`[]AdaptiveFollowsAnswer`) and `LinkedStaysAnswered`
(`[]LinkedIsAnswered`).

The argument. `InterviewInv` is the types and three parts. *SessionPart*: a session that
was not started has no turns (`NotStarted`), a linked one has left `recording`
(`LinkedLate`), and `LinkedIsAnswered`. A job that fails for good marks its turn as failed
only if it is not ready, so `LinkedIsAnswered` needs that no turn is added or skipped
after the link, which is `LinkedLate`. *JobPart*: one holder per job (`OneHolder`), whoever
holds a job works for an active one (`HeldIsActive`), and an active job of a turn is for a
turn that can no longer be skipped (`JobHasItsTurn`); without the last a handler could save
a transcript into a skipped turn. *QuestionPart*: a turn is ready exactly if a transcript
was accepted (`ReadyIsDecided`), a question's source is ready (`SourceIsReady`), the
handler that still transcribes a turn has no question made from it (`HearingIsFirst`), and
the handler that asks was shown the text the turn keeps (`AskingIsCurrent`). Together the
last three say that the text a question was made from can no longer be replaced: batch
text is written only while no question exists, realtime text only while nothing was
accepted. `TypeStep` carries the types; then each action has a lemma of its own
(`AdvanceKeeps`, `SaveTranscriptKeeps`, `ReturnErrorKeeps` and the others) that it keeps the
three parts, and `SameRows`, `SameHolders` and `QuietStep` say once what a step that leaves
rows or holders alone cannot disturb. `InterviewInductive` puts the actions together.

`GuestProofs`, under the same assumptions: `GuestIsInvariant` (`[]GuestInv`),
`PromotionIsAlwaysWhole` (`[]PromotionIsWhole`) and `GuestLinkStaysAnswered`
(`[]LinkedIsAnswered` of the composed system). `GuestInv` is `InterviewInv`, the types, and
five facts. `PromotionIsWhole` needs that a ready preview has its text (`ReadyHasText`),
which the handler makes true only because it has seen or saved the text before it completes
(`HandlerHasText`), however often its lease was lost in between; and that an interview
linked to a preview goes with it (`LinkHasPreview`), by transfer or by erasure.
`InterviewInv` is carried over by showing that each step of the guest that touches the
interview (link, seal, transfer, erasure) keeps it.

Every invariant and every action property of the passing runs is stated by a theorem.
The inductive invariants were put to TLC as invariants of the same instances before they
were proved; only `QueueInv` is kept as a property of a run.

The proofs found one fault of the models themselves: `CASE` expressions whose guards
overlapped, in four definitions. TLC takes the first arm that applies, the logic leaves
the choice open, so nothing about those steps could be proved. They are `IF` now, in the
order in which the code decides.

Only model-checked, because the prover has no reasoning about fairness and `ENABLED`: the
eight liveness properties `LostDeliveryIsReclaimed`, `SettlesOrStrands`,
`PendingWorkEnds`, `UploadSettles`, `UnusedIsErased`, `QuestionComes`, `PreviewEnds` and
`ExpiredIsErased`. The five violated properties are counterexamples and have no theorem.

## 7. What could come next

1. Action properties on the media tables: a completed upload is never taken back, an asset
   that was deleted stays deleted.
2. `IdentityHasItsCookie` for tabs that share the cookie but never refresh together.
3. Answer attempts on a finished interview, which reuse the shape of `recording.process`.

## 8. What is not modelled, and why

* Statements inside a transaction. Row locks make the read-then-write transactions
  of the modelled code act as one step; for single-statement fences under READ
  COMMITTED a re-check after a lock wait may see an older snapshot of the other
  table, which these modules do not show. Lock-order deadlocks end in one side's
  error, which they do (a handler may fail, a request may not happen).
* Clocks. Lease expiry and backoff are events; the database's `NOW()` is the only
  clock the modelled code compares with.
* Of sessions: passwords, more than one account, the encoding of access tokens (one
  may be refused at any moment instead), native clients. The authentication of a
  request and its transaction are one step. A sign-in or logout request that a tab
  has given up is served before that or not at all.
* Priorities between jobs and numbers of pools; metrics, statistics, logging.
* Of media: bytes and hashes (an object is who made it), single parts of an upload,
  signing of URLs, ranges of downloads, more than one owner, the leak of a multipart
  upload whose request died before its row was written (nothing in the code finds it).
* Of interviews and previews: answer attempts (`interview/answer_attempts*.go`) and
  question audio (`interview/question_artifacts*.go`), which follow the protocols of
  `RecordingProcessing` and `GeneratedAudio` on rows that nothing modelled reads;
  times within the recording, wording, the overlap test of questions (a choice);
  corrections; the number that limits admission (a refusal changes nothing).
* Rate limits and readiness: one upsert each, or reads; no state that outlives a
  statement and meets another.
* Text: prompts, model answers, parsing, spans, audio words.
* Provider clients, HTTP rendering and validation, the migration runner, practice,
  activity, profile, subscription, web views, deployment scripts: I/O, queries or text
  without interleaved state of their own.
