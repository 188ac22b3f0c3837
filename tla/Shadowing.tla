------------------------------ MODULE Shadowing ------------------------------
(***************************************************************************)
(* The pronunciation audio of one recording (backend/internal/shadowing):  *)
(* its columns in table recordings, its rows in table media_assets and its *)
(* objects in private storage, written by the handler shadowing.synthesize *)
(* of consumers of the job queue.                                          *)
(*                                                                         *)
(* Database and object store share no transaction.  The handler stores an  *)
(* object, then commits a row that names it, and removes the object again  *)
(* if the commit reports an error.  A commit, a Put or a Delete may have   *)
(* taken effect although an error was reported.                            *)
(*                                                                         *)
(* The corrected text is a version number; an object knows the version it  *)
(* speaks.  What writes the text (module RecordingProcessing) and what     *)
(* sweeps unattached assets (media/cleanup.go) appear by their effects on  *)
(* this state.                                                             *)
(***************************************************************************)
EXTENDS WorkQueue

CONSTANTS
  Objects,    \* object keys, one asset each
  Texts,      \* versions of the corrected transcript
  NoText,     \* corrected_transcript = ''; nothing stored under a key
  NoObject,   \* shadowing_asset_id IS NULL
  NoJob       \* shadowing_attempt_id IS NULL

ASSUME ShadowingAssumption ==
  NoText \notin Texts /\ NoObject \notin Objects /\ NoJob \notin Jobs

VARIABLES
  rec,    \* the columns of the recording that concern its audio
  asset,  \* the state of the row of each object in media_assets
  store,  \* the version spoken by each stored object
  work    \* what the handler of each consumer has in memory

vars == <<row, claim, rec, asset, store, work>>

Recording ==
  [text    : Texts \cup {NoText},
   status  : {"pending", "processing", "ready", "failed"},
   script  : BOOLEAN,   \* its audio is of the discontinued fictional answer
   object  : Objects \cup {NoObject},
   attempt : Jobs \cup {NoJob}]

NoRecording == [status |-> "absent"]

\* pc: the step the handler of the consumer comes to next.
Work == [pc      : {"idle", "load", "put", "complete", "discard", "return"},
         outcome : {"ok", "err"},
         text    : Texts \cup {NoText},
         object  : Objects \cup {NoObject}]

NoWork == [pc |-> "idle", outcome |-> "ok", text |-> NoText, object |-> NoObject]

\* The recording's audio columns, the assets and what each handler remembers keep the
\* shape the tables and the type Work declare.
\* retired: no longer attached, retention over.  A deleted row is as no row.
TypeOK ==
  /\ QueueTypeOK
  /\ rec \in Recording \cup {NoRecording}
  /\ asset \in [Objects -> {"none", "ready", "retired", "deleting"}]
  /\ store \in [Objects -> Texts \cup {NoText}]
  /\ work \in [Workers -> Work]

Exists == rec # NoRecording

\* A recording whose analysis is still running, or one with the audio of a
\* fictional answer.
Init ==
  /\ QueueInit
  /\ work = [w \in Workers |-> NoWork]
  /\ \/ /\ rec = [text |-> NoText, status |-> "pending", script |-> FALSE,
                  object |-> NoObject, attempt |-> NoJob]
        /\ asset = [o \in Objects |-> "none"]
        /\ store = [o \in Objects |-> NoText]
     \/ \E o \in Objects, t, u \in Texts :
          /\ t # u
          /\ rec = [text |-> t, status |-> "ready", script |-> TRUE,
                    object |-> o, attempt |-> NoJob]
          /\ asset = [x \in Objects |-> IF x = o THEN "ready" ELSE "none"]
          /\ store = [x \in Objects |-> IF x = o THEN u ELSE NoText]

-----------------------------------------------------------------------------
(* What happens around the handler *)

\* uuid.NewString: no row, no consumer and no recording knows the identifier.
NewJob(d) ==
  /\ row[d].state = "absent"
  /\ \A w \in Workers : Busy(w) => claim[w].job # d
  /\ Exists => rec.attempt # d

NewText(t) ==
  /\ \A o \in Objects : store[o] # t
  /\ \A w \in Workers : work[w].text # t

\* The recording starts a synthesis of its own under the job d.
Scheduled(r, d) == [r EXCEPT !.status = "processing", !.attempt = d]

\* CompleteRecording publishes a corrected transcript and enqueues its audio.
Publish(d, t) ==
  /\ Exists /\ rec.text = NoText
  /\ NewJob(d) /\ NewText(t)
  /\ rec' = [Scheduled(rec, d) EXCEPT !.text = t]
  /\ Enqueue(d)
  /\ UNCHANGED <<asset, store, work>>

\* The user asks for the audio again.
Schedule(d) ==
  /\ Exists /\ rec.text # NoText
  /\ rec.status \in (IF rec.script THEN {"pending", "failed", "ready"}
                                    ELSE {"pending", "failed"})
  /\ NewJob(d)
  /\ rec' = [Scheduled(rec, d) EXCEPT !.script = FALSE]
  /\ Enqueue(d)
  /\ UNCHANGED <<asset, store, work>>

Cancelled ==
  [d \in Jobs |-> IF row[d].state \in Active THEN Released(row[d], "cancelled")
                                             ELSE row[d]]

\* ScheduleFeedback withdraws the corrected transcript and its audio.
Reanalyze ==
  /\ Exists /\ rec.text # NoText
  /\ rec' = [rec EXCEPT !.text = NoText, !.status = "pending",
                        !.object = NoObject, !.attempt = NoJob]
  /\ asset' = [o \in Objects |-> IF o = rec.object /\ asset[o] = "ready"
                                 THEN "retired" ELSE asset[o]]
  /\ row' = Cancelled
  /\ UNCHANGED <<claim, store, work>>

Delete ==
  /\ Exists
  /\ rec' = NoRecording
  /\ asset' = [o \in Objects |-> IF o = rec.object THEN "deleting" ELSE asset[o]]
  /\ row' = Cancelled
  /\ UNCHANGED <<claim, store, work>>

\* EnqueueExpiredAssets, and the job media.delete it enqueues.
Sweep(o) ==
  /\ asset[o] = "retired"
  /\ asset' = [asset EXCEPT ![o] = "deleting"]
  /\ UNCHANGED <<row, claim, rec, store, work>>

DeleteObject(o) ==
  /\ asset[o] = "deleting"
  /\ store' = [store EXCEPT ![o] = NoText]
  /\ asset' = [asset EXCEPT ![o] = "none"]
  /\ UNCHANGED <<row, claim, rec, work>>

-----------------------------------------------------------------------------
(* The handler *)

\* A statement or a request under a cancelled context fails.
At(w, pc) ==
  /\ claim[w].phase = "handling"
  /\ claim[w].ctx
  /\ work[w].pc = pc

Goto(w, pc, outcome) ==
  work' = [work EXCEPT ![w].pc = pc, ![w].outcome = outcome]

\* Mutant of Current: any synthesis under way is taken for this one.
CurrentByStatus(w) == Exists /\ rec.status = "processing"

\* The recording waits for the job of w, which runs under a lease of w.
Current(w) ==
  /\ Exists
  /\ rec.status = "processing"
  /\ rec.attempt = claim[w].job
  /\ Leased(w)

\* No row, and so no error: the handler ends with nil.
LoadWork(w) ==
  /\ At(w, "load")
  /\ IF Current(w)
       THEN work' = [work EXCEPT ![w].pc = "put", ![w].text = rec.text]
       ELSE Goto(w, "return", "ok")
  /\ UNCHANGED <<row, claim, rec, asset, store>>

NewKey(o) ==
  /\ asset[o] = "none" /\ store[o] = NoText
  /\ \A w \in Workers : work[w].object # o

\* Synthesize, then Put under a new random key.
Put(w) ==
  /\ At(w, "put")
  /\ \E o \in Objects :
       /\ NewKey(o)
       /\ store' = [store EXCEPT ![o] = work[w].text]
       /\ \/ work' = [work EXCEPT ![w].pc = "complete", ![w].object = o]
          \/ Goto(w, "return", "err")
  /\ UNCHANGED <<row, claim, rec, asset>>

\* Mutant of Attached: the audio replaced stays attached.
AttachedTwice(o) == [asset EXCEPT ![o] = "ready"]

\* The asset of o is inserted, and the one it replaces is retired.
Attached(o) ==
  [x \in Objects |-> IF x = o THEN "ready"
                     ELSE IF x = rec.object /\ asset[x] # "deleting" THEN "retired"
                     ELSE asset[x]]

\* Store.Complete.  The commit may be reported as an error.
CompleteWork(w) ==
  /\ At(w, "complete")
  /\ IF Current(w)
       THEN /\ rec' = [rec EXCEPT !.status = "ready", !.object = work[w].object,
                                  !.script = FALSE, !.attempt = NoJob]
            /\ asset' = Attached(work[w].object)
            /\ Goto(w, "return", "ok") \/ Goto(w, "discard", "err")
       ELSE /\ Goto(w, "discard", "ok")
            /\ UNCHANGED <<rec, asset>>
  /\ UNCHANGED <<row, claim, store>>

CompleteFails(w) ==
  /\ claim[w].phase = "handling"
  /\ work[w].pc = "complete"
  /\ Goto(w, "discard", "err")
  /\ UNCHANGED <<row, claim, rec, asset, store>>

\* The object just stored is removed, best effort, under a context of its own.
Discard(w) ==
  /\ claim[w].phase = "handling"
  /\ work[w].pc = "discard"
  /\ store' \in {store, [store EXCEPT ![work[w].object] = NoText]}
  /\ Goto(w, "return", work[w].outcome)
  /\ UNCHANGED <<row, claim, rec, asset>>

\* An error before anything is stored ends the handler at once.
ReturnFrom(w, outcome) ==
  /\ HandlerReturns(w, outcome)
  /\ work' = [work EXCEPT ![w] = NoWork]
  /\ UNCHANGED <<rec, asset, store>>

Return(w)      == work[w].pc = "return" /\ ReturnFrom(w, work[w].outcome)
ReturnError(w) == work[w].pc \in {"load", "put"} /\ ReturnFrom(w, "err")

-----------------------------------------------------------------------------
(* The consumer *)

QueueOnly(A) == A /\ UNCHANGED <<rec, asset, store, work>>

StartJob(w, d) ==
  /\ Claim(w, d)
  /\ work' = [work EXCEPT ![w].pc = "load"]
  /\ UNCHANGED <<rec, asset, store>>

\* Mutant of FinalizedFailure: the terminal failure of a job is not published.
FinalizedFailureLost(w) == rec

FinalizedFailure(w) ==
  IF Exists /\ rec.status = "processing" /\ rec.attempt = claim[w].job
    THEN [rec EXCEPT !.status = "failed", !.attempt = NoJob]
    ELSE rec

FailJob(w) ==
  /\ Fail(w)
  /\ rec' = IF Fenced(w) /\ IsLastAttempt(w) THEN FinalizedFailure(w) ELSE rec
  /\ UNCHANGED <<asset, store, work>>

LoseJob(w) ==
  /\ Vanish(w)
  /\ work' = [work EXCEPT ![w] = NoWork]
  /\ UNCHANGED <<rec, asset, store>>

Handle(w) ==
  \/ LoadWork(w)
  \/ Put(w)
  \/ CompleteWork(w)
  \/ CompleteFails(w)
  \/ Discard(w)
  \/ Return(w)
  \/ ReturnError(w)

ShadowingConsume(w) ==
  \/ \E d \in Jobs : StartJob(w, d)
  \/ Handle(w)
  \/ QueueOnly(Heartbeat(w))
  \/ QueueOnly(CancelContext(w))
  \/ QueueOnly(Complete(w))
  \/ FailJob(w)
  \/ LoseJob(w)

Around ==
  \/ \E d \in Jobs, t \in Texts : Publish(d, t)
  \/ \E d \in Jobs : Schedule(d)
  \/ Reanalyze
  \/ Delete
  \/ \E o \in Objects : Sweep(o) \/ DeleteObject(o)

Maintenance(d) ==
  \/ QueueOnly(PruneTerminal(d))
  \/ QueueOnly(LeaseExpires(d))
  \/ QueueOnly(BackoffElapses(d))

ShadowingNext ==
  \/ \E w \in Workers : ShadowingConsume(w)
  \/ Around
  \/ \E d \in Jobs : Maintenance(d)

\* As in WorkQueue: handlers return, outcomes are reported, consumers keep
\* polling, time passes.
ShadowingFairness ==
  /\ \A w \in Workers :
       /\ WF_vars(Handle(w))
       /\ WF_vars(QueueOnly(Complete(w)) \/ FailJob(w))
  /\ \A d \in Jobs :
       /\ SF_vars(\E w \in Workers : StartJob(w, d))
       /\ WF_vars(Orphaned(d) /\ QueueOnly(LeaseExpires(d)))
       /\ WF_vars(QueueOnly(BackoffElapses(d)))

ShadowingSpec     == Init /\ [][ShadowingNext]_vars
ShadowingFairSpec == ShadowingSpec /\ ShadowingFairness

-----------------------------------------------------------------------------
(* Safety *)

\* The audio a user can play speaks the corrected text now shown: a slow handler
\* never publishes audio of a transcript that was withdrawn meanwhile.
AudioSpeaksText ==
  Exists /\ rec.status = "ready" /\ ~rec.script /\ store[rec.object] # NoText
    => store[rec.object] = rec.text

\* The attached assets are exactly the one the recording refers to: it is never
\* swept away, and an asset that lost its recording never stays attached, where
\* no sweep would find it.
AttachedIsReferenced ==
  \A o \in Objects : asset[o] = "ready" <=> Exists /\ rec.object = o

\* A synthesis that ended in failure, or was cancelled, is not shown as running:
\* Schedule would refuse to start another.
FailureIsPublished ==
  Exists /\ rec.status = "processing"
    => row[rec.attempt].state \notin {"failed", "cancelled"}

\* migrations/0011_enforce_shadowing_media_invariant.sql: "A recording can be
\* marked shadowing-ready only after its private media asset has been published",
\* there is no "false-ready state".
ReadyAudioIsStored ==
  Exists /\ rec.status = "ready" => store[rec.object] # NoText

-----------------------------------------------------------------------------
(* The inductive invariant *)

\* What the columns of the recording say together.
ColumnsAgree ==
  Exists =>
    /\ rec.status = "processing" <=> rec.attempt # NoJob
    /\ rec.status = "ready" => rec.object # NoObject

\* Whoever works for the synthesis under way speaks the text now shown, with or
\* without the lease; what is stored but not yet attached is safe from the sweep.
HandlerAgrees(w) ==
  /\ /\ Busy(w) /\ work[w].pc \in {"put", "complete"}
     /\ Exists /\ rec.attempt = claim[w].job
     => work[w].text = rec.text
  /\ work[w].pc = "complete" =>
       /\ work[w].object # NoObject
       /\ asset[work[w].object] = "none"
       /\ store[work[w].object] = work[w].text

\* uuid.NewString gives no two handlers one key.
KeysDiffer ==
  \A v, w \in Workers :
    v # w /\ work[v].object = work[w].object => work[v].object = NoObject

ShadowingInv ==
  /\ TypeOK
  /\ ColumnsAgree
  /\ KeysDiffer
  /\ \A w \in Workers : HandlerAgrees(w)
  /\ AttachedIsReferenced
  /\ AudioSpeaksText
  /\ FailureIsPublished

-----------------------------------------------------------------------------
(* Liveness *)

\* docs/ARCHITECTURE.md: workers "retry with bounded exponential backoff, and
\* publish terminal failure".  A synthesis under way is published or fails, even
\* if one sets aside the consumers lost on the last attempt.
SynthesisEnds ==
  \A d \in Jobs :
    Exists /\ rec.status = "processing" /\ rec.attempt = d ~>
      \/ ~(Exists /\ rec.status = "processing" /\ rec.attempt = d)
      \/ Stranded(d)
=============================================================================
