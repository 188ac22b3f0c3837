------------------------- MODULE RecordingProcessing -------------------------
(***************************************************************************)
(* The processing life of one recording: the row of table recordings, the  *)
(* API transactions that start, retry, repeat and delete its analysis, and *)
(* the handlers recording.process and recording.strengths that advance it  *)
(* (backend/internal/recording), on top of the job queue of WorkQueue.     *)
(*                                                                         *)
(* One transaction is one action; the calls of a transcription or language *)
(* model lie between the actions of a handler.  A handler may return an    *)
(* error between any two of its transactions: a provider failed, its       *)
(* deadline passed, a lease check failed, a commit was not acknowledged.   *)
(*                                                                         *)
(* Content is modelled by its origin.  suggestions is the delivery (job and *)
(* attempt) that analysed the transcript; corrected and strengths are the  *)
(* analysis they were written from.  Synthesis jobs are only enqueued and cancelled here *)
(* and run in module Shadowing.                                            *)
(***************************************************************************)
EXTENDS WorkQueue

CONSTANTS
  ProcessJobs, StrengthsJobs, ShadowJobs,  \* Jobs, by kind
  StrengthsOf,   \* the id job.ID + ":strengths" of each process job
  NoJob          \* NULL

ASSUME RecordingAssumption ==
  /\ Jobs = ProcessJobs \cup StrengthsJobs \cup ShadowJobs
  /\ ProcessJobs \cap StrengthsJobs = {}
  /\ (ProcessJobs \cup StrengthsJobs) \cap ShadowJobs = {}
  /\ StrengthsOf \in [ProcessJobs -> StrengthsJobs]
  /\ \A p, q \in ProcessJobs : StrengthsOf[p] = StrengthsOf[q] => p = q
  /\ NoJob \notin Jobs

VARIABLES
  rec,   \* the row of recordings
  work   \* what the handler of each consumer has in memory

vars == <<row, claim, rec, work>>

Stages == {"transcribing", "suggestions", "rewriting"}

\* A delivery of a process job.  Two deliveries may differ in their analysis, whether
\* or not checkpoints let the later one reuse parts of the earlier.
Analyses   == ProcessJobs \X (Nat \ {0})
NoAnalysis == <<>>

\* strengths_status 'unknown', of rows older than the column, is as 'pending'.
Recording ==
  [status          : {"processing", "ready", "failed"},
   stage           : Stages \cup {"none"},
   job             : ProcessJobs,
   pipeline        : {"focused", "legacy"},
   transcript      : BOOLEAN,
   suggestions     : Analyses \cup {NoAnalysis},
   corrected       : Analyses \cup {NoAnalysis},
   strengthsStatus : {"pending", "processing", "ready", "failed"},
   strengthsJob    : StrengthsJobs \cup {NoJob},
   strengths       : Analyses \cup {NoAnalysis},
   shadowing       : {"pending", "processing"},
   attempt         : ShadowJobs \cup {NoJob}]

NoRecording == [status |-> "absent"]

\* pc: the transaction the handler of the consumer comes to next.
Work == [pc : {"idle", "load", "verify", "transcribe", "analyze", "rewrite",
               "examples", "return"},
         suggestions : Analyses \cup {NoAnalysis}]

NoWork == [pc |-> "idle", suggestions |-> NoAnalysis]

\* The recording and what each handler remembers of it keep the columns and stages
\* that the tables and the type ProcessingWork declare.
TypeOK ==
  /\ QueueTypeOK
  /\ rec \in Recording \cup {NoRecording}
  /\ work \in [Workers -> Work]

Exists == rec # NoRecording

\* Mutant of Created: a promotion that leaves the transcript behind.
CreatedUntranscribed(p, stage, pipeline) ==
  [status |-> "processing", stage |-> stage, job |-> p, pipeline |-> pipeline,
   transcript |-> FALSE,
   suggestions |-> NoAnalysis, corrected |-> NoAnalysis,
   strengthsStatus |-> "pending", strengthsJob |-> NoJob, strengths |-> NoAnalysis,
   shadowing |-> "pending", attempt |-> NoJob]

\* A recording as Creator or the promotion of a guest preview inserts it.
Created(p, stage, pipeline) ==
  [status |-> "processing", stage |-> stage, job |-> p, pipeline |-> pipeline,
   transcript |-> stage = "suggestions",
   suggestions |-> NoAnalysis, corrected |-> NoAnalysis,
   strengthsStatus |-> "pending", strengthsJob |-> NoJob, strengths |-> NoAnalysis,
   shadowing |-> "pending", attempt |-> NoJob]

\* A database that is empty, or that holds a recording inserted before the
\* column analysis_pipeline existed (migration 0021).
Init ==
  /\ claim = [w \in Workers |-> Idle]
  /\ work = [w \in Workers |-> NoWork]
  /\ \/ /\ rec = NoRecording
        /\ row = [j \in Jobs |-> Absent]
     \/ \E p \in ProcessJobs :
          /\ rec = Created(p, "transcribing", "legacy")
          /\ row = [j \in Jobs |->
                      IF j = p THEN [Absent EXCEPT !.state = "queued", !.due = TRUE]
                      ELSE Absent]

-----------------------------------------------------------------------------
(* Job identifiers *)

\* uuid.NewString: an identifier that nothing refers to any more.
Unused(j) ==
  /\ row[j].state = "absent"
  /\ \A w \in Workers : Busy(w) => claim[w].job # j
  /\ Exists =>
       /\ j \notin {rec.job, rec.strengthsJob, rec.attempt}
       /\ \A a \in {rec.suggestions, rec.corrected, rec.strengths} :
            a # NoAnalysis => a[1] # j

NewProcessJob(p) == Unused(p) /\ Unused(StrengthsOf[p])

NewStrengthsJob(s) == Unused(s) /\ \A p \in ProcessJobs : StrengthsOf[p] # s

\* The table after the active jobs in S are cancelled and those in T enqueued.
Rows(S, T) ==
  [j \in Jobs |-> IF j \in T THEN Enqueued(j)
                  ELSE IF j \in S /\ row[j].state \in Active
                    THEN Released(row[j], "cancelled")
                    ELSE row[j]]

-----------------------------------------------------------------------------
(* API *)

Create(p, stage) ==
  /\ ~Exists
  /\ NewProcessJob(p)
  /\ rec' = Created(p, stage, "focused")
  /\ row' = Rows({}, {p})
  /\ UNCHANGED <<claim, work>>

\* RetryService.validate.  Recordings keep their audio asset.
Retryable ==
  /\ rec.status = "failed"
  /\ rec.stage \in Stages
  /\ rec.stage # "transcribing" => rec.transcript

\* Everything a client sees of corrections and synthesis goes back to pending.
Restarted(r, p) ==
  [r EXCEPT !.status = "processing", !.job = p, !.corrected = NoAnalysis,
            !.shadowing = "pending", !.attempt = NoJob]

WithoutAnalysis(r) ==
  [r EXCEPT !.suggestions = NoAnalysis, !.strengths = NoAnalysis,
            !.strengthsStatus = "pending", !.strengthsJob = NoJob]

\* The strengths jobs that a retry cancels.
RetriedJobs ==
  IF rec.stage \in {"transcribing", "suggestions"} THEN StrengthsJobs ELSE {}

\* Retry from the stage that failed.  records.Find and validate run before the
\* transaction; FailedIsRetryable says validate accepts every failed recording,
\* so what they read may be stale without harm.
Retry(p) ==
  /\ Exists
  /\ Retryable
  /\ NewProcessJob(p)
  /\ rec' = LET r == Restarted(rec, p) IN
              CASE rec.stage = "transcribing" ->
                     [WithoutAnalysis(r) EXCEPT !.transcript = FALSE]
                [] rec.stage = "suggestions" -> WithoutAnalysis(r)
                [] OTHER -> r
  /\ row' = Rows(RetriedJobs, {p})
  /\ UNCHANGED <<claim, work>>

\* Mutant of ReanalysisCancels: strengths jobs are left to run.
ReanalysisCancelsNoStrengths == ProcessJobs \cup ShadowJobs

ReanalysisCancels == ProcessJobs \cup StrengthsJobs \cup ShadowJobs

\* ScheduleFeedback, under a request key not seen before.
Reanalyze(p) ==
  /\ Exists
  /\ rec.status = "ready"
  /\ rec.transcript
  /\ NewProcessJob(p)
  /\ rec' = [WithoutAnalysis(Restarted(rec, p)) EXCEPT
               !.stage = "suggestions", !.pipeline = "focused"]
  /\ row' = Rows(ReanalysisCancels, {p})
  /\ UNCHANGED <<claim, work>>

RetryStrengths(s) ==
  /\ Exists
  /\ rec.strengthsStatus \notin {"processing", "ready"}
  /\ rec.transcript
  /\ rec.status = "ready" \/ rec.stage = "rewriting"
  /\ NewStrengthsJob(s)
  /\ rec' = [rec EXCEPT !.strengthsStatus = "processing", !.strengthsJob = s]
  /\ row' = Rows({}, {s})
  /\ UNCHANGED <<claim, work>>

DeletionCancels == ProcessJobs \cup StrengthsJobs \cup ShadowJobs

Delete ==
  /\ Exists
  /\ rec' = NoRecording
  /\ row' = Rows(DeletionCancels, {})
  /\ UNCHANGED <<claim, work>>

-----------------------------------------------------------------------------
(* Handlers *)

\* The handler of w comes to the transaction pc with a context still alive: a
\* statement under a cancelled context fails.
At(w, pc) ==
  /\ claim[w].phase = "handling"
  /\ claim[w].ctx
  /\ work[w].pc = pc

Goto(w, pc, suggestions) ==
  work' = [work EXCEPT ![w] = [pc |-> pc, suggestions |-> suggestions]]

\* WHERE status = 'processing' AND processing_job_id = job.ID
Current(w) ==
  /\ Exists
  /\ rec.status = "processing"
  /\ rec.job = claim[w].job

\* WHERE strengths_status = 'processing' AND strengths_job_id = job.ID
CurrentStrengths(w) ==
  /\ Exists
  /\ rec.strengthsStatus = "processing"
  /\ rec.strengthsJob = claim[w].job

StageStep(stage) ==
  CASE stage = "transcribing" -> "verify"
    [] stage = "suggestions"  -> "analyze"
    [] stage = "rewriting"    -> "rewrite"

\* A row that is not found ends the handler with nil.
LoadProcessingWork(w) ==
  /\ At(w, "load")
  /\ claim[w].job \in ProcessJobs
  /\ IF Current(w) THEN Goto(w, StageStep(rec.stage), rec.suggestions)
                   ELSE Goto(w, "return", NoAnalysis)
  /\ UNCHANGED <<row, claim, rec>>

\* The duration itself is left out; the lease and the row are checked.
VerifyDuration(w) ==
  /\ At(w, "verify")
  /\ Leased(w) /\ Current(w)
  /\ Goto(w, "transcribe", NoAnalysis)
  /\ UNCHANGED <<row, claim, rec>>

\* One statement, fenced by token but not by the expiry of the lease.
SaveTranscript(w) ==
  /\ At(w, "transcribe")
  /\ IF Current(w) /\ Fenced(w)
       THEN /\ rec' = [rec EXCEPT !.transcript = TRUE, !.stage = "suggestions"]
            /\ Goto(w, "analyze", NoAnalysis)
       ELSE /\ Goto(w, "return", NoAnalysis)
            /\ UNCHANGED rec
  /\ UNCHANGED <<row, claim>>

\* Mutant of Analysed: the strengths are published as found although a job is
\* still to find them.
AnalysedEarly(p, analysis) ==
  [rec EXCEPT !.suggestions = analysis, !.stage = "rewriting",
              !.strengths = NoAnalysis, !.strengthsStatus = "ready",
              !.strengthsJob = NoJob]

\* focused-v1 publishes the strengths with the analysis; legacy-v2 leaves them
\* to a job of their own.
Analysed(p, analysis) ==
  LET r == [rec EXCEPT !.suggestions = analysis, !.stage = "rewriting"] IN
  IF rec.pipeline = "focused"
    THEN [r EXCEPT !.strengths = analysis, !.strengthsStatus = "ready",
                   !.strengthsJob = NoJob]
    ELSE [r EXCEPT !.strengths = NoAnalysis, !.strengthsStatus = "processing",
                   !.strengthsJob = StrengthsOf[p]]

SaveAnalysis(w) ==
  /\ At(w, "analyze")
  /\ Leased(w)
  /\ LET p == claim[w].job
         analysis == <<p, claim[w].attempts>> IN
     IF Current(w)
       THEN /\ rec' = Analysed(p, analysis)
            /\ row' = Rows({}, IF rec.pipeline = "legacy" THEN {StrengthsOf[p]} ELSE {})
            /\ Goto(w, "rewrite", analysis)
       ELSE /\ Goto(w, "return", NoAnalysis)
            /\ UNCHANGED <<rec, row>>
  /\ UNCHANGED claim

\* The rewrite applies the suggestions the handler loaded or saved itself.
CompleteRecording(w) ==
  /\ At(w, "rewrite")
  /\ Leased(w)
  /\ IF Current(w)
       THEN \E d \in ShadowJobs :
              /\ Unused(d)
              /\ rec' = [rec EXCEPT !.status = "ready", !.stage = "none",
                                    !.corrected = work[w].suggestions,
                                    !.shadowing = "processing", !.attempt = d]
              /\ row' = Rows({}, {d})
       ELSE UNCHANGED <<rec, row>>
  /\ Goto(w, "return", NoAnalysis)
  /\ UNCHANGED claim

LoadStrengthsWork(w) ==
  /\ At(w, "load")
  /\ claim[w].job \in StrengthsJobs
  /\ IF CurrentStrengths(w) THEN Goto(w, "examples", rec.suggestions)
                            ELSE Goto(w, "return", NoAnalysis)
  /\ UNCHANGED <<row, claim, rec>>

SaveStrengths(w) ==
  /\ At(w, "examples")
  /\ Leased(w) /\ CurrentStrengths(w)
  /\ rec' = [rec EXCEPT !.strengthsStatus = "ready",
                        !.strengths = work[w].suggestions]
  /\ Goto(w, "return", NoAnalysis)
  /\ UNCHANGED <<row, claim>>

-----------------------------------------------------------------------------
(* The consumers, with what the handler and the finalizers add *)

StartJob(w, j) == Claim(w, j) /\ Goto(w, "load", NoAnalysis) /\ UNCHANGED rec

ReturnNil(w) ==
  /\ work[w].pc = "return"
  /\ HandlerReturns(w, "ok")
  /\ Goto(w, "idle", NoAnalysis)
  /\ UNCHANGED rec

ReturnError(w) ==
  /\ HandlerReturns(w, "err")
  /\ Goto(w, "idle", NoAnalysis)
  /\ UNCHANGED rec

\* Mutant of FinalizedFailure: the terminal failure of a job is not published.
FinalizedFailureLost(w) == rec

\* FinalizeFailure and FinalizeStrengthsFailure.
FinalizedFailure(w) ==
  CASE Current(w)          -> [rec EXCEPT !.status = "failed"]
    [] CurrentStrengths(w) -> [rec EXCEPT !.strengthsStatus = "failed"]
    [] OTHER               -> rec

FailJob(w) ==
  /\ Fail(w)
  /\ rec' = IF Fenced(w) /\ IsLastAttempt(w) THEN FinalizedFailure(w) ELSE rec
  /\ UNCHANGED work

LoseJob(w) == Vanish(w) /\ Goto(w, "idle", NoAnalysis) /\ UNCHANGED rec

QueueOnly(A) == A /\ UNCHANGED <<rec, work>>

Handle(w) ==
  \/ LoadProcessingWork(w)
  \/ VerifyDuration(w)
  \/ SaveTranscript(w)
  \/ SaveAnalysis(w)
  \/ CompleteRecording(w)
  \/ LoadStrengthsWork(w)
  \/ SaveStrengths(w)
  \/ ReturnNil(w)
  \/ ReturnError(w)

RecordingConsume(w) ==
  \/ \E j \in Jobs : StartJob(w, j)
  \/ Handle(w)
  \/ QueueOnly(Heartbeat(w))
  \/ QueueOnly(CancelContext(w))
  \/ QueueOnly(Complete(w))
  \/ FailJob(w)
  \/ LoseJob(w)

Request ==
  \/ \E p \in ProcessJobs, stage \in {"transcribing", "suggestions"} : Create(p, stage)
  \/ \E p \in ProcessJobs : Retry(p) \/ Reanalyze(p)
  \/ \E s \in StrengthsJobs : RetryStrengths(s)
  \/ Delete

Maintenance(j) ==
  \/ QueueOnly(PruneTerminal(j))
  \/ QueueOnly(LeaseExpires(j))
  \/ QueueOnly(BackoffElapses(j))

RecordingNext ==
  \/ \E w \in Workers : RecordingConsume(w)
  \/ Request
  \/ \E j \in Jobs : Maintenance(j)

RecordingSpec == Init /\ [][RecordingNext]_vars

\* As in WorkQueue: consumers keep polling, handlers return, outcomes are
\* reported, time passes.  No request has to come, no provider to succeed.
RecordingFairness ==
  /\ \A w \in Workers :
       /\ WF_vars(ReturnNil(w) \/ ReturnError(w))
       /\ WF_vars(QueueOnly(Complete(w)) \/ FailJob(w))
  /\ \A j \in Jobs :
       /\ SF_vars(\E w \in Workers : StartJob(w, j))
       /\ WF_vars(Orphaned(j) /\ QueueOnly(LeaseExpires(j)))
       /\ WF_vars(QueueOnly(BackoffElapses(j)))

RecordingFairSpec == RecordingSpec /\ RecordingFairness

-----------------------------------------------------------------------------
(* Safety *)

\* What the recording shows as under way is the work of a job that is still in
\* the queue: no crash, stale handler, cancellation or pruning leaves
\* status = 'processing' or strengths_status = 'processing' with nobody behind it.
PendingWorkHasItsJob ==
  /\ Exists /\ rec.status = "processing" => row[rec.job].state \in Active
  /\ Exists /\ rec.strengthsStatus = "processing" =>
       rec.strengthsJob # NoJob /\ row[rec.strengthsJob].state \in Active

\* Conversely every job in the queue is one the recording still refers to: none
\* outlives the analysis it was enqueued for, or the recording itself.
ActiveJobIsCurrent ==
  \A j \in Jobs : row[j].state \in Active =>
    /\ Exists
    /\ j \in ProcessJobs   => rec.job = j
    /\ j \in StrengthsJobs => rec.strengthsJob = j
    /\ j \in ShadowJobs    => rec.attempt = j

\* A failed recording is never a dead end: RetryService.validate accepts it,
\* whatever stage the failure, or a crash before it, left behind.
FailedIsRetryable == Exists /\ rec.status = "failed" => Retryable

\* What is published agrees with itself: the corrected text and the strengths
\* were written from the analysis the recording shows, not an older or newer one.
PublishedAgrees ==
  Exists =>
    /\ rec.status = "ready" =>
         rec.suggestions # NoAnalysis /\ rec.corrected = rec.suggestions
    /\ rec.strengthsStatus = "ready" => rec.strengths = rec.suggestions

StageRank == [transcribing |-> 1, suggestions |-> 2, rewriting |-> 3, none |-> 4]

\* While one job processes a recording its stages only advance, however often
\* the job is delivered: resume skips what is done, no late handler undoes it.
StageNeverRegresses ==
  [][Exists /\ Exists' /\ rec'.job = rec.job
       => /\ StageRank[rec.stage] <= StageRank[rec'.stage]
          /\ rec.status = "ready" => rec'.status = "ready"]_vars

-----------------------------------------------------------------------------
(* The inductive invariant *)

Early == rec.stage \in {"transcribing", "suggestions"}

NoneActive(S) == \A j \in S : row[j].state \notin Active

\* What the columns of the row say together: stage and status, what the stages passed
\* have left behind, and that strengths and synthesis belong to a finished stage.
RecordAgrees ==
  Exists =>
    /\ rec.status = "ready" <=> rec.stage = "none"
    /\ rec.stage # "transcribing" => rec.transcript
    /\ Early => rec.strengthsStatus = "pending"
    /\ ~Early => rec.suggestions # NoAnalysis
    /\ rec.status # "ready" => rec.attempt = NoJob

\* The jobs of the recording are those the queue has: what has failed, or has not
\* begun, has no job left that a retry would run beside, and the strengths job that
\* SaveAnalysis is to enqueue was never in the table.
JobsAgree ==
  /\ PendingWorkHasItsJob
  /\ ActiveJobIsCurrent
  /\ Exists =>
       /\ rec.status = "failed" => NoneActive(ProcessJobs)
       /\ rec.strengthsStatus \in {"pending", "failed"} => NoneActive(StrengthsJobs)
       /\ rec.status = "processing" /\ Early =>
            row[StrengthsOf[rec.job]].state = "absent"

\* The consumer that holds the job of the recording is where the stage of the
\* recording says, with the analysis it shows, and it does not report success
\* before its part of the recording is done.
HandlerAgrees(w) ==
  Busy(w) /\ Fenced(w) =>
    /\ work[w].pc \in {"verify", "transcribe", "analyze", "rewrite"} =>
         claim[w].job \in ProcessJobs
    /\ work[w].pc = "examples" => claim[w].job \in StrengthsJobs
    /\ Current(w) =>
         /\ claim[w].phase # "ok" /\ work[w].pc # "return"
         /\ work[w].pc \in {"verify", "transcribe"} => rec.stage = "transcribing"
         /\ work[w].pc = "analyze" => rec.stage = "suggestions"
         /\ work[w].pc = "rewrite" =>
              rec.stage = "rewriting" /\ work[w].suggestions = rec.suggestions
    /\ CurrentStrengths(w) =>
         /\ claim[w].phase # "ok" /\ work[w].pc # "return"
         /\ work[w].pc = "examples" => work[w].suggestions = rec.suggestions

HandlersAgree == \A w \in Workers : HandlerAgrees(w)

\* The inductive invariant of a recording: its row, its jobs and the consumers that
\* hold them agree, and no two consumers hold one job.
RecordingInv ==
  /\ TypeOK
  /\ TokensDiffer
  /\ RecordAgrees
  /\ PublishedAgrees
  /\ JobsAgree
  /\ HandlersAgree

-----------------------------------------------------------------------------
(* Liveness *)

\* A client that polls sees the end of what is under way: a recording leaves
\* 'processing', and so do its strengths, unless the consumer of the last
\* attempt was lost (Stranded).
PendingWorkEnds ==
  /\ \A p \in ProcessJobs :
       Exists /\ rec.status = "processing" /\ rec.job = p ~>
         \/ ~(Exists /\ rec.status = "processing" /\ rec.job = p)
         \/ Stranded(p)
  /\ \A s \in StrengthsJobs :
       Exists /\ rec.strengthsStatus = "processing" /\ rec.strengthsJob = s ~>
         \/ ~(Exists /\ rec.strengthsStatus = "processing" /\ rec.strengthsJob = s)
         \/ Stranded(s)
=============================================================================
