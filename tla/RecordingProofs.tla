---------------------------- MODULE RecordingProofs ----------------------------
(***************************************************************************)
(* Theorems of the processing life of a recording, for every set of jobs   *)
(* and consumers and every attempt budget.                                 *)
(***************************************************************************)
EXTENDS RecordingProcessing, WorkQueueProofs

-----------------------------------------------------------------------------
(* What a step leaves alone *)

\* The consumer w holds the lease of its job in the table.
Holding(w) == Busy(w) /\ Fenced(w)

\* If w holds a lease after the step it held it before, in the same place of its
\* handler, and has reported no success since.
HolderKept(w) ==
  Holding(w)' =>
    /\ Holding(w)
    /\ claim'[w].job = claim[w].job
    /\ claim'[w].phase = "ok" => claim[w].phase = "ok"
    /\ work'[w] = work[w]

\* No job enters or leaves the queue.
QuietRows ==
  \A j \in Jobs :
    /\ row'[j].state \in Active <=> row[j].state \in Active
    /\ row[j].state = "absent" => row'[j].state = "absent"

LEMMA JobKinds ==
  /\ \A p \in ProcessJobs : p \in Jobs /\ p \notin StrengthsJobs /\ p \notin ShadowJobs
  /\ \A s \in StrengthsJobs : s \in Jobs /\ s \notin ProcessJobs /\ s \notin ShadowJobs
  /\ \A d \in ShadowJobs : d \in Jobs /\ d \notin ProcessJobs /\ d \notin StrengthsJobs
  /\ \A p \in ProcessJobs : StrengthsOf[p] \in StrengthsJobs
  /\ NoJob \notin Jobs
  /\ \A j \in Jobs : j \in ProcessJobs \/ j \in StrengthsJobs \/ j \in ShadowJobs
  BY RecordingAssumption

\* Two consumers never hold the lease of one job.
LEMMA OneHolder ==
  ASSUME TokensDiffer, NEW v \in Workers, NEW w \in Workers, v # w,
         Holding(v), Holding(w)
  PROVE  claim[v].job # claim[w].job
  BY DEF TokensDiffer, Holding, Fenced

LEMMA HoldingRuns ==
  ASSUME QueueTypeOK, NEW w \in Workers, Holding(w)
  PROVE  claim[w].job \in Jobs /\ row[claim[w].job].state = "running"
  BY BusyType DEF Holding, Fenced, Claimed

\* While the row of the recording and its jobs stay, what they say together does.
LEMMA JobsStay ==
  ASSUME JobsAgree, rec' = rec, QuietRows, TypeOK
  PROVE  JobsAgree'
  <1>1. Exists => rec.job \in Jobs /\ (rec.strengthsJob # NoJob => rec.strengthsJob \in Jobs)
    BY JobKinds DEF TypeOK, Exists, Recording
  <1>2. Exists => StrengthsOf[rec.job] \in Jobs
    BY JobKinds DEF TypeOK, Exists, Recording
  <1>3. PendingWorkHasItsJob'
    BY <1>1 DEF JobsAgree, PendingWorkHasItsJob, QuietRows, Exists
  <1>4. ActiveJobIsCurrent'
    BY DEF JobsAgree, ActiveJobIsCurrent, QuietRows, Exists
  <1>5. \A S \in SUBSET Jobs : NoneActive(S) => NoneActive(S)'
    BY DEF NoneActive, QuietRows
  <1>6. ProcessJobs \subseteq Jobs /\ StrengthsJobs \subseteq Jobs
    BY JobKinds
  <1>7. QED
    BY <1>2, <1>3, <1>4, <1>5, <1>6 DEF JobsAgree, QuietRows, Exists, Early

\* A job that ends while the recording does not wait for it.
LEMMA JobRetires ==
  ASSUME JobsAgree, rec' = rec, TypeOK, NEW k \in Jobs,
         row[k].state \in Active,
         row'[k].state \in Terminal,
         \A j \in Jobs \ {k} : row'[j] = row[j],
         ~(Exists /\ rec.status = "processing" /\ rec.job = k),
         ~(Exists /\ rec.strengthsStatus = "processing" /\ rec.strengthsJob = k)
  PROVE  JobsAgree'
  <1>1. Exists => rec.job \in Jobs /\ (rec.strengthsJob # NoJob => rec.strengthsJob \in Jobs)
    BY JobKinds DEF TypeOK, Exists, Recording
  <1>2. Exists => StrengthsOf[rec.job] \in Jobs
    BY JobKinds DEF TypeOK, Exists, Recording
  <1>3. PendingWorkHasItsJob'
    BY <1>1 DEF JobsAgree, PendingWorkHasItsJob, Exists
  <1>4. row'[k].state \notin Active
    BY DEF Active, Waiting, Terminal
  <1>5. ActiveJobIsCurrent'
    BY <1>4 DEF JobsAgree, ActiveJobIsCurrent, Exists
  <1>6. \A S \in SUBSET Jobs : NoneActive(S) => NoneActive(S)'
    BY <1>4 DEF NoneActive
  <1>7. ProcessJobs \subseteq Jobs /\ StrengthsJobs \subseteq Jobs
    BY JobKinds
  <1>8. row[k].state # "absent"
    BY DEF Active, Waiting
  <1>9. QED
    BY <1>2, <1>3, <1>5, <1>6, <1>7, <1>8 DEF JobsAgree, Exists, Early

\* While the row of the recording stays, a consumer that held its lease all along
\* still agrees with it.
LEMMA HandlerStays ==
  ASSUME NEW w \in Workers, HandlerAgrees(w), rec' = rec, HolderKept(w)
  PROVE  HandlerAgrees(w)'
  BY DEF HandlerAgrees, HolderKept, Holding, Current, CurrentStrengths, Exists

-----------------------------------------------------------------------------
(* Rows *)

LEMMA RowsColumns ==
  ASSUME QueueTypeOK, NEW S \in SUBSET Jobs, NEW T \in SUBSET Jobs, NEW j \in Jobs
  PROVE  /\ Rows(S, T)[j] \in Row
         /\ j \in T /\ row[j].state = "absent" => Rows(S, T)[j].state = "queued"
         /\ j \notin T /\ (j \notin S \/ row[j].state \notin Active)
              => Rows(S, T)[j] = row[j]
         /\ j \notin T /\ j \in S => Rows(S, T)[j].state \notin Active
  <1>1. row[j] \in Row /\ Enqueued(j) \in Row
    BY EnqueuedType DEF QueueTypeOK
  <1>2. Released(row[j], "cancelled") \in Row
    BY <1>1, ReleasedType DEF Terminal
  <1>3. Released(row[j], "cancelled").state = "cancelled"
    BY <1>1 DEF Released, Row
  <1>4. row[j].state = "absent" => Enqueued(j).state = "queued"
    BY DEF Enqueued, Absent
  <1>5. "cancelled" \notin Active
    BY DEF Active, Waiting
  <1>6. QED
    BY <1>1, <1>2, <1>3, <1>4, <1>5 DEF Rows

LEMMA RowsType ==
  ASSUME QueueTypeOK, NEW S \in SUBSET Jobs, NEW T \in SUBSET Jobs,
         row' = Rows(S, T), claim' = claim
  PROVE  QueueTypeOK'
  <1>1. \A j \in Jobs : Rows(S, T)[j] \in Row
    BY RowsColumns
  <1>2. Rows(S, T) \in [Jobs -> Row]
    BY <1>1 DEF Rows
  <1>3. QED
    BY <1>2 DEF QueueTypeOK

\* Cancelling and enqueuing give nobody a lease.
LEMMA RowsHolder ==
  ASSUME QueueTypeOK, NEW S \in SUBSET Jobs, NEW T \in SUBSET Jobs,
         \A j \in T : row[j].state = "absent",
         row' = Rows(S, T), claim' = claim, NEW w \in Workers, Holding(w)'
  PROVE  /\ Holding(w)
         /\ claim[w].job \notin S \cup T
         /\ row'[claim[w].job] = row[claim[w].job]
  <1> DEFINE j == claim[w].job
  <1>1. Busy(w) /\ row'[j].state = "running" /\ row'[j].token = claim[w].token
    BY DEF Holding, Busy, Fenced
  <1>2. j \in Jobs
    BY <1>1, BusyType DEF Claimed
  <1>3. j \notin T
    BY <1>1, <1>2, RowsColumns
  <1>4. j \notin S
    BY <1>1, <1>2, <1>3, RowsColumns DEF Active
  <1>5. row'[j] = row[j]
    BY <1>2, <1>3, <1>4, RowsColumns
  <1>6. QED
    BY <1>1, <1>3, <1>4, <1>5 DEF Holding, Fenced

LEMMA ClaimStays ==
  ASSUME TokensDiffer, claim' = claim
  PROVE  TokensDiffer'
  BY DEF TokensDiffer, Busy

-----------------------------------------------------------------------------
(* The steps of the queue *)

LEMMA QueueStepKeeps ==
  ASSUME QueueTypeOK, TokensDiffer, Next
  PROVE  QueueTypeOK' /\ TokensDiffer'
  BY NextType, TokensDifferStep

\* A job running after a step that claims nothing runs under the lease it had.
LEMMA ConsumerHolder ==
  ASSUME QueueTypeOK, [Next]_queueVars, ~Claims, NEW w \in Workers, Holding(w)'
  PROVE  /\ Holding(w)
         /\ claim'[w].job = claim[w].job
  <1>1. Busy(w)'
    BY DEF Holding
  <1>2. /\ Busy(w)
        /\ claim'[w].job = claim[w].job
        /\ claim'[w].token = claim[w].token
    BY <1>1, DeliveryKept
  <1>3. claim[w].job \in Jobs
    BY <1>2, BusyType DEF Claimed
  <1>4. row'[claim[w].job].state = "running" /\ row'[claim[w].job].token = claim[w].token
    BY <1>2 DEF Holding, Fenced
  <1>5. SameJob(claim[w].job)
    BY <1>3, <1>4, RunningKept
  <1>6. QED
    BY <1>2, <1>4, <1>5 DEF SameJob, Holding, Fenced

-----------------------------------------------------------------------------
(* The steps that leave the row of the recording alone *)

\* What they have to show is about the jobs and the consumers only.
LEMMA RecordStays ==
  ASSUME RecordingInv, rec' = rec
  PROVE  RecordAgrees' /\ PublishedAgrees'
  BY DEF RecordingInv, RecordAgrees, PublishedAgrees, Exists, Early

LEMMA WorkMoves ==
  ASSUME TypeOK, NEW w \in Workers,
         NEW pc \in {"idle", "load", "verify", "transcribe", "analyze", "rewrite",
                     "examples", "return"},
         NEW a \in Analyses \cup {NoAnalysis}, Goto(w, pc, a)
  PROVE  /\ work' \in [Workers -> Work]
         /\ work'[w].pc = pc
         /\ work'[w].suggestions = a
         /\ \A v \in Workers \ {w} : work'[v] = work[v]
  BY DEF TypeOK, Goto, Work

\* A step of the queue beside a handler that stays where it is.
LEMMA QuietKeeps ==
  ASSUME RecordingInv, Next, ~Claims, QuietRows, UNCHANGED <<rec, work>>,
         \A w \in Workers : Busy(w) /\ claim'[w].phase = "ok" => claim[w].phase = "ok"
  PROVE  RecordingInv'
  <1>0. QueueTypeOK /\ TypeOK /\ TokensDiffer /\ JobsAgree /\ HandlersAgree
    BY DEF RecordingInv, TypeOK
  <1>1. QueueTypeOK' /\ TokensDiffer'
    BY <1>0, QueueStepKeeps
  <1>2. TypeOK'
    BY <1>0, <1>1 DEF TypeOK
  <1>3. JobsAgree'
    BY <1>0, JobsStay
  <1>4. ASSUME NEW w \in Workers
        PROVE  HandlerAgrees(w)'
    <2>1. HolderKept(w)
      BY <1>0, ConsumerHolder DEF HolderKept, Holding
    <2>2. QED
      BY <1>0, <2>1, HandlerStays DEF HandlersAgree
  <1>5. QED
    BY <1>1, <1>2, <1>3, <1>4, RecordStays DEF RecordingInv, HandlersAgree

LEMMA HeartbeatKeeps ==
  ASSUME RecordingInv, NEW w \in Workers, QueueOnly(Heartbeat(w))
  PROVE  RecordingInv'
  <1>0. QueueTypeOK /\ row \in [Jobs -> Row] /\ claim \in [Workers -> Claimed \cup {Idle}]
    BY DEF RecordingInv, TypeOK, QueueTypeOK
  <1>1. Next
    BY DEF Next, Consume, QueueOnly
  <1>2. claim[w] \in Claimed
    BY <1>0, BusyType DEF QueueOnly, Heartbeat, Busy
  <1>3. QuietRows
    BY <1>0, <1>2 DEF QuietRows, QueueOnly, Heartbeat, Row
  <1>4. \A v \in Workers : claim'[v].phase = claim[v].phase
    BY <1>0, <1>2 DEF QueueOnly, Heartbeat, Claimed
  <1>5. ~Claims
    BY <1>0, <1>4, NobodyStarts DEF Busy
  <1>6. QED
    BY <1>1, <1>3, <1>4, <1>5, QuietKeeps DEF QueueOnly

LEMMA CancelContextKeeps ==
  ASSUME RecordingInv, NEW w \in Workers, QueueOnly(CancelContext(w))
  PROVE  RecordingInv'
  <1>0. QueueTypeOK /\ claim \in [Workers -> Claimed \cup {Idle}]
    BY DEF RecordingInv, TypeOK, QueueTypeOK
  <1>1. Next
    BY DEF Next, Consume, QueueOnly
  <1>2. claim[w] \in Claimed
    BY <1>0, BusyType DEF QueueOnly, CancelContext, Busy
  <1>3. QuietRows
    BY DEF QuietRows, QueueOnly, CancelContext
  <1>4. \A v \in Workers : claim'[v].phase = claim[v].phase
    BY <1>0, <1>2 DEF QueueOnly, CancelContext, Claimed
  <1>5. ~Claims
    BY <1>0, <1>4, NobodyStarts DEF Busy
  <1>6. QED
    BY <1>1, <1>3, <1>4, <1>5, QuietKeeps DEF QueueOnly

LEMMA MaintenanceKeeps ==
  ASSUME RecordingInv, NEW j \in Jobs, Maintenance(j)
  PROVE  RecordingInv'
  <1>0. QueueTypeOK /\ row \in [Jobs -> Row] /\ row[j] \in Row
    BY DEF RecordingInv, TypeOK, QueueTypeOK
  <1>1. Next /\ UNCHANGED <<claim, rec, work>>
    BY DEF Next, Elsewhere, Maintenance, QueueOnly, PruneTerminal, LeaseExpires,
           BackoffElapses
  <1>2. QueueOnly(PruneTerminal(j)) => QuietRows
    BY <1>0 DEF QuietRows, QueueOnly, PruneTerminal, Absent, Terminal, Active, Waiting
  <1>3. QueueOnly(LeaseExpires(j)) => QuietRows
    BY <1>0 DEF QuietRows, QueueOnly, LeaseExpires, Row
  <1>4. QueueOnly(BackoffElapses(j)) => QuietRows
    BY <1>0 DEF QuietRows, QueueOnly, BackoffElapses, Row
  <1>5. QuietRows
    BY <1>2, <1>3, <1>4 DEF Maintenance
  <1>6. ~Claims
    BY <1>0, <1>1, NobodyStarts DEF Busy
  <1>7. QED
    BY <1>1, <1>5, <1>6, QuietKeeps

\* A step of the consumer w that moves its handler: w has to be shown to agree.
LEMMA HandlerMoves ==
  ASSUME RecordingInv, rec' = rec, QuietRows, QueueTypeOK', TokensDiffer',
         NEW w \in Workers, HandlerAgrees(w)', work' \in [Workers -> Work],
         \A v \in Workers \ {w} : HolderKept(v)
  PROVE  RecordingInv'
  <1>0. TypeOK /\ JobsAgree /\ HandlersAgree
    BY DEF RecordingInv
  <1>1. TypeOK'
    BY <1>0 DEF TypeOK
  <1>2. JobsAgree'
    BY <1>0, JobsStay
  <1>3. \A v \in Workers \ {w} : HandlerAgrees(v)'
    BY <1>0, HandlerStays DEF HandlersAgree
  <1>4. QED
    BY <1>1, <1>2, <1>3, RecordStays DEF RecordingInv, HandlersAgree

LEMMA StartJobKeeps ==
  ASSUME RecordingInv, NEW w \in Workers, NEW j \in Jobs, StartJob(w, j)
  PROVE  RecordingInv'
  <1>0. QueueTypeOK /\ TokensDiffer /\ TypeOK
    BY DEF RecordingInv, TypeOK
  <1>1. QueueTypeOK' /\ TokensDiffer'
    BY <1>0, QueueStepKeeps DEF Next, Consume, StartJob
  <1>2. PICK t \in Fresh(j) :
          /\ row'[j] = Taken(j, t)
          /\ \A k \in Jobs \ {j} : row'[k] = row[k]
          /\ claim'[w] = Delivery(j, t)
          /\ \A v \in Workers \ {w} : SameClaim(v)
    BY <1>0, ClaimEffect DEF StartJob
  <1>3. /\ work' \in [Workers -> Work]
        /\ work'[w].pc = "load"
        /\ \A v \in Workers \ {w} : work'[v] = work[v]
    BY <1>0, WorkMoves DEF StartJob
  <1>4. QuietRows
    <2>1. row[j].state \in Active /\ row'[j].state = "running"
      BY <1>2 DEF StartJob, Claim, Claimable, Taken, Active
    <2>2. QED
      BY <1>2, <2>1 DEF QuietRows, Active, Waiting
  <1>5. ASSUME NEW v \in Workers \ {w}
        PROVE  HolderKept(v)
    <2>1. claim'[v] = claim[v] /\ work'[v] = work[v]
      BY <1>2, <1>3 DEF SameClaim
    <2>2. SUFFICES ASSUME Holding(v)'
                   PROVE  Holding(v)
      BY <2>1 DEF HolderKept
    <2>3. Busy(v) /\ claim[v].job \in Jobs
      BY <1>0, <2>1, <2>2, BusyType DEF Holding, Busy, Claimed
    <2>4. claim[v].job = j => claim[v].token # t
      BY <2>3 DEF Fresh
    <2>5. claim[v].job # j
      BY <1>2, <2>1, <2>2, <2>4 DEF Holding, Fenced, Taken
    <2>6. QED
      BY <1>2, <2>1, <2>2, <2>3, <2>5 DEF Holding, Fenced
  <1>6. HandlerAgrees(w)'
    BY <1>2, <1>3 DEF HandlerAgrees, Delivery
  <1>7. rec' = rec
    BY DEF StartJob
  <1>8. QED
    BY <1>1, <1>3, <1>4, <1>5, <1>6, <1>7, HandlerMoves

LEMMA ReturnKeeps ==
  ASSUME RecordingInv, NEW w \in Workers, ReturnNil(w) \/ ReturnError(w)
  PROVE  RecordingInv'
  <1>0. /\ QueueTypeOK /\ TokensDiffer /\ TypeOK /\ HandlersAgree
        /\ claim \in [Workers -> Claimed \cup {Idle}]
    BY DEF RecordingInv, TypeOK, QueueTypeOK
  <1>1. PICK outcome \in {"ok", "err"} :
          /\ HandlerReturns(w, outcome)
          /\ outcome = "ok" => work[w].pc = "return"
    BY DEF ReturnNil, ReturnError
  <1>2. Next
    BY <1>1 DEF Next, Consume
  <1>3. QueueTypeOK' /\ TokensDiffer'
    BY <1>0, <1>2, QueueStepKeeps
  <1>4. /\ work' \in [Workers -> Work]
        /\ work'[w].pc = "idle"
        /\ \A v \in Workers \ {w} : work'[v] = work[v]
    BY <1>0, WorkMoves DEF ReturnNil, ReturnError
  <1>5. claim[w] \in Claimed /\ Busy(w)
    BY <1>0, <1>1, BusyType DEF HandlerReturns, Busy
  <1>6. claim'[w].phase = outcome /\ \A v \in Workers \ {w} : claim'[v] = claim[v]
    BY <1>0, <1>1, <1>5 DEF HandlerReturns, Claimed
  <1>7. ~Claims
    BY <1>0, <1>5, <1>6, NobodyStarts DEF Busy
  <1>8. \A v \in Workers \ {w} : HolderKept(v)
    BY <1>0, <1>2, <1>4, <1>6, <1>7, ConsumerHolder DEF HolderKept
  <1>9. rec' = rec /\ row' = row
    BY <1>1 DEF ReturnNil, ReturnError, HandlerReturns
  <1>10. HandlerAgrees(w)'
    <2>1. Holding(w)' => Holding(w) /\ claim'[w].job = claim[w].job
      BY <1>0, <1>2, <1>7, ConsumerHolder
    <2>2. outcome = "ok" /\ Holding(w) => ~Current(w) /\ ~CurrentStrengths(w)
      BY <1>0, <1>1 DEF HandlersAgree, HandlerAgrees, Holding
    <2>3. QED
      BY <1>4, <1>6, <1>9, <2>1, <2>2
         DEF HandlerAgrees, Holding, Current, CurrentStrengths, Exists
  <1>11. QED
    BY <1>3, <1>4, <1>8, <1>9, <1>10, HandlerMoves DEF QuietRows

LEMMA LoseJobKeeps ==
  ASSUME RecordingInv, NEW w \in Workers, LoseJob(w)
  PROVE  RecordingInv'
  <1>0. /\ QueueTypeOK /\ TokensDiffer /\ TypeOK
        /\ claim \in [Workers -> Claimed \cup {Idle}]
    BY DEF RecordingInv, TypeOK, QueueTypeOK
  <1>1. Next
    BY DEF Next, Consume, LoseJob
  <1>2. QueueTypeOK' /\ TokensDiffer'
    BY <1>0, <1>1, QueueStepKeeps
  <1>3. /\ work' \in [Workers -> Work]
        /\ \A v \in Workers \ {w} : work'[v] = work[v]
    BY <1>0, WorkMoves DEF LoseJob
  <1>4. ~Busy(w)' /\ \A v \in Workers \ {w} : claim'[v] = claim[v]
    BY <1>0 DEF LoseJob, Vanish, Busy, Idle
  <1>5. ~Claims
    BY <1>0, <1>4, NobodyStarts DEF Busy
  <1>6. \A v \in Workers \ {w} : HolderKept(v)
    BY <1>0, <1>1, <1>3, <1>4, <1>5, ConsumerHolder DEF HolderKept
  <1>7. rec' = rec /\ QuietRows
    BY DEF LoseJob, Vanish, QuietRows
  <1>8. HandlerAgrees(w)'
    BY <1>4 DEF HandlerAgrees
  <1>9. QED
    BY <1>2, <1>3, <1>6, <1>7, <1>8, HandlerMoves

\* The handler of w moves on and no table changes.
LEMMA ReadKeeps ==
  ASSUME RecordingInv, NEW w \in Workers, UNCHANGED <<row, claim, rec>>,
         NEW pc \in {"return", "verify", "transcribe", "analyze", "rewrite", "examples"},
         NEW a \in Analyses \cup {NoAnalysis}, Goto(w, pc, a),
         HandlerAgrees(w)'
  PROVE  RecordingInv'
  <1>0. QueueTypeOK /\ TokensDiffer /\ TypeOK
    BY DEF RecordingInv, TypeOK
  <1>1. QueueTypeOK' /\ TokensDiffer'
    BY <1>0, ClaimStays DEF QueueTypeOK
  <1>2. /\ work' \in [Workers -> Work]
        /\ \A v \in Workers \ {w} : work'[v] = work[v]
    BY <1>0, WorkMoves
  <1>3. \A v \in Workers \ {w} : HolderKept(v)
    BY <1>2 DEF HolderKept, Holding, Busy, Fenced
  <1>4. QuietRows
    BY DEF QuietRows
  <1>5. QED
    BY <1>1, <1>2, <1>3, <1>4, HandlerMoves

\* A handler that finds its job no longer awaited ends with nil.
LEMMA LeaveKeeps ==
  ASSUME RecordingInv, NEW w \in Workers, UNCHANGED <<row, claim, rec>>,
         Goto(w, "return", NoAnalysis),
         Fenced(w) => ~Current(w) /\ ~CurrentStrengths(w)
  PROVE  RecordingInv'
  <1>1. work'[w].pc = "return"
    BY WorkMoves DEF RecordingInv
  <1>2. HandlerAgrees(w)'
    BY <1>1 DEF HandlerAgrees, Fenced, Current, CurrentStrengths, Exists
  <1>3. QED
    BY <1>2, ReadKeeps

\* The two kinds of job wait for different columns.
LEMMA KindsApart ==
  ASSUME RecordingInv, NEW w \in Workers
  PROVE  /\ claim[w].job \in ProcessJobs => ~CurrentStrengths(w)
         /\ claim[w].job \in StrengthsJobs => ~Current(w)
         /\ Current(w) => claim[w].job \in ProcessJobs
  <1>1. Exists => rec \in Recording
    BY DEF RecordingInv, TypeOK, Exists
  <1>2. QED
    BY <1>1, JobKinds DEF Current, CurrentStrengths, Recording

LEMMA LoadProcessingWorkKeeps ==
  ASSUME RecordingInv, NEW w \in Workers, LoadProcessingWork(w)
  PROVE  RecordingInv'
  <1>0. TypeOK /\ RecordAgrees /\ (Exists => rec \in Recording)
    BY DEF RecordingInv, TypeOK, Exists
  <1>1. CASE ~Current(w)
    BY <1>1, KindsApart, LeaveKeeps DEF LoadProcessingWork
  <1>2. CASE Current(w)
    <2>1. Exists /\ rec.stage \in Stages /\ rec.suggestions \in Analyses \cup {NoAnalysis}
      BY <1>0, <1>2 DEF Current, RecordAgrees, Recording
    <2>2. PICK pc \in {"verify", "analyze", "rewrite"} :
            /\ Goto(w, pc, rec.suggestions)
            /\ pc = "verify" => rec.stage = "transcribing"
            /\ pc = "analyze" => rec.stage = "suggestions"
            /\ pc = "rewrite" => rec.stage = "rewriting"
      BY <1>2, <2>1 DEF LoadProcessingWork, StageStep, Stages
    <2>3. work'[w].pc = pc /\ work'[w].suggestions = rec.suggestions
      BY <1>0, <2>1, <2>2, WorkMoves
    <2>4. claim[w].job \in ProcessJobs /\ claim[w].phase = "handling"
      BY DEF LoadProcessingWork, At
    <2>5. UNCHANGED <<row, claim, rec>>
      BY DEF LoadProcessingWork
    <2>6. HandlerAgrees(w)'
      BY <2>2, <2>3, <2>4, <2>5, KindsApart
         DEF HandlerAgrees, Current, CurrentStrengths, Exists
    <2>7. QED
      BY <2>1, <2>2, <2>5, <2>6, ReadKeeps
  <1>3. QED
    BY <1>1, <1>2

LEMMA LoadStrengthsWorkKeeps ==
  ASSUME RecordingInv, NEW w \in Workers, LoadStrengthsWork(w)
  PROVE  RecordingInv'
  <1>0. TypeOK /\ (Exists => rec \in Recording)
    BY DEF RecordingInv, TypeOK, Exists
  <1>1. CASE ~CurrentStrengths(w)
    BY <1>1, KindsApart, LeaveKeeps DEF LoadStrengthsWork
  <1>2. CASE CurrentStrengths(w)
    <2>1. rec.suggestions \in Analyses \cup {NoAnalysis}
      BY <1>0, <1>2 DEF CurrentStrengths, Recording
    <2>2. Goto(w, "examples", rec.suggestions) /\ UNCHANGED <<row, claim, rec>>
      BY <1>2 DEF LoadStrengthsWork
    <2>3. work'[w].pc = "examples" /\ work'[w].suggestions = rec.suggestions
      BY <1>0, <2>1, <2>2, WorkMoves
    <2>4. claim[w].job \in StrengthsJobs /\ claim[w].phase = "handling"
      BY DEF LoadStrengthsWork, At
    <2>5. HandlerAgrees(w)'
      BY <2>2, <2>3, <2>4, KindsApart
         DEF HandlerAgrees, Current, CurrentStrengths, Exists
    <2>6. QED
      BY <2>1, <2>2, <2>5, ReadKeeps
  <1>3. QED
    BY <1>1, <1>2

LEMMA VerifyDurationKeeps ==
  ASSUME RecordingInv, NEW w \in Workers, VerifyDuration(w)
  PROVE  RecordingInv'
  <1>1. Goto(w, "transcribe", NoAnalysis) /\ UNCHANGED <<row, claim, rec>>
    BY DEF VerifyDuration
  <1>2. work'[w].pc = "transcribe"
    BY <1>1, WorkMoves DEF RecordingInv
  <1>3. claim[w].phase = "handling" /\ work[w].pc = "verify" /\ Busy(w) /\ Fenced(w) /\ Current(w)
    BY DEF VerifyDuration, At, Busy, Leased
  <1>4. rec.stage = "transcribing" /\ claim[w].job \in ProcessJobs
    BY <1>3, KindsApart DEF RecordingInv, HandlersAgree, HandlerAgrees
  <1>5. HandlerAgrees(w)'
    BY <1>1, <1>2, <1>3, <1>4, KindsApart
       DEF HandlerAgrees, Current, CurrentStrengths, Exists
  <1>6. QED
    BY <1>1, <1>5, ReadKeeps

\* The row under the reports of its holder.
LEMMA ReportRow ==
  ASSUME QueueTypeOK, NEW w \in Workers, Busy(w),
         Complete(w) \/ Fail(w), Fenced(w), NEW k \in Jobs, k = claim[w].job
  PROVE  /\ row[k].state \in Active
         /\ \A j \in Jobs \ {k} : row'[j] = row[j]
         /\ Complete(w) \/ IsLastAttempt(w) => row'[k].state \in Terminal
         /\ Fail(w) /\ ~IsLastAttempt(w) => row'[k].state \in Active
  <1>1. row \in [Jobs -> Row] /\ row[k] \in Row
    BY DEF QueueTypeOK
  <1>2. row[k].state \in Active
    BY DEF Fenced, Active
  <1>3. /\ Released(row[k], "succeeded").state = "succeeded"
        /\ FailedRow(w, row[k]).state = IF IsLastAttempt(w) THEN "failed" ELSE "retry_wait"
    BY <1>1, RowColumns DEF Terminal
  <1>4. CASE Complete(w)
    <2>1. row' = [row EXCEPT ![k] = Released(row[k], "succeeded")]
      BY <1>4 DEF Complete
    <2>2. ~Fail(w)
      BY <1>4 DEF Complete, Fail
    <2>3. QED
      BY <1>1, <1>2, <1>3, <2>1, <2>2 DEF Terminal
  <1>5. CASE Fail(w)
    <2>1. row' = [row EXCEPT ![k] = FailedRow(w, row[k])]
      BY <1>5 DEF Fail
    <2>2. ~Complete(w)
      BY <1>5 DEF Complete, Fail
    <2>3. QED
      BY <1>1, <1>2, <1>3, <2>1, <2>2 DEF Terminal, Active, Waiting
  <1>6. QED
    BY <1>4, <1>5

\* What every report of an outcome does, whatever it means for the recording.
LEMMA ReportBasics ==
  ASSUME RecordingInv, NEW w \in Workers, Complete(w) \/ Fail(w), work' = work
  PROVE  /\ Busy(w) /\ claim[w].job \in Jobs
         /\ QueueTypeOK' /\ TokensDiffer'
         /\ \A v \in Workers : HolderKept(v)
         /\ ~Fenced(w) => row' = row
  <1>0. /\ QueueTypeOK /\ TokensDiffer
        /\ claim \in [Workers -> Claimed \cup {Idle}]
    BY DEF RecordingInv, TypeOK, QueueTypeOK
  <1>1. Busy(w) /\ claim' = [claim EXCEPT ![w] = Idle]
    BY DEF Complete, Fail, Busy
  <1>2. Next
    BY DEF Next, Consume
  <1>3. ~Busy(w)' /\ \A v \in Workers \ {w} : claim'[v] = claim[v]
    BY <1>0, <1>1 DEF Busy, Idle
  <1>4. ~Claims
    BY <1>0, <1>1, <1>3, NobodyStarts DEF Busy
  <1>5. \A v \in Workers : HolderKept(v)
    BY <1>0, <1>2, <1>3, <1>4, ConsumerHolder DEF HolderKept, Holding
  <1>6. QED
    BY <1>0, <1>1, <1>2, <1>5, QueueStepKeeps, BusyType DEF Complete, Fail, Claimed

LEMMA CompleteKeeps ==
  ASSUME RecordingInv, NEW w \in Workers, QueueOnly(Complete(w))
  PROVE  RecordingInv'
  <1>0. QueueTypeOK /\ TypeOK /\ JobsAgree /\ HandlersAgree
    BY DEF RecordingInv, TypeOK
  <1>1. /\ Busy(w) /\ claim[w].job \in Jobs
        /\ QueueTypeOK' /\ TokensDiffer'
        /\ \A v \in Workers : HolderKept(v)
        /\ ~Fenced(w) => row' = row
    BY ReportBasics DEF QueueOnly
  <1>2. JobsAgree'
    <2>1. CASE ~Fenced(w)
      BY <1>0, <1>1, <2>1, JobsStay DEF QuietRows, QueueOnly
    <2>2. CASE Fenced(w)
      <3>1. ~Current(w) /\ ~CurrentStrengths(w)
        BY <1>0, <1>1, <2>2 DEF QueueOnly, Complete, HandlersAgree, HandlerAgrees
      <3>2. /\ row[claim[w].job].state \in Active
            /\ \A j \in Jobs \ {claim[w].job} : row'[j] = row[j]
            /\ row'[claim[w].job].state \in Terminal
        BY <1>0, <1>1, <2>2, ReportRow DEF QueueOnly
      <3>3. QED
        BY <1>0, <1>1, <3>1, <3>2, JobRetires DEF QueueOnly, Current, CurrentStrengths
    <2>3. QED
      BY <2>1, <2>2
  <1>3. HandlersAgree'
    BY <1>0, <1>1, HandlerStays DEF HandlersAgree, QueueOnly
  <1>4. TypeOK'
    BY <1>0, <1>1 DEF TypeOK, QueueOnly
  <1>5. QED
    BY <1>1, <1>2, <1>3, <1>4, RecordStays DEF RecordingInv, QueueOnly

-----------------------------------------------------------------------------
(* The steps that write the row of the recording *)

\* A report of failure that publishes nothing: not the last, not fenced, or not awaited.
LEMMA QuietFailureKeeps ==
  ASSUME RecordingInv, NEW w \in Workers, Fail(w), UNCHANGED <<rec, work>>,
         Fenced(w) /\ IsLastAttempt(w) => ~Current(w) /\ ~CurrentStrengths(w)
  PROVE  RecordingInv'
  <1>0. QueueTypeOK /\ TypeOK /\ JobsAgree /\ HandlersAgree
    BY DEF RecordingInv, TypeOK
  <1>1. /\ Busy(w) /\ claim[w].job \in Jobs
        /\ QueueTypeOK' /\ TokensDiffer'
        /\ \A v \in Workers : HolderKept(v)
        /\ ~Fenced(w) => row' = row
    BY ReportBasics
  <1>2. Fenced(w) => /\ row[claim[w].job].state \in Active
                     /\ \A j \in Jobs \ {claim[w].job} : row'[j] = row[j]
                     /\ IsLastAttempt(w) => row'[claim[w].job].state \in Terminal
                     /\ ~IsLastAttempt(w) => row'[claim[w].job].state \in Active
    BY <1>0, <1>1, ReportRow
  <1>3. JobsAgree'
    <2>1. CASE ~(Fenced(w) /\ IsLastAttempt(w))
      <3>1. QuietRows
        BY <1>1, <1>2, <2>1 DEF QuietRows, Active, Waiting
      <3>2. QED
        BY <1>0, <3>1, JobsStay
    <2>2. CASE Fenced(w) /\ IsLastAttempt(w)
      BY <1>0, <1>1, <1>2, <2>2, JobRetires DEF Current, CurrentStrengths
    <2>3. QED
      BY <2>1, <2>2
  <1>4. HandlersAgree'
    BY <1>0, <1>1, HandlerStays DEF HandlersAgree
  <1>5. TypeOK'
    BY <1>0, <1>1 DEF TypeOK
  <1>6. QED
    BY <1>1, <1>3, <1>4, <1>5, RecordStays DEF RecordingInv

\* The last failure of the job a recording waits for.
LEMMA ProcessFailureKeeps ==
  ASSUME RecordingInv, NEW w \in Workers, Fail(w), work' = work,
         Fenced(w), IsLastAttempt(w), Current(w),
         rec' = [rec EXCEPT !.status = "failed"]
  PROVE  RecordingInv'
  <1>0. /\ QueueTypeOK /\ TypeOK /\ JobsAgree /\ HandlersAgree /\ RecordAgrees
        /\ PublishedAgrees
    BY DEF RecordingInv, TypeOK
  <1>1. /\ Busy(w) /\ claim[w].job \in Jobs
        /\ QueueTypeOK' /\ TokensDiffer'
        /\ \A v \in Workers : HolderKept(v)
    BY ReportBasics
  <1>2. Exists /\ rec \in Recording /\ rec.status = "processing" /\ rec.job = claim[w].job
    BY <1>0 DEF Current, TypeOK, Exists
  <1>3. /\ Exists' /\ rec' \in Recording /\ rec'.status = "failed"
        /\ rec'.stage = rec.stage /\ rec'.transcript = rec.transcript
        /\ rec'.job = rec.job /\ rec'.suggestions = rec.suggestions
        /\ rec'.strengthsStatus = rec.strengthsStatus
        /\ rec'.strengthsJob = rec.strengthsJob /\ rec'.strengths = rec.strengths
        /\ rec'.attempt = rec.attempt
    BY <1>2 DEF Recording, Exists, NoRecording
  <1>4. /\ \A j \in Jobs \ {rec.job} : row'[j] = row[j]
        /\ row'[rec.job].state \notin Active
    <2>1. /\ \A j \in Jobs \ {rec.job} : row'[j] = row[j]
          /\ row'[rec.job].state \in Terminal
      BY <1>0, <1>1, <1>2, ReportRow
    <2>2. QED
      BY <2>1 DEF Active, Waiting, Terminal
  <1>5. RecordAgrees' /\ PublishedAgrees'
    BY <1>0, <1>2, <1>3 DEF RecordAgrees, PublishedAgrees, Early
  <1>6. JobsAgree'
    <2>1. rec.job \in ProcessJobs /\ rec.strengthsJob \in StrengthsJobs \cup {NoJob}
      BY <1>2 DEF Recording
    <2>2. PendingWorkHasItsJob'
      BY <1>0, <1>2, <1>3, <1>4, <2>1, JobKinds DEF JobsAgree, PendingWorkHasItsJob
    <2>3. ActiveJobIsCurrent'
      BY <1>0, <1>2, <1>3, <1>4 DEF JobsAgree, ActiveJobIsCurrent
    <2>4. NoneActive(ProcessJobs)'
      BY <1>0, <1>4, JobKinds DEF JobsAgree, ActiveJobIsCurrent, NoneActive
    <2>5. rec'.strengthsStatus \in {"pending", "failed"} => NoneActive(StrengthsJobs)'
      BY <1>0, <1>2, <1>3, <1>4, <2>1, JobKinds DEF JobsAgree, NoneActive
    <2>6. QED
      BY <1>3, <2>2, <2>3, <2>4, <2>5 DEF JobsAgree
  <1>7. ASSUME NEW v \in Workers
        PROVE  HandlerAgrees(v)'
    <2>1. HandlerAgrees(v) /\ HolderKept(v)
      BY <1>0, <1>1 DEF HandlersAgree
    <2>2. QED
      BY <1>2, <1>3, <2>1
         DEF HandlerAgrees, HolderKept, Holding, Current, CurrentStrengths
  <1>8. TypeOK'
    BY <1>0, <1>1, <1>3 DEF TypeOK
  <1>9. QED
    BY <1>1, <1>5, <1>6, <1>7, <1>8 DEF RecordingInv, HandlersAgree

LEMMA StrengthsFailureKeeps ==
  ASSUME RecordingInv, NEW w \in Workers, Fail(w), work' = work,
         Fenced(w), IsLastAttempt(w), CurrentStrengths(w),
         rec' = [rec EXCEPT !.strengthsStatus = "failed"]
  PROVE  RecordingInv'
  <1>0. /\ QueueTypeOK /\ TypeOK /\ JobsAgree /\ HandlersAgree /\ RecordAgrees
        /\ PublishedAgrees
    BY DEF RecordingInv, TypeOK
  <1>1. /\ Busy(w) /\ claim[w].job \in Jobs
        /\ QueueTypeOK' /\ TokensDiffer'
        /\ \A v \in Workers : HolderKept(v)
    BY ReportBasics
  <1>2. /\ Exists /\ rec \in Recording /\ rec.strengthsStatus = "processing"
        /\ rec.strengthsJob = claim[w].job
    BY <1>0 DEF CurrentStrengths, TypeOK, Exists
  <1>3. /\ Exists' /\ rec' \in Recording /\ rec'.strengthsStatus = "failed"
        /\ rec'.status = rec.status /\ rec'.corrected = rec.corrected
        /\ rec'.stage = rec.stage /\ rec'.transcript = rec.transcript
        /\ rec'.job = rec.job /\ rec'.suggestions = rec.suggestions
        /\ rec'.strengthsJob = rec.strengthsJob
        /\ rec'.attempt = rec.attempt
    BY <1>2 DEF Recording, Exists, NoRecording
  <1>4. rec.job \in ProcessJobs /\ rec.strengthsJob \in StrengthsJobs
    BY <1>1, <1>2, JobKinds DEF Recording
  <1>5. /\ \A j \in Jobs \ {rec.strengthsJob} : row'[j] = row[j]
        /\ row'[rec.strengthsJob].state \notin Active
    <2>1. /\ \A j \in Jobs \ {rec.strengthsJob} : row'[j] = row[j]
          /\ row'[rec.strengthsJob].state \in Terminal
      BY <1>0, <1>1, <1>2, ReportRow
    <2>2. QED
      BY <2>1 DEF Active, Waiting, Terminal
  <1>6. RecordAgrees' /\ PublishedAgrees'
    BY <1>0, <1>2, <1>3 DEF RecordAgrees, PublishedAgrees, Early
  <1>7. JobsAgree'
    <2>1. PendingWorkHasItsJob'
      BY <1>0, <1>2, <1>3, <1>4, <1>5, JobKinds DEF JobsAgree, PendingWorkHasItsJob
    <2>2. ActiveJobIsCurrent'
      BY <1>0, <1>2, <1>3, <1>5 DEF JobsAgree, ActiveJobIsCurrent
    <2>3. NoneActive(StrengthsJobs)'
      BY <1>0, <1>5, JobKinds DEF JobsAgree, ActiveJobIsCurrent, NoneActive
    <2>4. rec'.status = "failed" => NoneActive(ProcessJobs)'
      BY <1>0, <1>2, <1>3, <1>4, <1>5, JobKinds DEF JobsAgree, NoneActive
    <2>5. ~Early'
      BY <1>0, <1>2, <1>3 DEF RecordAgrees, Early
    <2>6. QED
      BY <1>3, <2>1, <2>2, <2>3, <2>4, <2>5 DEF JobsAgree
  <1>8. ASSUME NEW v \in Workers
        PROVE  HandlerAgrees(v)'
    <2>1. HandlerAgrees(v) /\ HolderKept(v)
      BY <1>0, <1>1 DEF HandlersAgree
    <2>2. QED
      BY <1>2, <1>3, <2>1
         DEF HandlerAgrees, HolderKept, Holding, Current, CurrentStrengths
  <1>9. TypeOK'
    BY <1>0, <1>1, <1>3 DEF TypeOK
  <1>10. QED
    BY <1>1, <1>6, <1>7, <1>8, <1>9 DEF RecordingInv, HandlersAgree

LEMMA FailJobKeeps ==
  ASSUME RecordingInv, NEW w \in Workers, FailJob(w)
  PROVE  RecordingInv'
  <1>0. Fail(w) /\ work' = work
    BY DEF FailJob
  <1>1. CASE Fenced(w) /\ IsLastAttempt(w) /\ Current(w)
    <2>1. rec' = [rec EXCEPT !.status = "failed"]
      BY <1>1, KindsApart DEF FailJob, FinalizedFailure
    <2>2. QED
      BY <1>0, <1>1, <2>1, ProcessFailureKeeps
  <1>2. CASE Fenced(w) /\ IsLastAttempt(w) /\ ~Current(w) /\ CurrentStrengths(w)
    <2>1. rec' = [rec EXCEPT !.strengthsStatus = "failed"]
      BY <1>2 DEF FailJob, FinalizedFailure
    <2>2. QED
      BY <1>0, <1>2, <2>1, StrengthsFailureKeeps
  <1>3. CASE Fenced(w) /\ IsLastAttempt(w) => ~Current(w) /\ ~CurrentStrengths(w)
    <2>1. rec' = rec
      BY <1>3 DEF FailJob, FinalizedFailure
    <2>2. QED
      BY <1>0, <1>3, <2>1, QuietFailureKeeps
  <1>4. QED
    BY <1>1, <1>2, <1>3

LEMMA SaveTranscriptKeeps ==
  ASSUME RecordingInv, NEW w \in Workers, SaveTranscript(w)
  PROVE  RecordingInv'
  <1>0. /\ QueueTypeOK /\ TypeOK /\ TokensDiffer /\ JobsAgree /\ HandlersAgree
        /\ RecordAgrees /\ PublishedAgrees
    BY DEF RecordingInv, TypeOK
  <1>1. /\ UNCHANGED <<row, claim>> /\ Busy(w)
        /\ claim[w].phase = "handling" /\ work[w].pc = "transcribe"
    BY DEF SaveTranscript, At, Busy
  <1>2. CASE ~(Current(w) /\ Fenced(w))
    <2>1. Fenced(w) => ~CurrentStrengths(w)
      BY <1>0, <1>1, KindsApart DEF HandlersAgree, HandlerAgrees
    <2>2. QED
      BY <1>2, <2>1, LeaveKeeps DEF SaveTranscript
  <1>3. CASE Current(w) /\ Fenced(w)
    <2>1. Exists /\ rec \in Recording /\ rec.status = "processing" /\ rec.job = claim[w].job
      BY <1>0, <1>3 DEF Current, TypeOK, Exists
    <2>2. rec.stage = "transcribing" /\ claim[w].job \in ProcessJobs
      BY <1>0, <1>1, <1>3 DEF HandlersAgree, HandlerAgrees
    <2>3. /\ rec' = [rec EXCEPT !.transcript = TRUE, !.stage = "suggestions"]
          /\ Goto(w, "analyze", NoAnalysis)
      BY <1>3 DEF SaveTranscript
    <2>4. /\ Exists' /\ rec' \in Recording /\ rec'.stage = "suggestions"
          /\ rec'.transcript = TRUE
          /\ rec'.status = rec.status /\ rec'.corrected = rec.corrected
          /\ rec'.job = rec.job /\ rec'.suggestions = rec.suggestions
          /\ rec'.strengthsStatus = rec.strengthsStatus
          /\ rec'.strengthsJob = rec.strengthsJob /\ rec'.strengths = rec.strengths
          /\ rec'.attempt = rec.attempt
      BY <2>1, <2>3 DEF Recording, Exists, NoRecording, Stages
    <2>5. /\ work' \in [Workers -> Work] /\ work'[w].pc = "analyze"
          /\ \A v \in Workers \ {w} : work'[v] = work[v]
      BY <1>0, <2>3, WorkMoves
    <2>6. rec.strengthsStatus = "pending"
      BY <1>0, <2>1, <2>2 DEF RecordAgrees, Early
    <2>7. RecordAgrees' /\ PublishedAgrees'
      BY <1>0, <2>1, <2>2, <2>4, <2>6 DEF RecordAgrees, PublishedAgrees, Early
    <2>8. JobsAgree'
      BY <1>0, <1>1, <2>1, <2>2, <2>4
         DEF JobsAgree, PendingWorkHasItsJob, ActiveJobIsCurrent, NoneActive, Early
    <2>9. ASSUME NEW v \in Workers \ {w}
          PROVE  HandlerAgrees(v)'
      <3>1. HandlerAgrees(v)
        BY <1>0 DEF HandlersAgree
      <3>2. Holding(v) => claim[v].job # rec.job
        BY <1>0, <1>1, <1>3, <2>1, OneHolder DEF Holding
      <3>3. QED
        BY <1>1, <2>4, <2>5, <2>6, <3>1, <3>2
           DEF HandlerAgrees, Holding, Busy, Fenced, Current, CurrentStrengths
    <2>10. HandlerAgrees(w)'
      BY <1>1, <2>2, <2>4, <2>5, <2>6 DEF HandlerAgrees, Current, CurrentStrengths
    <2>11. QueueTypeOK' /\ TokensDiffer'
      BY <1>0, <1>1, ClaimStays DEF QueueTypeOK
    <2>12. TypeOK'
      BY <2>4, <2>5, <2>11 DEF TypeOK
    <2>13. QED
      BY <2>7, <2>8, <2>9, <2>10, <2>11, <2>12 DEF RecordingInv, HandlersAgree
  <1>4. QED
    BY <1>2, <1>3

\* The columns of strengths, and the others.
WithStrengths(r, x, y, z) ==
  [r EXCEPT !.strengths = x, !.strengthsStatus = y, !.strengthsJob = z]

LEMMA StrengthsType ==
  ASSUME NEW r \in Recording, NEW x \in Analyses \cup {NoAnalysis},
         NEW y \in {"ready", "processing"}, NEW z \in StrengthsJobs \cup {NoJob}
  PROVE  WithStrengths(r, x, y, z) \in Recording
  BY DEF WithStrengths, Recording

LEMMA StrengthsColumns ==
  ASSUME NEW r \in Recording, NEW x, NEW y, NEW z
  PROVE  /\ WithStrengths(r, x, y, z).stage = r.stage
         /\ WithStrengths(r, x, y, z).suggestions = r.suggestions
         /\ WithStrengths(r, x, y, z).status = r.status
         /\ WithStrengths(r, x, y, z).job = r.job
         /\ WithStrengths(r, x, y, z).transcript = r.transcript
         /\ WithStrengths(r, x, y, z).attempt = r.attempt
         /\ WithStrengths(r, x, y, z).strengths = x
         /\ WithStrengths(r, x, y, z).strengthsStatus = y
         /\ WithStrengths(r, x, y, z).strengthsJob = z
  BY DEF WithStrengths, Recording

\* What a stage that is done leaves in the columns: SaveAnalysis.
LEMMA AnalysedColumns ==
  ASSUME Exists, rec \in Recording, NEW p \in ProcessJobs, NEW a \in Analyses
  PROVE  /\ Analysed(p, a) \in Recording
         /\ Analysed(p, a).stage = "rewriting"
         /\ Analysed(p, a).suggestions = a
         /\ Analysed(p, a).status = rec.status
         /\ Analysed(p, a).job = rec.job
         /\ Analysed(p, a).transcript = rec.transcript
         /\ Analysed(p, a).attempt = rec.attempt
         /\ rec.pipeline = "focused" =>
              /\ Analysed(p, a).strengthsStatus = "ready"
              /\ Analysed(p, a).strengths = a
              /\ Analysed(p, a).strengthsJob = NoJob
         /\ rec.pipeline = "legacy" =>
              /\ Analysed(p, a).strengthsStatus = "processing"
              /\ Analysed(p, a).strengthsJob = StrengthsOf[p]
  <1> DEFINE r == [rec EXCEPT !.suggestions = a, !.stage = "rewriting"]
  <1>1. /\ r \in Recording /\ r.stage = "rewriting" /\ r.suggestions = a
        /\ r.status = rec.status /\ r.job = rec.job /\ r.transcript = rec.transcript
        /\ r.attempt = rec.attempt
    BY DEF Recording, Stages
  <1>2. PICK s \in StrengthsJobs \cup {NoJob} : s = StrengthsOf[p]
    BY JobKinds
  <1>3. rec.pipeline \in {"focused", "legacy"}
    BY DEF Recording
  <1>4. Analysed(p, a) =
          IF rec.pipeline = "focused"
            THEN WithStrengths(r, a, "ready", NoJob)
            ELSE WithStrengths(r, NoAnalysis, "processing", s)
    BY <1>2 DEF Analysed, WithStrengths
  <1> HIDE DEF r
  <1>5. CASE rec.pipeline = "focused"
    BY <1>1, <1>4, <1>5, StrengthsType, StrengthsColumns
  <1>6. CASE rec.pipeline = "legacy"
    <2>1. Analysed(p, a) = WithStrengths(r, NoAnalysis, "processing", s)
      BY <1>4, <1>6
    <2>2. WithStrengths(r, NoAnalysis, "processing", s) \in Recording
      BY <1>1, <1>2, StrengthsType
    <2>3. QED
      BY <1>1, <1>2, <1>6, <2>1, <2>2, StrengthsColumns
  <1>7. QED
    BY <1>3, <1>5, <1>6

LEMMA AnalysesAreNotNone ==
  ASSUME NEW a \in Analyses
  PROVE  a # NoAnalysis
  BY DEF Analyses, NoAnalysis

LEMMA SaveAnalysisKeeps ==
  ASSUME RecordingInv, NEW w \in Workers, SaveAnalysis(w)
  PROVE  RecordingInv'
  <1>0. /\ QueueTypeOK /\ TypeOK /\ TokensDiffer /\ JobsAgree /\ HandlersAgree
        /\ RecordAgrees /\ PublishedAgrees
    BY DEF RecordingInv, TypeOK
  <1>1. /\ claim' = claim /\ Busy(w) /\ Fenced(w)
        /\ claim[w].phase = "handling" /\ work[w].pc = "analyze"
    BY DEF SaveAnalysis, At, Busy, Leased
  <1>2. CASE ~Current(w)
    <2>1. ~CurrentStrengths(w)
      BY <1>0, <1>1, KindsApart DEF HandlersAgree, HandlerAgrees
    <2>2. QED
      BY <1>2, <2>1, LeaveKeeps DEF SaveAnalysis
  <1>3. CASE Current(w)
    <2> DEFINE p == claim[w].job
               a == <<p, claim[w].attempts>>
               T == IF rec.pipeline = "legacy" THEN {StrengthsOf[p]} ELSE {}
    <2>1. Exists /\ rec \in Recording /\ rec.status = "processing" /\ rec.job = p
      BY <1>0, <1>3 DEF Current, TypeOK, Exists
    <2>2. rec.stage = "suggestions" /\ p \in ProcessJobs
      BY <1>0, <1>1, <1>3 DEF HandlersAgree, HandlerAgrees
    <2>3. a \in Analyses
      BY <1>0, <1>1, <2>2, BusyType DEF Claimed, Analyses
    <2>4. rec' = Analysed(p, a) /\ row' = Rows({}, T) /\ Goto(w, "rewrite", a)
      BY <1>3 DEF SaveAnalysis
    <2> HIDE DEF a
    <2>5. /\ rec' \in Recording /\ rec'.stage = "rewriting" /\ rec'.suggestions = a
          /\ rec'.status = "processing" /\ rec'.job = p
          /\ rec'.transcript = rec.transcript /\ rec'.attempt = rec.attempt
          /\ rec.pipeline = "focused" =>
               /\ rec'.strengthsStatus = "ready" /\ rec'.strengths = a
               /\ rec'.strengthsJob = NoJob
          /\ rec.pipeline = "legacy" =>
               /\ rec'.strengthsStatus = "processing"
               /\ rec'.strengthsJob = StrengthsOf[p]
      BY <2>1, <2>2, <2>3, <2>4, AnalysedColumns
    <2>6. Exists' /\ rec.pipeline \in {"focused", "legacy"}
      BY <2>1, <2>5 DEF Exists, Recording, NoRecording
    <2>7. /\ work' \in [Workers -> Work] /\ work'[w].pc = "rewrite"
          /\ work'[w].suggestions = a
          /\ \A v \in Workers \ {w} : work'[v] = work[v]
      BY <1>0, <2>3, <2>4, WorkMoves
    <2>8. /\ StrengthsOf[p] \in StrengthsJobs /\ StrengthsOf[p] \in Jobs
          /\ row[StrengthsOf[p]].state = "absent"
          /\ T \in SUBSET Jobs /\ \A j \in T : row[j].state = "absent"
      BY <1>0, <2>1, <2>2, JobKinds DEF JobsAgree, Early
    <2>9. /\ \A j \in Jobs \ T : row'[j] = row[j]
          /\ \A j \in T : row'[j].state = "queued"
      BY <1>0, <2>4, <2>8, RowsColumns
    <2> HIDE DEF T, p
    <2>10. rec.strengthsStatus = "pending" /\ NoneActive(StrengthsJobs)
      BY <1>0, <2>1, <2>2 DEF RecordAgrees, Early, JobsAgree
    <2>11. RecordAgrees' /\ PublishedAgrees'
      BY <1>0, <2>1, <2>2, <2>3, <2>5, <2>6, AnalysesAreNotNone
         DEF RecordAgrees, PublishedAgrees, Early
    <2>12. JobsAgree'
      <3>1. /\ rec.pipeline = "legacy" => T = {StrengthsOf[p]}
            /\ rec.pipeline = "focused" => T = {}
        BY DEF T
      <3>2. row'[p] = row[p] /\ row[p].state \in Active
        BY <1>0, <2>1, <2>2, <2>6, <2>8, <2>9, <3>1, JobKinds
           DEF JobsAgree, PendingWorkHasItsJob
      <3>3. PendingWorkHasItsJob'
        BY <2>2, <2>5, <2>6, <2>8, <2>9, <3>1, <3>2, JobKinds
           DEF PendingWorkHasItsJob, Active, Waiting
      <3>4. ActiveJobIsCurrent'
        <4>1. SUFFICES ASSUME NEW j \in Jobs, row'[j].state \in Active
                       PROVE  /\ j \in ProcessJobs   => rec'.job = j
                              /\ j \in StrengthsJobs => rec'.strengthsJob = j
                              /\ j \in ShadowJobs    => rec'.attempt = j
          BY <2>6 DEF ActiveJobIsCurrent
        <4>2. CASE j \in T
          BY <2>5, <2>6, <2>8, <3>1, <4>2, JobKinds
        <4>3. CASE j \notin T
          BY <1>0, <2>1, <2>5, <2>9, <2>10, <4>1, <4>3
             DEF JobsAgree, ActiveJobIsCurrent, NoneActive
        <4>4. QED
          BY <4>2, <4>3
      <3>5. QED
        BY <2>5, <2>6, <3>3, <3>4 DEF JobsAgree, Early
    <2>13. ASSUME NEW v \in Workers \ {w}
           PROVE  HandlerAgrees(v)'
      <3>1. SUFFICES ASSUME Holding(v)'
                     PROVE  HandlerAgrees(v)'
        BY DEF HandlerAgrees, Holding
      <3>2. /\ Holding(v) /\ claim[v].job \notin T
        BY <1>0, <1>1, <2>4, <2>8, <3>1, RowsHolder
      <3>3. claim[v].job # p
        BY <1>0, <1>1, <3>2, OneHolder DEF Holding, p
      <3>4. HandlerAgrees(v)
        BY <1>0 DEF HandlersAgree
      <3>5. ~Current(v)' /\ ~CurrentStrengths(v)'
        BY <1>1, <2>5, <2>6, <3>2, <3>3 DEF Current, CurrentStrengths, T
      <3>6. QED
        BY <1>1, <2>7, <3>2, <3>4, <3>5 DEF HandlerAgrees, Holding
    <2>14. HandlerAgrees(w)'
      <3>1. ~CurrentStrengths(w)'
        BY <1>1, <2>2, <2>5, <2>6, <2>8, JobKinds DEF CurrentStrengths, p
      <3>2. QED
        BY <1>1, <2>2, <2>5, <2>7, <3>1 DEF HandlerAgrees, p
    <2>15. QueueTypeOK' /\ TokensDiffer'
      BY <1>0, <1>1, <2>4, <2>8, RowsType, ClaimStays
    <2>16. TypeOK'
      BY <2>5, <2>7, <2>15 DEF TypeOK
    <2>17. QED
      BY <2>11, <2>12, <2>13, <2>14, <2>15, <2>16 DEF RecordingInv, HandlersAgree
  <1>4. QED
    BY <1>2, <1>3

LEMMA CompleteRecordingKeeps ==
  ASSUME RecordingInv, NEW w \in Workers, CompleteRecording(w)
  PROVE  RecordingInv'
  <1>0. /\ QueueTypeOK /\ TypeOK /\ TokensDiffer /\ JobsAgree /\ HandlersAgree
        /\ RecordAgrees /\ PublishedAgrees
    BY DEF RecordingInv, TypeOK
  <1>1. /\ claim' = claim /\ Busy(w) /\ Fenced(w) /\ Goto(w, "return", NoAnalysis)
        /\ work[w].pc = "rewrite"
    BY DEF CompleteRecording, At, Busy, Leased
  <1>2. CASE ~Current(w)
    <2>1. ~CurrentStrengths(w)
      BY <1>0, <1>1, KindsApart DEF HandlersAgree, HandlerAgrees
    <2>2. QED
      BY <1>1, <1>2, <2>1, LeaveKeeps DEF CompleteRecording
  <1>3. CASE Current(w)
    <2>1. Exists /\ rec \in Recording /\ rec.status = "processing" /\ rec.job = claim[w].job
      BY <1>0, <1>3 DEF Current, TypeOK, Exists
    <2>2. /\ rec.stage = "rewriting" /\ work[w].suggestions = rec.suggestions
          /\ claim[w].job \in ProcessJobs
      BY <1>0, <1>1, <1>3 DEF HandlersAgree, HandlerAgrees
    <2>3. PICK d \in ShadowJobs :
            /\ Unused(d)
            /\ rec' = [rec EXCEPT !.status = "ready", !.stage = "none",
                                  !.corrected = work[w].suggestions,
                                  !.shadowing = "processing", !.attempt = d]
            /\ row' = Rows({}, {d})
      BY <1>3 DEF CompleteRecording
    <2>4. /\ rec' \in Recording /\ rec'.status = "ready" /\ rec'.stage = "none"
          /\ rec'.corrected = rec.suggestions /\ rec'.attempt = d
          /\ rec'.job = rec.job /\ rec'.suggestions = rec.suggestions
          /\ rec'.transcript = rec.transcript
          /\ rec'.strengthsStatus = rec.strengthsStatus
          /\ rec'.strengthsJob = rec.strengthsJob /\ rec'.strengths = rec.strengths
      BY <2>1, <2>2, <2>3 DEF Recording
    <2>5. Exists'
      BY <2>4 DEF Exists, NoRecording
    <2>6. /\ work' \in [Workers -> Work] /\ work'[w].pc = "return"
          /\ \A v \in Workers \ {w} : work'[v] = work[v]
      BY <1>0, <1>1, WorkMoves
    <2>7. /\ d \in Jobs /\ d \notin ProcessJobs /\ d \notin StrengthsJobs
          /\ {d} \in SUBSET Jobs /\ row[d].state = "absent"
      BY <2>3, JobKinds DEF Unused
    <2>8. /\ \A j \in Jobs \ {d} : row'[j] = row[j]
          /\ row'[d].state = "queued"
      BY <1>0, <2>3, <2>7, RowsColumns
    <2>9. RecordAgrees' /\ PublishedAgrees'
      BY <1>0, <2>1, <2>2, <2>4 DEF RecordAgrees, PublishedAgrees, Early
    <2>10. JobsAgree'
      <3>1. rec.attempt = NoJob /\ NoJob \notin Jobs
        BY <1>0, <2>1, JobKinds DEF RecordAgrees
      <3>2. rec.strengthsJob \in StrengthsJobs \cup {NoJob}
        BY <2>1 DEF Recording
      <3>3. PendingWorkHasItsJob'
        BY <1>0, <2>1, <2>4, <2>7, <2>8, <3>2, JobKinds
           DEF JobsAgree, PendingWorkHasItsJob
      <3>4. ActiveJobIsCurrent'
        BY <1>0, <2>1, <2>4, <2>5, <2>7, <2>8, <3>1
           DEF JobsAgree, ActiveJobIsCurrent
      <3>5. rec'.strengthsStatus \in {"pending", "failed"} => NoneActive(StrengthsJobs)'
        BY <1>0, <2>1, <2>4, <2>7, <2>8, JobKinds DEF JobsAgree, NoneActive
      <3>6. QED
        BY <2>4, <3>3, <3>4, <3>5 DEF JobsAgree
    <2>11. ASSUME NEW v \in Workers
           PROVE  HandlerAgrees(v)'
      <3>1. SUFFICES ASSUME Holding(v)'
                     PROVE  HandlerAgrees(v)'
        BY DEF HandlerAgrees, Holding
      <3>2. Holding(v)
        BY <1>0, <1>1, <2>3, <2>7, <3>1, RowsHolder
      <3>3. HandlerAgrees(v) /\ ~Current(v)'
        BY <1>0, <2>4 DEF HandlersAgree, Current
      <3>4. CASE v # w
        BY <1>1, <2>1, <2>4, <2>6, <3>2, <3>3, <3>4
           DEF HandlerAgrees, Holding, CurrentStrengths
      <3>5. CASE v = w
        <4>1. ~CurrentStrengths(w)'
          BY <1>1, <2>2, <2>4, <2>5, JobKinds DEF CurrentStrengths, Recording
        <4>2. QED
          BY <2>6, <3>3, <3>5, <4>1 DEF HandlerAgrees
      <3>6. QED
        BY <3>4, <3>5
    <2>12. QueueTypeOK' /\ TokensDiffer'
      BY <1>0, <1>1, <2>3, <2>7, RowsType, ClaimStays
    <2>13. TypeOK'
      BY <2>4, <2>6, <2>12 DEF TypeOK
    <2>14. QED
      BY <2>9, <2>10, <2>11, <2>12, <2>13 DEF RecordingInv, HandlersAgree
  <1>4. QED
    BY <1>2, <1>3

LEMMA SaveStrengthsKeeps ==
  ASSUME RecordingInv, NEW w \in Workers, SaveStrengths(w)
  PROVE  RecordingInv'
  <1>0. /\ QueueTypeOK /\ TypeOK /\ TokensDiffer /\ JobsAgree /\ HandlersAgree
        /\ RecordAgrees /\ PublishedAgrees
    BY DEF RecordingInv, TypeOK
  <1>1. /\ UNCHANGED <<row, claim>> /\ Busy(w) /\ Fenced(w) /\ CurrentStrengths(w)
        /\ work[w].pc = "examples" /\ Goto(w, "return", NoAnalysis)
        /\ rec' = [rec EXCEPT !.strengthsStatus = "ready",
                              !.strengths = work[w].suggestions]
    BY DEF SaveStrengths, At, Busy, Leased
  <1>2. /\ claim[w].job \in StrengthsJobs /\ work[w].suggestions = rec.suggestions
    BY <1>0, <1>1 DEF HandlersAgree, HandlerAgrees
  <1>3. /\ Exists /\ rec \in Recording /\ rec.strengthsStatus = "processing"
        /\ rec.strengthsJob = claim[w].job
    BY <1>0, <1>1 DEF CurrentStrengths, TypeOK, Exists
  <1>4. /\ rec' \in Recording /\ rec'.strengthsStatus = "ready"
        /\ rec'.strengths = rec.suggestions
        /\ rec'.status = rec.status /\ rec'.corrected = rec.corrected
        /\ rec'.stage = rec.stage /\ rec'.transcript = rec.transcript
        /\ rec'.job = rec.job /\ rec'.suggestions = rec.suggestions
        /\ rec'.strengthsJob = rec.strengthsJob /\ rec'.attempt = rec.attempt
    BY <1>1, <1>2, <1>3 DEF Recording
  <1>5. Exists'
    BY <1>4 DEF Exists, NoRecording, Recording
  <1>6. /\ work' \in [Workers -> Work] /\ work'[w].pc = "return"
        /\ \A v \in Workers \ {w} : work'[v] = work[v]
    BY <1>0, <1>1, WorkMoves
  <1>7. RecordAgrees' /\ PublishedAgrees'
    BY <1>0, <1>3, <1>4 DEF RecordAgrees, PublishedAgrees, Early
  <1>8. JobsAgree'
    <2>1. ~Early'
      BY <1>0, <1>3, <1>4 DEF RecordAgrees, Early
    <2>2. QED
      BY <1>0, <1>1, <1>3, <1>4, <1>5, <2>1
         DEF JobsAgree, PendingWorkHasItsJob, ActiveJobIsCurrent, NoneActive
  <1>9. ASSUME NEW v \in Workers
        PROVE  HandlerAgrees(v)'
    <2>1. HandlerAgrees(v) /\ ~CurrentStrengths(v)'
      BY <1>0, <1>4 DEF HandlersAgree, CurrentStrengths
    <2>2. CASE v # w
      BY <1>1, <1>3, <1>4, <1>6, <2>1, <2>2
         DEF HandlerAgrees, Busy, Fenced, Current
    <2>3. CASE v = w
      <3>1. ~Current(w)'
        BY <1>1, <1>2, <1>4, JobKinds DEF Current, Recording
      <3>2. QED
        BY <1>6, <2>1, <2>3, <3>1 DEF HandlerAgrees
    <2>4. QED
      BY <2>2, <2>3
  <1>10. QueueTypeOK' /\ TokensDiffer'
    BY <1>0, <1>1, ClaimStays DEF QueueTypeOK
  <1>11. TypeOK'
    BY <1>4, <1>6, <1>10 DEF TypeOK
  <1>12. QED
    BY <1>7, <1>8, <1>9, <1>10, <1>11 DEF RecordingInv, HandlersAgree

-----------------------------------------------------------------------------
(* The requests of the API *)

\* The jobs a request replaces and the one it enqueues.
LEMMA RequestRows ==
  ASSUME RecordingInv, NEW S \in SUBSET Jobs, NEW j \in Jobs, row[j].state = "absent",
         row' = Rows(S, {j}), UNCHANGED <<claim, work>>
  PROVE  /\ QueueTypeOK' /\ TokensDiffer'
         /\ row'[j].state = "queued"
         /\ \A k \in Jobs \ {j} : k \notin S \/ row[k].state \notin Active => row'[k] = row[k]
         /\ \A k \in S \ {j} : row'[k].state \notin Active
         /\ \A k \in Jobs \ {j} : row'[k].state \in Active => row[k].state \in Active
         /\ \A v \in Workers : HolderKept(v) /\ (Holding(v)' => claim[v].job # j)
  <1>0. QueueTypeOK /\ TokensDiffer
    BY DEF RecordingInv, TypeOK
  <1>1. /\ row'[j].state = "queued"
        /\ \A k \in Jobs \ {j} : k \notin S \/ row[k].state \notin Active => row'[k] = row[k]
        /\ \A k \in S \ {j} : row'[k].state \notin Active
    BY <1>0, RowsColumns
  <1>2. \A k \in Jobs \ {j} : row'[k].state \in Active => row[k].state \in Active
    BY <1>1
  <1>3. ASSUME NEW v \in Workers, Holding(v)'
        PROVE  Holding(v) /\ claim[v].job # j
    BY <1>0, <1>3, RowsHolder
  <1>4. \A v \in Workers : HolderKept(v) /\ (Holding(v)' => claim[v].job # j)
    BY <1>3 DEF HolderKept
  <1>5. QED
    BY <1>0, <1>1, <1>2, <1>4, RowsType, ClaimStays

\* A request that only enqueues.
LEMMA EnqueueRows ==
  ASSUME RecordingInv, NEW j \in Jobs, row[j].state = "absent",
         row' = Rows({}, {j}), UNCHANGED <<claim, work>>
  PROVE  /\ QueueTypeOK' /\ TokensDiffer' /\ row'[j].state = "queued"
         /\ \A k \in Jobs \ {j} : row'[k] = row[k]
         /\ \A v \in Workers : HolderKept(v) /\ (Holding(v)' => claim[v].job # j)
  <1>1. PICK S \in SUBSET Jobs : S = {} /\ row' = Rows(S, {j})
    OBVIOUS
  <1>2. /\ QueueTypeOK' /\ TokensDiffer' /\ row'[j].state = "queued"
        /\ \A k \in Jobs \ {j} :
             k \notin S \/ row[k].state \notin Active => row'[k] = row[k]
        /\ \A v \in Workers : HolderKept(v) /\ (Holding(v)' => claim[v].job # j)
    BY <1>1, RequestRows
  <1>3. QED
    BY <1>1, <1>2

LEMMA NewJobs ==
  ASSUME RecordingInv, NEW p \in ProcessJobs, NewProcessJob(p)
  PROVE  /\ p \in Jobs /\ row[p].state = "absent"
         /\ StrengthsOf[p] \in Jobs /\ row[StrengthsOf[p]].state = "absent"
         /\ StrengthsOf[p] # p
         /\ Exists => rec.job # p
  BY JobKinds DEF NewProcessJob, Unused

LEMMA CreateKeeps ==
  ASSUME RecordingInv, NEW p \in ProcessJobs,
         NEW stage \in {"transcribing", "suggestions"}, Create(p, stage)
  PROVE  RecordingInv'
  <1>0. TypeOK /\ JobsAgree /\ HandlersAgree
    BY DEF RecordingInv
  <1>1. /\ ~Exists /\ rec' = Created(p, stage, "focused") /\ row' = Rows({}, {p})
        /\ UNCHANGED <<claim, work>> /\ NewProcessJob(p)
    BY DEF Create
  <1>2. /\ rec' \in Recording /\ rec'.status = "processing" /\ rec'.stage = stage
        /\ rec'.transcript = (stage = "suggestions") /\ rec'.job = p
        /\ rec'.strengthsStatus = "pending" /\ rec'.attempt = NoJob
    BY <1>1 DEF Created, Recording, Stages
  <1>3. Exists'
    BY <1>2 DEF Exists, NoRecording
  <1>4. /\ p \in Jobs /\ row[p].state = "absent"
        /\ StrengthsOf[p] \in Jobs /\ row[StrengthsOf[p]].state = "absent"
        /\ StrengthsOf[p] # p
    BY <1>1, NewJobs
  <1>5. /\ QueueTypeOK' /\ TokensDiffer' /\ row'[p].state = "queued"
        /\ \A k \in Jobs \ {p} : row'[k] = row[k]
        /\ \A v \in Workers : HolderKept(v) /\ (Holding(v)' => claim[v].job # p)
    BY <1>1, <1>4, EnqueueRows
  <1>6. \A j \in Jobs : row[j].state \notin Active
    BY <1>0, <1>1 DEF JobsAgree, ActiveJobIsCurrent
  <1>7. RecordAgrees' /\ PublishedAgrees'
    BY <1>2 DEF RecordAgrees, PublishedAgrees, Early
  <1>8. JobsAgree'
    BY <1>2, <1>3, <1>4, <1>5, <1>6, JobKinds
       DEF JobsAgree, PendingWorkHasItsJob, ActiveJobIsCurrent, NoneActive, Active, Waiting
  <1>9. ASSUME NEW v \in Workers
        PROVE  ~Holding(v)'
    <2>1. SUFFICES ASSUME Holding(v)'
                   PROVE  FALSE
      OBVIOUS
    <2>2. Holding(v)
      BY <1>5, <2>1 DEF HolderKept
    <2>3. claim[v].job \in Jobs /\ row[claim[v].job].state = "running"
      BY <1>0, <2>2, HoldingRuns DEF TypeOK
    <2>4. QED
      BY <1>6, <2>3 DEF Active
  <1>10. HandlersAgree'
    BY <1>9 DEF HandlersAgree, HandlerAgrees, Holding
  <1>11. TypeOK'
    BY <1>0, <1>1, <1>2, <1>5 DEF TypeOK
  <1>12. QED
    BY <1>5, <1>7, <1>8, <1>10, <1>11 DEF RecordingInv

\* What a retry or a reanalysis makes of the columns.
LEMMA RestartedColumns ==
  ASSUME NEW r \in Recording, NEW p \in ProcessJobs
  PROVE  /\ Restarted(r, p) \in Recording
         /\ Restarted(r, p).status = "processing"
         /\ Restarted(r, p).job = p
         /\ Restarted(r, p).attempt = NoJob
         /\ Restarted(r, p).stage = r.stage
         /\ Restarted(r, p).transcript = r.transcript
         /\ Restarted(r, p).suggestions = r.suggestions
         /\ Restarted(r, p).strengthsStatus = r.strengthsStatus
         /\ Restarted(r, p).strengthsJob = r.strengthsJob
         /\ Restarted(r, p).strengths = r.strengths
  BY ZenonT(40) DEF Restarted, Recording

LEMMA WithoutAnalysisColumns ==
  ASSUME NEW r \in Recording
  PROVE  /\ WithoutAnalysis(r) \in Recording
         /\ WithoutAnalysis(r).status = r.status
         /\ WithoutAnalysis(r).job = r.job
         /\ WithoutAnalysis(r).attempt = r.attempt
         /\ WithoutAnalysis(r).stage = r.stage
         /\ WithoutAnalysis(r).transcript = r.transcript
         /\ WithoutAnalysis(r).strengthsStatus = "pending"
         /\ WithoutAnalysis(r).strengthsJob = NoJob
  BY DEF WithoutAnalysis, Recording

LEMMA RetryKeeps ==
  ASSUME RecordingInv, NEW p \in ProcessJobs, Retry(p)
  PROVE  RecordingInv' /\ rec.job # rec'.job
  <1>0. TypeOK /\ JobsAgree /\ HandlersAgree /\ RecordAgrees /\ PublishedAgrees
    BY DEF RecordingInv
  <1>1. /\ Exists /\ rec \in Recording /\ rec.status = "failed"
        /\ rec.stage \in Stages /\ (rec.stage # "transcribing" => rec.transcript)
        /\ row' = Rows(RetriedJobs, {p})
        /\ UNCHANGED <<claim, work>> /\ NewProcessJob(p)
    BY <1>0 DEF Retry, Retryable, TypeOK, Exists
  <1> DEFINE r == Restarted(rec, p)
             q == WithoutAnalysis(r)
  <1>2. /\ rec.stage = "transcribing" => rec' = [q EXCEPT !.transcript = FALSE]
        /\ rec.stage = "suggestions" => rec' = q
        /\ rec.stage = "rewriting" => rec' = r
    BY <1>1 DEF Retry, Stages
  <1>3. /\ r \in Recording /\ r.status = "processing" /\ r.job = p /\ r.attempt = NoJob
        /\ r.stage = rec.stage /\ r.transcript = rec.transcript
        /\ r.suggestions = rec.suggestions /\ r.strengthsStatus = rec.strengthsStatus
        /\ r.strengthsJob = rec.strengthsJob /\ r.strengths = rec.strengths
    BY <1>1, RestartedColumns
  <1> HIDE DEF r
  <1>4. /\ q \in Recording /\ q.status = "processing" /\ q.job = p /\ q.attempt = NoJob
        /\ q.stage = rec.stage /\ q.transcript = rec.transcript
        /\ q.strengthsStatus = "pending"
    BY <1>3, WithoutAnalysisColumns
  <1> HIDE DEF q
  <1>5. /\ rec' \in Recording /\ rec'.status = "processing" /\ rec'.job = p
        /\ rec'.attempt = NoJob /\ rec'.stage = rec.stage
        /\ rec.stage # "transcribing" => rec'.transcript = rec.transcript
        /\ rec.stage # "rewriting" => rec'.strengthsStatus = "pending"
        /\ rec.stage = "rewriting" =>
             /\ rec'.strengthsStatus = rec.strengthsStatus
             /\ rec'.strengthsJob = rec.strengthsJob
             /\ rec'.suggestions = rec.suggestions
             /\ rec'.strengths = rec.strengths
    <2>1. /\ [q EXCEPT !.transcript = FALSE] \in Recording
          /\ [q EXCEPT !.transcript = FALSE].status = q.status
          /\ [q EXCEPT !.transcript = FALSE].job = q.job
          /\ [q EXCEPT !.transcript = FALSE].attempt = q.attempt
          /\ [q EXCEPT !.transcript = FALSE].stage = q.stage
          /\ [q EXCEPT !.transcript = FALSE].strengthsStatus = q.strengthsStatus
      BY <1>4 DEF Recording
    <2>2. QED
      BY <1>1, <1>2, <1>3, <1>4, <2>1, ZenonT(40) DEF Stages
  <1>6. Exists' /\ (Early' <=> rec.stage # "rewriting")
    BY <1>1, <1>5 DEF Exists, NoRecording, Early, Stages
  <1>7. /\ p \in Jobs /\ row[p].state = "absent" /\ rec.job # p
        /\ StrengthsOf[p] \in Jobs /\ row[StrengthsOf[p]].state = "absent"
        /\ StrengthsOf[p] # p
    BY <1>1, NewJobs
  <1>8. /\ RetriedJobs \in SUBSET Jobs /\ p \notin RetriedJobs
        /\ rec.stage = "rewriting" => RetriedJobs = {}
        /\ rec.stage # "rewriting" => RetriedJobs = StrengthsJobs
    BY <1>1, JobKinds DEF RetriedJobs, Stages
  <1>9. /\ QueueTypeOK' /\ TokensDiffer' /\ row'[p].state = "queued"
        /\ \A k \in Jobs \ {p} :
             k \notin RetriedJobs \/ row[k].state \notin Active => row'[k] = row[k]
        /\ \A k \in RetriedJobs \ {p} : row'[k].state \notin Active
        /\ \A k \in Jobs \ {p} : row'[k].state \in Active => row[k].state \in Active
        /\ \A v \in Workers : HolderKept(v) /\ (Holding(v)' => claim[v].job # p)
    BY <1>1, <1>7, <1>8, RequestRows, ZenonT(40)
  <1>10. RecordAgrees' /\ PublishedAgrees'
    BY <1>0, <1>1, <1>5, <1>6 DEF RecordAgrees, PublishedAgrees, Early, Stages
  <1>11. JobsAgree'
    <2>1. NoneActive(ProcessJobs) /\ rec.attempt = NoJob
      BY <1>0, <1>1 DEF JobsAgree, RecordAgrees
    <2>2. rec.stage # "rewriting" => \A k \in StrengthsJobs : row'[k].state \notin Active
      BY <1>8, <1>9
    <2>3. rec.stage = "rewriting" => \A k \in Jobs \ {p} : row'[k] = row[k]
      BY <1>8, <1>9
    <2>4. rec.strengthsJob \in StrengthsJobs \cup {NoJob}
      BY <1>1 DEF Recording
    <2>5. PendingWorkHasItsJob'
      <3>1. row'[rec'.job].state \in Active
        BY <1>5, <1>9 DEF Active, Waiting
      <3>2. rec'.strengthsStatus = "processing" =>
              /\ rec.stage = "rewriting" /\ rec'.strengthsJob = rec.strengthsJob
              /\ rec.strengthsJob # NoJob /\ row[rec.strengthsJob].state \in Active
        BY <1>0, <1>1, <1>5 DEF JobsAgree, PendingWorkHasItsJob
      <3>3. rec'.strengthsStatus = "processing" =>
              rec.strengthsJob \in Jobs \ {p}
        BY <2>4, <3>2, JobKinds
      <3>4. QED
        BY <2>3, <3>1, <3>2, <3>3 DEF PendingWorkHasItsJob
    <2>6. ActiveJobIsCurrent'
      <3>1. SUFFICES ASSUME NEW j \in Jobs, row'[j].state \in Active, j # p
                     PROVE  j \in StrengthsJobs /\ rec'.strengthsJob = j
        BY <1>5, <1>6, JobKinds DEF ActiveJobIsCurrent
      <3>2. row[j].state \in Active
        BY <1>9, <3>1
      <3>3. j \in StrengthsJobs /\ rec.strengthsJob = j
        BY <1>0, <2>1, <3>2, JobKinds DEF JobsAgree, ActiveJobIsCurrent, NoneActive
      <3>4. QED
        BY <1>5, <2>2, <3>1, <3>3
    <2>7. rec'.strengthsStatus \in {"pending", "failed"} => NoneActive(StrengthsJobs)'
      BY <1>0, <1>1, <1>5, <1>7, <2>2, <2>3, JobKinds DEF JobsAgree, NoneActive
    <2>8. row'[StrengthsOf[p]].state = "absent"
      BY <1>7, <1>9 DEF Active, Waiting
    <2>9. QED
      BY <1>5, <2>5, <2>6, <2>7, <2>8 DEF JobsAgree
  <1>12. ASSUME NEW v \in Workers
         PROVE  HandlerAgrees(v)'
    <2>1. SUFFICES ASSUME Holding(v)'
                   PROVE  HandlerAgrees(v)'
      BY DEF HandlerAgrees, Holding
    <2>2. HandlerAgrees(v) /\ Holding(v) /\ claim[v].job # p
      BY <1>0, <1>9, <2>1 DEF HandlersAgree, HolderKept
    <2>3. ~Current(v)'
      BY <1>1, <1>5, <2>2 DEF Current
    <2>4. CurrentStrengths(v)' => CurrentStrengths(v) /\ rec'.suggestions = rec.suggestions
      BY <1>1, <1>5 DEF CurrentStrengths, Stages
    <2>5. QED
      BY <1>1, <2>2, <2>3, <2>4 DEF HandlerAgrees, Holding
  <1>13. TypeOK'
    BY <1>0, <1>1, <1>5, <1>9 DEF TypeOK
  <1>14. QED
    BY <1>5, <1>7, <1>9, <1>10, <1>11, <1>12, <1>13 DEF RecordingInv, HandlersAgree

LEMMA ReanalyzeKeeps ==
  ASSUME RecordingInv, NEW p \in ProcessJobs, Reanalyze(p)
  PROVE  RecordingInv' /\ rec.job # rec'.job
  <1>0. TypeOK /\ JobsAgree /\ HandlersAgree
    BY DEF RecordingInv
  <1>1. /\ Exists /\ rec \in Recording /\ rec.transcript = TRUE
        /\ rec' = [WithoutAnalysis(Restarted(rec, p)) EXCEPT
                     !.stage = "suggestions", !.pipeline = "focused"]
        /\ row' = Rows(ReanalysisCancels, {p})
        /\ UNCHANGED <<claim, work>> /\ NewProcessJob(p)
    BY <1>0 DEF Reanalyze, TypeOK, Exists, Recording
  <1>2. ReanalysisCancels = Jobs
    BY RecordingAssumption DEF ReanalysisCancels
  <1> DEFINE q == WithoutAnalysis(Restarted(rec, p))
  <1>3. /\ q \in Recording /\ q.status = "processing" /\ q.job = p /\ q.attempt = NoJob
        /\ q.transcript = TRUE /\ q.strengthsStatus = "pending"
    BY <1>1, RestartedColumns, WithoutAnalysisColumns
  <1> HIDE DEF q
  <1>4. rec' = [q EXCEPT !.stage = "suggestions", !.pipeline = "focused"]
    BY <1>1 DEF q
  <1>5. /\ rec' \in Recording /\ rec'.status = "processing" /\ rec'.job = p
        /\ rec'.attempt = NoJob /\ rec'.stage = "suggestions"
        /\ rec'.transcript = TRUE /\ rec'.strengthsStatus = "pending"
    BY <1>3, <1>4 DEF Recording, Stages
  <1>6. Exists'
    BY <1>5 DEF Exists, NoRecording
  <1>7. /\ p \in Jobs /\ row[p].state = "absent" /\ rec.job # p
        /\ StrengthsOf[p] \in Jobs /\ row[StrengthsOf[p]].state = "absent"
        /\ StrengthsOf[p] # p
    BY <1>1, NewJobs
  <1>8. /\ QueueTypeOK' /\ TokensDiffer' /\ row'[p].state = "queued"
        /\ \A k \in Jobs \ {p} : row[k].state \notin Active => row'[k] = row[k]
        /\ \A k \in Jobs \ {p} : row'[k].state \notin Active
        /\ \A v \in Workers : HolderKept(v) /\ (Holding(v)' => claim[v].job # p)
    <2>1. PICK S \in SUBSET Jobs : S = Jobs /\ row' = Rows(S, {p})
      BY <1>1, <1>2
    <2>2. UNCHANGED <<claim, work>>
      BY <1>1
    <2>3. /\ QueueTypeOK' /\ TokensDiffer' /\ row'[p].state = "queued"
          /\ \A k \in Jobs \ {p} :
               k \notin S \/ row[k].state \notin Active => row'[k] = row[k]
          /\ \A k \in S \ {p} : row'[k].state \notin Active
          /\ \A v \in Workers : HolderKept(v) /\ (Holding(v)' => claim[v].job # p)
      BY <1>7, <2>1, <2>2, RequestRows, ZenonT(40)
    <2>4. QED
      BY <2>1, <2>3
  <1>9. RecordAgrees' /\ PublishedAgrees'
    BY <1>5 DEF RecordAgrees, PublishedAgrees, Early
  <1>10. JobsAgree'
    <2>1. row'[StrengthsOf[p]].state = "absent"
      BY <1>7, <1>8 DEF Active, Waiting
    <2>2. QED
      BY <1>5, <1>6, <1>7, <1>8, <2>1, JobKinds
         DEF JobsAgree, PendingWorkHasItsJob, ActiveJobIsCurrent, NoneActive, Active, Waiting
  <1>11. ASSUME NEW v \in Workers
         PROVE  ~Holding(v)'
    <2>1. Holding(v)' => /\ claim[v].job \in Jobs \ {p}
                         /\ row'[claim[v].job].state = "running"
      BY <1>0, <1>1, <1>8, HoldingRuns DEF HolderKept, Holding, Fenced, TypeOK
    <2>2. QED
      BY <1>8, <2>1 DEF Active
  <1>12. HandlersAgree'
    BY <1>11 DEF HandlersAgree, HandlerAgrees, Holding
  <1>13. TypeOK'
    BY <1>0, <1>1, <1>5, <1>8 DEF TypeOK
  <1>14. QED
    BY <1>5, <1>7, <1>8, <1>9, <1>10, <1>12, <1>13 DEF RecordingInv

LEMMA RetryStrengthsKeeps ==
  ASSUME RecordingInv, NEW s \in StrengthsJobs, RetryStrengths(s)
  PROVE  RecordingInv'
  <1>0. TypeOK /\ JobsAgree /\ HandlersAgree /\ RecordAgrees /\ PublishedAgrees
    BY DEF RecordingInv
  <1>1. /\ Exists /\ rec \in Recording
        /\ rec.strengthsStatus \in {"pending", "failed"}
        /\ rec.status = "ready" \/ rec.stage = "rewriting"
        /\ rec' = [rec EXCEPT !.strengthsStatus = "processing", !.strengthsJob = s]
        /\ row' = Rows({}, {s})
        /\ UNCHANGED <<claim, work>> /\ Unused(s)
    BY <1>0 DEF RetryStrengths, NewStrengthsJob, TypeOK, Exists, Recording
  <1>2. /\ rec' \in Recording /\ rec'.strengthsStatus = "processing" /\ rec'.strengthsJob = s
        /\ rec'.status = rec.status /\ rec'.corrected = rec.corrected
        /\ rec'.stage = rec.stage /\ rec'.transcript = rec.transcript
        /\ rec'.job = rec.job /\ rec'.suggestions = rec.suggestions
        /\ rec'.attempt = rec.attempt
    BY <1>1 DEF Recording
  <1>3. Exists' /\ ~Early /\ ~Early'
    BY <1>0, <1>1, <1>2 DEF Exists, NoRecording, Early, RecordAgrees, Recording
  <1>4. s \in Jobs /\ s \notin ProcessJobs /\ s \notin ShadowJobs /\ row[s].state = "absent"
    BY <1>1, JobKinds DEF Unused
  <1>5. /\ QueueTypeOK' /\ TokensDiffer' /\ row'[s].state = "queued"
        /\ \A k \in Jobs \ {s} : row'[k] = row[k]
        /\ \A v \in Workers : HolderKept(v) /\ (Holding(v)' => claim[v].job # s)
    BY <1>1, <1>4, EnqueueRows
  <1>6. RecordAgrees' /\ PublishedAgrees'
    BY <1>0, <1>1, <1>2, <1>3 DEF RecordAgrees, PublishedAgrees
  <1>7. JobsAgree'
    <2>1. NoneActive(StrengthsJobs)
      BY <1>0, <1>1 DEF JobsAgree
    <2>2. rec.job \in Jobs \ {s}
      BY <1>1, <1>4, JobKinds DEF Recording
    <2>3. PendingWorkHasItsJob'
      BY <1>0, <1>1, <1>2, <1>4, <1>5, <2>2, JobKinds, ZenonT(40)
         DEF JobsAgree, PendingWorkHasItsJob, Active, Waiting
    <2>4. ActiveJobIsCurrent'
      BY <1>0, <1>1, <1>2, <1>3, <1>4, <1>5, <2>1
         DEF JobsAgree, ActiveJobIsCurrent, NoneActive
    <2>5. rec'.status = "failed" => NoneActive(ProcessJobs)'
      BY <1>0, <1>1, <1>2, <1>4, <1>5, JobKinds DEF JobsAgree, NoneActive
    <2>6. QED
      BY <1>2, <1>3, <2>3, <2>4, <2>5 DEF JobsAgree
  <1>8. ASSUME NEW v \in Workers
        PROVE  HandlerAgrees(v)'
    <2>1. SUFFICES ASSUME Holding(v)'
                   PROVE  HandlerAgrees(v)'
      BY DEF HandlerAgrees, Holding
    <2>2. HandlerAgrees(v) /\ Holding(v) /\ claim[v].job # s
      BY <1>0, <1>5, <2>1 DEF HandlersAgree, HolderKept
    <2>3. ~CurrentStrengths(v)'
      BY <1>1, <1>2, <2>2 DEF CurrentStrengths
    <2>4. QED
      BY <1>1, <1>2, <2>2, <2>3 DEF HandlerAgrees, Holding, Current
  <1>9. TypeOK'
    BY <1>0, <1>1, <1>2, <1>5 DEF TypeOK
  <1>10. QED
    BY <1>5, <1>6, <1>7, <1>8, <1>9 DEF RecordingInv, HandlersAgree

LEMMA DeleteKeeps ==
  ASSUME RecordingInv, Delete
  PROVE  RecordingInv'
  <1>0. QueueTypeOK /\ TypeOK /\ TokensDiffer
    BY DEF RecordingInv, TypeOK
  <1>1. ~Exists' /\ rec' = NoRecording /\ UNCHANGED <<claim, work>>
    BY DEF Delete, Exists
  <1>2. PICK T \in SUBSET Jobs : T = {} /\ row' = Rows(Jobs, T)
    <2>1. DeletionCancels = Jobs
      BY RecordingAssumption DEF DeletionCancels
    <2>2. QED
      BY <2>1 DEF Delete
  <1>3. \A j \in Jobs : row'[j].state \notin Active
    BY <1>0, <1>2, RowsColumns
  <1>4. QueueTypeOK' /\ TokensDiffer'
    BY <1>0, <1>1, <1>2, RowsType, ClaimStays
  <1>5. ASSUME NEW v \in Workers
        PROVE  ~Holding(v)'
    BY <1>3, <1>4, HoldingRuns, BusyType DEF Holding, Fenced, QueueTypeOK, Busy, Idle, Claimed, Active
  <1>6. HandlersAgree'
    BY <1>5 DEF HandlersAgree, HandlerAgrees, Holding
  <1>7. RecordAgrees' /\ PublishedAgrees'
    BY <1>1 DEF RecordAgrees, PublishedAgrees
  <1>8. JobsAgree'
    BY <1>1, <1>3 DEF JobsAgree, PendingWorkHasItsJob, ActiveJobIsCurrent
  <1>9. TypeOK'
    BY <1>0, <1>1, <1>4 DEF TypeOK
  <1>10. QED
    BY <1>4, <1>6, <1>7, <1>8, <1>9 DEF RecordingInv

-----------------------------------------------------------------------------
(* The invariant *)

LEMMA RecordingInit == Init => RecordingInv
  <1> SUFFICES ASSUME Init
               PROVE  RecordingInv
    OBVIOUS
  <1>1. claim = [w \in Workers |-> Idle] /\ work = [w \in Workers |-> NoWork]
    BY DEF Init
  <1>2. TokensDiffer /\ HandlersAgree
    BY <1>1 DEF TokensDiffer, HandlersAgree, HandlerAgrees, Busy, Idle
  <1>3. /\ claim \in [Workers -> Claimed \cup {Idle}]
        /\ work \in [Workers -> Work]
    BY <1>1 DEF NoWork, Work
  <1>4. CASE rec = NoRecording /\ row = [j \in Jobs |-> Absent]
    <2>1. TypeOK
      BY <1>3, <1>4 DEF TypeOK, QueueTypeOK, Absent, Row
    <2>2. ~Exists /\ \A j \in Jobs : row[j].state \notin Active
      BY <1>4 DEF Exists, Absent, Active, Waiting
    <2>3. QED
      BY <1>2, <2>1, <2>2
         DEF RecordingInv, RecordAgrees, PublishedAgrees, JobsAgree,
             PendingWorkHasItsJob, ActiveJobIsCurrent
  <1>5. ASSUME NEW p \in ProcessJobs,
               rec = Created(p, "transcribing", "legacy"),
               row = [j \in Jobs |->
                        IF j = p THEN [Absent EXCEPT !.state = "queued", !.due = TRUE]
                        ELSE Absent]
        PROVE  RecordingInv
    <2>1. /\ rec \in Recording /\ rec.status = "processing" /\ rec.stage = "transcribing"
          /\ rec.job = p /\ rec.strengthsStatus = "pending" /\ rec.attempt = NoJob
      BY <1>5 DEF Created, Recording, Stages
    <2>2. [Absent EXCEPT !.state = "queued", !.due = TRUE] \in Row /\ Absent \in Row
      BY DEF Absent, Row, Active, Waiting
    <2>3. /\ row \in [Jobs -> Row] /\ row[p].state = "queued"
          /\ \A j \in Jobs \ {p} : row[j].state = "absent"
      BY <1>5, <2>2, JobKinds DEF Absent
    <2>4. TypeOK
      BY <1>3, <2>1, <2>3 DEF TypeOK, QueueTypeOK
    <2>5. RecordAgrees /\ PublishedAgrees
      BY <2>1 DEF RecordAgrees, PublishedAgrees, Early
    <2>6. Exists
      BY <2>1 DEF Exists, NoRecording
    <2>7. JobsAgree
      BY <2>1, <2>3, <2>6, JobKinds
         DEF JobsAgree, PendingWorkHasItsJob, ActiveJobIsCurrent, NoneActive, Active, Waiting
    <2>8. QED
      BY <1>2, <2>4, <2>5, <2>7 DEF RecordingInv
  <1>6. QED
    BY <1>4, <1>5 DEF Init

LEMMA ConsumeKeeps ==
  ASSUME RecordingInv, NEW w \in Workers, RecordingConsume(w)
  PROVE  RecordingInv'
  BY StartJobKeeps, LoadProcessingWorkKeeps, VerifyDurationKeeps, SaveTranscriptKeeps,
     SaveAnalysisKeeps, CompleteRecordingKeeps, LoadStrengthsWorkKeeps, SaveStrengthsKeeps,
     ReturnKeeps, HeartbeatKeeps, CancelContextKeeps, CompleteKeeps, FailJobKeeps, LoseJobKeeps
     DEF RecordingConsume, Handle

LEMMA RecordingStep == RecordingInv /\ [RecordingNext]_vars => RecordingInv'
  <1> SUFFICES ASSUME RecordingInv, [RecordingNext]_vars
               PROVE  RecordingInv'
    OBVIOUS
  <1>1. CASE Request
    BY <1>1, CreateKeeps, RetryKeeps, ReanalyzeKeeps, RetryStrengthsKeeps, DeleteKeeps
       DEF Request
  <1>2. CASE UNCHANGED vars
    <2>1. \A w \in Workers : HolderKept(w)
      BY <1>2 DEF vars, HolderKept, Holding, Busy, Fenced
    <2>2. QED
      BY <1>2, <2>1, RecordStays, JobsStay, HandlerStays, ClaimStays
         DEF vars, RecordingInv, TypeOK, QueueTypeOK, QuietRows, HandlersAgree
  <1>3. QED
    BY <1>1, <1>2, ConsumeKeeps, MaintenanceKeeps DEF RecordingNext

(* The row of the recording, its jobs and the consumers that hold them agree *)
(* through every request, retry, lost lease, crash and late report.         *)
THEOREM RecordingIsInvariant == RecordingSpec => []RecordingInv
  BY RecordingInit, RecordingStep, PTL DEF RecordingSpec

(* The columns keep the values the table declares, and every handler is at   *)
(* one of its transactions.                                                 *)
THEOREM RecordingTypes == RecordingSpec => []TypeOK
  <1>1. RecordingInv => TypeOK
    BY DEF RecordingInv
  <1>2. QED
    BY <1>1, RecordingIsInvariant, PTL

(* Nothing is shown as under way that no job in the queue will end: the      *)
(* fences of the handlers and the cancellations of the requests match.      *)
THEOREM NothingPendingIsOrphaned == RecordingSpec => []PendingWorkHasItsJob
  <1>1. RecordingInv => PendingWorkHasItsJob
    BY DEF RecordingInv, JobsAgree
  <1>2. QED
    BY <1>1, RecordingIsInvariant, PTL

(* A retry, a reanalysis or a deletion leaves no job of the analysis it      *)
(* replaces in the queue.                                                   *)
THEOREM NoJobOutlivesItsAnalysis == RecordingSpec => []ActiveJobIsCurrent
  <1>1. RecordingInv => ActiveJobIsCurrent
    BY DEF RecordingInv, JobsAgree
  <1>2. QED
    BY <1>1, RecordingIsInvariant, PTL

(* Whatever stage failed, the user can retry it: a failed recording has the  *)
(* transcript that RetryService.validate asks for.                          *)
THEOREM FailureCanBeRetried == RecordingSpec => []FailedIsRetryable
  <1>1. ASSUME RecordingInv, Exists, rec.status = "failed"
        PROVE  Retryable
    BY <1>1 DEF RecordingInv, TypeOK, Exists, Recording, RecordAgrees, Retryable
  <1>2. RecordingInv => FailedIsRetryable
    BY <1>1 DEF FailedIsRetryable
  <1>3. QED
    BY <1>2, RecordingIsInvariant, PTL

(* The corrected text and the strengths of a recording are of the analysis   *)
(* it shows, although a handler keeps the analysis it read in memory.       *)
THEOREM PublishedIsOfOneAnalysis == RecordingSpec => []PublishedAgrees
  <1>1. RecordingInv => PublishedAgrees
    BY DEF RecordingInv
  <1>2. QED
    BY <1>1, RecordingIsInvariant, PTL

-----------------------------------------------------------------------------
(* Steps *)

NoRegress ==
  Exists /\ Exists' /\ rec'.job = rec.job
    => /\ StageRank[rec.stage] <= StageRank[rec'.stage]
       /\ rec.status = "ready" => rec'.status = "ready"

LEMMA Ranks ==
  /\ StageRank["transcribing"] = 1 /\ StageRank["suggestions"] = 2
  /\ StageRank["rewriting"] = 3 /\ StageRank["none"] = 4
  BY DEF StageRank

LEMMA SameStage ==
  ASSUME RecordingInv, Exists /\ Exists' => rec'.stage = rec.stage,
         Exists /\ Exists' /\ rec.status = "ready" => rec'.status = "ready"
  PROVE  NoRegress
  <1>1. Exists => rec.stage \in {"transcribing", "suggestions", "rewriting", "none"}
    BY DEF RecordingInv, TypeOK, Exists, Recording, Stages
  <1>2. Exists => StageRank[rec.stage] \in Nat
    BY <1>1, Ranks
  <1>3. QED
    BY <1>2 DEF NoRegress

LEMMA HandleAdvances ==
  ASSUME RecordingInv, NEW w \in Workers, Handle(w)
  PROVE  NoRegress
  <1>0. TypeOK /\ HandlersAgree /\ (Exists => rec \in Recording)
    BY DEF RecordingInv, TypeOK, Exists
  <1>1. CASE LoadProcessingWork(w) \/ VerifyDuration(w) \/ LoadStrengthsWork(w)
             \/ ReturnNil(w) \/ ReturnError(w)
    BY <1>1, SameStage DEF LoadProcessingWork, VerifyDuration, LoadStrengthsWork,
       ReturnNil, ReturnError
  <1>2. CASE SaveTranscript(w)
    <2>1. CASE Current(w) /\ Fenced(w)
      <3>1. rec.stage = "transcribing" /\ rec.status = "processing"
        BY <1>0, <1>2, <2>1
           DEF SaveTranscript, At, Busy, Current, HandlersAgree, HandlerAgrees
      <3>2. rec'.stage = "suggestions"
        BY <1>0, <1>2, <2>1 DEF SaveTranscript, Current, Recording
      <3>3. QED
        BY <3>1, <3>2, Ranks DEF NoRegress
    <2>2. CASE ~(Current(w) /\ Fenced(w))
      BY <1>2, <2>2, SameStage DEF SaveTranscript
    <2>3. QED
      BY <2>1, <2>2
  <1>3. CASE SaveAnalysis(w)
    <2>1. CASE Current(w)
      <3>1. /\ Busy(w) /\ Fenced(w) /\ work[w].pc = "analyze"
            /\ Exists /\ rec \in Recording /\ rec.status = "processing"
        BY <1>0, <1>3, <2>1 DEF SaveAnalysis, At, Busy, Leased, Current
      <3>2. rec.stage = "suggestions" /\ claim[w].job \in ProcessJobs
        BY <1>0, <2>1, <3>1 DEF HandlersAgree, HandlerAgrees
      <3>3. <<claim[w].job, claim[w].attempts>> \in Analyses
        BY <1>0, <3>1, <3>2, BusyType DEF TypeOK, Claimed, Analyses
      <3>4. rec' = Analysed(claim[w].job, <<claim[w].job, claim[w].attempts>>)
        BY <1>3, <2>1 DEF SaveAnalysis
      <3>5. rec'.stage = "rewriting"
        BY <3>1, <3>2, <3>3, <3>4, AnalysedColumns
      <3>6. QED
        BY <3>1, <3>2, <3>5, Ranks DEF NoRegress
    <2>2. CASE ~Current(w)
      BY <1>3, <2>2, SameStage DEF SaveAnalysis
    <2>3. QED
      BY <2>1, <2>2
  <1>4. CASE CompleteRecording(w)
    <2>1. CASE Current(w)
      <3>1. rec'.stage = "none" /\ rec.status = "processing"
        BY <1>0, <1>4, <2>1 DEF CompleteRecording, Current, Recording
      <3>2. rec.stage \in {"transcribing", "suggestions", "rewriting", "none"}
        BY <1>0, <2>1 DEF Current, Recording, Stages
      <3>3. QED
        BY <3>1, <3>2, Ranks DEF NoRegress
    <2>2. CASE ~Current(w)
      BY <1>4, <2>2, SameStage DEF CompleteRecording
    <2>3. QED
      BY <2>1, <2>2
  <1>5. CASE SaveStrengths(w)
    <2>1. rec'.stage = rec.stage /\ rec'.status = rec.status
      BY <1>0, <1>5 DEF SaveStrengths, CurrentStrengths, Recording
    <2>2. QED
      BY <2>1, SameStage
  <1>6. QED
    BY <1>1, <1>2, <1>3, <1>4, <1>5 DEF Handle

LEMMA FailureAdvances ==
  ASSUME RecordingInv, NEW w \in Workers, FailJob(w)
  PROVE  NoRegress
  <1>0. Exists => rec \in Recording
    BY DEF RecordingInv, TypeOK, Exists
  <1>1. \/ rec' = rec
        \/ Current(w) /\ rec' = [rec EXCEPT !.status = "failed"]
        \/ CurrentStrengths(w) /\ rec' = [rec EXCEPT !.strengthsStatus = "failed"]
    BY KindsApart DEF FailJob, FinalizedFailure
  <1>2. Exists => rec'.stage = rec.stage /\ (rec.status = "ready" => rec'.status = "ready")
    BY <1>0, <1>1 DEF Current, Recording
  <1>3. QED
    BY <1>2, SameStage

LEMMA RequestAdvances ==
  ASSUME RecordingInv, Request
  PROVE  NoRegress
  <1>1. CASE \E p \in ProcessJobs : Retry(p) \/ Reanalyze(p)
    BY <1>1, RetryKeeps, ReanalyzeKeeps DEF NoRegress
  <1>2. CASE \E s \in StrengthsJobs : RetryStrengths(s)
    <2>1. Exists => rec \in Recording
      BY DEF RecordingInv, TypeOK, Exists
    <2>2. rec'.stage = rec.stage /\ rec'.status = rec.status
      BY <1>2, <2>1 DEF RetryStrengths, Recording
    <2>3. QED
      BY <2>2, SameStage
  <1>3. CASE Delete \/ \E p \in ProcessJobs, stage \in {"transcribing", "suggestions"} : Create(p, stage)
    BY <1>3 DEF NoRegress, Delete, Create, Exists
  <1>4. QED
    BY <1>1, <1>2, <1>3 DEF Request

(* No handler, however late, takes back a stage or a result of the job that  *)
(* is processing the recording; only a retry or a reanalysis, under a new    *)
(* job, starts again.                                                       *)
THEOREM StagesAdvance == RecordingSpec => StageNeverRegresses
  <1>1. ASSUME RecordingInv, [RecordingNext]_vars
        PROVE  NoRegress
    <2>1. CASE rec' = rec
      BY <1>1, <2>1, SameStage
    <2>2. CASE Request
      BY <1>1, <2>2, RequestAdvances
    <2>3. ASSUME NEW w \in Workers, RecordingConsume(w), rec' # rec
          PROVE  NoRegress
      BY <1>1, <2>3, HandleAdvances, FailureAdvances
         DEF RecordingConsume, StartJob, LoseJob, QueueOnly
    <2>4. ASSUME NEW j \in Jobs, Maintenance(j)
          PROVE  rec' = rec
      BY <2>4 DEF Maintenance, QueueOnly
    <2>5. QED
      BY <1>1, <2>1, <2>2, <2>3, <2>4 DEF RecordingNext, vars
  <1>2. RecordingInv /\ [RecordingNext]_vars => [NoRegress]_vars
    BY <1>1
  <1>3. QED
    BY <1>2, RecordingIsInvariant, PTL DEF RecordingSpec, StageNeverRegresses, NoRegress

-----------------------------------------------------------------------------
(* The queue below *)

LEMMA RowsTransact ==
  ASSUME NEW S, NEW T, row' = Rows(S, T), claim' = claim
  PROVE  Transaction
  BY DEF Rows, Transaction, Submitted, Withdrawn, Enqueued

LEMMA CompletionUsesQueue ==
  ASSUME NEW w \in Workers, CompleteRecording(w)
  PROVE  UserStep
  <1>1. claim' = claim
    BY DEF CompleteRecording
  <1>2. CASE Current(w)
    <2>1. PICK d \in ShadowJobs :
            /\ Unused(d)
            /\ rec' = [rec EXCEPT !.status = "ready", !.stage = "none",
                                  !.corrected = work[w].suggestions,
                                  !.shadowing = "processing", !.attempt = d]
            /\ row' = Rows({}, {d})
      BY <1>2 DEF CompleteRecording
    <2>2. QED
      BY <1>1, <2>1, RowsTransact DEF UserStep
  <1>3. CASE ~Current(w)
    BY <1>3 DEF CompleteRecording, queueVars, UserStep
  <1>4. QED
    BY <1>2, <1>3

\* Whatever a recording does to its jobs is an operation of the queue or a
\* transaction that cancels and enqueues.
LEMMA RecordingUsesQueue ==
  ASSUME [RecordingNext]_vars
  PROVE  UserStep
  <1>1. ASSUME NEW w \in Workers, RecordingConsume(w)
        PROVE  UserStep
    <2>1. CASE ReturnNil(w) \/ ReturnError(w)
      BY <2>1 DEF ReturnNil, ReturnError, UserStep, Next, Consume
    <2>2. CASE LoadProcessingWork(w) \/ VerifyDuration(w) \/ SaveTranscript(w)
               \/ LoadStrengthsWork(w) \/ SaveStrengths(w)
      <3>1. UNCHANGED queueVars
        BY <2>2 DEF LoadProcessingWork, VerifyDuration, SaveTranscript,
                    LoadStrengthsWork, SaveStrengths, queueVars
      <3>2. QED
        BY <3>1 DEF UserStep
    <2>3. CASE SaveAnalysis(w)
      <3>1. \/ UNCHANGED queueVars
            \/ /\ row' = Rows({}, IF rec.pipeline = "legacy"
                                   THEN {StrengthsOf[claim[w].job]} ELSE {})
               /\ claim' = claim
        BY <2>3 DEF SaveAnalysis, queueVars
      <3>2. QED
        BY <3>1, RowsTransact DEF UserStep
    <2>4. CASE CompleteRecording(w)
      BY <2>4, CompletionUsesQueue
    <2>5. CASE \/ \E j \in Jobs : StartJob(w, j)
               \/ QueueOnly(Heartbeat(w)) \/ QueueOnly(CancelContext(w))
               \/ QueueOnly(Complete(w)) \/ FailJob(w) \/ LoseJob(w)
      BY <2>5 DEF StartJob, QueueOnly, FailJob, LoseJob, UserStep, Next, Consume
    <2>6. QED
      BY <1>1, <2>1, <2>2, <2>3, <2>4, <2>5 DEF RecordingConsume, Handle
  <1>2. CASE Request
    <2>1. ASSUME NEW p \in ProcessJobs, NEW stage \in {"transcribing", "suggestions"},
                 Create(p, stage)
          PROVE  Transaction
      <3>1. row' = Rows({}, {p}) /\ claim' = claim
        BY <2>1 DEF Create
      <3>2. QED
        BY <3>1, RowsTransact
    <2>2. ASSUME NEW p \in ProcessJobs, Retry(p) \/ Reanalyze(p)
          PROVE  Transaction
      <3>1. CASE Retry(p)
        BY <3>1, RowsTransact DEF Retry
      <3>2. CASE Reanalyze(p)
        BY <3>2, RowsTransact DEF Reanalyze
      <3>3. QED
        BY <2>2, <3>1, <3>2
    <2>3. ASSUME NEW s \in StrengthsJobs, RetryStrengths(s)
          PROVE  Transaction
      BY <2>3, RowsTransact DEF RetryStrengths
    <2>4. CASE Delete
      BY <2>4, RowsTransact DEF Delete, UserStep
    <2>5. QED
      <3>1. Request => Delete \/ UserStep
        BY <2>1, <2>2, <2>3 DEF Request, UserStep
      <3>2. QED
        BY <1>2, <2>4, <3>1 DEF UserStep
  <1>3. ASSUME NEW j \in Jobs, Maintenance(j)
        PROVE  UserStep
    BY <1>3 DEF Maintenance, QueueOnly, UserStep, Next, Elsewhere
  <1>4. CASE UNCHANGED vars
    BY <1>4 DEF vars, queueVars, UserStep
  <1>5. QED
    BY <1>1, <1>2, <1>3, <1>4 DEF RecordingNext

LEMMA RecordingQueueStarts == Init => QueueInv
  <1> SUFFICES ASSUME Init
               PROVE  QueueInv
    OBVIOUS
  <1>1. QueueTypeOK /\ TokensDiffer
    BY RecordingInit DEF RecordingInv, TypeOK
  <1>2. ASSUME NEW j \in Jobs PROVE row[j].attempts = 0
    <2>1. [Absent EXCEPT !.state = "queued", !.due = TRUE].attempts = 0 /\ Absent.attempts = 0
      BY DEF Absent
    <2>2. row[j] \in {Absent, [Absent EXCEPT !.state = "queued", !.due = TRUE]}
      BY DEF Init
    <2>3. QED
      BY <2>1, <2>2
  <1>3. \A w \in Workers : ~Busy(w)
    BY DEF Init, Busy, Idle
  <1>4. WithinBudget /\ WaitingIsClaimable /\ HolderKnowsAttempt
    BY <1>2, <1>3, QueueAssumption
       DEF WithinBudget, WaitingIsClaimable, HolderKnowsAttempt, Holds
  <1>5. QED
    BY <1>1, <1>4 DEF QueueInv

(* The requests and handlers of a recording, which write several jobs in one *)
(* transaction with its row, leave the leases and attempts of the queue      *)
(* sound, as if every job were enqueued and cancelled by itself.             *)
THEOREM RecordingQueueIsSound == RecordingSpec => []QueueInv
  <1>1. QueueInv /\ [RecordingNext]_vars => QueueInv'
    BY RecordingUsesQueue, UserKeeps
  <1>2. QED
    BY <1>1, RecordingQueueStarts, PTL DEF RecordingSpec

(* No job of a recording loses an unexpired lease to another consumer.       *)
THEOREM RecordingLeaseKept == RecordingSpec => LiveLeaseIsKept
  <1>1. QueueInv /\ [RecordingNext]_vars =>
          [\A j \in Jobs :
             row[j].state = "running" /\ row[j].live /\ row'[j].state = "running"
               => row'[j].token = row[j].token]_queueVars
    BY RecordingUsesQueue, UserKeeps
  <1>2. QED
    BY <1>1, RecordingQueueIsSound, PTL DEF RecordingSpec, LiveLeaseIsKept

(* Only the consumer that has the lease ends or parks a job of a recording.  *)
THEOREM RecordingReportsAreFenced == RecordingSpec => OnlyHolderReports
  <1>1. QueueInv /\ [RecordingNext]_vars =>
          [\A j \in Jobs :
             /\ row[j].state = "running"
             /\ row'[j].state \in {"succeeded", "failed", "retry_wait"}
             => \E w \in Workers : Holds(w, j) /\ claim'[w] = Idle]_queueVars
    BY RecordingUsesQueue, UserKeeps
  <1>2. QED
    BY <1>1, RecordingQueueIsSound, PTL DEF RecordingSpec, OnlyHolderReports

(* Each job of a recording is delivered, settled and forgotten as JobContract *)
(* says, although requests take several jobs at once.                         *)
THEOREM RecordingKeepsContract == RecordingSpec => EachJobKeepsContract
  <1>1. QueueInv /\ [RecordingNext]_vars => [\A j \in Jobs : ContractMove(j)]_queueVars
    BY RecordingUsesQueue, UserKeeps
  <1>2. QED
    BY <1>1, RecordingQueueIsSound, PTL DEF RecordingSpec, EachJobKeepsContract
=============================================================================
