--------------------------- MODULE WorkQueueProofs ---------------------------
(***************************************************************************)
(* Theorems of the job queue, for every set of jobs, consumers and tokens  *)
(* and every attempt budget.                                               *)
(***************************************************************************)
EXTENDS WorkQueue, TLAPS

-----------------------------------------------------------------------------
(* Type correctness *)

LEMMA EnqueuedType ==
  ASSUME NEW j \in Jobs, QueueTypeOK
  PROVE  Enqueued(j) \in Row
  BY DEF QueueTypeOK, Enqueued, Row, Absent, Active, Waiting, Terminal

LEMMA ReleasedType ==
  ASSUME NEW r \in Row, NEW state \in Active \cup Terminal
  PROVE  Released(r, state) \in Row
  BY DEF Released, Row

LEMMA BusyType ==
  ASSUME QueueTypeOK, NEW w \in Workers, Busy(w)
  PROVE  claim[w] \in Claimed
  BY DEF QueueTypeOK, Busy, Idle

LEMMA FailedRowType ==
  ASSUME NEW w \in Workers, NEW r \in Row
  PROVE  FailedRow(w, r) \in Row
  <1>1. Released(r, "failed") \in Row
    BY ReleasedType DEF Terminal
  <1>2. Released(r, "retry_wait") \in Row
    BY ReleasedType DEF Active, Waiting
  <1>3. [Released(r, "retry_wait") EXCEPT !.due = FALSE] \in Row
    BY <1>2 DEF Row
  <1>4. QED
    BY <1>1, <1>3 DEF FailedRow

LEMMA DeliveryType ==
  ASSUME QueueTypeOK, NEW j \in Jobs, NEW t \in Tokens
  PROVE  Delivery(j, t) \in Claimed
  BY DEF QueueTypeOK, Delivery, Claimed, Row

LEMMA TakenType ==
  ASSUME QueueTypeOK, NEW j \in Jobs, NEW t \in Tokens
  PROVE  Taken(j, t) \in Row
  BY DEF QueueTypeOK, Taken, Row, Active

LEMMA ConsumeType ==
  ASSUME QueueTypeOK, NEW w \in Workers, Consume(w)
  PROVE  QueueTypeOK'
  <1>1. ASSUME NEW j \in Jobs, Claim(w, j)
        PROVE  QueueTypeOK'
    <2>1. PICK t \in Fresh(j) :
            /\ row' = [row EXCEPT ![j] = Taken(j, t)]
            /\ claim' = [claim EXCEPT ![w] = Delivery(j, t)]
      BY <1>1 DEF Claim
    <2>2. t \in Tokens
      BY DEF Fresh
    <2>3. row' \in [Jobs -> Row]
      BY <2>1, <2>2, TakenType DEF QueueTypeOK
    <2>4. claim' \in [Workers -> Claimed \cup {Idle}]
      BY <2>1, <2>2, DeliveryType DEF QueueTypeOK
    <2>5. QED
      BY <2>3, <2>4 DEF QueueTypeOK
  <1>2. ASSUME Busy(w), claim[w].job \in Jobs
        PROVE  /\ Heartbeat(w) => QueueTypeOK'
               /\ CancelContext(w) => QueueTypeOK'
               /\ (\E outcome \in {"ok", "err"} : HandlerReturns(w, outcome))
                    => QueueTypeOK'
    <2>1. claim[w] \in Claimed
      BY <1>2, BusyType
    <2>2. [claim[w] EXCEPT !.ctx = FALSE] \in Claimed
      BY <2>1 DEF Claimed
    <2>3. \A outcome \in {"ok", "err"} :
            [claim[w] EXCEPT !.phase = outcome, !.ctx = FALSE] \in Claimed
      BY <2>1 DEF Claimed
    <2>4. Heartbeat(w) => QueueTypeOK'
      <3>1. row[claim[w].job] \in Row
        BY <1>2 DEF QueueTypeOK
      <3>2. [row[claim[w].job] EXCEPT !.live = TRUE] \in Row
        BY <3>1 DEF Row
      <3>3. QED
        BY <1>2, <2>2, <3>2 DEF Heartbeat, QueueTypeOK
    <2>5. CancelContext(w) => QueueTypeOK'
      BY <2>2 DEF CancelContext, QueueTypeOK
    <2>6. (\E outcome \in {"ok", "err"} : HandlerReturns(w, outcome)) => QueueTypeOK'
      BY <2>3 DEF HandlerReturns, QueueTypeOK
    <2>7. QED
      BY <2>4, <2>5, <2>6
  <1>3. ASSUME Busy(w), claim[w].job \in Jobs
        PROVE  Complete(w) \/ Fail(w) \/ Vanish(w) => QueueTypeOK'
    <2> DEFINE r == row[claim[w].job]
    <2>1. r \in Row
      BY <1>3 DEF QueueTypeOK
    <2>2. Released(r, "succeeded") \in Row
      BY <2>1, ReleasedType DEF Terminal
    <2>3. FailedRow(w, r) \in Row
      BY <2>1, FailedRowType
    <2>4. Complete(w) => QueueTypeOK'
      BY <2>2 DEF Complete, QueueTypeOK
    <2>5. Fail(w) => QueueTypeOK'
      BY <2>3 DEF Fail, QueueTypeOK
    <2>6. Vanish(w) => QueueTypeOK'
      BY DEF Vanish, QueueTypeOK
    <2>7. QED
      BY <2>4, <2>5, <2>6
  <1>4. (\E j \in Jobs : Claim(w, j)) \/ (Busy(w) /\ claim[w].job \in Jobs)
    <2>1. Busy(w) => claim[w].job \in Jobs
      BY BusyType DEF Claimed
    <2>2. QED
      BY <2>1 DEF Consume, Busy, Heartbeat, CancelContext, HandlerReturns,
                  Complete, Fail, Vanish
  <1>5. QED
    BY <1>1, <1>2, <1>3, <1>4 DEF Consume

LEMMA ElsewhereType ==
  ASSUME QueueTypeOK, NEW j \in Jobs, Elsewhere(j)
  PROVE  QueueTypeOK'
  <1>1. row[j] \in Row
    BY DEF QueueTypeOK
  <1>2. CASE Enqueue(j)
    BY <1>2, EnqueuedType DEF Enqueue, QueueTypeOK
  <1>3. CASE Cancel(j)
    <2>1. Released(row[j], "cancelled") \in Row
      BY <1>1, ReleasedType DEF Terminal
    <2>2. QED
      BY <1>3, <2>1 DEF Cancel, QueueTypeOK
  <1>4. CASE PruneTerminal(j)
    <2>1. Absent \in Row
      BY DEF Absent, Row
    <2>2. QED
      BY <1>4, <2>1 DEF PruneTerminal, QueueTypeOK
  <1>5. CASE LeaseExpires(j)
    <2>1. [row[j] EXCEPT !.live = FALSE] \in Row
      BY <1>1 DEF Row
    <2>2. QED
      BY <1>5, <2>1 DEF LeaseExpires, QueueTypeOK
  <1>6. CASE BackoffElapses(j)
    <2>1. [row[j] EXCEPT !.due = TRUE] \in Row
      BY <1>1 DEF Row
    <2>2. QED
      BY <1>6, <2>1 DEF BackoffElapses, QueueTypeOK
  <1>7. QED
    BY <1>2, <1>3, <1>4, <1>5, <1>6 DEF Elsewhere

LEMMA InitType == QueueInit => QueueTypeOK
  BY DEF QueueInit, QueueTypeOK, Absent, Row, Idle

LEMMA NextType == QueueTypeOK /\ [Next]_queueVars => QueueTypeOK'
  <1> SUFFICES ASSUME QueueTypeOK, [Next]_queueVars
               PROVE  QueueTypeOK'
    OBVIOUS
  <1>1. CASE UNCHANGED queueVars
    BY <1>1 DEF queueVars, QueueTypeOK
  <1>2. CASE Next
    BY <1>2, ConsumeType, ElsewhereType DEF Next
  <1>3. QED
    BY <1>1, <1>2

(* Every row and every claim keep the shape that table processing_jobs and  *)
(* type Job declare, through every claim, report, crash and expiry.         *)
THEOREM TypeCorrect == Spec => []QueueTypeOK
  BY InitType, NextType, PTL DEF Spec

-----------------------------------------------------------------------------
(* What a step does to one consumer and to one row *)

Claims == \E w \in Workers, j \in Jobs : Claim(w, j)

SameClaim(w) == claim'[w] = claim[w]

LEMMA ClaimEffect ==
  ASSUME QueueTypeOK, NEW w \in Workers, NEW j \in Jobs, Claim(w, j)
  PROVE  \E t \in Fresh(j) :
           /\ row'[j] = Taken(j, t)
           /\ \A k \in Jobs \ {j} : row'[k] = row[k]
           /\ claim'[w] = Delivery(j, t)
           /\ \A v \in Workers \ {w} : SameClaim(v)
  BY DEF Claim, QueueTypeOK, SameClaim

\* A step after which nobody is busy who was not claims nothing.
LEMMA NobodyStarts ==
  ASSUME QueueTypeOK, \A v \in Workers : Busy(v)' => Busy(v)
  PROVE  ~Claims
  <1>1. ASSUME NEW v \in Workers, NEW j \in Jobs, Claim(v, j)
        PROVE  Busy(v)'
    <2>1. PICK t \in Fresh(j) : claim'[v] = Delivery(j, t)
      BY <1>1, ClaimEffect
    <2>2. QED
      BY <2>1 DEF Busy, Delivery
  <1>2. QED
    BY <1>1 DEF Claims, Claim

\* A consumer that is busy after a step that claims nothing was already busy
\* with the same delivery.
LEMMA DeliveryKept ==
  ASSUME QueueTypeOK, [Next]_queueVars, ~Claims, NEW w \in Workers, Busy(w)'
  PROVE  /\ Busy(w)
         /\ claim'[w].job = claim[w].job
         /\ claim'[w].token = claim[w].token
         /\ claim'[w].attempts = claim[w].attempts
  <1>1. CASE UNCHANGED queueVars
    BY <1>1 DEF queueVars, Busy
  <1>2. ASSUME NEW v \in Workers, Consume(v)
        PROVE  /\ Busy(w)
               /\ claim'[w].job = claim[w].job
               /\ claim'[w].token = claim[w].token
               /\ claim'[w].attempts = claim[w].attempts
    <2>1. claim \in [Workers -> Claimed \cup {Idle}]
      BY DEF QueueTypeOK
    <2>2. CASE v # w
      BY <1>2, <2>1, <2>2 DEF Claims, Consume, Heartbeat, CancelContext,
           HandlerReturns, Complete, Fail, Vanish, Busy
    <2>3. CASE v = w
      <3>1. CASE Heartbeat(w) \/ CancelContext(w)
        BY <2>1, <3>1 DEF Heartbeat, CancelContext, Busy, Claimed, Idle
      <3>2. CASE \E outcome \in {"ok", "err"} : HandlerReturns(w, outcome)
        BY <2>1, <3>2 DEF HandlerReturns, Busy, Claimed, Idle
      <3>3. CASE Complete(w) \/ Fail(w) \/ Vanish(w)
        BY <2>1, <3>3 DEF Complete, Fail, Vanish, Busy, Idle
      <3>4. QED
        BY <1>2, <2>3, <3>1, <3>2, <3>3 DEF Consume, Claims
    <2>4. QED
      BY <2>2, <2>3
  <1>3. ASSUME NEW j \in Jobs, Elsewhere(j)
        PROVE  claim' = claim
    BY <1>3 DEF Elsewhere, Enqueue, Cancel, PruneTerminal, LeaseExpires, BackoffElapses
  <1>4. QED
    BY <1>1, <1>2, <1>3 DEF Next, Busy

SameJob(j) ==
  /\ row'[j].state = row[j].state
  /\ row'[j].attempts = row[j].attempts
  /\ row'[j].token = row[j].token

Failed(j) ==
  \E w \in Workers :
    /\ Fail(w) /\ Fenced(w)
    /\ claim[w].job = j
    /\ row'[j] = FailedRow(w, row[j])

Completed(j) ==
  \E w \in Workers :
    /\ Complete(w) /\ Fenced(w)
    /\ claim[w].job = j
    /\ row'[j] = Released(row[j], "succeeded")

Withdrawn(j) ==
  /\ row[j].state \in Active
  /\ row'[j] = Released(row[j], "cancelled")

Pruned(j) == row[j].state \in Terminal /\ row'[j] = Absent

Submitted(j) == row[j].state = "absent" /\ row'[j] = Enqueued(j)

Retired(j) == Completed(j) \/ Failed(j) \/ Withdrawn(j) \/ Pruned(j)

\* A step that claims nothing leaves the lease of a job as it is, enqueues it,
\* ends it, or is the report of the consumer that holds it.
LEMMA RowStep ==
  ASSUME QueueTypeOK, [Next]_queueVars, ~Claims, NEW j \in Jobs
  PROVE  SameJob(j) \/ Submitted(j) \/ Retired(j)
  <1> USE DEF SameJob
  <1>0. /\ row \in [Jobs -> Row]
        /\ row[j] \in Row
    BY DEF QueueTypeOK
  <1>1. CASE UNCHANGED queueVars
    BY <1>1 DEF queueVars
  <1>2. ASSUME NEW w \in Workers, Consume(w)
        PROVE  SameJob(j) \/ Retired(j)
    <2>1. CASE Heartbeat(w)
      BY <1>0, <2>1 DEF Heartbeat, Row
    <2>2. CASE CancelContext(w) \/ Vanish(w)
      BY <2>2 DEF CancelContext, Vanish
    <2>3. CASE \E outcome \in {"ok", "err"} : HandlerReturns(w, outcome)
      BY <2>3 DEF HandlerReturns
    <2>4. CASE Complete(w)
      <3>1. SameJob(j) \/ Completed(j)
        BY <1>0, <2>4 DEF Complete, Completed
      <3>2. QED
        BY <3>1 DEF Retired
    <2>5. CASE Fail(w)
      <3>1. SameJob(j) \/ Failed(j)
        BY <1>0, <2>5 DEF Fail, Failed
      <3>2. QED
        BY <3>1 DEF Retired
    <2>6. QED
      BY <1>2, <2>1, <2>2, <2>3, <2>4, <2>5 DEF Consume, Claims
  <1>3. ASSUME NEW k \in Jobs, Elsewhere(k)
        PROVE  SameJob(j) \/ Submitted(j) \/ Retired(j)
    <2>1. CASE Enqueue(k)
      BY <1>0, <2>1 DEF Enqueue, Enqueued, Submitted
    <2>2. CASE Cancel(k)
      <3>1. SameJob(j) \/ Withdrawn(j)
        BY <1>0, <2>2 DEF Cancel, Withdrawn
      <3>2. QED
        BY <3>1 DEF Retired
    <2>3. CASE PruneTerminal(k)
      <3>1. SameJob(j) \/ Pruned(j)
        BY <1>0, <2>3 DEF PruneTerminal, Pruned
      <3>2. QED
        BY <3>1 DEF Retired
    <2>4. CASE LeaseExpires(k)
      BY <1>0, <2>4 DEF LeaseExpires, Row
    <2>5. CASE BackoffElapses(k)
      BY <1>0, <2>5 DEF BackoffElapses, Row
    <2>6. QED
      BY <1>3, <2>1, <2>2, <2>3, <2>4, <2>5 DEF Elsewhere
  <1>4. QED
    BY <1>1, <1>2, <1>3 DEF Next

\* What the record operators put into the columns.
LEMMA RowColumns ==
  ASSUME NEW r \in Row, NEW state \in Active \cup Terminal, NEW w \in Workers
  PROVE  /\ Released(r, state).state = state
         /\ Released(r, state).attempts = r.attempts
         /\ FailedRow(w, r).attempts = r.attempts
         /\ FailedRow(w, r).state =
              IF IsLastAttempt(w) THEN "failed" ELSE "retry_wait"
  BY DEF Released, FailedRow, Row

LEMMA RetiredColumns ==
  ASSUME QueueTypeOK, NEW j \in Jobs, Retired(j)
  PROVE  /\ row'[j].state \in Terminal \cup {"absent", "retry_wait"}
         /\ row'[j].attempts \in {row[j].attempts, 0}
  <1>1. row[j] \in Row
    BY DEF QueueTypeOK
  <1>2. CASE Completed(j)
    BY <1>1, <1>2, RowColumns DEF Completed, Terminal
  <1>3. CASE Failed(j)
    BY <1>1, <1>3, RowColumns DEF Failed, Terminal
  <1>4. CASE Withdrawn(j)
    <2>1. "cancelled" \in Active \cup Terminal
      BY DEF Terminal
    <2>2. Released(row[j], "cancelled").state = "cancelled"
      BY <1>1 DEF Released, Row
    <2>3. Released(row[j], "cancelled").attempts = row[j].attempts
      BY <1>1 DEF Released, Row
    <2>4. QED
      BY <1>4, <2>2, <2>3 DEF Withdrawn, Terminal
  <1>5. CASE Pruned(j)
    BY <1>5 DEF Pruned, Absent
  <1>6. QED
    BY <1>2, <1>3, <1>4, <1>5 DEF Retired

LEMMA AttemptsStep ==
  ASSUME QueueTypeOK, [Next]_queueVars, ~Claims, NEW j \in Jobs
  PROVE  row'[j].attempts \in {row[j].attempts, 0}
  <1>1. Submitted(j) => row'[j].attempts = 0
    BY DEF Submitted, Enqueued, Absent
  <1>2. QED
    BY <1>1, RowStep, RetiredColumns DEF SameJob

-----------------------------------------------------------------------------
(* The inductive invariant *)

LEMMA TokensDifferStep ==
  ASSUME QueueTypeOK, TokensDiffer, [Next]_queueVars
  PROVE  TokensDiffer'
  <1>1. CASE ~Claims
    BY <1>1, DeliveryKept DEF TokensDiffer
  <1>2. ASSUME NEW u \in Workers, NEW j \in Jobs, Claim(u, j)
        PROVE  TokensDiffer'
    <2>1. PICK t \in Fresh(j) :
            /\ claim'[u] = Delivery(j, t)
            /\ \A v \in Workers \ {u} : SameClaim(v)
      BY <1>2, ClaimEffect
    <2>2. claim'[u].job = j /\ claim'[u].token = t
      BY <2>1 DEF Delivery
    <2>3. \A v \in Workers \ {u} :
            Busy(v)' /\ claim'[v].job = j => claim'[v].token # t
      BY <2>1 DEF SameClaim, Busy, Fresh
    <2>4. SUFFICES ASSUME NEW v \in Workers, NEW w \in Workers, v # w,
                          Busy(v)', Busy(w)', claim'[v].job = claim'[w].job
                   PROVE  claim'[v].token # claim'[w].token
      BY DEF TokensDiffer
    <2>5. CASE v = u
      BY <2>2, <2>3, <2>4, <2>5
    <2>6. CASE w = u
      BY <2>2, <2>3, <2>4, <2>6
    <2>7. CASE v # u /\ w # u
      BY <2>1, <2>4, <2>7 DEF SameClaim, Busy, TokensDiffer
    <2>8. QED
      BY <2>5, <2>6, <2>7
  <1>3. QED
    BY <1>1, <1>2 DEF Claims

\* A job that runs after a step that claims nothing runs under the same lease.
LEMMA RunningKept ==
  ASSUME QueueTypeOK, [Next]_queueVars, ~Claims, NEW j \in Jobs,
         row'[j].state = "running"
  PROVE  SameJob(j)
  <1>1. ~Submitted(j)
    BY DEF Submitted, Enqueued, Absent
  <1>2. ~Retired(j)
    BY RetiredColumns DEF Terminal
  <1>3. QED
    BY <1>1, <1>2, RowStep

LEMMA HolderKnowsAttemptStep ==
  ASSUME QueueTypeOK, HolderKnowsAttempt, [Next]_queueVars
  PROVE  HolderKnowsAttempt'
  <1> SUFFICES ASSUME NEW w \in Workers, NEW j \in Jobs, Holds(w, j)'
               PROVE  claim'[w].attempts = row'[j].attempts
    BY DEF HolderKnowsAttempt
  <1>0. /\ Busy(w)' /\ claim'[w].job = j
        /\ row'[j].state = "running"
        /\ row'[j].token = claim'[w].token
    BY DEF Holds
  <1>1. CASE ~Claims
    BY <1>0, <1>1, DeliveryKept, RunningKept DEF SameJob, Holds, HolderKnowsAttempt
  <1>2. ASSUME NEW v \in Workers, NEW k \in Jobs, Claim(v, k)
        PROVE  claim'[w].attempts = row'[j].attempts
    <2>1. PICK t \in Fresh(k) :
            /\ row'[k] = Taken(k, t)
            /\ \A i \in Jobs \ {k} : row'[i] = row[i]
            /\ claim'[v] = Delivery(k, t)
            /\ \A u \in Workers \ {v} : SameClaim(u)
      BY <1>2, ClaimEffect
    <2>2. CASE w = v
      BY <1>0, <2>1, <2>2 DEF Delivery, Taken
    <2>3. CASE w # v /\ j # k
      BY <1>0, <2>1, <2>3 DEF SameClaim, Busy, Holds, HolderKnowsAttempt
    <2>4. CASE w # v /\ j = k
      BY <1>0, <2>1, <2>4 DEF SameClaim, Busy, Taken, Fresh
    <2>5. QED
      BY <2>2, <2>3, <2>4
  <1>3. QED
    BY <1>1, <1>2 DEF Claims

LEMMA WaitingIsNotEnded ==
  ASSUME QueueTypeOK, NEW j \in Jobs, row'[j].state \in Waiting
  PROVE  ~(Completed(j) \/ Withdrawn(j) \/ Pruned(j))
  <1>1. row[j] \in Row
    BY DEF QueueTypeOK
  <1>2. ~Completed(j)
    BY <1>1 DEF Completed, Released, Row, Waiting
  <1>3. ~Withdrawn(j)
    BY <1>1 DEF Withdrawn, Released, Row, Waiting
  <1>4. ~Pruned(j)
    BY DEF Pruned, Absent, Waiting
  <1>5. QED
    BY <1>2, <1>3, <1>4

LEMMA WaitingIsClaimableStep ==
  ASSUME QueueTypeOK, HolderKnowsAttempt, WaitingIsClaimable, [Next]_queueVars
  PROVE  WaitingIsClaimable'
  <1> SUFFICES ASSUME NEW j \in Jobs, row'[j].state \in Waiting
               PROVE  row'[j].attempts < MaxAttempts[j]
    BY DEF WaitingIsClaimable
  <1>0. row[j] \in Row
    BY DEF QueueTypeOK
  <1>1. CASE SameJob(j)
    BY <1>1 DEF SameJob, WaitingIsClaimable
  <1>2. CASE Submitted(j)
    BY <1>2, QueueAssumption DEF Submitted, Enqueued, Absent
  <1>3. ASSUME NEW w \in Workers, Fail(w), Fenced(w), claim[w].job = j,
               row'[j] = FailedRow(w, row[j])
        PROVE  row'[j].attempts < MaxAttempts[j]
    <2>1. ~IsLastAttempt(w)
      BY <1>0, <1>3 DEF FailedRow, Released, Waiting, Row
    <2>2. row'[j].attempts = row[j].attempts
      BY <1>0, <1>3, <2>1 DEF FailedRow, Released, Row
    <2>3. Holds(w, j)
      BY <1>3 DEF Fail, Busy, Holds, Fenced
    <2>4. claim[w].attempts = row[j].attempts
      BY <2>3 DEF HolderKnowsAttempt
    <2>5. row[j].attempts \in Nat /\ MaxAttempts[j] \in Nat
      BY <1>0, QueueAssumption DEF Row
    <2>6. QED
      BY <1>3, <2>1, <2>2, <2>4, <2>5 DEF IsLastAttempt
  <1>4. CASE ~Claims
    <2>1. CASE Retired(j)
      <3>1. Failed(j)
        BY <1>0, <2>1, WaitingIsNotEnded DEF Retired
      <3>2. QED
        BY <1>3, <3>1 DEF Failed
    <2>2. QED
      BY <1>1, <1>2, <1>4, <2>1, RowStep
  <1>5. ASSUME NEW v \in Workers, NEW k \in Jobs, Claim(v, k)
        PROVE  SameJob(j)
    <2>1. row'[k].state = "running"
      <3>1. PICK t \in Fresh(k) : row'[k] = Taken(k, t)
        BY <1>5, ClaimEffect
      <3>2. QED
        BY <3>1 DEF Taken
    <2>2. j # k
      BY <2>1 DEF Waiting
    <2>3. QED
      BY <1>5, <2>2, ClaimEffect DEF SameJob
  <1>6. QED
    BY <1>1, <1>4, <1>5 DEF Claims

LEMMA WithinBudgetStep ==
  ASSUME QueueTypeOK, WithinBudget, [Next]_queueVars
  PROVE  WithinBudget'
  <1> SUFFICES ASSUME NEW j \in Jobs
               PROVE  row'[j].attempts <= MaxAttempts[j]
    BY DEF WithinBudget
  <1>0. row[j] \in Row /\ row[j].attempts <= MaxAttempts[j] /\ MaxAttempts[j] \in Nat
    BY QueueAssumption DEF QueueTypeOK, WithinBudget
  <1>1. CASE ~Claims
    <2>1. row'[j].attempts \in {row[j].attempts, 0}
      BY <1>1, AttemptsStep
    <2>2. QED
      BY <1>0, <2>1
  <1>2. ASSUME NEW v \in Workers, NEW k \in Jobs, Claim(v, k)
        PROVE  row'[j].attempts <= MaxAttempts[j]
    <2>1. PICK t \in Fresh(k) :
            row'[k] = Taken(k, t) /\ \A i \in Jobs \ {k} : row'[i] = row[i]
      BY <1>2, ClaimEffect
    <2>2. CASE j = k
      <3>1. row[j].attempts < MaxAttempts[j]
        BY <1>2, <2>2 DEF Claim, Claimable
      <3>2. row'[j].attempts = row[j].attempts + 1
        BY <2>1, <2>2 DEF Taken
      <3>3. row[j].attempts \in Nat
        BY <1>0 DEF Row
      <3>4. QED
        BY <1>0, <3>1, <3>2, <3>3
    <2>3. CASE j # k
      BY <1>0, <2>1, <2>3
    <2>4. QED
      BY <2>2, <2>3
  <1>3. QED
    BY <1>1, <1>2 DEF Claims

LEMMA QueueInvInductive ==
  /\ QueueInit => QueueInv
  /\ QueueInv /\ [Next]_queueVars => QueueInv'
  <1>1. QueueInit => QueueInv
    BY InitType, QueueAssumption
       DEF QueueInit, QueueInv, TokensDiffer, WithinBudget, HolderKnowsAttempt,
           WaitingIsClaimable, Busy, Holds, Idle, Absent, Waiting
  <1>2. QueueInv /\ [Next]_queueVars => QueueInv'
    BY NextType, TokensDifferStep, WithinBudgetStep, HolderKnowsAttemptStep, WaitingIsClaimableStep
       DEF QueueInv
  <1>3. QED
    BY <1>1, <1>2

(* Through every interleaving of claims, expiries, late reports and crashes *)
(* the consumers of a job have different tokens, and the holder of the lease *)
(* and the row agree on the attempt.                                        *)
THEOREM QueueInvariant == Spec => []QueueInv
  BY QueueInvInductive, PTL DEF Spec

(* Claim rotates lease_token, so no two consumers ever pass the fence of     *)
(* Heartbeat, Complete and Fail for the same job.                           *)
THEOREM Exclusion == Spec => []ExclusiveHolder
  <1>1. QueueInv => ExclusiveHolder
    BY DEF QueueInv, TokensDiffer, ExclusiveHolder, Holds
  <1>2. QED
    BY <1>1, QueueInvariant, PTL

(* Fail never parks a job in retry_wait with its attempts used up, where     *)
(* Claim would pass over it for ever.                                       *)
THEOREM NothingWaitsInVain == Spec => []WaitingIsClaimable
  <1>1. QueueInv => WaitingIsClaimable
    BY DEF QueueInv
  <1>2. QED
    BY <1>1, QueueInvariant, PTL

-----------------------------------------------------------------------------
(* Steps *)

LEMMA LiveLeaseStep ==
  ASSUME QueueTypeOK, [Next]_queueVars, NEW j \in Jobs,
         row[j].state = "running", row[j].live, row'[j].state = "running"
  PROVE  row'[j].token = row[j].token
  <1>1. CASE ~Claims
    BY <1>1, RunningKept DEF SameJob
  <1>2. ASSUME NEW v \in Workers, NEW k \in Jobs, Claim(v, k)
        PROVE  row'[j] = row[j]
    <2>1. Claimable(k) => k # j
      BY DEF Claimable, Waiting
    <2>2. QED
      BY <1>2, <2>1, ClaimEffect DEF Claim
  <1>3. QED
    BY <1>1, <1>2 DEF Claims

(* A job is taken from a consumer only after its lease has expired.          *)
THEOREM LeaseKept == Spec => LiveLeaseIsKept
  <1>1. QueueTypeOK /\ [Next]_queueVars =>
          [\A j \in Jobs :
             row[j].state = "running" /\ row[j].live /\ row'[j].state = "running"
               => row'[j].token = row[j].token]_queueVars
    BY LiveLeaseStep
  <1>2. QED
    BY <1>1, TypeCorrect, PTL DEF Spec, LiveLeaseIsKept

LEMMA ReportStep ==
  ASSUME QueueTypeOK, [Next]_queueVars, NEW j \in Jobs, row[j].state = "running",
         row'[j].state \in {"succeeded", "failed", "retry_wait"}
  PROVE  \E w \in Workers : Holds(w, j) /\ claim'[w] = Idle
  <1>0. row[j] \in Row
    BY DEF QueueTypeOK
  <1>1. ASSUME NEW w \in Workers, Complete(w) \/ Fail(w), Fenced(w), claim[w].job = j
        PROVE  Holds(w, j) /\ claim'[w] = Idle
    BY <1>1 DEF Complete, Fail, QueueTypeOK, Fenced, Holds, Busy
  <1>2. ~Claims
    <2>1. ASSUME NEW v \in Workers, NEW k \in Jobs, Claim(v, k)
          PROVE  row'[j].state = "running"
      <3>1. PICK t \in Fresh(k) :
              row'[k] = Taken(k, t) /\ \A i \in Jobs \ {k} : row'[i] = row[i]
        BY <2>1, ClaimEffect
      <3>2. QED
        BY <3>1 DEF Taken
    <2>2. QED
      BY <2>1 DEF Claims
  <1>3. ~SameJob(j) /\ ~Submitted(j)
    BY DEF SameJob, Submitted
  <1>4. ~Withdrawn(j) /\ ~Pruned(j)
    BY <1>0 DEF Withdrawn, Released, Row, Pruned, Terminal
  <1>5. Completed(j) \/ Failed(j)
    BY <1>2, <1>3, <1>4, RowStep DEF Retired
  <1>6. QED
    BY <1>1, <1>5 DEF Completed, Failed

(* The outcome of a job is the report of the consumer that has its lease:    *)
(* a late report changes nothing.                                           *)
THEOREM ReportsAreFenced == Spec => OnlyHolderReports
  <1>1. QueueTypeOK /\ [Next]_queueVars =>
          [\A j \in Jobs :
             /\ row[j].state = "running"
             /\ row'[j].state \in {"succeeded", "failed", "retry_wait"}
             => \E w \in Workers : Holds(w, j) /\ claim'[w] = Idle]_queueVars
    BY ReportStep
  <1>2. QED
    BY <1>1, TypeCorrect, PTL DEF Spec, OnlyHolderReports

-----------------------------------------------------------------------------
(* The queue implements the contract *)

\* A step touches the row of at most one job.
LEMMA OneRowMoves ==
  ASSUME QueueTypeOK, [Next]_queueVars
  PROVE  row' = row \/ \E j \in Jobs : \A k \in Jobs \ {j} : row'[k] = row[k]
  <1>0. row \in [Jobs -> Row]
    BY DEF QueueTypeOK
  <1>1. CASE UNCHANGED queueVars
    BY <1>1 DEF queueVars
  <1>2. ASSUME NEW w \in Workers, Consume(w)
        PROVE  row' = row \/ \E j \in Jobs : \A k \in Jobs \ {j} : row'[k] = row[k]
    <2>1. CASE \E j \in Jobs : Claim(w, j)
      BY <2>1, ClaimEffect
    <2>2. CASE ~\E j \in Jobs : Claim(w, j)
      <3>1. Busy(w) => claim[w].job \in Jobs
        BY BusyType DEF Claimed
      <3>2. QED
        BY <1>0, <1>2, <2>2, <3>1
           DEF Consume, Heartbeat, CancelContext, HandlerReturns, Complete, Fail,
               Vanish, Busy
    <2>3. QED
      BY <2>1, <2>2
  <1>3. ASSUME NEW j \in Jobs, Elsewhere(j)
        PROVE  \A k \in Jobs \ {j} : row'[k] = row[k]
    BY <1>0, <1>3 DEF Elsewhere, Enqueue, Cancel, PruneTerminal, LeaseExpires,
                      BackoffElapses
  <1>4. QED
    BY <1>1, <1>2, <1>3 DEF Next

LEMMA StatusMoves ==
  ASSUME NEW j \in Jobs, \A k \in Jobs \ {j} : row'[k] = row[k]
  PROVE  /\ JobStatus' = [JobStatus EXCEPT ![j] = Status(row'[j])]
         /\ Deliveries' = [Deliveries EXCEPT ![j] = Spent(row'[j])]
  <1>1. JobStatus' = [k \in Jobs |-> Status(row'[k])]
    BY DEF JobStatus, Status
  <1>2. JobStatus' = [JobStatus EXCEPT ![j] = Status(row'[j])]
    BY <1>1 DEF JobStatus
  <1>3. Deliveries' = [k \in Jobs |-> Spent(row'[k])]
    BY DEF Deliveries, Spent
  <1>4. Deliveries' = [Deliveries EXCEPT ![j] = Spent(row'[j])]
    BY <1>3 DEF Deliveries
  <1>5. QED
    BY <1>2, <1>4

LEMMA StatusStays ==
  ASSUME NEW j \in Jobs
  PROVE  /\ JobStatus = [JobStatus EXCEPT ![j] = Status(row[j])]
         /\ Deliveries = [Deliveries EXCEPT ![j] = Spent(row[j])]
         /\ JobStatus[j] = Status(row[j])
         /\ Deliveries[j] = Spent(row[j])
  BY DEF JobStatus, Deliveries

\* The steps of the contract in terms of one row.
ContractMove(j) ==
  \/ /\ Status(row[j]) = "none" /\ Status(row'[j]) = "pending"
     /\ Spent(row'[j]) = Spent(row[j])
  \/ /\ Status(row[j]) = "pending" /\ Status(row'[j]) = "pending"
     /\ Spent(row[j]) < MaxAttempts[j]
     /\ Spent(row'[j]) = Spent(row[j]) + 1
  \/ /\ Status(row[j]) = "pending" /\ Status(row'[j]) = "succeeded"
     /\ Spent(row[j]) > 0
     /\ Spent(row'[j]) = Spent(row[j])
  \/ /\ Status(row[j]) = "pending" /\ Status(row'[j]) = "failed"
     /\ Spent(row[j]) = MaxAttempts[j]
     /\ Spent(row'[j]) = Spent(row[j])
  \/ /\ Status(row[j]) = "pending" /\ Status(row'[j]) = "cancelled"
     /\ Spent(row'[j]) = Spent(row[j])
  \/ /\ Status(row[j]) \in Terminal /\ Status(row'[j]) = "none"
     /\ Spent(row'[j]) = 0
  \/ /\ Status(row'[j]) = Status(row[j])
     /\ Spent(row'[j]) = Spent(row[j])

LEMMA MoveIsContractStep ==
  ASSUME NEW j \in Jobs, \A k \in Jobs \ {j} : row'[k] = row[k], ContractMove(j)
  PROVE  [Contract!Next]_(Contract!contractVars)
  <1>1. /\ JobStatus' = [JobStatus EXCEPT ![j] = Status(row'[j])]
        /\ Deliveries' = [Deliveries EXCEPT ![j] = Spent(row'[j])]
        /\ JobStatus = [JobStatus EXCEPT ![j] = Status(row[j])]
        /\ Deliveries = [Deliveries EXCEPT ![j] = Spent(row[j])]
        /\ JobStatus[j] = Status(row[j])
        /\ Deliveries[j] = Spent(row[j])
    BY StatusMoves, StatusStays
  <1>2. \/ Contract!Submit(j) \/ Contract!Deliver(j) \/ Contract!Succeed(j)
        \/ Contract!GiveUp(j) \/ Contract!Withdraw(j) \/ Contract!Forget(j)
        \/ JobStatus' = JobStatus /\ Deliveries' = Deliveries
    BY <1>1 DEF ContractMove, Contract!Submit, Contract!Deliver, Contract!Succeed,
         Contract!GiveUp, Contract!Withdraw, Contract!Forget, Contract!Move,
         Contract!Settled, Terminal
  <1>3. QED
    BY <1>2 DEF Contract!Next, Contract!contractVars

LEMMA ContractInit == QueueInit => Contract!Init
  BY DEF QueueInit, Contract!Init, JobStatus, Deliveries, Status, Spent, Absent,
         Active, Waiting

\* A report finds the row running, on the attempt its consumer remembers.
LEMMA ReportFinds ==
  ASSUME QueueInv, NEW w \in Workers, Busy(w), Fenced(w), NEW j \in Jobs,
         claim[w].job = j
  PROVE  /\ row[j].state = "running"
         /\ row[j].attempts = claim[w].attempts
         /\ claim[w].attempts \in Nat \ {0}
  <1>1. Holds(w, j)
    BY DEF Holds, Fenced
  <1>2. claim[w] \in Claimed
    BY BusyType DEF QueueInv
  <1>3. QED
    BY <1>1, <1>2 DEF QueueInv, HolderKnowsAttempt, Holds, Claimed

LEMMA RetiredMoves ==
  ASSUME QueueInv, NEW j \in Jobs, Retired(j)
  PROVE  ContractMove(j)
  <1> USE DEF Status, Spent
  <1>0. /\ row[j] \in Row
        /\ row[j].attempts <= MaxAttempts[j]
        /\ row[j].attempts \in Nat /\ MaxAttempts[j] \in Nat
    BY QueueAssumption DEF QueueInv, QueueTypeOK, WithinBudget, Row
  <1>1. CASE Completed(j)
    <2>1. PICK w \in Workers : Complete(w) /\ Fenced(w) /\ claim[w].job = j
      BY <1>1 DEF Completed
    <2>2. row[j].state = "running" /\ row[j].attempts > 0
      BY <1>0, <2>1, ReportFinds DEF Complete, Busy
    <2>3. row'[j].state = "succeeded" /\ row'[j].attempts = row[j].attempts
      BY <1>0, <1>1, RowColumns DEF Completed, Terminal
    <2>4. QED
      BY <2>2, <2>3 DEF ContractMove, Active, Waiting
  <1>2. CASE Failed(j)
    <2>1. PICK w \in Workers :
            /\ Fail(w) /\ Fenced(w) /\ claim[w].job = j
            /\ row'[j] = FailedRow(w, row[j])
      BY <1>2 DEF Failed
    <2>2. row[j].state = "running" /\ row[j].attempts = claim[w].attempts
      BY <2>1, ReportFinds DEF Fail, Busy
    <2>3. /\ row'[j].attempts = row[j].attempts
          /\ row'[j].state = IF IsLastAttempt(w) THEN "failed" ELSE "retry_wait"
      BY <1>0, <2>1, RowColumns DEF Terminal
    <2>4. IsLastAttempt(w) => row[j].attempts = MaxAttempts[j]
      BY <1>0, <2>1, <2>2 DEF IsLastAttempt
    <2>5. QED
      BY <2>2, <2>3, <2>4 DEF ContractMove, Active, Waiting
  <1>3. CASE Withdrawn(j)
    <2>1. row'[j].state = "cancelled" /\ row'[j].attempts = row[j].attempts
      BY <1>0, <1>3 DEF Withdrawn, Released, Row
    <2>2. row[j].state \in Active
      BY <1>3 DEF Withdrawn
    <2>3. QED
      BY <2>1, <2>2 DEF ContractMove, Active, Waiting
  <1>4. CASE Pruned(j)
    <2>1. row[j].state \in Terminal /\ row'[j].state = "absent"
      BY <1>4 DEF Pruned, Absent
    <2>2. QED
      BY <2>1 DEF ContractMove, Terminal, Active, Waiting
  <1>5. QED
    BY <1>1, <1>2, <1>3, <1>4 DEF Retired

\* Every step is, for each job, a move of the contract.
LEMMA JobMoves ==
  ASSUME QueueInv, [Next]_queueVars, NEW j \in Jobs
  PROVE  ContractMove(j)
  <1>0. QueueTypeOK
    BY DEF QueueInv
  <1>1. row'[j] = row[j] => ContractMove(j)
    BY DEF ContractMove, Status, Spent
  <1>2. ASSUME NEW v \in Workers, NEW k \in Jobs, Claim(v, k)
        PROVE  ContractMove(j)
    <2>1. PICK t \in Fresh(k) :
            row'[k] = Taken(k, t) /\ \A i \in Jobs \ {k} : row'[i] = row[i]
      BY <1>0, <1>2, ClaimEffect
    <2>2. row'[k].state = "running" /\ row'[k].attempts = row[k].attempts + 1
      BY <2>1 DEF Taken
    <2>3. row[k].state \in Active /\ row[k].attempts < MaxAttempts[k]
      BY <1>2 DEF Claim, Claimable, Active
    <2>4. ContractMove(k)
      BY <2>2, <2>3 DEF ContractMove, Status, Spent, Active, Waiting
    <2>5. QED
      BY <1>1, <2>1, <2>4
  <1>3. CASE ~Claims
    <2>1. SameJob(j) => ContractMove(j)
      BY DEF SameJob, ContractMove, Status, Spent
    <2>2. Submitted(j) => ContractMove(j)
      BY DEF Submitted, Enqueued, Absent, ContractMove, Status, Spent, Active, Waiting
    <2>3. QED
      BY <1>0, <1>3, <2>1, <2>2, RowStep, RetiredMoves
  <1>4. QED
    BY <1>2, <1>3 DEF Claims

LEMMA ContractStep ==
  ASSUME QueueInv, [Next]_queueVars
  PROVE  [Contract!Next]_(Contract!contractVars)
  <1>0. QueueTypeOK
    BY DEF QueueInv
  <1>1. ASSUME NEW j \in Jobs, \A k \in Jobs \ {j} : row'[k] = row[k]
        PROVE  [Contract!Next]_(Contract!contractVars)
    BY <1>1, JobMoves, MoveIsContractStep
  <1>2. CASE row' = row
    BY <1>2 DEF JobStatus, Deliveries, Status, Spent, Contract!contractVars
  <1>3. QED
    BY <1>0, <1>1, <1>2, OneRowMoves

(* With its leases, stale consumers, late reports and crashes the queue      *)
(* still delivers a job at most max_attempts times, reports success only of  *)
(* a delivered job and failure only of a spent budget, and settles it once.  *)
THEOREM QueueKeepsContract == Spec => ContractKept
  <1>1. QueueInv /\ [Next]_queueVars => [Contract!Next]_(Contract!contractVars)
    BY ContractStep
  <1>2. QED
    BY <1>1, ContractInit, QueueInvariant, PTL DEF Spec, ContractKept, Contract!Spec

-----------------------------------------------------------------------------
(* The queue under the transactions of its users.  A request cancels and     *)
(* enqueues several jobs at once, with the rows of the resource they are of. *)

Transaction ==
  /\ claim' = claim
  /\ row' = [j \in Jobs |-> row'[j]]
  /\ \A j \in Jobs : row'[j] = row[j] \/ Submitted(j) \/ Withdrawn(j)

UserStep == [Next]_queueVars \/ Transaction

\* What the queue promises of each job by itself: the steps of JobContract, of
\* which a transaction takes several.
EachJobKeepsContract == [][\A j \in Jobs : ContractMove(j)]_queueVars

LEMMA TransactionRow ==
  ASSUME QueueTypeOK, Transaction, NEW j \in Jobs
  PROVE  /\ row'[j] \in Row
         /\ row'[j].attempts \in {row[j].attempts, 0}
         /\ row'[j].state = "running" => row'[j] = row[j]
         /\ row'[j].state \in {"succeeded", "failed", "retry_wait"} => row'[j] = row[j]
         /\ row'[j].state \in Waiting => row'[j] = row[j] \/ row'[j].attempts = 0
  <1>0. row[j] \in Row
    BY DEF QueueTypeOK
  <1>1. CASE row'[j] = row[j]
    BY <1>0, <1>1
  <1>2. CASE Submitted(j)
    <2>1. row'[j] \in Row
      BY <1>2, EnqueuedType DEF Submitted
    <2>2. row'[j].state = "queued" /\ row'[j].attempts = 0
      BY <1>2 DEF Submitted, Enqueued, Absent
    <2>3. QED
      BY <2>1, <2>2
  <1>3. CASE Withdrawn(j)
    <2>1. /\ row'[j] \in Row /\ row'[j].state = "cancelled"
          /\ row'[j].attempts = row[j].attempts
      BY <1>0, <1>3 DEF Withdrawn, Released, Row, Active, Waiting, Terminal
    <2>2. QED
      BY <2>1 DEF Waiting
  <1>4. QED
    BY <1>1, <1>2, <1>3 DEF Transaction

\* No transaction of the users disturbs what the queue relies on.
LEMMA TransactionKeeps ==
  ASSUME QueueInv, Transaction
  PROVE  QueueInv'
  <1>0. QueueTypeOK
    BY DEF QueueInv
  <1>1. QueueTypeOK'
    BY <1>0, TransactionRow DEF QueueTypeOK, Transaction
  <1>2. TokensDiffer'
    BY DEF QueueInv, TokensDiffer, Transaction, Busy
  <1>3. WithinBudget'
    BY <1>0, TransactionRow, QueueAssumption DEF QueueInv, WithinBudget
  <1>4. HolderKnowsAttempt'
    BY <1>0, TransactionRow DEF QueueInv, HolderKnowsAttempt, Holds, Busy, Transaction
  <1>5. WaitingIsClaimable'
    BY <1>0, TransactionRow, QueueAssumption DEF QueueInv, WaitingIsClaimable
  <1>6. QED
    BY <1>1, <1>2, <1>3, <1>4, <1>5 DEF QueueInv

LEMMA TransactionMoves ==
  ASSUME QueueInv, Transaction, NEW j \in Jobs
  PROVE  ContractMove(j)
  <1>1. row'[j] = row[j] => ContractMove(j)
    BY DEF ContractMove, Status, Spent
  <1>2. Submitted(j) => ContractMove(j)
    BY DEF Submitted, Enqueued, Absent, ContractMove, Status, Spent, Active, Waiting
  <1>3. Withdrawn(j) => ContractMove(j)
    BY RetiredMoves DEF Retired
  <1>4. QED
    BY <1>1, <1>2, <1>3 DEF Transaction

\* Whoever uses the queue by its operations and by transactions keeps its promises.
LEMMA UserKeeps ==
  ASSUME QueueInv, UserStep
  PROVE  /\ QueueInv'
         /\ \A j \in Jobs : ContractMove(j)
         /\ \A j \in Jobs :
              row[j].state = "running" /\ row[j].live /\ row'[j].state = "running"
                => row'[j].token = row[j].token
         /\ \A j \in Jobs :
              /\ row[j].state = "running"
              /\ row'[j].state \in {"succeeded", "failed", "retry_wait"}
              => \E w \in Workers : Holds(w, j) /\ claim'[w] = Idle
  <1>0. QueueTypeOK
    BY DEF QueueInv
  <1>1. CASE [Next]_queueVars
    BY <1>0, <1>1, QueueInvInductive, JobMoves, LiveLeaseStep, ReportStep
  <1>2. CASE Transaction
    <2>1. \A j \in Jobs : row'[j].state \in {"succeeded", "failed", "retry_wait"} =>
            row'[j] = row[j]
      BY <1>0, <1>2, TransactionRow
    <2>2. \A j \in Jobs : row'[j].state = "running" => row'[j] = row[j]
      BY <1>0, <1>2, TransactionRow
    <2>3. QED
      BY <1>2, <2>1, <2>2, TransactionKeeps, TransactionMoves
  <1>3. QED
    BY <1>1, <1>2 DEF UserStep
=============================================================================
