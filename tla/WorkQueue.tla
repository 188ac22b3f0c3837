------------------------------ MODULE WorkQueue ------------------------------
(***************************************************************************)
(* The durable job queue: the table processing_jobs                        *)
(* (backend/internal/workqueue/queue.go) and the consumers that drain it   *)
(* (workqueue/runner.go, started by worker/runtime.go).                    *)
(*                                                                         *)
(* A row is a job of one idempotency key.  A consumer claims a row under a *)
(* lease with a fresh token, runs the handler while a second goroutine     *)
(* sends heartbeats, and reports the outcome under the fence               *)
(*    WHERE id = .. AND state = 'running' AND lease_token = ..             *)
(* A consumer may vanish between any two steps; it is then restarted.      *)
(*                                                                         *)
(* Abstractions.  Wall-clock time is two events: a lease expires, a        *)
(* backoff elapses.  A lease token (a fresh UUID) is any token that        *)
(* neither the row nor a consumer still holds.  FOR UPDATE SKIP LOCKED     *)
(* passes over rows another transaction has locked, so any claimable row   *)
(* may be the one Claim takes; ORDER BY shows only as fairness.  The       *)
(* composing modules conjoin what a handler does to its resource.          *)
(***************************************************************************)
EXTENDS Naturals

CONSTANTS
  Jobs,         \* idempotency keys; a key has at most one row at a time
  Workers,      \* consumer goroutines of all worker processes
  Serves,       \* the jobs whose kind is in the pool of a consumer
  MaxAttempts,  \* max_attempts of each job
  Tokens,       \* lease tokens
  NoToken       \* lease_token IS NULL

ASSUME QueueAssumption ==
  /\ Serves \in [Workers -> SUBSET Jobs]
  /\ MaxAttempts \in [Jobs -> Nat \ {0}]
  /\ NoToken \notin Tokens

VARIABLES
  row,   \* the row of each job in processing_jobs
  claim  \* what each consumer holds in memory: the Job that Claim returned

queueVars == <<row, claim>>

Waiting  == {"queued", "retry_wait"}
Active   == Waiting \cup {"running"}
Terminal == {"succeeded", "failed", "cancelled"}

\* due: available_at <= NOW();  live: NOW() < lease_expires_at
Row == [state    : Active \cup Terminal \cup {"absent"},
        attempts : Nat,
        token    : Tokens \cup {NoToken},
        live     : BOOLEAN,
        due      : BOOLEAN]

Absent == [state |-> "absent", attempts |-> 0, token |-> NoToken,
           live |-> FALSE, due |-> FALSE]

Idle == [phase |-> "idle"]

\* phase: the handler is running, or it returned nil (ok) or an error (err).
\* ctx: jobCtx is not cancelled, so the heartbeat goroutine is still alive.
Claimed == [phase    : {"handling", "ok", "err"},
            job      : Jobs,
            token    : Tokens,
            attempts : Nat \ {0},
            ctx      : BOOLEAN]

\* Rows satisfy the checks of table processing_jobs (attempts within max_attempts), and
\* a claim in memory is a delivery that Claim returned.
QueueTypeOK ==
  /\ row \in [Jobs -> Row]
  /\ claim \in [Workers -> Claimed \cup {Idle}]

Busy(w) == claim[w].phase # "idle"

\* Mutant of Fenced: the token is not compared.
FencedByState(w) == row[claim[w].job].state = "running"

\* The fence of Heartbeat, Complete and Fail.
Fenced(w) ==
  /\ row[claim[w].job].state = "running"
  /\ row[claim[w].job].token = claim[w].token

\* Consumer w was given the lease that the row of j is running under.
Holds(w, j) ==
  /\ Busy(w)
  /\ claim[w].job = j
  /\ row[j].state = "running"
  /\ row[j].token = claim[w].token

\* The fence a handler must pass to write its resource: the lease, unexpired.
Leased(w) == Fenced(w) /\ row[claim[w].job].live

-----------------------------------------------------------------------------
QueueInit ==
  /\ row = [j \in Jobs |-> Absent]
  /\ claim = [w \in Workers |-> Idle]

\* Row written by INSERT, or the row already there: ON CONFLICT DO NOTHING.
Enqueued(j) ==
  IF row[j].state = "absent"
    THEN [Absent EXCEPT !.state = "queued", !.due = TRUE]
    ELSE row[j]

Enqueue(j) ==
  /\ row' = [row EXCEPT ![j] = Enqueued(j)]
  /\ UNCHANGED claim

\* Mutants of Claimable: a running row is claimable before its lease expires;
\* a running row is never claimable; the attempt budget is not checked.
ClaimableLive(j) ==
  /\ row[j].attempts < MaxAttempts[j]
  /\ \/ row[j].state \in Waiting /\ row[j].due
     \/ row[j].state = "running"

ClaimableWaiting(j) ==
  row[j].attempts < MaxAttempts[j] /\ row[j].state \in Waiting /\ row[j].due

ClaimableAlways(j) ==
  \/ row[j].state \in Waiting /\ row[j].due
  \/ row[j].state = "running" /\ ~row[j].live

Claimable(j) ==
  /\ row[j].attempts < MaxAttempts[j]
  /\ \/ row[j].state \in Waiting /\ row[j].due
     \/ row[j].state = "running" /\ ~row[j].live

\* Mutant of Fresh: the token of the previous lease is kept.
Kept(j) ==
  IF row[j].token = NoToken THEN Tokens ELSE {row[j].token}

Fresh(j) ==
  Tokens \ ({row[j].token} \cup
            {claim[v].token : v \in {u \in Workers : Busy(u) /\ claim[u].job = j}})

\* Mutant of Delivery: the attempts of the row before the update.
DeliveryBefore(j, t) ==
  [phase |-> "handling", job |-> j, token |-> t,
   attempts |-> row[j].attempts, ctx |-> TRUE]

\* The Job that RETURNING hands to the consumer.
Delivery(j, t) ==
  [phase |-> "handling", job |-> j, token |-> t,
   attempts |-> row[j].attempts + 1, ctx |-> TRUE]

\* The row under its new lease; available_at is left alone.
Taken(j, t) ==
  [state |-> "running", attempts |-> row[j].attempts + 1, token |-> t,
   live |-> TRUE, due |-> row[j].due]

Claim(w, j) ==
  /\ ~Busy(w)
  /\ j \in Serves[w]
  /\ Claimable(j)
  /\ \E t \in Fresh(j) :
       /\ row' = [row EXCEPT ![j] = Taken(j, t)]
       /\ claim' = [claim EXCEPT ![w] = Delivery(j, t)]

\* A tick of the heartbeat goroutine: extend the lease, or cancel jobCtx when
\* the lease is lost.  The statement does not ask that the lease be unexpired.
Heartbeat(w) ==
  /\ claim[w].phase = "handling"
  /\ claim[w].ctx
  /\ IF Fenced(w)
       THEN /\ row' = [row EXCEPT ![claim[w].job].live = TRUE]
            /\ UNCHANGED claim
       ELSE /\ claim' = [claim EXCEPT ![w].ctx = FALSE]
            /\ UNCHANGED row

\* jobCtx is cancelled from outside: the process is asked to stop, or the
\* heartbeat statement itself failed.
CancelContext(w) ==
  /\ claim[w].phase = "handling"
  /\ claim[w].ctx
  /\ claim' = [claim EXCEPT ![w].ctx = FALSE]
  /\ UNCHANGED row

\* The handler returns nil or an error; runClaim cancels jobCtx and waits for
\* the heartbeat goroutine before it reports.
HandlerReturns(w, outcome) ==
  /\ claim[w].phase = "handling"
  /\ claim' = [claim EXCEPT ![w].phase = outcome, ![w].ctx = FALSE]
  /\ UNCHANGED row

Released(r, state) ==
  [r EXCEPT !.state = state, !.token = NoToken, !.live = FALSE]

Complete(w) ==
  /\ claim[w].phase = "ok"
  /\ row' = IF Fenced(w)
              THEN [row EXCEPT ![claim[w].job] = Released(@, "succeeded")]
              ELSE row
  /\ claim' = [claim EXCEPT ![w] = Idle]

\* Mutant of IsLastAttempt: one attempt too late.
IsPastLastAttempt(w) == claim[w].attempts > MaxAttempts[claim[w].job]

IsLastAttempt(w) == claim[w].attempts >= MaxAttempts[claim[w].job]

\* What Fail writes: terminal failure on the last attempt, else a backoff.
FailedRow(w, r) ==
  IF IsLastAttempt(w)
    THEN Released(r, "failed")
    ELSE [Released(r, "retry_wait") EXCEPT !.due = FALSE]

Fail(w) ==
  /\ claim[w].phase = "err"
  /\ row' = IF Fenced(w)
              THEN [row EXCEPT ![claim[w].job] = FailedRow(w, @)]
              ELSE row
  /\ claim' = [claim EXCEPT ![w] = Idle]

\* The consumer loses its job without a trace in the table: the process dies
\* in any phase, the Complete statement fails, or the transaction of Fail is
\* rolled back (a finalizer that returns an error included).  runClaim only
\* logs; the consumer, restarted or not, goes back to claiming.
Vanish(w) ==
  /\ Busy(w)
  /\ claim' = [claim EXCEPT ![w] = Idle]
  /\ UNCHANGED row

\* Time: a lease is not renewed before it expires; a retry becomes due.
LeaseExpires(j) ==
  /\ row[j].state = "running" /\ row[j].live
  /\ row' = [row EXCEPT ![j].live = FALSE]
  /\ UNCHANGED claim

BackoffElapses(j) ==
  /\ row[j].state = "retry_wait" /\ ~row[j].due
  /\ row' = [row EXCEPT ![j].due = TRUE]
  /\ UNCHANGED claim

\* The API retires a job with the resource it works on.
Cancel(j) ==
  /\ row[j].state \in Active
  /\ row' = [row EXCEPT ![j] = Released(@, "cancelled")]
  /\ UNCHANGED claim

\* Maintenance deletes terminal rows; the key may then be enqueued again.
PruneTerminal(j) ==
  /\ row[j].state \in Terminal
  /\ row' = [row EXCEPT ![j] = Absent]
  /\ UNCHANGED claim

-----------------------------------------------------------------------------
Consume(w) ==
  \/ \E j \in Jobs : Claim(w, j)
  \/ Heartbeat(w)
  \/ CancelContext(w)
  \/ \E outcome \in {"ok", "err"} : HandlerReturns(w, outcome)
  \/ Complete(w)
  \/ Fail(w)
  \/ Vanish(w)

Elsewhere(j) ==
  \/ Enqueue(j)
  \/ Cancel(j)
  \/ PruneTerminal(j)
  \/ LeaseExpires(j)
  \/ BackoffElapses(j)

Next == (\E w \in Workers : Consume(w)) \/ (\E j \in Jobs : Elsewhere(j))

Orphaned(j) == row[j].state = "running" /\ \A w \in Workers : ~Holds(w, j)

\* Consumers keep polling, and ORDER BY available_at, created_at takes the oldest
\* job first, so no job of equal priority is passed over for ever.  A handler
\* returns (background.Handle gives it a deadline), its outcome is reported
\* unless the consumer vanishes, and time passes: a lease nobody renews expires
\* and a backoff elapses.  Clients, cancellation and pruning need not happen.
Fairness ==
  /\ \A w \in Workers :
       /\ WF_queueVars(\E outcome \in {"ok", "err"} : HandlerReturns(w, outcome))
       /\ WF_queueVars(Complete(w) \/ Fail(w))
  /\ \A j \in Jobs :
       /\ SF_queueVars(\E w \in Workers : Claim(w, j))
       /\ WF_queueVars(Orphaned(j) /\ LeaseExpires(j))
       /\ WF_queueVars(BackoffElapses(j))

Spec     == QueueInit /\ [][Next]_queueVars
FairSpec == Spec /\ Fairness

-----------------------------------------------------------------------------
(* Safety *)

\* At most one consumer holds the fence of a job, however many stale ones are
\* still running its handler: Claim rotates lease_token.
ExclusiveHolder ==
  \A v, w \in Workers, j \in Jobs : Holds(v, j) /\ Holds(w, j) => v = w

\* No job waits for a delivery it can never get: Claim passes over rows with
\* attempts = max_attempts, so Fail must never park such a row in retry_wait.
WaitingIsClaimable ==
  \A j \in Jobs : row[j].state \in Waiting => row[j].attempts < MaxAttempts[j]

\* The attempt the holder of a fence remembers is the attempt the row is on:
\* Fail decides on the copy in memory, Claim on the row.
HolderKnowsAttempt ==
  \A w \in Workers, j \in Jobs :
    Holds(w, j) => claim[w].attempts = row[j].attempts

\* Consumers that were handed the same job were handed different tokens.
TokensDiffer ==
  \A v, w \in Workers :
    v # w /\ Busy(v) /\ Busy(w) /\ claim[v].job = claim[w].job
      => claim[v].token # claim[w].token

\* The CHECK on processing_jobs: attempts <= max_attempts.
WithinBudget == \A j \in Jobs : row[j].attempts <= MaxAttempts[j]

\* The inductive invariant of the queue.  ExclusiveHolder does not survive a step
\* on its own: a consumer that lost its lease must not hold the next token.
QueueInv ==
  /\ QueueTypeOK
  /\ TokensDiffer
  /\ WithinBudget
  /\ HolderKnowsAttempt
  /\ WaitingIsClaimable

\* Claim never takes a job away from a lease that has not expired.
LiveLeaseIsKept ==
  [][\A j \in Jobs :
       row[j].state = "running" /\ row[j].live /\ row'[j].state = "running"
         => row'[j].token = row[j].token]_queueVars

\* Only the consumer that was given the current lease reports the outcome of a
\* job; a report of an earlier delivery, late, leaves the row alone.
OnlyHolderReports ==
  [][\A j \in Jobs :
       /\ row[j].state = "running"
       /\ row'[j].state \in {"succeeded", "failed", "retry_wait"}
       => \E w \in Workers : Holds(w, j) /\ claim'[w] = Idle]_queueVars

Status(r) ==
  CASE r.state \in Active -> "pending"
    [] r.state = "absent" -> "none"
    [] OTHER              -> r.state

Spent(r) == IF r.state = "absent" THEN 0 ELSE r.attempts

JobStatus  == [j \in Jobs |-> Status(row[j])]
Deliveries == [j \in Jobs |-> Spent(row[j])]

Contract == INSTANCE JobContract WITH status <- JobStatus, deliveries <- Deliveries

\* The queue with its leases, stale consumers and crashes keeps the contract.
ContractKept == Contract!Spec

-----------------------------------------------------------------------------
(* Liveness *)

\* The consumer of the last delivery is gone: Claim passes the row over and
\* nothing else in the queue looks at it.
Stranded(j) == Orphaned(j) /\ ~(row[j].attempts < MaxAttempts[j])

\* A delivery whose consumer vanished is made again, if the budget allows.
LostDeliveryIsReclaimed ==
  \A j \in Jobs : Orphaned(j) /\ ~Stranded(j) ~> ~Orphaned(j)

\* A job settles, or is left behind by a consumer lost on its last attempt.
SettlesOrStrands ==
  \A j \in Jobs : row[j].state \in Active ~>
    row[j].state \in Terminal \/ Stranded(j)

\* docs/ARCHITECTURE.md: workers "retry with bounded exponential backoff, and
\* publish terminal failure".
EveryJobSettles ==
  \A j \in Jobs : row[j].state \in Active ~> row[j].state \in Terminal
=============================================================================
