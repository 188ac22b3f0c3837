----------------------------- MODULE JobContract -----------------------------
(***************************************************************************)
(* What processing_jobs promises to the code that enqueues a job: a job of *)
(* an idempotency key is pending until it succeeds, is withdrawn, or is    *)
(* given up; it succeeds only after a delivery to a handler, it is given   *)
(* up only when its whole budget of deliveries is spent, it is never       *)
(* delivered beyond the budget, and once settled it stays as it is until   *)
(* it is forgotten.  Leases, tokens, consumers and time do not appear.     *)
(***************************************************************************)
EXTENDS Naturals

CONSTANTS Jobs, MaxAttempts

VARIABLES status, deliveries

contractVars == <<status, deliveries>>

Settled == {"succeeded", "failed", "cancelled"}

Init ==
  /\ status = [j \in Jobs |-> "none"]
  /\ deliveries = [j \in Jobs |-> 0]

Move(j, from, to) ==
  /\ status[j] \in from
  /\ status' = [status EXCEPT ![j] = to]

Submit(j) == Move(j, {"none"}, "pending") /\ UNCHANGED deliveries

Deliver(j) ==
  /\ status[j] = "pending"
  /\ deliveries[j] < MaxAttempts[j]
  /\ deliveries' = [deliveries EXCEPT ![j] = @ + 1]
  /\ UNCHANGED status

Succeed(j) ==
  /\ deliveries[j] > 0
  /\ Move(j, {"pending"}, "succeeded")
  /\ UNCHANGED deliveries

GiveUp(j) ==
  /\ deliveries[j] = MaxAttempts[j]
  /\ Move(j, {"pending"}, "failed")
  /\ UNCHANGED deliveries

Withdraw(j) == Move(j, {"pending"}, "cancelled") /\ UNCHANGED deliveries

Forget(j) ==
  /\ Move(j, Settled, "none")
  /\ deliveries' = [deliveries EXCEPT ![j] = 0]

Next ==
  \E j \in Jobs :
    Submit(j) \/ Deliver(j) \/ Succeed(j) \/ GiveUp(j) \/ Withdraw(j) \/ Forget(j)

Spec == Init /\ [][Next]_contractVars
=============================================================================
