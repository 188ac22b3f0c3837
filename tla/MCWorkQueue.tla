----------------------------- MODULE MCWorkQueue -----------------------------
(***************************************************************************)
(* Two jobs and two consumers: j1 may be delivered twice and both pools    *)
(* serve it; j2 is delivered once, by the pool of w1 alone.  Three tokens  *)
(* are enough for a fresh one: a job has at most one on its row and one    *)
(* with each other consumer.                                               *)
(***************************************************************************)
EXTENDS WorkQueue, TLC

CONSTANTS j1, j2, w1, w2

MCJobs    == {j1, j2}
MCWorkers == {w1, w2}
MCServes  == w1 :> {j1, j2} @@ w2 :> {j1}
MCMax     == j1 :> 2 @@ j2 :> 1

\* One job is enough to lose its consumer on the last attempt.
OneJob       == {j1}
ServesOneJob == [w \in MCWorkers |-> OneJob]
OneJobMax    == j1 :> 2
=============================================================================
