------------------------ MODULE MCRecordingProcessing ------------------------
(***************************************************************************)
(* One recording, two process jobs with their strengths jobs, one strengths*)
(* job of a retry, and one synthesis job that waits for its own pool.  p1  *)
(* may be delivered twice.  Consumer w1 serves every kind; w2 serves p1    *)
(* alone, which is enough to have a stale handler of p1 beside the next    *)
(* delivery of p1, or beside any later job.  Names come back into use when *)
(* their old rows are pruned.                                              *)
(***************************************************************************)
EXTENDS RecordingProcessing, TLC

CONSTANTS p1, p2, q1, q2, s, d, w1, w2, t1, t2, t3

MCProcess   == {p1, p2}
MCStrengths == {q1, q2, s}
MCShadow    == {d}
MCJobs      == MCProcess \cup MCStrengths \cup MCShadow
MCWorkers   == {w1, w2}
MCTokens    == {t1, t2, t3}
MCOf        == p1 :> q1 @@ p2 :> q2
MCServes    == w1 :> (MCProcess \cup MCStrengths) @@ w2 :> {p1}
MCMax       == [j \in MCJobs |-> IF j = p1 THEN 2 ELSE 1]

\* The tokens are interchangeable.
MCSymmetry == Permutations(MCTokens)

\* One analysis at a time, for the temporal property.
OneProcess   == {p1}
OneStrengths == {q1}
OneJobs      == {p1, q1, d}
OneOf        == p1 :> q1
OneServes    == w1 :> {p1, q1} @@ w2 :> {p1}
OneMax       == p1 :> 2 @@ q1 :> 1 @@ d :> 1
=============================================================================
