----------------------------- MODULE MCShadowing -----------------------------
(***************************************************************************)
(* One recording, two synthesis jobs, of which d1 may be delivered twice,  *)
(* and two consumers; w2 serves d1 alone, so that it can be left behind    *)
(* with a stale handler.  Two keys and two versions are enough for an      *)
(* audio and its successor, for a withdrawn and a current text.            *)
(***************************************************************************)
EXTENDS Shadowing, TLC

CONSTANTS d1, d2, w1, w2, t1, t2, t3, o1, o2, v1, v2

MCJobs    == {d1, d2}
MCWorkers == {w1, w2}
MCTokens  == {t1, t2, t3}
MCObjects == {o1, o2}
MCTexts   == {v1, v2}
MCServes  == w1 :> {d1, d2} @@ w2 :> {d1}
MCMax     == d1 :> 2 @@ d2 :> 1

\* Tokens, keys and versions are interchangeable.
MCSymmetry ==
  Permutations(MCTokens) \cup Permutations(MCObjects) \cup Permutations(MCTexts)

\* One job and one version, for the temporal property.
OneJob   == {d1}
OneServe == [w \in MCWorkers |-> {d1}]
OneMax   == d1 :> 2
=============================================================================
