---------------------------- MODULE MCAuthSessions ----------------------------
(***************************************************************************)
(* One browser with one tab, or with two.  Two sessions are a guest and    *)
(* the account it signs in to; three tokens are a rotation in the course   *)
(* of either.                                                              *)
(***************************************************************************)
EXTENDS AuthSessions, TLC

CONSTANTS a, b, s1, s2, k1, k2, k3

OneTab     == {a}
TwoTabs    == {a, b}
MCSessions == {s1, s2}
MCTokens   == {k1, k2, k3}

\* Sessions and tokens are interchangeable.
MCSymmetry == Permutations(MCSessions) \cup Permutations(MCTokens)
=============================================================================
