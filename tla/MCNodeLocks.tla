---------------------------- MODULE MCNodeLocks ----------------------------
(***************************************************************************)
(* Instances of NodeLocks.  One tick stands for two seconds or more: the   *)
(* time to live (10 s), the staleness bound (12 s) and the delay keep the  *)
(* order TTL + MaxDelay <= Stale of the code's constants.                  *)
(***************************************************************************)
EXTENDS NodeLocks, TLC

CONSTANTS k1, k2, k3, c1, c2

TwoConns == {k1, k2}
ThreeConns == {k1, k2, k3}
OneClass == {c1}
TwoClasses == {c1, c2}
Symmetry2 == Permutations(TwoConns)
Symmetry3 == Permutations(ThreeConns)
=============================================================================
