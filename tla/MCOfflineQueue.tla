--------------------------- MODULE MCOfflineQueue ---------------------------
(***************************************************************************)
(* Two presses, a delete and then a create or update, and two runs of      *)
(* syncNow: enough for an entry to be added while a run has loaded the one *)
(* before, for two runs to hold the same entry, and for an entry that the  *)
(* server refuses for ever, or whose answers are cut off for ever, to be   *)
(* in front of another.                                                    *)
(***************************************************************************)
EXTENDS OfflineQueue

CONSTANTS button, s1, s2

TwoSyncs == {s1, s2}
First == {1}

\* Runs of syncNow are alike: s2 is the second of two.
SecondOfTwo == work[s2] = Idle /\ work'[s2] # Idle => work[s1] # Idle

\* A kill before the first press loses nothing: it is the start over again.
KillsMatter == kills' # kills => pressed > 0

MCSpec == Init /\ [][Next /\ SecondOfTwo /\ KillsMatter]_vars /\ Fairness
=============================================================================
