----------------------------- MODULE RunnerView -----------------------------
(***************************************************************************)
(* What GET /deployments/{id} of the runner may answer over time: all that *)
(* Django ever sees of a deployment, and an abstraction of module Runner.  *)
(* A stopped deployment may well be seen building again; a failed one is   *)
(* over.  An id is seen only from the arrival of a PUT of it on, and one   *)
(* that the runner has lost stays lost: each PUT arrives once.             *)
(***************************************************************************)
CONSTANTS
  Ids,        \* the ids of deployments
  Reported    \* the statuses of deployments that GET answers

VARIABLES
  sent,   \* the ids of which a PUT may yet arrive
  seen    \* seen[d]: the status GET answers, "unknown" for a 404

vars == <<sent, seen>>

Init == sent \in SUBSET Ids /\ seen = [d \in Ids |-> "unknown"]

\* Django sends a PUT, which arrives at some time, or never.
Put(d) == sent' = sent \cup {d} /\ UNCHANGED seen

\* It is answered 202: the deployment is queued, or its worker has begun ...
Accept(d) ==
  /\ d \in sent /\ sent' = sent \ {d}
  /\ seen[d] = "unknown"
  /\ \E s \in Reported \ {"failed", "stopped"} : seen' = [seen EXCEPT ![d] = s]

\* ... or by an error status.
Refuse(d) == d \in sent /\ sent' = sent \ {d} /\ UNCHANGED seen

\* The worker, a DELETE or the reaper sets the status, whatever it was.
Change(d) ==
  /\ seen[d] \in Reported
  /\ \E s \in IF seen[d] = "failed" THEN {"stopped"} ELSE Reported :
       seen' = [seen EXCEPT ![d] = s]
  /\ UNCHANGED sent

\* A deployment stopped long ago is forgotten.
Forget(d) ==
  /\ seen[d] = "stopped"
  /\ seen' = [seen EXCEPT ![d] = "unknown"]
  /\ UNCHANGED sent

\* The process restarts with an empty dictionary.
Lose == seen' = [d \in Ids |-> "unknown"] /\ UNCHANGED sent

Next ==
  \/ \E d \in Ids : Put(d) \/ Accept(d) \/ Refuse(d) \/ Change(d) \/ Forget(d)
  \/ Lose

Spec == Init /\ [][Next]_vars
=============================================================================
