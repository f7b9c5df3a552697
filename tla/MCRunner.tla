------------------------------ MODULE MCRunner ------------------------------
(***************************************************************************)
(* An instance of Runner: one deployment, which two DELETEs and the reaper *)
(* stop at the same time as its worker provisions it, and one restart of   *)
(* the process.  Deployments share nothing but the worker pool.            *)
(***************************************************************************)
EXTENDS Runner, TLC

CONSTANTS d1, http, http2

OneDeployment == {d1}
TwoCallers == {http, http2}
=============================================================================
