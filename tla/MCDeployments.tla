--------------------------- MODULE MCDeployments ---------------------------
(***************************************************************************)
(* An instance of Deployments: two documents share a quota of one active   *)
(* deployment; two threads start, stop, poll and delete at the same time.  *)
(***************************************************************************)
EXTENDS Deployments, TLC

CONSTANTS A, B, editor, watcher

TwoDocuments == {A, B}
OneEditor == {editor}
OneWatcher == {watcher}
QueuedOrBuilding == {"queued", "building"}
ThreeActive == QueuedOrBuilding \cup {"running"}
RunningOrStopped == {"running", "stopped"}
=============================================================================
