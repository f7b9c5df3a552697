------------------------------- MODULE Runner -------------------------------
(***************************************************************************)
(* The runner service (runner/app/manager.py, docker_ops.py): worker       *)
(* threads that build and start one deployment each, HTTP threads that     *)
(* stop deployments, the reaper, and a process that may restart.  They     *)
(* share the status of a deployment object without a lock, and meet in     *)
(* Docker, where removing is listing first and removing what was listed.   *)
(*                                                                         *)
(* A deployment is provisioned as a private network and the containers     *)
(* "build", "db" and "app", each with the volume created along with it.    *)
(***************************************************************************)
EXTENDS Naturals, FiniteSets

CONSTANTS
  Deployments,    \* ids; Django submits each of them at most once
  Callers,        \* HTTP threads serving DELETE /deployments/{id}
  Reaper,         \* the reaper thread
  Nobody,         \* the target of a thread that is stopping nothing
  MaxWorkers,     \* threads of the executor
  MaxRestarts,    \* bound: restarts of the process
  SlowRemoval,    \* whether removing containers may outlast the boot of an application
  LongQueue       \* whether a deployment may be queued for an hour

ASSUME NobodyAssumption == Nobody \notin Deployments
ASSUME ReaperAssumption == Reaper \notin Callers
ASSUME BoundsAssumption == MaxWorkers \in Nat \ {0} /\ MaxRestarts \in Nat
ASSUME DockerAssumption == SlowRemoval \in BOOLEAN /\ LongQueue \in BOOLEAN

VARIABLES
  status,     \* status of the Deployment object, "unknown" before submit
  known,      \* the ids the manager's dictionary holds
  old,        \* the ids whose max_lifetime is over
  work,       \* how far the worker of each deployment is
  docker,     \* docker[d]: what Docker holds under the label of d
  cleanup,    \* cleanup[d]: the containers the worker's own removal listed
  stopping,   \* stopping[s]: what thread s is stopping, and how far it is
  restarts    \* restarts so far

vars == <<status, known, old, work, docker, cleanup, stopping, restarts>>

Stoppers == Callers \cup {Reaper}
Container == {"build", "db", "app"}
Active == {"queued", "building", "starting", "running"}
Status == Active \cup {"unknown", "failed", "stopped"}
NotStopping == [dep |-> Nobody, at |-> "idle", listed |-> {}]

Init ==
  /\ status = [d \in Deployments |-> "unknown"]
  /\ known = {} /\ old = {}
  /\ work = [d \in Deployments |-> "none"]
  /\ docker = [d \in Deployments |-> {}]
  /\ cleanup = [d \in Deployments |-> {}]
  /\ stopping = [s \in Stoppers |-> NotStopping]
  /\ restarts = 0

-----------------------------------------------------------------------------
\* PUT /deployments/{id}: the object is registered and handed to the executor.
Submit(d) ==
  /\ work[d] = "none"
  /\ status' = [status EXCEPT ![d] = "queued"]
  /\ known' = known \cup {d}
  /\ work' = [work EXCEPT ![d] = "queued"]
  /\ UNCHANGED <<old, docker, cleanup, stopping, restarts>>

Busy == {d \in Deployments : work[d] \notin {"none", "queued", "up", "gone", "lost"}}

\* The worker's pc moves on; the rest of a step says what else it does.
Goto(d, at) == work' = [work EXCEPT ![d] = at]
Unshared == <<known, old, cleanup, stopping, restarts>>

\* _run: the status is set whatever it is by now.
Run(d) ==
  /\ work[d] = "queued" /\ Cardinality(Busy) < MaxWorkers
  /\ status' = [status EXCEPT ![d] = "building"]
  /\ Goto(d, "network")
  /\ UNCHANGED <<docker, Unshared>>

\* The calls that create something; a container of a network needs that network.
Creates == [network |-> "network", build |-> "build", db |-> "db", app |-> "app"]
After == [network |-> "build", build |-> "wait", db |-> "health", app |-> "loop"]

Create(d) ==
  /\ work[d] \in DOMAIN Creates
  /\ work[d] \in {"db", "app"} => "network" \in docker[d]
  /\ docker' = [docker EXCEPT ![d] = @ \cup {Creates[work[d]]}]
  /\ Goto(d, After[work[d]])
  /\ UNCHANGED <<status, Unshared>>

\* A wait for a container or a poll of it ends well, the container still there.
Waits == [wait |-> "build", health |-> "db"]
Progress == [wait |-> "built", health |-> "app"]

Wait(d) ==
  /\ work[d] \in DOMAIN Waits /\ Waits[work[d]] \in docker[d]
  /\ Goto(d, Progress[work[d]])
  /\ UNCHANGED <<status, docker, Unshared>>

\* The build is over: a deployment stopped meanwhile is swept instead.
CheckStopped(d) ==
  /\ work[d] \in {"built", "loop"}
  /\ Goto(d, IF status[d] = "stopped" THEN "sweep"
             ELSE IF work[d] = "built" THEN "starting" ELSE "look")
  /\ UNCHANGED <<status, docker, Unshared>>

SetStarting(d) ==
  /\ work[d] = "starting"
  /\ status' = [status EXCEPT ![d] = "starting"]
  /\ Goto(d, "db")
  /\ UNCHANGED <<docker, Unshared>>

\* One turn of the start-up loop: the app is still there; its port answers or not.
Look(d) ==
  /\ work[d] = "look" /\ "app" \in docker[d]
  /\ Goto(d, "probe")
  /\ UNCHANGED <<status, docker, Unshared>>

Answers(d) ==
  /\ {"app", "db"} \subseteq docker[d]
  /\ SlowRemoval \/ \A s \in Stoppers :
       stopping[s].dep = d /\ stopping[s].at # "list" => "app" \in stopping[s].listed

Probe(d) ==
  /\ work[d] = "probe"
  /\ Goto(d, "loop") \/ (Answers(d) /\ Goto(d, "ready"))
  /\ UNCHANGED <<status, docker, Unshared>>

SetRunning(d) ==
  /\ work[d] = "ready"
  /\ status' = [status EXCEPT ![d] = "running"]
  /\ Goto(d, "up")
  /\ UNCHANGED <<docker, Unshared>>

\* Mutant of Fail: what the failed worker has created so far is left.
FailWithoutCleanup(d) ==
  /\ work[d] \in DOMAIN Creates \cup DOMAIN Waits \cup {"starting", "look", "loop"}
  /\ status' = [status EXCEPT ![d] = "failed"]
  /\ Goto(d, "gone")
  /\ UNCHANGED <<docker, Unshared>>

\* Mutant of Fail: a deadline that passes in the start-up loop does not end the loop.
FailAndGoOn(d) ==
  /\ work[d] \in DOMAIN Creates \cup DOMAIN Waits \cup {"starting", "look", "loop"}
  /\ status' = [status EXCEPT ![d] = "failed"]
  /\ Goto(d, IF work[d] = "loop" THEN "loop" ELSE "sweep")
  /\ UNCHANGED <<docker, Unshared>>

(* Any Docker call may raise, a build or a boot may fail, time out or lose its
   container: _fail overwrites the status and goes on to remove everything. *)
Fail(d) ==
  /\ work[d] \in DOMAIN Creates \cup DOMAIN Waits \cup {"starting", "look", "loop"}
  /\ status' = [status EXCEPT ![d] = "failed"]
  /\ Goto(d, "sweep")
  /\ UNCHANGED <<docker, Unshared>>

-----------------------------------------------------------------------------
\* _remove_by_label, in three steps: list the containers, remove those, the network.
Listed(d) == docker[d] \cap Container
NetworkKept(have) == have  \* mutant of NetworkRemoved: the runner stays connected to it
NetworkRemoved(have) == IF have \cap {"db", "app"} = {} THEN have \ {"network"} ELSE have

SweepList(d) ==
  /\ work[d] = "sweep"
  /\ cleanup' = [cleanup EXCEPT ![d] = Listed(d)]
  /\ Goto(d, "sweeping")
  /\ UNCHANGED <<status, docker, known, old, stopping, restarts>>

Sweep(d) ==
  /\ work[d] = "sweeping"
  /\ docker' = [docker EXCEPT ![d] = NetworkRemoved(@ \ cleanup[d])]
  /\ cleanup' = [cleanup EXCEPT ![d] = {}]
  /\ Goto(d, "gone")
  /\ UNCHANGED <<status, known, old, stopping, restarts>>

\* stop(): called by DELETE for any id, and by the reaper.
CallStop(s, d) ==
  /\ stopping[s] = NotStopping
  /\ s = Reaper => d \in known \cap old /\ status[d] \in Active
  /\ stopping' = [stopping EXCEPT ![s] = [dep |-> d, at |-> "list", listed |-> {}]]
  /\ UNCHANGED <<status, known, old, work, docker, cleanup, restarts>>

StopLists(s) ==
  /\ stopping[s].at = "list"
  /\ stopping' = [stopping EXCEPT ![s].at = "containers",
                                  ![s].listed = Listed(stopping[s].dep)]
  /\ UNCHANGED <<status, known, old, work, docker, cleanup, restarts>>

StopRemoves(s) ==
  LET d == stopping[s].dep
  IN  /\ stopping[s].at = "containers"
      /\ docker' = [docker EXCEPT ![d] = @ \ stopping[s].listed]
      /\ stopping' = [stopping EXCEPT ![s].at = "network"]
      /\ UNCHANGED <<status, known, old, work, cleanup, restarts>>

StopRemovesNetwork(s) ==
  LET d == stopping[s].dep
  IN  /\ stopping[s].at = "network"
      /\ docker' = [docker EXCEPT ![d] = NetworkRemoved(@)]
      /\ stopping' = [stopping EXCEPT ![s].at = "mark"]
      /\ UNCHANGED <<status, known, old, work, cleanup, restarts>>

StopMarks(s) ==
  LET d == stopping[s].dep
  IN  /\ stopping[s].at = "mark"
      /\ status' = IF d \in known THEN [status EXCEPT ![d] = "stopped"] ELSE status
      /\ stopping' = [stopping EXCEPT ![s] = NotStopping]
      /\ UNCHANGED <<known, old, work, docker, cleanup, restarts>>

\* Mutant of Forget: stopped deployments are forgotten by the next scan.
ForgetAtOnce(d) ==
  /\ stopping[Reaper] = NotStopping
  /\ d \in known /\ status[d] = "stopped"
  /\ known' = known \ {d}
  /\ UNCHANGED <<status, old, work, docker, cleanup, stopping, restarts>>

(* reap_expired forgets a deployment that has been stopped for an hour, which
   is longer than a worker takes but not than the queue for busy workers may be. *)
Forget(d) ==
  /\ stopping[Reaper] = NotStopping
  /\ d \in known /\ status[d] = "stopped"
  /\ \/ work[d] \in {"up", "gone"}
     \/ LongQueue /\ work[d] = "queued" /\ Cardinality(Busy) = MaxWorkers
  /\ known' = known \ {d}
  /\ UNCHANGED <<status, old, work, docker, cleanup, stopping, restarts>>

\* max_lifetime seconds have passed since the deployment was submitted.
Age(d) ==
  /\ d \in known \ old
  /\ old' = old \cup {d}
  /\ UNCHANGED <<status, known, work, docker, cleanup, stopping, restarts>>

\* The process dies with its memory and threads; the next one sweeps Docker first.
Restart ==
  /\ restarts < MaxRestarts
  /\ restarts' = restarts + 1
  /\ status' = [d \in Deployments |-> "unknown"]
  /\ known' = {} /\ old' = {}
  /\ work' = [d \in Deployments |-> IF work[d] = "none" THEN "none" ELSE "lost"]
  /\ docker' = [d \in Deployments |-> {}]
  /\ cleanup' = [d \in Deployments |-> {}]
  /\ stopping' = [s \in Stoppers |-> NotStopping]

-----------------------------------------------------------------------------
Work(d) ==
  \/ Run(d) \/ Create(d) \/ Wait(d) \/ CheckStopped(d) \/ SetStarting(d)
  \/ Look(d) \/ Probe(d) \/ SetRunning(d) \/ Fail(d) \/ SweepList(d) \/ Sweep(d)

Stop(s) == StopLists(s) \/ StopRemoves(s) \/ StopRemovesNetwork(s) \/ StopMarks(s)

Next ==
  \/ \E d \in Deployments :
       \/ Submit(d) \/ Work(d) \/ Forget(d) \/ Age(d)
       \/ \E s \in Stoppers : CallStop(s, d)
  \/ \E s \in Stoppers : Stop(s)
  \/ Restart

Spec == Init /\ [][Next]_vars

(* Threads run to their end, every wait of a worker has a timeout, time passes
   and each scan of the reaper sees every deployment.  Nobody has to call DELETE. *)
FairSpec ==
  /\ Spec
  /\ \A d \in Deployments :
       /\ WF_vars(Work(d)) /\ WF_vars(Age(d))
       /\ SF_vars(work[d] = "loop" /\ Fail(d))
       /\ SF_vars(CallStop(Reaper, d))
  /\ \A s \in Stoppers : WF_vars(Stop(s))

-----------------------------------------------------------------------------
\* Every variable holds a value of its type; a status is one of the documented ones.
TypeOK ==
  /\ status \in [Deployments -> Status]
  /\ known \subseteq Deployments /\ old \subseteq Deployments
  /\ work \in [Deployments ->
       {"none", "queued", "network", "build", "wait", "built", "starting", "db", "health",
        "app", "loop", "look", "probe", "ready", "sweep", "sweeping", "up", "gone", "lost"}]
  /\ docker \in [Deployments -> SUBSET (Container \cup {"network"})]
  /\ cleanup \in [Deployments -> SUBSET Container]
  /\ stopping \in [Stoppers ->
       [dep : Deployments \cup {Nobody}, listed : SUBSET Container,
        at : {"idle", "list", "containers", "network", "mark"}]]
  /\ restarts \in 0..MaxRestarts

(* "never leave half-built resources": a worker that fails, or finds its
   deployment stopped, leaves nothing behind, whoever else is removing and
   whatever was created while it did. *)
GoneLeavesNothing == \A d \in Deployments : work[d] = "gone" => docker[d] = {}

BeingStopped(d) == \E s \in Stoppers : stopping[s].dep = d

(* "removes whatever is labelled with this id": once a deployment is stopped,
   with its worker and all stops of it over, nothing of it is left.  What is
   left then stays: the reaper only looks at deployments that are not stopped. *)
StoppedLeavesNothing ==
  \A d \in Deployments :
    status[d] = "stopped" /\ work[d] \in {"up", "gone"} /\ ~BeingStopped(d) => docker[d] = {}

(* What is in Docker belongs to a deployment the manager still knows, so the
   reaper, or a restart, can find it. *)
ProvisionedIsKnown == \A d \in Deployments : docker[d] # {} => d \in known

\* What GET /deployments/{id} answers: the status of a known deployment, or a 404.
Answer == [d \in Deployments |-> IF d \in known THEN status[d] ELSE "unknown"]

\* The deployments of which the one PUT has not arrived.
Coming == {d \in Deployments : work[d] = "none"}

View == INSTANCE RunnerView
          WITH Ids <- Deployments, Reported <- Status \ {"unknown"},
               sent <- Coming, seen <- Answer

(* To Django, for which it is "the source of truth for the live state", it does as
   RunnerView says: an id is seen from its PUT on, and once lost or forgotten it is
   not seen again, whatever its worker and the stops of it still do; and a failed
   deployment is over. *)
ImplementsRunnerView == View!Spec

(* "Generated backends are removed after RUNNER_MAX_LIFETIME_SECONDS (6 h by
   default) and on every runner restart", whether or not anybody stops them. *)
LifetimeEnds == \A d \in Deployments : docker[d] # {} ~> docker[d] = {}
=============================================================================
