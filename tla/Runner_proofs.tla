---------------------------- MODULE Runner_proofs ----------------------------
(***************************************************************************)
(* What the runner never leaves behind, for any number of deployments,     *)
(* workers, callers and restarts: a worker that ends badly cleans up       *)
(* whatever else is being removed at the same time, always; and a stopped  *)
(* deployment leaves nothing, if removing is faster than booting.          *)
(***************************************************************************)
EXTENDS Runner, TLAPS

\* The worker has nothing left to create once the app container exists.
AppCreated == {"loop", "look", "probe", "ready", "sweep", "sweeping", "up", "gone"}

\* A thread is stopping a deployment or is idle.
StoppingFits == \A s \in Stoppers : stopping[s].at # "idle" => stopping[s].dep \in Deployments

\* The worker's own removal covers every container, then leaves nothing.
SweepCovers ==
  \A d \in Deployments :
    /\ work[d] = "sweeping" => docker[d] \cap Container \subseteq cleanup[d]
    /\ work[d] = "gone" => docker[d] = {}

\* A stop covers its deployment: what it listed is all that is left to remove.
Covers(s) ==
  /\ stopping[s].at = "containers" =>
       docker[stopping[s].dep] \cap Container \subseteq stopping[s].listed
  /\ stopping[s].at = "network" => docker[stopping[s].dep] \cap Container = {}
  /\ stopping[s].at = "mark" => docker[stopping[s].dep] = {}

\* The app container is the last one, so a stop that listed it missed nothing.
AppIsLast ==
  /\ \A d \in Deployments : "app" \in docker[d] => work[d] \in AppCreated
  /\ \A s \in Stoppers :
       stopping[s].at \in {"containers", "network", "mark"} /\ "app" \in stopping[s].listed =>
         work[stopping[s].dep] \in AppCreated /\ Covers(s)

\* Once the application has answered, every stop of its deployment misses nothing.
UpIsCovered ==
  ~SlowRemoval =>
    /\ \A s \in Stoppers :
         stopping[s].at # "idle" /\ work[stopping[s].dep] \in {"ready", "up"} => Covers(s)
    /\ \A d \in Deployments : work[d] = "up" /\ status[d] = "stopped" => docker[d] = {}

\* Whatever a worker is still at, or has left in Docker, the manager knows.
WorkIsKnown ==
  ~SlowRemoval /\ ~LongQueue =>
    \A d \in Deployments :
      work[d] \notin {"none", "lost", "up", "gone"} \/ docker[d] # {} => d \in known

IInv ==
  TypeOK /\ StoppingFits /\ SweepCovers /\ AppIsLast /\ UpIsCovered /\ WorkIsKnown

-----------------------------------------------------------------------------
\* A fresh runner satisfies the invariant.
LEMMA InitInv == Init => IInv
BY BoundsAssumption
DEF Init, IInv, TypeOK, StoppingFits, SweepCovers, AppIsLast, UpIsCovered, WorkIsKnown,
    NotStopping, Covers, Status, Container

\* Removing the network never removes anything else, nor leaves it without containers.
LEMMA NetworkGoesLast ==
  ASSUME NEW have \in SUBSET (Container \cup {"network"})
  PROVE  /\ NetworkRemoved(have) \subseteq have
         /\ have \cap Container = {} => NetworkRemoved(have) = {}
BY DEF NetworkRemoved, Container

\* Every step keeps every value in its type.
LEMMA TypePreserved == TypeOK /\ StoppingFits /\ [Next]_vars => TypeOK' /\ StoppingFits'
<1> SUFFICES ASSUME TypeOK, StoppingFits, [Next]_vars PROVE TypeOK' /\ StoppingFits'
  OBVIOUS
<1> USE DEF TypeOK, StoppingFits, Status, Active, Unshared, Goto
<1>1. ASSUME NEW d \in Deployments, Submit(d) PROVE TypeOK' /\ StoppingFits'
  BY <1>1 DEF Submit
<1>2. ASSUME NEW d \in Deployments, Run(d) \/ SetStarting(d) \/ SetRunning(d) \/ Fail(d)
      PROVE  TypeOK' /\ StoppingFits'
  BY <1>2 DEF Run, SetStarting, SetRunning, Fail
<1>3. ASSUME NEW d \in Deployments, Create(d) PROVE TypeOK' /\ StoppingFits'
  BY <1>3 DEF Create, Creates, After, Container
<1>4. ASSUME NEW d \in Deployments, Wait(d) PROVE TypeOK' /\ StoppingFits'
  BY <1>4 DEF Wait, Waits, Progress
<1>5. ASSUME NEW d \in Deployments, CheckStopped(d) \/ Look(d) \/ Probe(d)
      PROVE  TypeOK' /\ StoppingFits'
  BY <1>5 DEF CheckStopped, Look, Probe
<1>6. ASSUME NEW d \in Deployments, SweepList(d) PROVE TypeOK' /\ StoppingFits'
  BY <1>6 DEF SweepList, Listed
<1>7. ASSUME NEW d \in Deployments, Sweep(d) PROVE TypeOK' /\ StoppingFits'
  BY <1>7 DEF Sweep, NetworkRemoved
<1>8. ASSUME NEW d \in Deployments, Forget(d) \/ Age(d) PROVE TypeOK' /\ StoppingFits'
  BY <1>8 DEF Forget, Age
<1>9. ASSUME NEW d \in Deployments, NEW s \in Stoppers, CallStop(s, d)
      PROVE  TypeOK' /\ StoppingFits'
  BY <1>9 DEF CallStop
<1>10. ASSUME NEW s \in Stoppers, StopLists(s) \/ StopRemoves(s) \/ StopRemovesNetwork(s)
       PROVE  TypeOK' /\ StoppingFits'
  BY <1>10 DEF StopLists, StopRemoves, StopRemovesNetwork, Listed, NetworkRemoved
<1>11. ASSUME NEW s \in Stoppers, StopMarks(s) PROVE TypeOK' /\ StoppingFits'
  BY <1>11 DEF StopMarks, NotStopping
<1>12. CASE Restart
  BY <1>12, BoundsAssumption DEF Restart, NotStopping
<1>13. CASE UNCHANGED vars
  BY <1>13 DEF vars
<1> QED BY <1>1, <1>2, <1>3, <1>4, <1>5, <1>6, <1>7, <1>8, <1>9, <1>10, <1>11, <1>12, <1>13
     DEF Next, Work, Stop

-----------------------------------------------------------------------------
\* Only its worker adds to what Docker holds of a deployment.
LEMMA DockerStep ==
  ASSUME TypeOK, StoppingFits, [Next]_vars, NEW d \in Deployments
  PROVE  Create(d) \/ docker'[d] \subseteq docker[d]
<1> USE DEF TypeOK, StoppingFits, Unshared, Goto
<1>1. ASSUME NEW e \in Deployments, Create(e)
      PROVE  Create(d) \/ docker'[d] \subseteq docker[d]
  BY <1>1 DEF Create
<1>2. ASSUME NEW e \in Deployments, Sweep(e) PROVE docker'[d] \subseteq docker[d]
  BY <1>2, NetworkGoesLast DEF Sweep
<1>3. ASSUME NEW s \in Stoppers, StopRemoves(s) \/ StopRemovesNetwork(s)
      PROVE  docker'[d] \subseteq docker[d]
  BY <1>3, NetworkGoesLast DEF StopRemoves, StopRemovesNetwork
<1>4. ASSUME NEW e \in Deployments,
             \/ Submit(e) \/ Run(e) \/ Wait(e) \/ CheckStopped(e) \/ SetStarting(e) \/ Look(e)
             \/ Probe(e) \/ SetRunning(e) \/ Fail(e) \/ SweepList(e) \/ Forget(e) \/ Age(e)
      PROVE  docker' = docker
  BY <1>4 DEF Submit, Run, Wait, CheckStopped, SetStarting, Look, Probe, SetRunning, Fail,
    SweepList, Forget, Age
<1>5. ASSUME NEW s \in Stoppers,
             (\E e \in Deployments : CallStop(s, e)) \/ StopLists(s) \/ StopMarks(s)
      PROVE  docker' = docker
  BY <1>5 DEF CallStop, StopLists, StopMarks
<1>6. CASE Restart
  BY <1>6 DEF Restart
<1>7. CASE UNCHANGED vars
  BY <1>7 DEF vars
<1> QED BY <1>1, <1>2, <1>3, <1>4, <1>5, <1>6, <1>7 DEF Next, Work, Stop

\* The ways a worker goes on.
LEMMA WorkStep ==
  ASSUME TypeOK, [Next]_vars, NEW d \in Deployments
  PROVE  \/ work'[d] = work[d] /\ ~Create(d) /\ cleanup'[d] = cleanup[d]
         \/ Submit(d) \/ Work(d) \/ Restart
<1> USE DEF TypeOK, Unshared, Goto
<1>1. ASSUME NEW e \in Deployments, Submit(e) \/ Work(e), e # d
      PROVE  work'[d] = work[d] /\ cleanup'[d] = cleanup[d] /\ ~Create(d)
  <2>1. work'[d] = work[d] /\ cleanup'[d] = cleanup[d]
    BY <1>1 DEF Submit, Work, Run, Create, Wait, CheckStopped, SetStarting, Look, Probe,
      SetRunning, Fail, SweepList, Sweep
  <2>2. Create(d) => work'[d] # work[d]
    BY DEF Create, Creates, After
  <2> QED BY <2>1, <2>2
<1>2. ASSUME work' = work, cleanup' = cleanup
      PROVE  work'[d] = work[d] /\ ~Create(d) /\ cleanup'[d] = cleanup[d]
  BY <1>2 DEF Create, Creates, After
<1>3. ASSUME NEW e \in Deployments, Forget(e) \/ Age(e) PROVE work' = work /\ cleanup' = cleanup
  BY <1>3 DEF Forget, Age
<1>4. ASSUME NEW s \in Stoppers, Stop(s) \/ \E e \in Deployments : CallStop(s, e)
      PROVE  work' = work /\ cleanup' = cleanup
  BY <1>4 DEF Stop, StopLists, StopRemoves, StopRemovesNetwork, StopMarks, CallStop
<1>5. CASE UNCHANGED vars
  BY <1>2, <1>5 DEF vars
<1> QED BY <1>1, <1>2, <1>3, <1>4, <1>5 DEF Next

\* The ways a stop goes on.
LEMMA StopStep ==
  ASSUME TypeOK, [Next]_vars, NEW s \in Stoppers
  PROVE  \/ stopping'[s] = stopping[s]
         \/ stopping'[s].at \in {"idle", "list"}
         \/ StopLists(s) \/ StopRemoves(s) \/ StopRemovesNetwork(s)
<1> USE DEF TypeOK, Unshared, Goto
<1>1. ASSUME NEW d \in Deployments, Submit(d) \/ Work(d) \/ Forget(d) \/ Age(d)
      PROVE  stopping' = stopping
  BY <1>1 DEF Submit, Work, Run, Create, Wait, CheckStopped, SetStarting, Look, Probe,
    SetRunning, Fail, SweepList, Sweep, Forget, Age
<1>2. ASSUME NEW t \in Stoppers, Stop(t), t # s PROVE stopping'[s] = stopping[s]
  BY <1>2 DEF Stop, StopLists, StopRemoves, StopRemovesNetwork, StopMarks
<1>3. ASSUME StopMarks(s) PROVE stopping'[s].at = "idle"
  BY <1>3 DEF StopMarks, NotStopping
<1>4. ASSUME NEW t \in Stoppers, NEW d \in Deployments, CallStop(t, d)
      PROVE  stopping'[s] = stopping[s] \/ stopping'[s].at = "list"
  BY <1>4 DEF CallStop
<1>5. CASE Restart
  BY <1>5 DEF Restart, NotStopping
<1>6. CASE UNCHANGED vars
  BY <1>6 DEF vars
<1> QED BY <1>1, <1>2, <1>3, <1>4, <1>5, <1>6 DEF Next, Stop

-----------------------------------------------------------------------------
\* A worker that sweeps lists every container, and nothing is created after that.
LEMMA SweepPreserved ==
  TypeOK /\ StoppingFits /\ SweepCovers /\ [Next]_vars => SweepCovers'
<1> SUFFICES ASSUME TypeOK, StoppingFits, SweepCovers, [Next]_vars, NEW d \in Deployments
             PROVE  /\ work'[d] = "sweeping" => docker'[d] \cap Container \subseteq cleanup'[d]
                    /\ work'[d] = "gone" => docker'[d] = {}
  BY DEF SweepCovers
<1> USE DEF TypeOK, SweepCovers, Unshared, Goto
<1>1. CASE work'[d] = work[d] /\ ~Create(d) /\ cleanup'[d] = cleanup[d]
  BY <1>1, DockerStep
<1>2. CASE SweepList(d)
  BY <1>2 DEF SweepList, Listed
<1>3. CASE Sweep(d)
  <2>1. docker[d] \ cleanup[d] \in SUBSET (Container \cup {"network"})
    BY DEF Container
  <2>2. (docker[d] \ cleanup[d]) \cap Container = {}
    BY <1>3 DEF Sweep
  <2> QED BY <1>3, <2>1, <2>2, NetworkGoesLast DEF Sweep
<1>4. CASE \/ Submit(d) \/ Run(d) \/ Wait(d) \/ CheckStopped(d) \/ SetStarting(d) \/ Look(d)
           \/ Probe(d) \/ SetRunning(d) \/ Fail(d)
  BY <1>4 DEF Submit, Run, Wait, Waits, Progress, CheckStopped, SetStarting, Look, Probe,
    SetRunning, Fail
<1>5. CASE Create(d)
  BY <1>5 DEF Create, Creates, After
<1>6. CASE Restart
  BY <1>6 DEF Restart
<1> QED BY <1>1, <1>2, <1>3, <1>4, <1>5, <1>6, WorkStep DEF Work

\* A worker that has created the app container creates nothing more.
LEMMA AppCreatedStays ==
  ASSUME TypeOK, StoppingFits, [Next]_vars, NEW d \in Deployments, work[d] \in AppCreated
  PROVE  ~Create(d) /\ (work'[d] \in AppCreated \/ Restart)
<1> USE DEF TypeOK, AppCreated, Unshared, Goto
<1>1. ~Create(d)
  BY DEF Create, Creates
<1>2. ASSUME Submit(d) \/ Work(d) PROVE work'[d] \in AppCreated
  BY <1>1, <1>2 DEF Work, Submit, Run, Wait, Waits, CheckStopped, SetStarting, Look, Probe,
    SetRunning, Fail, SweepList, Sweep
<1> QED BY <1>1, <1>2, WorkStep

\* Removing what was listed keeps a stop covered.
LEMMA CoversAdvances ==
  ASSUME TypeOK, StoppingFits, NEW s \in Stoppers,
         StopLists(s) \/ (Covers(s) /\ (StopRemoves(s) \/ StopRemovesNetwork(s)))
  PROVE  Covers(s)' /\ stopping'[s].dep = stopping[s].dep
<1> USE DEF TypeOK, StoppingFits, Covers
<1>1. CASE StopLists(s)
  BY <1>1 DEF StopLists, Listed
<1>2. CASE Covers(s) /\ StopRemoves(s)
  BY <1>2 DEF StopRemoves
<1>3. CASE Covers(s) /\ StopRemovesNetwork(s)
  BY <1>3, NetworkGoesLast DEF StopRemovesNetwork
<1> QED BY <1>1, <1>2, <1>3

\* So does anything that happens while the stop itself waits, but a new container.
LEMMA CoversStays ==
  ASSUME TypeOK, StoppingFits, [Next]_vars, NEW s \in Stoppers, Covers(s),
         stopping'[s] = stopping[s],
         stopping[s].at # "idle" => ~Create(stopping[s].dep)
  PROVE  Covers(s)'
<1>1. stopping[s].at # "idle" => docker'[stopping[s].dep] \subseteq docker[stopping[s].dep]
  BY DockerStep DEF StoppingFits
<1> QED BY <1>1 DEF Covers

\* What a stop listed, once the app container is on the list, is all there is.
LEMMA AppIsLastPreserved ==
  TypeOK /\ StoppingFits /\ AppIsLast /\ [Next]_vars => AppIsLast'
<1> SUFFICES ASSUME TypeOK, StoppingFits, AppIsLast, [Next]_vars PROVE AppIsLast'
  OBVIOUS
<1>1. ASSUME NEW d \in Deployments, "app" \in docker'[d] PROVE work'[d] \in AppCreated
  <2>1. CASE Create(d)
    BY <1>1, <2>1 DEF Create, Creates, After, AppCreated, AppIsLast, TypeOK, Goto
  <2>2. CASE ~Create(d)
    BY <1>1, <2>2, DockerStep, AppCreatedStays DEF AppIsLast, Restart
  <2> QED BY <2>1, <2>2
<1>2. ASSUME NEW s \in Stoppers, stopping'[s].at \in {"containers", "network", "mark"},
             "app" \in stopping'[s].listed
      PROVE  work'[stopping'[s].dep] \in AppCreated /\ Covers(s)'
  <2>1. CASE stopping'[s] = stopping[s]
    <3>1. ~Restart
      BY <1>2 DEF Restart, NotStopping
    <3> QED BY <1>2, <2>1, <3>1, AppCreatedStays, CoversStays DEF AppIsLast, StoppingFits
  <2>2. CASE StopLists(s)
    BY <1>2, <2>2, CoversAdvances DEF StopLists, Listed, AppIsLast, StoppingFits, TypeOK
  <2>3. CASE StopRemoves(s) \/ StopRemovesNetwork(s)
    BY <1>2, <2>3, CoversAdvances DEF StopRemoves, StopRemovesNetwork, AppIsLast,
      StoppingFits, TypeOK
  <2> QED BY <1>2, <2>1, <2>2, <2>3, StopStep
<1> QED BY <1>1, <1>2 DEF AppIsLast

\* An application answers only if nobody is removing a part of its deployment.
LEMMA UpPreserved ==
  TypeOK /\ StoppingFits /\ AppIsLast /\ UpIsCovered /\ [Next]_vars => UpIsCovered'
<1> SUFFICES ASSUME TypeOK, StoppingFits, AppIsLast, UpIsCovered, [Next]_vars, ~SlowRemoval
             PROVE  UpIsCovered'
  BY DEF UpIsCovered
<1> DEFINE Up == {"ready", "up"}
<1>0. \A d \in Deployments : work'[d] \in Up =>
        ~Create(d) /\ (work[d] \in Up \/ (Probe(d) /\ Answers(d)))
  <2> SUFFICES ASSUME NEW d \in Deployments, work'[d] \in Up
               PROVE  ~Create(d) /\ (work[d] \in Up \/ (Probe(d) /\ Answers(d)))
    OBVIOUS
  <2> USE DEF TypeOK, Unshared, Goto
  <2>1. ~Create(d) /\ ~Submit(d) /\ ~Restart
    BY DEF Create, Creates, After, Submit, Restart
  <2>2. ASSUME Work(d) PROVE work[d] \in Up \/ (Probe(d) /\ Answers(d))
    BY <2>1, <2>2 DEF Work, Run, Wait, Waits, Progress, CheckStopped, SetStarting, Look, Probe,
      SetRunning, Fail, SweepList, Sweep
  <2> QED BY <2>1, <2>2, WorkStep
<1>1. ASSUME NEW s \in Stoppers, stopping'[s].at # "idle", work'[stopping'[s].dep] \in Up
      PROVE  Covers(s)'
  <2>1. CASE stopping'[s] = stopping[s]
    <3>1. stopping[s].dep \in Deployments /\ ~Create(stopping[s].dep)
      BY <1>0, <1>1, <2>1 DEF StoppingFits
    <3>2. CASE work[stopping[s].dep] \in Up
      BY <1>1, <2>1, <3>1, <3>2, CoversStays DEF UpIsCovered
    <3>3. CASE Answers(stopping[s].dep) /\ stopping[s].at # "list"
      <4>1. "app" \in stopping[s].listed
        BY <3>3 DEF Answers
      <4>2. stopping[s].at \in {"containers", "network", "mark"}
        BY <1>1, <2>1, <3>3 DEF TypeOK
      <4> QED BY <2>1, <3>1, <4>1, <4>2, CoversStays DEF AppIsLast
    <3>4. CASE stopping[s].at = "list"
      BY <2>1, <3>4 DEF Covers
    <3> QED BY <1>0, <1>1, <2>1, <3>1, <3>2, <3>3, <3>4
  <2>2. CASE stopping'[s].at = "list"
    BY <2>2 DEF Covers
  <2>3. CASE StopLists(s)
    BY <2>3, CoversAdvances
  <2>4. CASE StopRemoves(s) \/ StopRemovesNetwork(s)
    <3>1. work' = work /\ stopping'[s].dep = stopping[s].dep /\ stopping[s].at # "idle"
      BY <2>4 DEF StopRemoves, StopRemovesNetwork, TypeOK
    <3> QED BY <1>1, <2>4, <3>1, CoversAdvances DEF UpIsCovered
  <2> QED BY <1>1, <2>1, <2>2, <2>3, <2>4, StopStep
<1>2. ASSUME NEW d \in Deployments, work'[d] = "up", status'[d] = "stopped"
      PROVE  docker'[d] = {}
  <2>1. CASE work[d] = "up" /\ status[d] = "stopped"
    BY <1>0, <1>2, <2>1, DockerStep DEF UpIsCovered
  <2>2. CASE \E s \in Stoppers : StopMarks(s) /\ stopping[s].dep = d
    BY <1>2, <2>2 DEF StopMarks, UpIsCovered, Covers
  <2>3. CASE work[d] = "up" /\ status[d] # "stopped"
    <3>1. ASSUME NEW s \in Stoppers, StopMarks(s), stopping[s].dep # d PROVE FALSE
      BY <1>2, <2>3, <3>1 DEF StopMarks, TypeOK
    <3>2. ASSUME status' = status PROVE FALSE
      BY <1>2, <2>3, <3>2
    <3>3. ASSUME NEW e \in Deployments, Submit(e) \/ Work(e) \/ Forget(e) \/ Age(e) PROVE FALSE
      <4>1. status'[d] = status[d]
        BY <2>3, <3>3 DEF Submit, Work, Run, Create, Wait, CheckStopped, SetStarting, Look,
          Probe, SetRunning, Fail, SweepList, Sweep, Forget, Age, TypeOK, Creates, Waits
      <4> QED BY <1>2, <2>3, <4>1
    <3> QED BY <1>2, <2>2, <3>1, <3>2, <3>3 DEF Next, Stop, CallStop, StopLists, StopRemoves,
         StopRemovesNetwork, Restart, vars
  <2>4. CASE work[d] # "up"
    <3>1. ~Create(d) /\ Work(d)
      BY <1>0, <1>2, <2>4, WorkStep DEF Submit, Restart, TypeOK
    <3> QED BY <1>2, <2>4, <3>1 DEF Work, Run, Wait, Waits, Progress, CheckStopped, SetStarting,
         Look, Probe, SetRunning, Fail, SweepList, Sweep, TypeOK, Goto
  <2> QED BY <2>1, <2>3, <2>4
<1> QED BY <1>1, <1>2 DEF UpIsCovered

\* The manager forgets a deployment only when its worker has ended and Docker holds nothing.
LEMMA KnownPreserved ==
  TypeOK /\ StoppingFits /\ SweepCovers /\ UpIsCovered /\ WorkIsKnown /\ [Next]_vars
    => WorkIsKnown'
<1> DEFINE Ended == {"none", "lost", "up", "gone"}
<1> SUFFICES ASSUME TypeOK, StoppingFits, SweepCovers, UpIsCovered, WorkIsKnown, [Next]_vars,
                    ~SlowRemoval, ~LongQueue, NEW d \in Deployments,
                    work'[d] \notin Ended \/ docker'[d] # {}
             PROVE  d \in known'
  BY DEF WorkIsKnown
<1>1. work[d] \notin Ended \/ docker[d] # {} => d \in known
  BY DEF WorkIsKnown
<1>2. ASSUME Submit(d) PROVE d \in known'
  BY <1>2 DEF Submit
<1>3. ~Restart
  BY DEF Restart
<1>4. Work(d) => work[d] \notin Ended
  BY DEF Work, Run, Create, Creates, Wait, Waits, CheckStopped, SetStarting, Look, Probe,
    SetRunning, Fail, SweepList, Sweep
<1>5. d \in known \/ Submit(d)
  <2>1. Create(d) => Work(d)
    BY DEF Work
  <2>2. docker[d] = {} /\ ~Create(d) => docker'[d] = {}
    BY DockerStep
  <2> QED BY <1>1, <1>3, <1>4, <2>1, <2>2, WorkStep
<1>6. ASSUME NEW e \in Deployments, Forget(e) PROVE d \in known'
  <2>1. work[e] \in {"up", "gone"} /\ docker[e] = {} /\ work' = work /\ docker' = docker
    BY <1>6 DEF Forget, UpIsCovered, SweepCovers
  <2>2. d # e
    BY <2>1
  <2>3. d \in known
    BY <1>1, <2>1
  <2> QED BY <1>6, <2>2, <2>3 DEF Forget
<1>7. ASSUME NEW e \in Deployments,
             Submit(e) \/ Work(e) \/ Age(e) \/ \E s \in Stoppers : CallStop(s, e)
      PROVE  known \subseteq known'
  BY <1>7 DEF Submit, Work, Run, Create, Wait, CheckStopped, SetStarting, Look, Probe,
    SetRunning, Fail, SweepList, Sweep, Age, CallStop, Unshared
<1>8. ASSUME NEW s \in Stoppers, Stop(s) PROVE known' = known
  BY <1>8 DEF Stop, StopLists, StopRemoves, StopRemovesNetwork, StopMarks
<1>9. CASE UNCHANGED vars
  BY <1>2, <1>5, <1>9 DEF vars
<1> QED BY <1>2, <1>3, <1>5, <1>6, <1>7, <1>8, <1>9 DEF Next

-----------------------------------------------------------------------------
\* The invariant holds of every behaviour, however many threads and restarts there are.
THEOREM Invariance == Spec => []IInv
<1>1. IInv /\ [Next]_vars => IInv'
  BY TypePreserved, SweepPreserved, AppIsLastPreserved, UpPreserved, KnownPreserved DEF IInv
<1> QED BY <1>1, InitInv, PTL DEF Spec

\* Every state of the runner is well typed.
THEOREM RunnerTypeOK == Spec => []TypeOK
<1>1. IInv => TypeOK
  BY DEF IInv
<1> QED BY <1>1, Invariance, PTL

(* A worker that fails, or finds its deployment stopped, leaves nothing in
   Docker, whatever stops run beside it and however long they take. *)
THEOREM RunnerGoneLeavesNothing == Spec => []GoneLeavesNothing
<1>1. IInv => GoneLeavesNothing
  BY DEF IInv, SweepCovers, GoneLeavesNothing
<1> QED BY <1>1, Invariance, PTL

(* As long as removing containers is faster than booting an application, a
   stopped deployment leaves nothing behind. *)
THEOREM RunnerStoppedLeavesNothing == ~SlowRemoval => (Spec => []StoppedLeavesNothing)
<1>1. ~SlowRemoval /\ IInv => StoppedLeavesNothing
  BY DEF IInv, SweepCovers, UpIsCovered, StoppedLeavesNothing
<1>2. CASE ~SlowRemoval
  <2>1. IInv => StoppedLeavesNothing
    BY <1>1, <1>2
  <2> QED BY <2>1, Invariance, PTL
<1> QED BY <1>2

(* If, besides, nobody queues for an hour, the manager knows every deployment
   that has anything in Docker, so the reaper will see it. *)
THEOREM RunnerProvisionedIsKnown ==
  ~SlowRemoval /\ ~LongQueue => (Spec => []ProvisionedIsKnown)
<1>1. ~SlowRemoval /\ ~LongQueue /\ IInv => ProvisionedIsKnown
  BY DEF IInv, WorkIsKnown, ProvisionedIsKnown
<1>2. CASE ~SlowRemoval /\ ~LongQueue
  <2>1. IInv => ProvisionedIsKnown
    BY <1>1, <1>2
  <2> QED BY <2>1, Invariance, PTL
<1> QED BY <1>2

-----------------------------------------------------------------------------
(* What GET answers depends on the manager's dictionary and on a status that no
   worker sets any more once it has failed. *)
AnswersFit ==
  \A d \in Deployments :
    /\ work[d] = "none" => d \notin known
    /\ d \in known => status[d] # "unknown"
    /\ status[d] = "failed" => work[d] \in {"sweep", "sweeping", "gone"}

\* The step sets the status of d, which does not leave "failed" but for "stopped".
Sets(d, s) ==
  /\ status' = [status EXCEPT ![d] = s] /\ known' = known
  /\ s \in Status \ {"unknown"}
  /\ status[d] = "failed" => s = "stopped"

LEMMA InitAnswers == Init => AnswersFit /\ View!Init
BY DEF Init, AnswersFit, View!Init, Answer, Coming

\* A status that is set is seen if the manager knows the deployment.
LEMMA SetIsSeen ==
  ASSUME TypeOK, AnswersFit, NEW d \in Deployments, NEW s, Sets(d, s), Coming' = Coming
  PROVE  [View!Next]_(View!vars)
<1>1. CASE d \notin known
  <2>1. Answer' = Answer
    BY <1>1 DEF Sets, TypeOK, Answer
  <2> QED BY <2>1 DEF View!vars
<1>2. CASE d \in known
  <2>1. Answer' = [Answer EXCEPT ![d] = s]
    BY <1>2 DEF Sets, TypeOK, Answer
  <2>2. Answer[d] = status[d] /\ status[d] \in Status \ {"unknown"}
    BY <1>2 DEF Answer, AnswersFit, TypeOK
  <2>3. View!Change(d)
    BY <2>1, <2>2 DEF View!Change, Sets, Coming
  <2> QED BY <2>3 DEF View!Next
<1> QED BY <1>1, <1>2

\* Every step of the runner is a step of its abstraction, or is not seen.
LEMMA ViewStep ==
  ASSUME TypeOK, StoppingFits, AnswersFit, [Next]_vars
  PROVE  AnswersFit' /\ [View!Next]_(View!vars)
<1> DEFINE Fine == AnswersFit' /\ [View!Next]_(View!vars)
<1>1. ASSUME status' = status, known' = known,
             \A e \in Deployments : /\ work'[e] = "none" <=> work[e] = "none"
                                    /\ work[e] \in {"sweep", "sweeping", "gone"} =>
                                         work'[e] \in {"sweep", "sweeping", "gone"}
      PROVE  Fine
  BY <1>1 DEF AnswersFit, Answer, Coming, View!vars
<1>2. ASSUME NEW d \in Deployments, Submit(d) PROVE Fine
  <2>1. /\ status' = [status EXCEPT ![d] = "queued"] /\ known' = known \cup {d}
        /\ work' = [work EXCEPT ![d] = "queued"] /\ d \notin known
    BY <1>2 DEF Submit, AnswersFit
  <2>2. AnswersFit'
    BY <2>1 DEF AnswersFit, TypeOK
  <2>3. Answer[d] = "unknown" /\ Answer' = [Answer EXCEPT ![d] = "queued"]
    BY <2>1 DEF Answer, TypeOK
  <2>5. d \in Coming /\ Coming' = Coming \ {d}
    BY <1>2, <2>1 DEF Coming, Submit, TypeOK
  <2>4. View!Accept(d)
    BY <2>3, <2>5 DEF View!Accept, Status, Active
  <2> QED BY <2>2, <2>4 DEF View!Next
<1>3. ASSUME NEW d \in Deployments, Run(d) \/ SetStarting(d) \/ SetRunning(d) PROVE Fine
  <2>1. PICK s \in {"building", "starting", "running"} : status' = [status EXCEPT ![d] = s]
    BY <1>3 DEF Run, SetStarting, SetRunning
  <2>2. /\ known' = known /\ work[d] \in {"queued", "starting", "ready"}
        /\ \E at \in {"network", "db", "up"} : work' = [work EXCEPT ![d] = at]
    BY <1>3 DEF Run, SetStarting, SetRunning, Goto, Unshared
  <2>3. Sets(d, s)
    BY <2>1, <2>2 DEF Sets, AnswersFit, Status, Active
  <2>4. AnswersFit'
    BY <2>1, <2>2 DEF AnswersFit, TypeOK
  <2>5. Coming' = Coming
    BY <2>2 DEF Coming, TypeOK
  <2> QED BY <2>3, <2>4, <2>5, SetIsSeen
<1>4. ASSUME NEW d \in Deployments, Fail(d) PROVE Fine
  <2>1. /\ status' = [status EXCEPT ![d] = "failed"] /\ known' = known
        /\ work' = [work EXCEPT ![d] = "sweep"] /\ work[d] \notin {"none", "sweep", "sweeping", "gone"}
    BY <1>4 DEF Fail, Goto, Unshared, Creates, Waits
  <2>2. Sets(d, "failed")
    BY <2>1 DEF Sets, AnswersFit, Status
  <2>3. AnswersFit'
    BY <2>1 DEF AnswersFit, TypeOK
  <2>4. Coming' = Coming
    BY <2>1 DEF Coming, TypeOK
  <2> QED BY <2>2, <2>3, <2>4, SetIsSeen
<1>5. ASSUME NEW d \in Deployments,
             Create(d) \/ Wait(d) \/ CheckStopped(d) \/ Look(d) \/ Probe(d) \/ SweepList(d) \/ Sweep(d)
      PROVE  Fine
  <2>1. /\ status' = status /\ known' = known
        /\ \A e \in Deployments : e # d => work'[e] = work[e]
    BY <1>5 DEF Create, Wait, CheckStopped, Look, Probe, SweepList, Sweep, Goto, Unshared, TypeOK
  <2>2. work'[d] # "none" /\ work[d] # "none" /\ (work[d] \in {"sweep", "sweeping", "gone"} =>
          work'[d] \in {"sweep", "sweeping", "gone"})
    BY <1>5 DEF Create, Creates, After, Wait, Waits, Progress, CheckStopped, Look, Probe, SweepList,
                Sweep, Goto, TypeOK
  <2> QED BY <1>1, <2>1, <2>2
<1>6. ASSUME NEW s \in Stoppers, StopMarks(s) PROVE Fine
  <2>1. stopping[s].dep \in Deployments /\ work' = work /\ known' = known
    BY <1>6 DEF StopMarks, StoppingFits
  <2>2. CASE stopping[s].dep \in known
    <3>1. status' = [status EXCEPT ![stopping[s].dep] = "stopped"]
      BY <1>6, <2>2 DEF StopMarks
    <3>2. Sets(stopping[s].dep, "stopped")
      BY <2>1, <3>1 DEF Sets, Status
    <3>3. AnswersFit'
      BY <2>1, <3>1 DEF AnswersFit, TypeOK
    <3>4. Coming' = Coming
      BY <2>1 DEF Coming
    <3> QED BY <2>1, <3>2, <3>3, <3>4, SetIsSeen
  <2>3. CASE stopping[s].dep \notin known
    BY <1>1, <1>6, <2>1, <2>3 DEF StopMarks
  <2> QED BY <2>2, <2>3
<1>7. ASSUME NEW d \in Deployments, Forget(d) PROVE Fine
  <2>1. /\ status' = status /\ work' = work /\ known' = known \ {d}
        /\ status[d] = "stopped" /\ d \in known
    BY <1>7 DEF Forget
  <2>2. Answer[d] = "stopped" /\ Answer' = [Answer EXCEPT ![d] = "unknown"]
    BY <2>1 DEF Answer
  <2>3. View!Forget(d)
    BY <2>1, <2>2 DEF View!Forget, Coming
  <2> QED BY <2>1, <2>3 DEF View!Next, AnswersFit
<1>8. CASE Restart
  <2>1. /\ known' = {} /\ status' = [d \in Deployments |-> "unknown"]
        /\ work' = [d \in Deployments |-> IF work[d] = "none" THEN "none" ELSE "lost"]
    BY <1>8 DEF Restart
  <2>2. Answer' = [d \in Deployments |-> "unknown"]
    BY <2>1 DEF Answer
  <2>3. View!Lose
    BY <2>1, <2>2 DEF View!Lose, Coming
  <2> QED BY <2>1, <2>3 DEF View!Next, AnswersFit
<1>9. ASSUME UNCHANGED <<status, known, work>> PROVE Fine
  BY <1>1, <1>9
<1>10. Fine
  <2> HIDE DEF Fine
  <2>1. \A d \in Deployments, s \in Stoppers : Age(d) \/ CallStop(s, d) => Fine
    BY <1>9 DEF Age, CallStop
  <2>2. \A s \in Stoppers : StopLists(s) \/ StopRemoves(s) \/ StopRemovesNetwork(s) => Fine
    BY <1>9 DEF StopLists, StopRemoves, StopRemovesNetwork
  <2>3. \A d \in Deployments : Age(d) => Fine
    BY <1>9 DEF Age
  <2>4. UNCHANGED vars => Fine
    BY <1>9 DEF vars
  <2>5. Restart => Fine
    BY <1>8 DEF Fine
  <2> QED BY <1>2, <1>3, <1>4, <1>5, <1>6, <1>7, <2>1, <2>2, <2>3, <2>4, <2>5 DEF Next, Work, Stop
<1> QED BY <1>10

(* To Django the runner behaves as RunnerView says, which Deployments rests on:
   its initial state and every step, a restart included, map to the abstraction. *)
THEOREM RunnerImplementsView == Spec => ImplementsRunnerView
<1>1. Init => TypeOK /\ StoppingFits /\ AnswersFit /\ View!Init
  BY InitInv, InitAnswers DEF IInv
<1>2. TypeOK /\ StoppingFits /\ AnswersFit /\ [Next]_vars
        => TypeOK' /\ StoppingFits' /\ AnswersFit' /\ [View!Next]_(View!vars)
  BY TypePreserved, ViewStep
<1> QED BY <1>1, <1>2, PTL DEF Spec, ImplementsRunnerView, View!Spec
=============================================================================
