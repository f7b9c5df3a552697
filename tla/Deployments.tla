---------------------------- MODULE Deployments -----------------------------
(***************************************************************************)
(* The deployment rows of one organization (backend_deployments/service.py)*)
(* over the runner as GET shows it (RunnerView).  Requests start, stop and *)
(* poll deployments and delete documents; each talks to the database and   *)
(* to the runner in turn and saves what it read before.  Only the start of *)
(* a deployment takes a lock, and only for its first transaction.          *)
(***************************************************************************)
EXTENDS Naturals, FiniteSets

CONSTANTS
  Documents, NoDocument,
  MaxDeployments,   \* bound: rows ever created
  MaxActive,        \* DEPLOYMENT_MAX_ACTIVE_PER_ORG
  Active,           \* the active statuses of rows, which the service never tells apart
  InProgress,       \* those of them at which a page goes on polling
  Reported,         \* the statuses of deployments that the runner reports
  Editors,          \* server threads that serve stops and deletions one after the other
  Watchers          \* server threads that serve polls; all of them also serve starts

ASSUME DocumentsAssumption == NoDocument \notin Documents
ASSUME NumbersAssumption == MaxDeployments \in Nat /\ MaxActive \in Nat
ASSUME ActiveAssumption ==
  /\ {"queued", "building"} \subseteq Active
  /\ Active \cap {"failed", "stopped", "unknown", "none"} = {}
  /\ InProgress \subseteq Active
ASSUME ReportedAssumption ==
  "stopped" \in Reported /\ Reported \subseteq Active \cup {"failed", "stopped"}

Ids == 1..MaxDeployments   \* in the order of created_at

VARIABLES
  documents,  \* the documents of the organization that exist
  created,    \* how many rows were ever created
  status,     \* status[d] of the row d, "none" when there is no such row
  document,   \* document[d] of the row d
  ended,      \* history: the rows of today that were ever failed or stopped
  sent,       \* PUTs that are on their way to the runner
  runner,     \* what the runner answers to GET
  req         \* req[r]: how far request r is and what it has read

dbVars == <<documents, created, status, document, ended>>
vars == <<dbVars, sent, runner, req>>

View == INSTANCE RunnerView WITH seen <- runner

Requests == Editors \cup Watchers
ASSUME RequestsAssumption == IsFiniteSet(Requests)
Over == {"failed", "stopped"}
Status == Active \cup Over
Idle == [at |-> "idle", doc |-> NoDocument, dep |-> 0, todo |-> {}, got |-> "none"]

Rows(doc) == {d \in Ids : status[d] # "none" /\ document[d] = doc}
ActiveRows(doc) == {d \in Rows(doc) : status[d] \in Active}
OtherActive(doc) == {d \in Ids : status[d] \in Active /\ document[d] # doc}
IsLatest(d) == status[d] # "none" /\ \A e \in Rows(document[d]) : e <= d

Init ==
  /\ documents = Documents
  /\ created = 0
  /\ status = [d \in Ids |-> "none"]
  /\ document = [d \in Ids |-> NoDocument]
  /\ ended = {} /\ sent = {}
  /\ View!Init
  /\ req = [r \in Requests |-> Idle]

-----------------------------------------------------------------------------
Begin(r, step) == req[r] = Idle /\ req' = [req EXCEPT ![r] = step]
End(r) == req' = [req EXCEPT ![r] = Idle]
At(r, at) == req[r].at = at
Goto(r, at) == req' = [req EXCEPT ![r].at = at]

\* A save of the status alone; the row may be gone, and then the save raises.
Save(d, s) ==
  /\ status' = IF status[d] = "none" THEN status ELSE [status EXCEPT ![d] = s]
  /\ ended' = IF status[d] # "none" /\ s \in Over THEN ended \cup {d} ELSE ended
  /\ UNCHANGED <<documents, created, document>>

\* DELETE of the runner: 204 whether or not it knows the deployment, or no answer.
RunnerStops(d) ==
  runner' = IF runner[d] = "unknown" THEN runner ELSE [runner EXCEPT ![d] = "stopped"]

-----------------------------------------------------------------------------
Locked == \E r \in Requests : req[r].at \in {"replaced", "counted"}
Starting == {r \in Requests : req[r].at \in {"lock", "replaced", "counted"}}

\* start_deployment_view: the document exists, and its archive can be built.
BeginStart(r, doc) ==
  /\ doc \in documents
  /\ created + Cardinality(Starting) < MaxDeployments
  /\ Begin(r, [Idle EXCEPT !.at = "lock", !.doc = doc])
  /\ UNCHANGED <<dbVars, sent, runner>>

\* Mutant of LockAndRead: the organization is read without select_for_update.
ReadUnlocked(r) ==
  /\ At(r, "lock")
  /\ req' = [req EXCEPT ![r].at = "replaced", ![r].todo = ActiveRows(req[r].doc)]
  /\ UNCHANGED <<dbVars, sent, runner>>

\* The organization's row is locked, the deployments to replace are listed ...
LockAndRead(r) ==
  /\ At(r, "lock") /\ ~Locked
  /\ req' = [req EXCEPT ![r].at = "replaced", ![r].todo = ActiveRows(req[r].doc)]
  /\ UNCHANGED <<dbVars, sent, runner>>

\* ... and the active ones of other documents are counted against the quota.
CountOthers(r) ==
  /\ At(r, "replaced")
  /\ IF Cardinality(OtherActive(req[r].doc)) >= MaxActive THEN End(r) ELSE Goto(r, "counted")
  /\ UNCHANGED <<dbVars, sent, runner>>

Insert(r, replaced) ==
  LET new == created + 1
  IN  /\ created' = new
      /\ status' = [d \in Ids |-> IF d = new THEN "queued"
                                  ELSE IF d \in replaced THEN "stopped" ELSE status[d]]
      /\ document' = [document EXCEPT ![new] = req[r].doc]
      /\ ended' = ended \cup replaced
      /\ req' = [req EXCEPT ![r].at = "stopping", ![r].dep = new, ![r].doc = NoDocument]
      /\ UNCHANGED documents

\* Mutant of CommitStart: the deployments to replace are stopped in the runner only.
CommitWithoutStopping(r) ==
  /\ At(r, "counted")
  /\ IF req[r].doc \in documents THEN Insert(r, {}) ELSE End(r) /\ UNCHANGED dbVars
  /\ UNCHANGED <<sent, runner>>

(* The new row is inserted, the replaced ones become stopped, and the commit
   fails on the foreign key if the document is gone. *)
CommitStart(r) ==
  /\ At(r, "counted")
  /\ IF req[r].doc \in documents THEN Insert(r, req[r].todo) ELSE End(r) /\ UNCHANGED dbVars
  /\ UNCHANGED <<sent, runner>>

(* Best effort, before a PUT and before a document is deleted: each deployment
   read earlier is stopped in the runner, or the call fails and is ignored. *)
StopNext(r) ==
  /\ req[r].at \in {"stopping", "cleanup"}
  /\ \E d \in req[r].todo :
       /\ RunnerStops(d) \/ UNCHANGED runner
       /\ req' = [req EXCEPT ![r].todo = @ \ {d}]
  /\ UNCHANGED <<dbVars, sent>>

SendPut(r) ==
  /\ At(r, "stopping") /\ req[r].todo = {}
  /\ View!Put(req[r].dep)
  /\ Goto(r, "put")
  /\ UNCHANGED dbVars

\* The thread that still waits for the answer to the PUT of d gets it.
Answered(d, at) ==
  req' = [r \in Requests |-> IF At(r, "put") /\ req[r].dep = d
                             THEN [req[r] EXCEPT !.at = at] ELSE req[r]]

\* The PUT arrives, perhaps long after its sender gave up; 202, or an error status.
PutAccepted(d) ==
  /\ View!Accept(d)
  /\ Answered(d, "accepted")
  /\ UNCHANGED dbVars

PutRefused(d) ==
  /\ View!Refuse(d)
  /\ Answered(d, "refused")
  /\ UNCHANGED dbVars

\* The runner is unreachable, or does not answer within the client's timeout.
GiveUp(r) ==
  /\ req[r].at \in {"put", "accepted"}
  /\ Goto(r, "refused")
  /\ UNCHANGED <<dbVars, sent, runner>>

\* The outcome is saved over whatever the row says by now.
SaveStarted(r) ==
  /\ req[r].at \in {"accepted", "refused"}
  /\ Save(req[r].dep, IF At(r, "accepted") THEN "building" ELSE "failed")
  /\ End(r)
  /\ UNCHANGED <<sent, runner>>

-----------------------------------------------------------------------------
\* latest_deployment: the newest row of the document is refreshed while active.
BeginPoll(r, doc) ==
  \E d \in ActiveRows(doc) :
    /\ IsLatest(d)
    /\ Begin(r, [Idle EXCEPT !.at = "poll", !.dep = d])
    /\ UNCHANGED <<dbVars, sent, runner>>

\* Mutant of Reply: a 404 is handled like a runner that cannot be reached.
KnownReply(r) ==
  /\ At(r, "poll") /\ runner[req[r].dep] # "unknown"
  /\ req' = [req EXCEPT ![r].at = "save", ![r].got = runner[req[r].dep]]
  /\ UNCHANGED <<dbVars, sent, runner>>

\* _refresh: the runner's status, where a 404 reads as stopped.
Reply(r) ==
  LET state == runner[req[r].dep]
  IN  /\ At(r, "poll")
      /\ req' = [req EXCEPT ![r].at = "save",
                            ![r].got = IF state = "unknown" THEN "stopped" ELSE state]
      /\ UNCHANGED <<dbVars, sent, runner>>

\* No answer, or an error status: a poll and a stop end and leave the row alone.
NoReply(r) ==
  /\ req[r].at \in {"poll", "stop"}
  /\ End(r)
  /\ UNCHANGED <<dbVars, sent, runner>>

\* The whole row is saved; a row deleted meanwhile would come back without a document.
SaveReply(r) ==
  /\ At(r, "save")
  /\ Save(req[r].dep, req[r].got)
  /\ End(r)
  /\ UNCHANGED <<sent, runner>>

-----------------------------------------------------------------------------
\* stop_deployment: a row that is not stopped is stopped in the runner, then saved.
BeginStop(r, d) ==
  /\ status[d] \notin {"none", "stopped"}
  /\ Begin(r, [Idle EXCEPT !.at = "stop", !.dep = d])
  /\ UNCHANGED <<dbVars, sent, runner>>

CallStop(r) ==
  /\ At(r, "stop")
  /\ RunnerStops(req[r].dep)
  /\ Goto(r, "stopped")
  /\ UNCHANGED <<dbVars, sent>>

SaveStopped(r) ==
  /\ At(r, "stopped")
  /\ Save(req[r].dep, "stopped")
  /\ End(r)
  /\ UNCHANGED <<sent, runner>>

-----------------------------------------------------------------------------
\* delete_document_view: first the active deployments are stopped in the runner ...
BeginDelete(r, doc) ==
  /\ doc \in documents
  /\ Begin(r, [Idle EXCEPT !.at = "cleanup", !.doc = doc, !.todo = ActiveRows(doc)])
  /\ UNCHANGED <<dbVars, sent, runner>>

\* ... then the rows are deleted that reference the document ...
Cascade(r) ==
  /\ At(r, "cleanup") /\ req[r].todo = {}
  /\ req' = [req EXCEPT ![r].at = "cascade", ![r].todo = Rows(req[r].doc)]
  /\ UNCHANGED <<dbVars, sent, runner>>

(* ... and then the document, unless a row inserted meanwhile references it:
   that breaks the foreign key, and the whole deletion is rolled back. *)
CommitDelete(r) ==
  LET rows == Rows(req[r].doc)
  IN  /\ At(r, "cascade")
      /\ IF rows \subseteq req[r].todo
         THEN /\ documents' = documents \ {req[r].doc}
              /\ status' = [d \in Ids |-> IF d \in rows THEN "none" ELSE status[d]]
              /\ document' = [d \in Ids |-> IF d \in rows THEN NoDocument ELSE document[d]]
              /\ ended' = ended \ rows
              /\ UNCHANGED created
         ELSE UNCHANGED dbVars
      /\ End(r)
      /\ UNCHANGED <<sent, runner>>

(* The server thread dies: its transaction rolls back, the rest is never done.
   A poll that dies, or a stop before its call, ends as if there were no reply. *)
Crash(r) ==
  /\ req[r].at \notin {"idle", "poll", "save", "stop"}
  /\ End(r)
  /\ UNCHANGED <<dbVars, sent, runner>>

\* Workers, the reaper and late DELETEs change what the runner answers.
RunnerMoves ==
  /\ (\E d \in Ids : View!Change(d) \/ View!Forget(d)) \/ View!Lose
  /\ UNCHANGED <<dbVars, req>>

-----------------------------------------------------------------------------
Continue(r) ==
  \/ LockAndRead(r) \/ CountOthers(r) \/ CommitStart(r) \/ StopNext(r) \/ SendPut(r)
  \/ GiveUp(r) \/ SaveStarted(r) \/ Reply(r) \/ NoReply(r) \/ SaveReply(r)
  \/ CallStop(r) \/ SaveStopped(r) \/ Cascade(r) \/ CommitDelete(r)

Next ==
  \/ \E r \in Requests : Continue(r) \/ Crash(r)
  \/ \E r \in Requests, doc \in Documents : BeginStart(r, doc)
  \/ \E r \in Editors, doc \in Documents : BeginDelete(r, doc)
  \/ \E r \in Editors, d \in Ids : BeginStop(r, d)
  \/ \E r \in Watchers, doc \in Documents : BeginPoll(r, doc)
  \/ \E d \in Ids : PutAccepted(d) \/ PutRefused(d)
  \/ RunnerMoves

Spec == Init /\ [][Next]_vars

(* A page that shows the latest deployment of its document in progress polls it,
   and not every poll of it meets a runner out of reach or a dying server. *)
PollInProgress(r, doc) ==
  BeginPoll(r, doc) /\ \E d \in Rows(doc) : IsLatest(d) /\ status[d] \in InProgress

FairSpec ==
  /\ Spec
  /\ \A r \in Watchers : /\ WF_vars(Continue(r))
                         /\ \A doc \in Documents : SF_vars(PollInProgress(r, doc))
                         /\ \A d \in Ids : SF_vars(req[r].dep = d /\ Reply(r))

-----------------------------------------------------------------------------
\* Every variable holds a value of its type; a row's status is a DeploymentStatus.
TypeOK ==
  /\ documents \subseteq Documents
  /\ created \in 0..MaxDeployments
  /\ status \in [Ids -> Status \cup {"none"}]
  /\ document \in [Ids -> Documents \cup {NoDocument}]
  /\ ended \subseteq Ids /\ sent \subseteq Ids
  /\ runner \in [Ids -> Status \cup {"unknown"}]
  /\ req \in [Requests ->
       [doc : Documents \cup {NoDocument}, dep : {0} \cup Ids, todo : SUBSET Ids,
        got : Status \cup {"none"},
        at : {"idle", "lock", "replaced", "counted", "stopping", "put", "accepted", "refused",
              "poll", "save", "stop", "stopped", "cleanup", "cascade"}]]

\* The rows that have been active ever since they were created.
Live == {d \in Ids : status[d] \in Active /\ d \notin ended}

(* "Serialize concurrent starts of one organization so the quota cannot be
   raced": however starts, stops, polls and deletions overlap, the deployments
   that were never failed or stopped stay within the organization's quota. *)
LiveWithinQuota == Cardinality(Live) <= MaxActive

(* A start "replaces the document's active deployment": only the newest
   deployment of a document can be one that was never stopped or failed, so
   the poll, which looks at the newest alone, misses none of them. *)
LiveIsLatest == \A d \in Live : IsLatest(d)

ActiveDocuments == {document[d] : d \in {e \in Ids : status[e] \in Active}}

(* The quota as its users see it: the documents with an active deployment.  A
   row that was stopped and is saved as active again is counted too. *)
QuotaCannotBeRaced == Cardinality(ActiveDocuments) <= MaxActive

(* "The runner is the source of truth": a deployment that is the latest of its
   document and in progress in the database does not stay so when the runner
   has ended or lost it, whatever its own start, a crash or a stop did. *)
LatestSettles ==
  \A d \in Ids :
    IsLatest(d) /\ status[d] \in InProgress /\ runner[d] \notin Active
      ~> ~IsLatest(d) \/ status[d] \notin InProgress \/ runner[d] \in Active
=============================================================================
