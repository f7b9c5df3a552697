------------------------- MODULE Deployments_proofs -------------------------
(***************************************************************************)
(* The quota of an organization and the newest deployment of a document,   *)
(* for any number of documents, deployments, server threads and any quota: *)
(* what the lock of a start protects, and what the unlocked saves cannot   *)
(* spoil, since they only bring back rows that were stopped before.        *)
(***************************************************************************)
EXTENDS Deployments, FiniteSetTheorems, TLAPS

\* A thread is in the transaction of a start, with the organization locked.
InSection(r) == req[r].at \in {"replaced", "counted"}

\* What a request has read fits the step it is at.
FieldsFit ==
  \A r \in Requests :
    /\ req[r].at \in {"lock", "replaced", "counted", "cleanup", "cascade"} => req[r].doc \in Documents
    /\ req[r].at \in {"stopping", "put", "accepted", "refused", "poll", "save", "stop", "stopped"}
         => req[r].dep \in Ids
    /\ req[r].at = "save" => req[r].got \in Status

\* There is room in the bound for the rows of the starts under way.
RoomForStarts == created + Cardinality(Starting) <= MaxDeployments

\* The history holds every row that is failed or stopped, and no row is from the future.
RowsFit ==
  \A d \in Ids : /\ status[d] \in Over => d \in ended
                 /\ status[d] # "none" => d <= created

OneSection == \A q, r \in Requests : InSection(q) /\ InSection(r) => q = r

\* Inside the section, what was listed and counted covers every live row.
SectionCovers ==
  \A r \in Requests :
    /\ InSection(r) => /\ \A d \in Live : document[d] = req[r].doc => d \in req[r].todo
                       /\ \A d \in req[r].todo : d <= created
                       /\ req[r].doc \in documents =>
                            \A d \in req[r].todo : status[d] # "none" /\ document[d] = req[r].doc
    /\ req[r].at = "counted" =>
         Cardinality({d \in Live : document[d] # req[r].doc}) < MaxActive

IInv ==
  /\ TypeOK /\ FieldsFit /\ RoomForStarts /\ RowsFit
  /\ OneSection /\ SectionCovers /\ LiveWithinQuota /\ LiveIsLatest

\* The rows may change, but no row appears and none becomes live.
DbShrinks ==
  /\ created' = created
  /\ Live' \subseteq Live
  /\ RowsFit'
  /\ \A d \in Ids : status'[d] # "none" => status[d] # "none" /\ document'[d] = document[d]
  /\ documents' \subseteq documents
  /\ \A d \in Ids : status[d] # "none" /\ document[d] \in documents' =>
                      status'[d] # "none" /\ document'[d] = document[d]

\* A start commits its new row.
Inserts(r) == CommitStart(r) /\ req[r].doc \in documents

-----------------------------------------------------------------------------
LEMMA IdsFinite == IsFiniteSet(Ids)
BY FS_Interval, NumbersAssumption DEF Ids

\* Any set of ids has a size, and a part of it has no larger one.
LEMMA SizesOfIds ==
  ASSUME NEW S \in SUBSET Ids, NEW T \in SUBSET S
  PROVE  Cardinality(S) \in Nat /\ Cardinality(T) \in Nat /\ Cardinality(T) <= Cardinality(S)
<1>1. IsFiniteSet(S) BY IdsFinite, FS_Subset
<1>2. IsFiniteSet(T) BY <1>1, FS_Subset
<1> QED BY <1>1, <1>2, FS_CardinalityType, FS_Subset

\* Threads can be counted.
LEMMA SizesOfThreads ==
  ASSUME NEW S \in SUBSET Requests, NEW T \in SUBSET S
  PROVE  /\ IsFiniteSet(S) /\ IsFiniteSet(T)
         /\ Cardinality(S) \in Nat /\ Cardinality(T) \in Nat /\ Cardinality(T) <= Cardinality(S)
<1>1. IsFiniteSet(S) BY RequestsAssumption, FS_Subset
<1>2. IsFiniteSet(T) BY <1>1, FS_Subset
<1> QED BY <1>1, <1>2, FS_CardinalityType, FS_Subset

\* With no rows and no requests, nothing has to be shown but the types.
LEMMA InitInv == Init => IInv
<1> SUFFICES ASSUME Init PROVE IInv
  OBVIOUS
<1> USE DEF Init, Idle
<1>1. Live = {} /\ Starting = {}
  BY ActiveAssumption DEF Live, Starting
<1>2. Cardinality(Live) = 0 /\ Cardinality(Starting) = 0
  BY <1>1, FS_EmptySet
<1>3. TypeOK
  BY NumbersAssumption DEF TypeOK, View!Init, Status, Requests
<1>4. FieldsFit /\ OneSection /\ RowsFit
  BY DEF FieldsFit, OneSection, RowsFit, InSection, Over
<1>5. RoomForStarts /\ LiveWithinQuota
  BY <1>2, NumbersAssumption DEF RoomForStarts, LiveWithinQuota
<1>6. SectionCovers /\ LiveIsLatest
  BY <1>1 DEF SectionCovers, LiveIsLatest, InSection
<1> QED BY <1>3, <1>4, <1>5, <1>6 DEF IInv

-----------------------------------------------------------------------------
\* The only saves a thread makes without the lock bring no row to life.
LEMMA SaveShrinks ==
  ASSUME TypeOK, RowsFit, NEW d \in Ids, NEW s \in Status, Save(d, s)
  PROVE  /\ DbShrinks
         /\ status' \in [Ids -> Status \cup {"none"}] /\ ended' \subseteq Ids
         /\ UNCHANGED <<documents, created, document>>
<1> USE DEF Save, TypeOK
<1>1. status' \in [Ids -> Status \cup {"none"}] /\ ended' \subseteq Ids
  OBVIOUS
<1>2. \A e \in Ids : /\ status'[e] # "none" <=> status[e] # "none"
                     /\ e # d => status'[e] = status[e]
                     /\ status'[e] \in Over => e \in ended'
                     /\ e \in ended => e \in ended'
  BY ActiveAssumption DEF RowsFit, Status, Over
<1>3. Live' \subseteq Live
  <2> SUFFICES ASSUME NEW e \in Ids, status'[e] \in Active, e \notin ended'
               PROVE  status[e] \in Active
    BY <1>2 DEF Live
  <2>1. CASE e # d
    BY <1>2, <2>1
  <2>2. CASE e = d
    BY <1>2, <2>2, ActiveAssumption DEF RowsFit, Status
  <2> QED BY <2>1, <2>2
<1>4. RowsFit'
  BY <1>2 DEF RowsFit
<1> QED BY <1>1, <1>2, <1>3, <1>4 DEF DbShrinks

\* A step that leaves the rows alone brings nothing to life.
LEMMA UnchangedShrinks == RowsFit /\ UNCHANGED dbVars => DbShrinks
BY DEF DbShrinks, RowsFit, Live, dbVars

\* Apart from the commit of a start, no step adds a row or brings one to life.
LEMMA DbStep ==
  ASSUME TypeOK, FieldsFit, RowsFit, [Next]_vars
  PROVE  DbShrinks \/ \E r \in Requests : Inserts(r)
<1>1. ASSUME NEW r \in Requests, SaveStarted(r) PROVE DbShrinks
  <2>1. req[r].dep \in Ids
    BY <1>1 DEF SaveStarted, FieldsFit
  <2>2. PICK s \in {"building", "failed"} : Save(req[r].dep, s)
    BY <1>1 DEF SaveStarted
  <2> QED BY <2>1, <2>2, SaveShrinks, ActiveAssumption DEF Status, Over
<1>2. ASSUME NEW r \in Requests, SaveReply(r) PROVE DbShrinks
  BY <1>2, SaveShrinks DEF SaveReply, FieldsFit, At
<1>3. ASSUME NEW r \in Requests, SaveStopped(r) PROVE DbShrinks
  <2>1. req[r].dep \in Ids /\ Save(req[r].dep, "stopped")
    BY <1>3 DEF SaveStopped, FieldsFit, At
  <2> QED BY <2>1, SaveShrinks DEF Status, Over
<1>4. ASSUME NEW r \in Requests, CommitDelete(r) PROVE DbShrinks
  <2>1. CASE UNCHANGED dbVars
    BY <2>1, UnchangedShrinks
  <2>2. CASE Rows(req[r].doc) \subseteq req[r].todo
    <3>1. /\ status' = [d \in Ids |-> IF d \in Rows(req[r].doc) THEN "none" ELSE status[d]]
          /\ document' = [d \in Ids |-> IF d \in Rows(req[r].doc) THEN NoDocument ELSE document[d]]
          /\ ended' = ended \ Rows(req[r].doc) /\ created' = created
          /\ documents' = documents \ {req[r].doc}
      BY <1>4, <2>2 DEF CommitDelete
    <3>2. \A d \in Rows(req[r].doc) : document[d] \notin documents'
      BY <3>1 DEF Rows
    <3> QED BY <3>1, <3>2, ActiveAssumption DEF DbShrinks, RowsFit, Live, Over
  <2> QED BY <1>4, <2>1, <2>2 DEF CommitDelete
<1>5. ASSUME NEW r \in Requests, CommitStart(r) PROVE DbShrinks \/ Inserts(r)
  BY <1>5, UnchangedShrinks DEF CommitStart, Inserts
<1>6. ASSUME NEW r \in Requests, Continue(r) PROVE DbShrinks \/ Inserts(r)
  <2>1. \/ UNCHANGED dbVars \/ CommitStart(r) \/ SaveStarted(r) \/ SaveReply(r)
        \/ SaveStopped(r) \/ CommitDelete(r)
    BY <1>6 DEF Continue, LockAndRead, CountOthers, StopNext, SendPut, GiveUp, Reply, NoReply,
                CallStop, Cascade
  <2> QED BY <2>1, <1>1, <1>2, <1>3, <1>4, <1>5, UnchangedShrinks
<1>7. CASE UNCHANGED vars
  BY <1>7, UnchangedShrinks DEF vars
<1>8. CASE Next
  <2>1. UNCHANGED dbVars \/ \E r \in Requests : Continue(r)
    BY <1>8 DEF Next, Crash, BeginStart, BeginDelete, BeginStop, BeginPoll, PutAccepted, PutRefused,
                RunnerMoves
  <2> QED BY <2>1, <1>6, UnchangedShrinks
<1> QED BY <1>7, <1>8

-----------------------------------------------------------------------------
\* A deletion of rows leaves rows of the right types.
LEMMA DeleteTypes ==
  ASSUME TypeOK, NEW r \in Requests, CommitDelete(r)
  PROVE  /\ documents' \subseteq Documents /\ created' = created /\ ended' \subseteq Ids
         /\ status' \in [Ids -> Status \cup {"none"}]
         /\ document' \in [Ids -> Documents \cup {NoDocument}]
<1>1. CASE UNCHANGED dbVars
  BY <1>1 DEF dbVars, TypeOK
<1>2. CASE Rows(req[r].doc) \subseteq req[r].todo
  BY <1>2 DEF CommitDelete, TypeOK
<1> QED BY <1>1, <1>2 DEF CommitDelete

\* A new row has an id within the bound, and the replaced ones are stopped.
LEMMA InsertTypes ==
  ASSUME TypeOK, FieldsFit, RoomForStarts, NEW r \in Requests, Inserts(r)
  PROVE  /\ created' = created + 1 /\ created' \in Ids
         /\ status' \in [Ids -> Status \cup {"none"}]
         /\ document' \in [Ids -> Documents \cup {NoDocument}]
         /\ ended' \subseteq Ids /\ documents' = documents
         /\ req' = [req EXCEPT ![r].at = "stopping", ![r].dep = created + 1, ![r].doc = NoDocument]
         /\ sent' = sent /\ runner' = runner
<1>1. /\ created' = created + 1
      /\ status' = [d \in Ids |-> IF d = created + 1 THEN "queued"
                                  ELSE IF d \in req[r].todo THEN "stopped" ELSE status[d]]
      /\ document' = [document EXCEPT ![created + 1] = req[r].doc]
      /\ ended' = ended \cup req[r].todo /\ documents' = documents
      /\ req' = [req EXCEPT ![r].at = "stopping", ![r].dep = created + 1, ![r].doc = NoDocument]
      /\ sent' = sent /\ runner' = runner /\ req[r].at = "counted"
  BY DEF Inserts, CommitStart, Insert, At
<1>2. req[r].doc \in Documents /\ req[r].todo \subseteq Ids
  BY <1>1 DEF FieldsFit, TypeOK
<1>3. created + 1 \in Ids
  <2>1. {r} \subseteq Starting /\ Starting \subseteq Requests
    BY <1>1 DEF Starting
  <2>2. Cardinality({r}) <= Cardinality(Starting) /\ Cardinality(Starting) \in Nat
    BY <2>1, SizesOfThreads
  <2>3. Cardinality({r}) = 1
    BY FS_Singleton
  <2> QED BY <2>2, <2>3, NumbersAssumption DEF RoomForStarts, TypeOK, Ids
<1> QED BY <1>1, <1>2, <1>3, ActiveAssumption DEF TypeOK, Status, Over

\* The rows have the types TypeOK gives them, whatever a step saves.
LEMMA RowTypes ==
  ASSUME TypeOK, FieldsFit, RowsFit, RoomForStarts, [Next]_vars
  PROVE  /\ documents' \subseteq Documents /\ created' \in 0..MaxDeployments /\ ended' \subseteq Ids
         /\ status' \in [Ids -> Status \cup {"none"}]
         /\ document' \in [Ids -> Documents \cup {NoDocument}]
<1> DEFINE Typed == /\ documents' \subseteq Documents /\ created' \in 0..MaxDeployments
                    /\ ended' \subseteq Ids /\ status' \in [Ids -> Status \cup {"none"}]
                    /\ document' \in [Ids -> Documents \cup {NoDocument}]
<1>1. UNCHANGED dbVars => Typed
  BY DEF dbVars, TypeOK
<1>2. ASSUME NEW d \in Ids, NEW s \in Status, Save(d, s) PROVE Typed
  BY <1>2, SaveShrinks DEF TypeOK
<1>3. ASSUME NEW r \in Requests, SaveStarted(r) \/ SaveReply(r) \/ SaveStopped(r) PROVE Typed
  <2>1. req[r].dep \in Ids
    BY <1>3 DEF SaveStarted, SaveReply, SaveStopped, FieldsFit, At
  <2>2. PICK s \in Status : Save(req[r].dep, s)
    BY <1>3, ActiveAssumption DEF SaveStarted, SaveReply, SaveStopped, FieldsFit, At, Status, Over
  <2> QED BY <2>1, <2>2, <1>2
<1>4. ASSUME NEW r \in Requests, CommitDelete(r) PROVE Typed
  BY <1>4, DeleteTypes DEF TypeOK
<1>5. ASSUME NEW r \in Requests, CommitStart(r) PROVE Typed
  <2>1. CASE Inserts(r)
    <3>1. /\ created' \in Ids /\ documents' = documents /\ ended' \subseteq Ids
          /\ status' \in [Ids -> Status \cup {"none"}]
          /\ document' \in [Ids -> Documents \cup {NoDocument}]
      BY <2>1, InsertTypes
    <3>2. created' \in 0..MaxDeployments
      BY <3>1, NumbersAssumption DEF Ids
    <3>3. documents' \subseteq Documents
      BY <3>1 DEF TypeOK
    <3> QED BY <3>1, <3>2, <3>3
  <2>2. CASE ~Inserts(r)
    BY <1>5, <2>2, <1>1 DEF Inserts, CommitStart
  <2> QED BY <2>1, <2>2
<1>6. ASSUME NEW r \in Requests, Continue(r) PROVE Typed
  <2>1. \/ UNCHANGED dbVars \/ CommitStart(r) \/ SaveStarted(r) \/ SaveReply(r)
        \/ SaveStopped(r) \/ CommitDelete(r)
    BY <1>6 DEF Continue, LockAndRead, CountOthers, StopNext, SendPut, GiveUp, Reply, NoReply,
                CallStop, Cascade
  <2> QED BY <2>1, <1>1, <1>3, <1>4, <1>5
<1>7. UNCHANGED dbVars \/ \E r \in Requests : Continue(r)
  BY DEF Next, Crash, BeginStart, BeginDelete, BeginStop, BeginPoll, PutAccepted, PutRefused,
         RunnerMoves, vars
<1> QED BY <1>1, <1>6, <1>7

\* The runner answers one of its statuses or a 404.
LEMMA RunnerTypes ==
  ASSUME TypeOK, FieldsFit, [Next]_vars
  PROVE  runner' \in [Ids -> Status \cup {"unknown"}]
<1> USE DEF TypeOK
<1>1. UNCHANGED runner => runner' \in [Ids -> Status \cup {"unknown"}]
  OBVIOUS
<1>2. \A d \in Ids : RunnerStops(d) => runner' \in [Ids -> Status \cup {"unknown"}]
  BY DEF RunnerStops, Status, Over
<1>3. ASSUME NEW r \in Requests, Continue(r) PROVE UNCHANGED runner \/ \E d \in Ids : RunnerStops(d)
  <2>1. CASE StopNext(r)
    BY <2>1 DEF StopNext
  <2>2. CASE CallStop(r)
    BY <2>2 DEF CallStop, FieldsFit, At
  <2>3. CASE ~StopNext(r) /\ ~CallStop(r)
    BY <1>3, <2>3 DEF Continue, LockAndRead, CountOthers, CommitStart, SendPut, View!Put, GiveUp,
                      SaveStarted, Reply, NoReply, SaveReply, SaveStopped, Cascade, CommitDelete
  <2> QED BY <2>1, <2>2, <2>3
<1>4. ASSUME NEW d \in Ids, View!Accept(d) \/ View!Change(d) \/ View!Forget(d) \/ View!Lose
      PROVE  runner' \in [Ids -> Status \cup {"unknown"}]
  BY <1>4, ReportedAssumption DEF View!Accept, View!Change, View!Forget, View!Lose, Status, Over
<1>5. CASE \E d \in Ids : PutAccepted(d)
  BY <1>5, <1>4 DEF PutAccepted
<1>6. CASE RunnerMoves
  <2>1. View!Lose => runner' \in [Ids -> Status \cup {"unknown"}]
    BY DEF View!Lose
  <2> QED BY <1>6, <1>4, <2>1 DEF RunnerMoves
<1>7. \/ UNCHANGED runner \/ (\E r \in Requests : Continue(r))
      \/ (\E d \in Ids : PutAccepted(d)) \/ RunnerMoves
  BY DEF Next, Crash, BeginStart, BeginDelete, BeginStop, BeginPoll, PutRefused, View!Refuse, vars
<1> QED BY <1>1, <1>2, <1>3, <1>5, <1>6, <1>7

\* What requests carry, written out: the record type of TypeOK.
Request ==
  [doc : Documents \cup {NoDocument}, dep : {0} \cup Ids, todo : SUBSET Ids,
   got : Status \cup {"none"},
   at : {"idle", "lock", "replaced", "counted", "stopping", "put", "accepted", "refused",
         "poll", "save", "stop", "stopped", "cleanup", "cascade"}]

\* What FieldsFit asks of one request.
Fits(q) ==
  /\ q.at \in {"lock", "replaced", "counted", "cleanup", "cascade"} => q.doc \in Documents
  /\ q.at \in {"stopping", "put", "accepted", "refused", "poll", "save", "stop", "stopped"}
       => q.dep \in Ids
  /\ q.at = "save" => q.got \in Status

LEMMA IdleFits == Idle \in Request /\ Fits(Idle)
BY DEF Idle, Request, Fits

\* The steps of a request keep what it carries typed and fitting.
LEMMA ReqTypes ==
  ASSUME TypeOK, FieldsFit, RoomForStarts, [Next]_vars
  PROVE  req' \in [Requests -> Request] /\ FieldsFit'
<1> DEFINE Good == req' \in [Requests -> Request] /\ \A q \in Requests : Fits(req'[q])
<1>0. req \in [Requests -> Request] /\ \A q \in Requests : Fits(req[q])
  BY DEF TypeOK, FieldsFit, Request, Fits
<1>1. ASSUME NEW r \in Requests, NEW q \in Request, Fits(q), req' = [req EXCEPT ![r] = q] PROVE Good
  BY <1>0, <1>1
<1>2. ASSUME NEW r \in Requests, End(r) PROVE Good
  BY <1>1, <1>2, IdleFits DEF End
<1>3. ASSUME req' = req PROVE Good
  <2>1. req' \in [Requests -> Request]
    BY <1>0, <1>3
  <2>2. ASSUME NEW q \in Requests PROVE Fits(req'[q])
    <3>1. Fits(req[q]) /\ req'[q] = req[q]
      BY <1>0, <1>3
    <3> QED BY <3>1 DEF Fits
  <2> QED BY <2>1, <2>2
<1>4. ASSUME NEW r \in Requests, NEW doc \in Documents, BeginStart(r, doc) PROVE Good
  BY <1>1, <1>4 DEF BeginStart, Begin, Idle, Request, Fits
<1>5. ASSUME NEW r \in Requests, NEW doc \in Documents, BeginDelete(r, doc) PROVE Good
  BY <1>1, <1>5 DEF BeginDelete, Begin, Idle, Request, Fits, ActiveRows, Rows
<1>6. ASSUME NEW r \in Requests, NEW d \in Ids, BeginStop(r, d) PROVE Good
  BY <1>1, <1>6 DEF BeginStop, Begin, Idle, Request, Fits
<1>7. ASSUME NEW r \in Requests, NEW doc \in Documents, BeginPoll(r, doc) PROVE Good
  <2>1. PICK d \in ActiveRows(doc) : Begin(r, [Idle EXCEPT !.at = "poll", !.dep = d])
    BY <1>7 DEF BeginPoll
  <2>2. d \in Ids
    BY DEF ActiveRows, Rows
  <2> QED BY <1>1, <2>1, <2>2 DEF Begin, Idle, Request, Fits
<1>8. ASSUME NEW r \in Requests, Continue(r) PROVE Good
  <2> USE <1>0
  <2>1. CASE LockAndRead(r)
    <3> DEFINE q == [req[r] EXCEPT !.at = "replaced", !.todo = ActiveRows(req[r].doc)]
    <3>1. req' = [req EXCEPT ![r] = q]
      BY <2>1 DEF LockAndRead
    <3>2. ActiveRows(req[r].doc) \in SUBSET Ids
      BY DEF ActiveRows, Rows
    <3>3. req[r] \in Request /\ req[r].at = "lock" /\ Fits(req[r])
      BY <2>1 DEF LockAndRead, At
    <3>4. q \in Request
      BY <3>2, <3>3 DEF Request
    <3>5. Fits(q)
      BY <3>3 DEF Fits, Request
    <3> QED BY <3>1, <3>4, <3>5, <1>1
  <2>2. CASE CountOthers(r)
    BY <2>2, <1>2 DEF CountOthers, At, Goto, Request, Fits
  <2>3. CASE CommitStart(r)
    <3>1. CASE Inserts(r)
      <4> DEFINE q == [req[r] EXCEPT !.at = "stopping", !.dep = created + 1, !.doc = NoDocument]
      <4>1. req' = [req EXCEPT ![r] = q] /\ created + 1 \in Ids
        BY <3>1, InsertTypes
      <4>2. q \in Request /\ Fits(q)
        BY <4>1 DEF Request, Fits
      <4> QED BY <4>1, <4>2, <1>1
    <3>2. CASE ~Inserts(r)
      BY <2>3, <3>2, <1>2 DEF CommitStart, Inserts
    <3> QED BY <3>1, <3>2
  <2>4. CASE StopNext(r)
    BY <2>4 DEF StopNext, Request, Fits
  <2>5. CASE SendPut(r)
    BY <2>5 DEF SendPut, At, Goto, Request, Fits
  <2>6. CASE GiveUp(r)
    BY <2>6 DEF GiveUp, Goto, Request, Fits
  <2>7. CASE SaveStarted(r) \/ NoReply(r) \/ SaveReply(r) \/ SaveStopped(r) \/ CommitDelete(r)
    BY <2>7, <1>2 DEF SaveStarted, NoReply, SaveReply, SaveStopped, CommitDelete
  <2>8. CASE Reply(r)
    <3>1. req[r].dep \in Ids /\ runner[req[r].dep] \in Status \cup {"unknown"} /\ "stopped" \in Status
      BY <2>8 DEF Reply, At, Fits, TypeOK, Status, Over
    <3>2. PICK s \in Status : req' = [req EXCEPT ![r].at = "save", ![r].got = s]
      BY <2>8, <3>1 DEF Reply
    <3> DEFINE q == [req[r] EXCEPT !.at = "save", !.got = s]
    <3>3. q \in Request /\ Fits(q)
      BY <3>1 DEF Request, Fits
    <3> QED BY <3>2, <3>3, <1>1
  <2>9. CASE CallStop(r)
    BY <2>9 DEF CallStop, At, Goto, Request, Fits
  <2>10. CASE Cascade(r)
    <3> DEFINE q == [req[r] EXCEPT !.at = "cascade", !.todo = Rows(req[r].doc)]
    <3>1. req' = [req EXCEPT ![r] = q]
      BY <2>10 DEF Cascade
    <3>2. Rows(req[r].doc) \in SUBSET Ids
      BY DEF Rows
    <3>3. req[r] \in Request /\ req[r].at = "cleanup" /\ Fits(req[r])
      BY <2>10 DEF Cascade, At
    <3>4. q \in Request
      BY <3>2, <3>3 DEF Request
    <3>5. Fits(q)
      BY <3>3 DEF Fits, Request
    <3> QED BY <3>1, <3>4, <3>5, <1>1
  <2> QED BY <1>8, <2>1, <2>2, <2>3, <2>4, <2>5, <2>6, <2>7, <2>8, <2>9, <2>10 DEF Continue
<1>9. ASSUME NEW r \in Requests, Crash(r) PROVE Good
  BY <1>9, <1>2 DEF Crash
<1>10. ASSUME NEW d \in Ids, PutAccepted(d) \/ PutRefused(d) PROVE Good
  <2>1. PICK at \in {"accepted", "refused"} : Answered(d, at)
    BY <1>10 DEF PutAccepted, PutRefused
  <2> QED BY <1>0, <2>1 DEF Answered, At, Request, Fits
<1>11. RunnerMoves => Good
  BY <1>3 DEF RunnerMoves
<1>12. Good
  <2> HIDE DEF Good
  <2>1. UNCHANGED vars => Good
    BY <1>3 DEF vars
  <2>2. Next => Good
    BY <1>4, <1>5, <1>6, <1>7, <1>8, <1>9, <1>10, <1>11 DEF Next, Requests
  <2> QED BY <2>1, <2>2
<1> QED BY <1>12 DEF FieldsFit, Fits

\* Every step keeps the type invariant and what requests have read fitting.
LEMMA TypePreserved ==
  TypeOK /\ FieldsFit /\ RowsFit /\ RoomForStarts /\ [Next]_vars => TypeOK' /\ FieldsFit'
<1> SUFFICES ASSUME TypeOK, FieldsFit, RowsFit, RoomForStarts, [Next]_vars
             PROVE  TypeOK' /\ FieldsFit'
  OBVIOUS
<1>1. req' \in [Requests -> Request] /\ FieldsFit'
  BY ReqTypes
<1>2. sent' \subseteq Ids
  <2>1. ASSUME NEW r \in Requests, SendPut(r) PROVE sent' \subseteq Ids
    BY <2>1 DEF SendPut, View!Put, At, FieldsFit, TypeOK
  <2>2. sent' \subseteq sent \/ \E r \in Requests : SendPut(r)
    BY DEF Next, Continue, LockAndRead, CountOthers, CommitStart, StopNext, GiveUp, SaveStarted, Reply,
           NoReply, SaveReply, CallStop, SaveStopped, Cascade, CommitDelete, Crash, BeginStart,
           BeginDelete, BeginStop, BeginPoll, PutAccepted, View!Accept, PutRefused, View!Refuse,
           RunnerMoves, View!Change, View!Forget, View!Lose, vars
  <2> QED BY <2>1, <2>2 DEF TypeOK
<1> QED BY <1>1, <1>2, RowTypes, RunnerTypes DEF TypeOK, Request

-----------------------------------------------------------------------------
(* How a request gets into the section and moves on in it: by taking the lock
   nobody holds, and by finding the quota not used up. *)
LEMMA SectionStep ==
  ASSUME TypeOK, [Next]_vars, NEW q \in Requests, InSection(q)'
  PROVE  /\ req'[q].doc = req[q].doc
         /\ \/ InSection(q) /\ req'[q] = req[q]
            \/ /\ req[q].at = "lock" /\ ~Locked /\ req'[q].at = "replaced"
               /\ req'[q].todo = ActiveRows(req[q].doc) /\ UNCHANGED dbVars
               /\ \A r \in Requests : r # q => req'[r] = req[r]
            \/ /\ req[q].at = "replaced" /\ req'[q].at = "counted" /\ req'[q].todo = req[q].todo
               /\ Cardinality(OtherActive(req[q].doc)) < MaxActive /\ UNCHANGED dbVars
               /\ \A r \in Requests : r # q => req'[r] = req[r]
<1> DEFINE Moved == 
         /\ req'[q].doc = req[q].doc
         /\ \/ InSection(q) /\ req'[q] = req[q]
            \/ /\ req[q].at = "lock" /\ ~Locked /\ req'[q].at = "replaced"
               /\ req'[q].todo = ActiveRows(req[q].doc) /\ UNCHANGED dbVars
               /\ \A r \in Requests : r # q => req'[r] = req[r]
            \/ /\ req[q].at = "replaced" /\ req'[q].at = "counted" /\ req'[q].todo = req[q].todo
               /\ Cardinality(OtherActive(req[q].doc)) < MaxActive /\ UNCHANGED dbVars
               /\ \A r \in Requests : r # q => req'[r] = req[r]
<1>0. req \in [Requests -> Request]
  BY DEF TypeOK, Request
<1>1. req'[q] = req[q] => Moved
  BY DEF InSection
<1>2. ASSUME NEW r \in Requests, NEW s \in Request, req' = [req EXCEPT ![r] = s],
             s.at \notin {"replaced", "counted"}
      PROVE  Moved
  BY <1>0, <1>1, <1>2 DEF InSection
<1>3. ASSUME NEW r \in Requests, End(r) PROVE Moved
  BY <1>2, <1>3, IdleFits DEF End, Idle
<1>4. ASSUME NEW r \in Requests, NEW doc \in Documents, BeginStart(r, doc) \/ BeginDelete(r, doc)
      PROVE  Moved
  BY <1>2, <1>4 DEF BeginStart, BeginDelete, Begin, Idle, Request, ActiveRows, Rows
<1>5. ASSUME NEW r \in Requests, NEW d \in Ids, BeginStop(r, d) PROVE Moved
  BY <1>2, <1>5 DEF BeginStop, Begin, Idle, Request
<1>6. ASSUME NEW r \in Requests, NEW doc \in Documents, BeginPoll(r, doc) PROVE Moved
  <2>1. PICK d \in ActiveRows(doc) : Begin(r, [Idle EXCEPT !.at = "poll", !.dep = d])
    BY <1>6 DEF BeginPoll
  <2>2. d \in Ids
    BY DEF ActiveRows, Rows
  <2> QED BY <1>2, <2>1, <2>2 DEF Begin, Idle, Request
<1>7. ASSUME NEW r \in Requests, Continue(r) PROVE Moved
  <2>0. \A e \in Requests : e # r /\ (\E s : req' = [req EXCEPT ![r] = s]) => req'[e] = req[e]
    BY <1>0
  <2>1. CASE LockAndRead(r)
    <3>1. /\ req[r].at = "lock" /\ ~Locked /\ UNCHANGED dbVars
          /\ req'[r].at = "replaced" /\ req'[r].todo = ActiveRows(req[r].doc) /\ req'[r].doc = req[r].doc
          /\ \A e \in Requests : e # r => req'[e] = req[e]
      BY <1>0, <2>1 DEF LockAndRead, At, Request
    <3> QED BY <3>1, <1>1
  <2>2. CASE CountOthers(r)
    <3>1. CASE End(r)
      BY <3>1, <1>3
    <3>2. CASE ~(Cardinality(OtherActive(req[r].doc)) >= MaxActive) /\ Goto(r, "counted")
      <4>1. Cardinality(OtherActive(req[r].doc)) < MaxActive
        <5>1. OtherActive(req[r].doc) \subseteq Ids
          BY DEF OtherActive
        <5> QED BY <5>1, <3>2, SizesOfIds, NumbersAssumption
      <4>2. /\ req[r].at = "replaced" /\ UNCHANGED dbVars
            /\ req'[r].at = "counted" /\ req'[r].todo = req[r].todo /\ req'[r].doc = req[r].doc
            /\ \A e \in Requests : e # r => req'[e] = req[e]
        BY <1>0, <2>2, <3>2 DEF CountOthers, At, Goto, Request
      <4> QED BY <4>1, <4>2, <1>1
    <3> QED BY <2>2, <3>1, <3>2 DEF CountOthers
  <2>3. CASE CommitStart(r)
    <3>1. CASE End(r)
      BY <3>1, <1>3
    <3>2. CASE Insert(r, req[r].todo)
      <4>1. /\ req'[r].at = "stopping" /\ \A e \in Requests : e # r => req'[e] = req[e]
        BY <1>0, <3>2 DEF Insert, Request
      <4> QED BY <4>1, <1>1 DEF InSection
    <3> QED BY <2>3, <3>1, <3>2 DEF CommitStart
  <2>4. CASE StopNext(r)
    <3>1. /\ req'[r].at \in {"stopping", "cleanup"} /\ \A e \in Requests : e # r => req'[e] = req[e]
      BY <1>0, <2>4 DEF StopNext, Request
    <3> QED BY <3>1, <1>1 DEF InSection
  <2>5. CASE SendPut(r) \/ GiveUp(r) \/ CallStop(r)
    <3>1. /\ req'[r].at \in {"put", "refused", "stopped"} /\ \A e \in Requests : e # r => req'[e] = req[e]
      BY <1>0, <2>5 DEF SendPut, GiveUp, CallStop, Goto, Request
    <3> QED BY <3>1, <1>1 DEF InSection
  <2>6. CASE Reply(r) \/ Cascade(r)
    <3>1. /\ req'[r].at \in {"save", "cascade"} /\ \A e \in Requests : e # r => req'[e] = req[e]
      BY <1>0, <2>6 DEF Reply, Cascade, Request
    <3> QED BY <3>1, <1>1 DEF InSection
  <2>7. CASE SaveStarted(r) \/ NoReply(r) \/ SaveReply(r) \/ SaveStopped(r) \/ CommitDelete(r)
    BY <2>7, <1>3 DEF SaveStarted, NoReply, SaveReply, SaveStopped, CommitDelete
  <2> QED BY <1>7, <2>1, <2>2, <2>3, <2>4, <2>5, <2>6, <2>7 DEF Continue
<1>8. ASSUME NEW r \in Requests, Crash(r) PROVE Moved
  BY <1>8, <1>3 DEF Crash
<1>9. ASSUME NEW d \in Ids, PutAccepted(d) \/ PutRefused(d) PROVE Moved
  <2>1. PICK at \in {"accepted", "refused"} : Answered(d, at)
    BY <1>9 DEF PutAccepted, PutRefused
  <2>2. req'[q] = req[q] \/ req'[q].at = at
    BY <1>0, <2>1 DEF Answered, Request
  <2> QED BY <2>2, <1>1 DEF InSection
<1>10. RunnerMoves \/ UNCHANGED vars => Moved
  BY <1>1 DEF RunnerMoves, vars
<1>11. Moved
  BY <1>4, <1>5, <1>6, <1>7, <1>8, <1>9, <1>10 DEF Next, Requests
<1> QED BY <1>11

\* A request comes to wait for the lock only by beginning a start.
LEMMA LockStep ==
  ASSUME TypeOK, [Next]_vars, NEW q \in Requests, req'[q].at = "lock"
  PROVE  req'[q] = req[q] \/ \E doc \in Documents : BeginStart(q, doc)
<1> DEFINE Old == req'[q] = req[q] \/ \E doc \in Documents : BeginStart(q, doc)
<1>0. req \in [Requests -> Request]
  BY DEF TypeOK, Request
<1>1. ASSUME NEW r \in Requests, NEW s \in Request, req' = [req EXCEPT ![r] = s], s.at # "lock"
      PROVE  Old
  BY <1>0, <1>1
<1>2. ASSUME NEW r \in Requests, End(r) PROVE Old
  BY <1>1, <1>2, IdleFits DEF End, Idle
<1>3. ASSUME NEW r \in Requests, NEW doc \in Documents, BeginStart(r, doc) PROVE Old
  BY <1>0, <1>3 DEF BeginStart, Begin
<1>4. ASSUME NEW r \in Requests, NEW doc \in Documents, BeginDelete(r, doc) PROVE Old
  <2>1. req'[r].at = "cleanup" /\ \A e \in Requests : e # r => req'[e] = req[e]
    BY <1>0, <1>4 DEF BeginDelete, Begin, Idle
  <2> QED BY <2>1
<1>5. ASSUME NEW r \in Requests, NEW d \in Ids, BeginStop(r, d) PROVE Old
  BY <1>1, <1>5 DEF BeginStop, Begin, Idle, Request
<1>6. ASSUME NEW r \in Requests, NEW doc \in Documents, BeginPoll(r, doc) PROVE Old
  <2>1. PICK d \in ActiveRows(doc) : Begin(r, [Idle EXCEPT !.at = "poll", !.dep = d])
    BY <1>6 DEF BeginPoll
  <2>2. d \in Ids
    BY DEF ActiveRows, Rows
  <2> QED BY <1>1, <2>1, <2>2 DEF Begin, Idle, Request
<1>7. ASSUME NEW r \in Requests, Continue(r) PROVE Old
  <2>1. CASE End(r)
    BY <2>1, <1>2
  <2>2. CASE ~End(r)
    <3>1. req'[r].at # "lock" /\ \A e \in Requests : e # r => req'[e] = req[e]
      <4>1. CASE LockAndRead(r)
        BY <1>0, <4>1 DEF LockAndRead, Request
      <4>2. CASE CountOthers(r) \/ SendPut(r) \/ GiveUp(r) \/ CallStop(r)
        BY <1>0, <2>2, <4>2 DEF CountOthers, SendPut, GiveUp, CallStop, Goto, Request
      <4>3. CASE CommitStart(r)
        BY <1>0, <2>2, <4>3 DEF CommitStart, Insert, Request
      <4>4. CASE StopNext(r)
        BY <1>0, <4>4 DEF StopNext, Request
      <4>5. CASE Reply(r)
        BY <1>0, <4>5 DEF Reply, Request
      <4>6. CASE Cascade(r)
        BY <1>0, <4>6 DEF Cascade, Request
      <4> QED BY <1>7, <2>2, <4>1, <4>2, <4>3, <4>4, <4>5, <4>6
              DEF Continue, SaveStarted, NoReply, SaveReply, SaveStopped, CommitDelete
    <3> QED BY <3>1
  <2> QED BY <2>1, <2>2
<1>8. ASSUME NEW r \in Requests, Crash(r) PROVE Old
  BY <1>8, <1>2 DEF Crash
<1>9. ASSUME NEW d \in Ids, PutAccepted(d) \/ PutRefused(d) PROVE Old
  <2>1. PICK at \in {"accepted", "refused"} : Answered(d, at)
    BY <1>9 DEF PutAccepted, PutRefused
  <2> QED BY <1>0, <2>1 DEF Answered, Request
<1>10. RunnerMoves \/ UNCHANGED vars => Old
  BY DEF RunnerMoves, vars
<1>11. Old
  <2> HIDE DEF Old
  <2> QED BY <1>3, <1>4, <1>5, <1>6, <1>7, <1>8, <1>9, <1>10 DEF Next, Requests
<1> QED BY <1>11

\* A start begins only when there is room, and a commit gives its place to the row.
LEMMA RoomPreserved ==
  TypeOK /\ FieldsFit /\ RowsFit /\ RoomForStarts /\ [Next]_vars => RoomForStarts'
<1> SUFFICES ASSUME TypeOK, FieldsFit, RowsFit, RoomForStarts, [Next]_vars PROVE RoomForStarts'
  OBVIOUS
<1>0. created \in Nat /\ MaxDeployments \in Nat /\ req \in [Requests -> Request]
  BY NumbersAssumption DEF TypeOK, Request
<1>1. Starting \subseteq Requests /\ Starting' \subseteq Requests
  BY DEF Starting
<1>2. \A q \in Starting' : q \in Starting \/ \E doc \in Documents : BeginStart(q, doc)
  <2> SUFFICES ASSUME NEW q \in Starting' PROVE q \in Starting \/ \E doc \in Documents : BeginStart(q, doc)
    OBVIOUS
  <2>1. q \in Requests /\ req'[q].at \in {"lock", "replaced", "counted"}
    BY DEF Starting
  <2>2. CASE req'[q].at = "lock"
    BY <2>1, <2>2, LockStep DEF Starting
  <2>3. CASE InSection(q)'
    BY <2>1, <2>3, SectionStep DEF Starting, InSection
  <2> QED BY <2>1, <2>2, <2>3 DEF InSection
<1>3. CASE \E r \in Requests, doc \in Documents : BeginStart(r, doc)
  <2>1. PICK r \in Requests, doc \in Documents : BeginStart(r, doc)
    BY <1>3
  <2>2. /\ created' = created /\ created + Cardinality(Starting) < MaxDeployments
        /\ \A e \in Requests : e # r => req'[e] = req[e]
    BY <1>0, <2>1 DEF BeginStart, Begin, dbVars
  <2>3. Starting' \subseteq Starting \cup {r}
    BY <2>2 DEF Starting
  <2>4. IsFiniteSet(Starting) /\ Cardinality(Starting) \in Nat
    BY <1>1, SizesOfThreads
  <2>5. Cardinality(Starting \cup {r}) \in Nat /\ Cardinality(Starting \cup {r}) <= Cardinality(Starting) + 1
    BY <2>4, FS_AddElement
  <2>6. Cardinality(Starting') \in Nat /\ Cardinality(Starting') <= Cardinality(Starting \cup {r})
    <3>1. Starting \cup {r} \in SUBSET Requests
      BY <1>1
    <3> QED BY <3>1, <2>3, SizesOfThreads
  <2> QED BY <1>0, <2>2, <2>4, <2>5, <2>6 DEF RoomForStarts
<1>4. CASE ~ \E r \in Requests, doc \in Documents : BeginStart(r, doc)
  <2>1. Starting' \subseteq Starting
    BY <1>1, <1>2, <1>4
  <2>2. CASE DbShrinks
    <3>1. Cardinality(Starting') \in Nat /\ Cardinality(Starting) \in Nat
          /\ Cardinality(Starting') <= Cardinality(Starting)
      BY <1>1, <2>1, SizesOfThreads
    <3> QED BY <1>0, <2>2, <3>1 DEF DbShrinks, RoomForStarts
  <2>3. CASE \E r \in Requests : Inserts(r)
    <3>1. PICK r \in Requests : Inserts(r)
      BY <2>3
    <3>2. created' = created + 1 /\ req'[r].at = "stopping" /\ req[r].at = "counted"
      <4>1. created' = created + 1
            /\ req' = [req EXCEPT ![r].at = "stopping", ![r].dep = created + 1, ![r].doc = NoDocument]
        BY <3>1, InsertTypes
      <4> QED BY <1>0, <3>1, <4>1 DEF Inserts, CommitStart, At, Request
    <3>3. r \in Starting /\ Starting' \subseteq Starting \ {r}
      BY <2>1, <3>2 DEF Starting
    <3>4. IsFiniteSet(Starting) /\ Cardinality(Starting) \in Nat
      BY <1>1, SizesOfThreads
    <3>5. Cardinality(Starting \ {r}) = Cardinality(Starting) - 1
      BY <3>3, <3>4, FS_RemoveElement
    <3>6. Cardinality(Starting') \in Nat /\ Cardinality(Starting') <= Cardinality(Starting \ {r})
      <4>1. Starting \ {r} \in SUBSET Requests
        BY <1>1
      <4> QED BY <4>1, <3>3, SizesOfThreads
    <3> QED BY <1>0, <3>2, <3>4, <3>5, <3>6 DEF RoomForStarts
  <2> QED BY <2>2, <2>3, DbStep
<1> QED BY <1>3, <1>4

-----------------------------------------------------------------------------
\* What the commit of a start makes of the rows.
LEMMA InsertStep ==
  ASSUME TypeOK, FieldsFit, RoomForStarts, NEW r \in Requests, Inserts(r)
  PROVE  /\ req[r].at = "counted" /\ created' = created + 1 /\ created \in Nat
         /\ req[r].doc \in documents
         /\ \A d \in Ids : d # created + 1 =>
              /\ status'[d] = IF d \in req[r].todo THEN "stopped" ELSE status[d]
              /\ document'[d] = document[d]
         /\ created + 1 \in Ids
         /\ status'[created + 1] = "queued" /\ document'[created + 1] = req[r].doc
         /\ ended' = ended \cup req[r].todo
         /\ req'[r].at = "stopping"
<1>1. /\ req[r].at = "counted" /\ req[r].doc \in documents
      /\ status' = [d \in Ids |-> IF d = created + 1 THEN "queued"
                                  ELSE IF d \in req[r].todo THEN "stopped" ELSE status[d]]
      /\ document' = [document EXCEPT ![created + 1] = req[r].doc]
      /\ ended' = ended \cup req[r].todo
  BY DEF Inserts, CommitStart, Insert, At
<1>2. created' = created + 1 /\ created + 1 \in Ids /\ created \in Nat
  <2>1. created' = created + 1 /\ created' \in Ids
    BY InsertTypes
  <2>2. created \in Nat
    BY NumbersAssumption DEF TypeOK
  <2> QED BY <2>1, <2>2
<1>3. req'[r].at = "stopping"
  <2>1. req' = [req EXCEPT ![r].at = "stopping", ![r].dep = created + 1, ![r].doc = NoDocument]
    BY InsertTypes
  <2> QED BY <2>1 DEF TypeOK
<1>4. document \in [Ids -> Documents \cup {NoDocument}]
  BY DEF TypeOK
<1> QED BY <1>1, <1>2, <1>3, <1>4

\* The lock keeps two starts out of the section.
LEMMA OneSectionPreserved == TypeOK /\ OneSection /\ [Next]_vars => OneSection'
<1> SUFFICES ASSUME TypeOK, OneSection, [Next]_vars, NEW q \in Requests, NEW r \in Requests,
                    InSection(q)', InSection(r)', q # r
             PROVE  FALSE
  BY DEF OneSection
<1>1. ASSUME NEW a \in Requests, NEW b \in Requests, a # b, InSection(a)', InSection(b)', ~InSection(a)
      PROVE  FALSE
  <2>1. ~Locked /\ \A e \in Requests : e # a => req'[e] = req[e]
    BY <1>1, SectionStep DEF InSection
  <2> QED BY <1>1, <2>1 DEF InSection, Locked
<1> QED BY <1>1 DEF OneSection

\* Rows that a commit stops are noted, and the new row is the latest of all.
LEMMA RowsPreserved == 
  TypeOK /\ FieldsFit /\ RowsFit /\ RoomForStarts /\ SectionCovers /\ [Next]_vars => RowsFit'
<1> SUFFICES ASSUME TypeOK, FieldsFit, RowsFit, RoomForStarts, SectionCovers, [Next]_vars PROVE RowsFit'
  OBVIOUS
<1>1. CASE DbShrinks
  BY <1>1 DEF DbShrinks
<1>2. ASSUME NEW r \in Requests, Inserts(r) PROVE RowsFit'
  <2> SUFFICES ASSUME NEW d \in Ids
               PROVE  (status'[d] \in Over => d \in ended') /\ (status'[d] # "none" => d <= created')
    BY DEF RowsFit
  <2>1. CASE d = created + 1
    BY <1>2, <2>1, InsertStep DEF Over
  <2>2. CASE d # created + 1
    <3>1. req[r].at = "counted" /\ created' = created + 1 /\ created \in Nat /\ created \in Int
      BY <1>2, InsertStep
    <3>2. d \in Int
      BY NumbersAssumption DEF Ids
    <3>3. d \in req[r].todo => d <= created
      BY <3>1 DEF SectionCovers, InSection
    <3>4. /\ status'[d] = IF d \in req[r].todo THEN "stopped" ELSE status[d]
          /\ ended' = ended \cup req[r].todo
      BY <1>2, <2>2, InsertStep
    <3> QED BY <3>1, <3>2, <3>3, <3>4 DEF RowsFit
  <2> QED BY <2>1, <2>2
<1> QED BY <1>1, <1>2, DbStep

(* What was listed and counted under the lock stays enough until the commit:
   outside of a commit nothing comes to life, and only one start can commit. *)
LEMMA SectionPreserved ==
  ASSUME TypeOK, FieldsFit, RowsFit, RoomForStarts, OneSection, SectionCovers, [Next]_vars
  PROVE  SectionCovers'
<1> SUFFICES ASSUME NEW q \in Requests, InSection(q)'
             PROVE  /\ \A d \in Live' : document'[d] = req'[q].doc => d \in req'[q].todo
                    /\ \A d \in req'[q].todo : d <= created'
                    /\ req'[q].doc \in documents' =>
                         \A d \in req'[q].todo : status'[d] # "none" /\ document'[d] = req'[q].doc
                    /\ req'[q].at = "counted" =>
                         Cardinality({d \in Live' : document'[d] # req'[q].doc}) < MaxActive
  BY DEF SectionCovers, InSection
<1>1. DbShrinks
  <2> SUFFICES ASSUME NEW r \in Requests, Inserts(r) PROVE FALSE
    BY DbStep
  <2>1. req[r].at = "counted" /\ req'[r].at = "stopping" /\ created' = created + 1 /\ created \in Nat
    BY InsertStep
  <2>2. InSection(q)
    BY <2>1, SectionStep DEF dbVars
  <2> QED BY <2>1, <2>2 DEF OneSection, InSection
<1>2. \A d \in Live' : d \in Live /\ d \in Ids /\ document'[d] = document[d]
  BY <1>1, ActiveAssumption DEF DbShrinks, Live
<1>3. created' = created /\ req'[q].doc = req[q].doc
  BY <1>1, SectionStep DEF DbShrinks
<1>8. ASSUME req'[q].doc \in documents',
             req[q].doc \in documents => \A d \in req'[q].todo : status[d] # "none" /\ document[d] = req[q].doc
      PROVE  \A d \in req'[q].todo : status'[d] # "none" /\ document'[d] = req'[q].doc
  <2>1. req'[q].todo \subseteq Ids
    BY TypePreserved DEF TypeOK
  <2> QED BY <1>1, <1>3, <1>8, <2>1 DEF DbShrinks
<1>4. ASSUME NEW S \in SUBSET Ids, NEW T \in SUBSET S, Cardinality(S) < MaxActive
      PROVE  Cardinality(T) < MaxActive
  BY <1>4, SizesOfIds, NumbersAssumption
<1>5. CASE InSection(q) /\ req'[q] = req[q]
  <2>1. req'[q].at = "counted" => Cardinality({d \in Live : document[d] # req[q].doc}) < MaxActive
    BY <1>5 DEF SectionCovers
  <2>2. /\ {d \in Live : document[d] # req[q].doc} \in SUBSET Ids
        /\ {d \in Live' : document'[d] # req'[q].doc} \subseteq {d \in Live : document[d] # req[q].doc}
    BY <1>2, <1>3 DEF Live
  <2> QED BY <1>2, <1>3, <1>4, <1>5, <1>8, <2>1, <2>2 DEF SectionCovers
<1>6. CASE req'[q].at = "replaced" /\ req'[q].todo = ActiveRows(req[q].doc)
  <2>1. \A d \in Live : document[d] = req[q].doc => d \in ActiveRows(req[q].doc)
    BY ActiveAssumption DEF Live, ActiveRows, Rows
  <2>2. \A d \in ActiveRows(req[q].doc) : d <= created /\ status[d] # "none" /\ document[d] = req[q].doc
    BY DEF ActiveRows, Rows, RowsFit
  <2> QED BY <1>2, <1>3, <1>6, <1>8, <2>1, <2>2
<1>7. CASE /\ req[q].at = "replaced" /\ req'[q].at = "counted" /\ req'[q].todo = req[q].todo
           /\ Cardinality(OtherActive(req[q].doc)) < MaxActive
  <2>1. {d \in Live' : document'[d] # req'[q].doc} \subseteq OtherActive(req[q].doc)
    BY <1>2, <1>3 DEF Live, OtherActive
  <2>2. OtherActive(req[q].doc) \in SUBSET Ids
    BY DEF OtherActive
  <2> QED BY <1>2, <1>3, <1>4, <1>7, <1>8, <2>1, <2>2 DEF SectionCovers, InSection
<1> QED BY <1>5, <1>6, <1>7, SectionStep

\* A commit adds one live row to the fewer than MaxActive of other documents.
LEMMA QuotaPreserved ==
  ASSUME TypeOK, FieldsFit, RowsFit, RoomForStarts, SectionCovers, LiveWithinQuota, [Next]_vars
  PROVE  LiveWithinQuota'
<1>1. CASE DbShrinks
  <2>1. Live \in SUBSET Ids /\ Live' \subseteq Live
    BY <1>1 DEF Live, DbShrinks
  <2>2. Cardinality(Live) \in Nat /\ Cardinality(Live') \in Nat /\ Cardinality(Live') <= Cardinality(Live)
    BY <2>1, SizesOfIds
  <2> QED BY <2>2, NumbersAssumption DEF LiveWithinQuota
<1>2. ASSUME NEW r \in Requests, Inserts(r) PROVE LiveWithinQuota'
  <2> DEFINE S == {d \in Live : document[d] # req[r].doc}
             n == created + 1
  <2>1. Live' \subseteq S \cup {n}
    <3> SUFFICES ASSUME NEW d \in Live', d # n PROVE d \in S
      OBVIOUS
    <3>1. d \in Ids /\ status'[d] \in Active /\ d \notin ended'
      BY DEF Live
    <3>2. d \notin req[r].todo /\ d \notin ended /\ status[d] \in Active
      BY <1>2, <3>1, InsertStep
    <3>3. document[d] # req[r].doc
      BY <1>2, <3>1, <3>2, InsertStep DEF SectionCovers, InSection, Live
    <3> QED BY <3>1, <3>2, <3>3 DEF Live
  <2>2. S \in SUBSET Ids /\ S \cup {n} \in SUBSET Ids
    BY <1>2, InsertStep DEF Live
  <2>3. Cardinality(S) < MaxActive
    BY <1>2, InsertStep DEF SectionCovers
  <2>4. IsFiniteSet(S) /\ Cardinality(S) \in Nat
    BY <2>2, IdsFinite, FS_Subset, FS_CardinalityType
  <2>5. Cardinality(S \cup {n}) \in Nat /\ Cardinality(S \cup {n}) <= Cardinality(S) + 1
    <3>1. Cardinality(S \cup {n}) = IF n \in S THEN Cardinality(S) ELSE Cardinality(S) + 1
      <4> HIDE DEF S, n
      <4> QED BY <2>4, FS_AddElement
    <3> HIDE DEF S, n
    <3> QED BY <2>4, <3>1
  <2>6. Cardinality(Live') \in Nat /\ Cardinality(Live') <= Cardinality(S \cup {n})
    BY <2>1, <2>2, SizesOfIds
  <2> HIDE DEF S, n
  <2> QED BY <2>3, <2>4, <2>5, <2>6, NumbersAssumption DEF LiveWithinQuota
<1> QED BY <1>1, <1>2, DbStep

\* A new row of a document replaces its live ones, and every row of another is as it was.
LEMMA LatestPreserved ==
  ASSUME TypeOK, FieldsFit, RowsFit, RoomForStarts, SectionCovers, LiveIsLatest, [Next]_vars
  PROVE  LiveIsLatest'
<1> SUFFICES ASSUME NEW d \in Live', NEW e \in Ids, status'[e] # "none", document'[e] = document'[d]
             PROVE  e <= d
  BY ActiveAssumption DEF LiveIsLatest, IsLatest, Rows, Live
<1>0. d \in Ids /\ status'[d] \in Active /\ status'[d] # "none" /\ d \notin ended'
  BY ActiveAssumption DEF Live
<1>1. CASE DbShrinks
  <2>1. d \in Live /\ document'[d] = document[d] /\ status[e] # "none" /\ document'[e] = document[e]
    BY <1>0, <1>1 DEF DbShrinks
  <2> QED BY <1>0, <2>1 DEF LiveIsLatest, IsLatest, Rows
<1>2. ASSUME NEW r \in Requests, Inserts(r) PROVE e <= d
  <2>0. created' = created + 1 /\ created \in Nat /\ d \in Nat /\ e \in Nat
    BY <1>0, <1>2, InsertStep, NumbersAssumption DEF Ids
  <2>1. CASE d = created + 1
    <3>1. RowsFit'
      BY RowsPreserved
    <3> QED BY <2>0, <2>1, <3>1 DEF RowsFit
  <2>2. CASE d # created + 1
    <3>1. d \notin req[r].todo /\ d \in Live /\ document'[d] = document[d]
      BY <1>0, <1>2, <2>2, InsertStep DEF Live
    <3>2. document[d] # req[r].doc
      BY <1>2, <3>1, InsertStep DEF SectionCovers, InSection
    <3>3. e # created + 1
      BY <1>2, <3>1, <3>2, InsertStep
    <3>4. document[e] = document[d] /\ status[e] # "none"
      BY <1>2, <3>1, <3>3, InsertStep DEF SectionCovers, InSection
    <3> QED BY <3>1, <3>4 DEF LiveIsLatest, IsLatest, Rows
  <2> QED BY <2>1, <2>2
<1> QED BY <1>0, <1>1, <1>2, DbStep

-----------------------------------------------------------------------------
\* The invariant is inductive.
THEOREM Invariance == Spec => []IInv
<1>1. IInv /\ [Next]_vars => IInv'
  <2> SUFFICES ASSUME IInv, [Next]_vars PROVE IInv'
    OBVIOUS
  <2> QED BY TypePreserved, RoomPreserved, RowsPreserved, OneSectionPreserved, SectionPreserved,
             QuotaPreserved, LatestPreserved
          DEF IInv
<1> QED BY InitInv, <1>1, PTL DEF Spec

(* Every variable always holds a value of its type: a row's status is one of
   DeploymentStatus, whatever the runner answered and whoever saved last. *)
THEOREM DeploymentsTypeOK == Spec => []TypeOK
<1>1. IInv => TypeOK
  BY DEF IInv
<1> QED BY Invariance, <1>1, PTL

(* The deployments that were never stopped or failed stay within the quota of
   the organization, for any quota and any number of server threads. *)
THEOREM DeploymentsWithinQuota == Spec => []LiveWithinQuota
<1>1. IInv => LiveWithinQuota
  BY DEF IInv
<1> QED BY Invariance, <1>1, PTL

(* A deployment that was never stopped or failed is the newest of its document,
   the one that latest_deployment polls. *)
THEOREM DeploymentsLiveIsLatest == Spec => []LiveIsLatest
<1>1. IInv => LiveIsLatest
  BY DEF IInv
<1> QED BY Invariance, <1>1, PTL
=============================================================================
