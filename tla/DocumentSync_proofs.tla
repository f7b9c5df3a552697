------------------------- MODULE DocumentSync_proofs -------------------------
(***************************************************************************)
(* Proofs about the document store alone and about the browser tabs that   *)
(* are composed with it.                                                   *)
(***************************************************************************)
EXTENDS DocumentSync, TLAPS

(***************************************************************************)
(* What the row lock of the document store guarantees for any number of    *)
(* requests, classes and operations: one inductive invariant, from which   *)
(* the safety properties of DocumentStore and its refinement of            *)
(* AtomicDocument follow.                                                  *)
(***************************************************************************)

(* What an operation turns a document into is a document of a later revision,
   which shows everything the old one shows unless it replaces it. *)
LEMMA ResultIsLater ==
  ASSUME NEW d \in Document, NEW o \in Operation, NEW r \in Requests,
         o.kind # "delete", Accepts(d, o)
  PROVE  /\ Result(d, o, r) \in Document
         /\ Result(d, o, r).rev > d.rev
         /\ r \in Result(d, o, r).applied
         /\ \/ d.applied \subseteq Result(d, o, r).applied /\ Result(d, o, r).base = d.base
            \/ Result(d, o, r).base = d.rev + 1
         /\ o.kind = "commands" => Result(d, o, r).rev = d.rev + Len(o.cmds)
<1>1. CASE o.kind = "commands"
  <2>1. o.cmds \in Seq(Command) /\ Len(o.cmds) \in Nat /\ Len(o.cmds) > 0
    BY <1>1 DEF Operation, Accepts
  <2>2. LiveAfter(d.classes, o.cmds, Len(o.cmds)) \in SUBSET Classes
    BY DEF LiveAfter
  <2>3. Result(d, o, r) =
          [rev |-> d.rev + Len(o.cmds), classes |-> LiveAfter(d.classes, o.cmds, Len(o.cmds)),
           layout |-> d.layout, applied |-> d.applied \cup {r}, base |-> d.base]
    BY <1>1 DEF Result, AfterCommands, Document
  <2> QED BY <2>1, <2>2, <2>3 DEF Document
<1>2. CASE o.kind = "replace"
  BY <1>2 DEF Operation, Result, AfterReplace, Document
<1>3. CASE o.kind = "layout"
  <2>1. o.class \in Classes
    BY <1>3 DEF Operation
  <2>2. Result(d, o, r) =
          [rev |-> d.rev + 1, classes |-> d.classes,
           layout |-> (d.layout \cap d.classes) \cup {o.class},
           applied |-> d.applied \cup {r}, base |-> d.base]
    BY <1>3 DEF Result, AfterLayout, Document
  <2> QED BY <1>3, <2>1, <2>2 DEF Document
<1> QED BY <1>1, <1>2, <1>3 DEF Operation

-----------------------------------------------------------------------------
(* The inductive invariant.  Besides the locked copy being the row, it says
   which operation brought a request where it is, and that what a request has
   written is never ahead of the row and shows in it unless replaced. *)
Arrived ==
  \A r \in Requests :
    /\ pc[r] # "new" => op[r] \in Operations
    /\ pc[r] \in Written \cup {"locked"} => op[r].kind # "delete"

CopiesBehindRow ==
  \A r \in Requests :
    pc[r] \in Written =>
      /\ copy[r] # NoDocument
      /\ row # NoDocument => copy[r].rev <= row.rev

\* What two committed requests wrote differs in its revision.
WritersDiffer ==
  \A r, q \in Requests :
    pc[r] \in Written /\ pc[q] \in Written /\ copy[r].rev = copy[q].rev => r = q

\* The row is the first document or what some request committed last.
RowIsWritten ==
  row # NoDocument =>
    (row.rev = 1 /\ \A r \in Requests : pc[r] \notin Written)
      \/ \E r \in Requests : pc[r] \in Written /\ copy[r] = row

IInv ==
  /\ TypeOK
  /\ Arrived
  /\ LockedCopyIsFresh
  /\ CopiesBehindRow
  /\ NoLostUpdate
  /\ OneBroadcastPerCommit
  /\ WritersDiffer
  /\ RowIsWritten
  /\ StalePreviewRefused

\* The state a locked request is in, and what its commit would write.
LEMMA LockedRequest ==
  ASSUME IInv, NEW r \in Requests, pc[r] = "locked", Accepts(copy[r], op[r])
  PROVE  /\ locker = r /\ row \in Document /\ copy[r] = row /\ op[r] \in Operation
         /\ Result(copy[r], op[r], r) \in Document
         /\ Result(copy[r], op[r], r).rev > row.rev
         /\ r \in Result(copy[r], op[r], r).applied
         /\ \/ /\ row.applied \subseteq Result(copy[r], op[r], r).applied
               /\ Result(copy[r], op[r], r).base = row.base
            \/ Result(copy[r], op[r], r).base = row.rev + 1
         /\ op[r].kind = "commands" =>
              Result(copy[r], op[r], r).rev = row.rev + Len(op[r].cmds)
<1>1. locker = r /\ row # NoDocument /\ copy[r] = row
  BY DEF IInv, LockedCopyIsFresh
<1>2. row \in Document
  BY <1>1 DEF IInv, TypeOK
<1>3. op[r] \in Operation /\ op[r].kind # "delete"
  BY OperationsAssumption DEF IInv, Arrived
<1> QED BY <1>1, <1>2, <1>3, ResultIsLater

\* A fresh document, with no request begun, satisfies the invariant.
LEMMA InitInv == Init => IInv
<1> SUFFICES ASSUME Init PROVE IInv
  OBVIOUS
<1>1. NewDocument \in Document /\ NewDocument # NoDocument /\ NewDocument.rev = 1
  BY NoDocumentAssumption DEF NewDocument, Document
<1>2. TypeOK
  BY <1>1 DEF Init, TypeOK
<1> QED BY <1>1, <1>2 DEF Init, IInv, Arrived, LockedCopyIsFresh, CopiesBehindRow,
     NoLostUpdate, OneBroadcastPerCommit, WritersDiffer, RowIsWritten, StalePreviewRefused, Written

\* Every step of every request preserves the invariant.
LEMMA NextInv == IInv /\ [Next]_storeVars => IInv'
<1> SUFFICES ASSUME IInv, [Next]_storeVars PROVE IInv'
  OBVIOUS
<1> USE DEF IInv, TypeOK, Arrived, LockedCopyIsFresh, CopiesBehindRow, NoLostUpdate,
      OneBroadcastPerCommit, WritersDiffer, RowIsWritten, StalePreviewRefused, Written, Ended
<1>1. ASSUME NEW r \in Requests, NEW o \in Operations, Begin(r, o) PROVE IInv'
  BY <1>1 DEF Begin
<1>2. ASSUME NEW r \in Requests, GetRow(r) PROVE IInv'
  BY <1>2, NoRequestAssumption DEF GetRow
<1>3. ASSUME NEW r \in Requests, NotFound(r) PROVE IInv'
  BY <1>3 DEF NotFound
<1>4. ASSUME NEW r \in Requests, Refuse(r) PROVE IInv'
  BY <1>4 DEF Refuse
<1>5. ASSUME NEW r \in Requests, LeaveUnchanged(r) PROVE IInv'
  BY <1>5 DEF LeaveUnchanged
<1>6. ASSUME NEW r \in Requests, Commit(r) PROVE IInv'
  <2> DEFINE d == Result(copy[r], op[r], r)
  <2>1. /\ pc[r] = "locked" /\ Accepts(copy[r], op[r])
        /\ row' = d /\ copy' = [copy EXCEPT ![r] = d] /\ locker' = NoRequest
        /\ pc' = [pc EXCEPT ![r] = "committed"] /\ op' = op /\ log' = log
    BY <1>6 DEF Commit
  <2>2. /\ locker = r /\ row \in Document /\ copy[r] = row /\ op[r] \in Operation
        /\ d \in Document /\ d.rev > row.rev /\ r \in d.applied
        /\ (row.applied \subseteq d.applied /\ d.base = row.base) \/ d.base = row.rev + 1
        /\ op[r].kind = "commands" => d.rev = row.rev + Len(op[r].cmds)
    BY <2>1, LockedRequest
  <2>3. d # NoDocument /\ row # NoDocument /\ row.rev \in Nat /\ d.rev \in Nat
    BY <2>2, NoDocumentAssumption DEF Document
  <2> HIDE DEF d
  <2>4. TypeOK'
    BY <2>1, <2>2
  <2>5. Arrived' /\ LockedCopyIsFresh' /\ RowIsWritten'
    BY <2>1, <2>2, <2>3
  <2>6. CopiesBehindRow'
    BY <2>1, <2>2, <2>3 DEF Document
  <2>7. NoLostUpdate'
    BY <2>1, <2>2, <2>3 DEF Document
  <2>8. OneBroadcastPerCommit'
    BY <2>1, <2>2, <2>3
  <2>9. WritersDiffer'
    BY <2>1, <2>2, <2>3 DEF Document
  <2>10. StalePreviewRefused'
    BY <2>1, <2>2, <2>3, AnyRevisionAssumption DEF Document, Accepts
  <2> QED BY <2>4, <2>5, <2>6, <2>7, <2>8, <2>9, <2>10
<1>7. ASSUME NEW r \in Requests, Broadcast(r) PROVE IInv'
  BY <1>7 DEF Broadcast
<1>8. ASSUME NEW r \in Requests, BroadcastFails(r) PROVE IInv'
  BY <1>8 DEF BroadcastFails
<1>9. ASSUME NEW r \in Requests, FindForDelete(r) PROVE IInv'
  BY <1>9 DEF FindForDelete
<1>10. ASSUME NEW r \in Requests, DeleteRow(r) PROVE IInv'
  BY <1>10, NoRequestAssumption DEF DeleteRow
<1>11. CASE UNCHANGED storeVars
  BY <1>11 DEF storeVars
<1> QED
  BY <1>1, <1>2, <1>3, <1>4, <1>5, <1>6, <1>7, <1>8, <1>9, <1>10, <1>11 DEF Next, Serve

-----------------------------------------------------------------------------
(* The invariant holds of every behaviour, whatever the numbers of requests
   and classes and whatever operations the requests ask for. *)
THEOREM Invariance == Spec => []IInv
BY InitInv, NextInv, PTL DEF Spec

\* Every state the store reaches is well typed.
THEOREM StoreTypeOK == Spec => []TypeOK
<1>1. IInv => TypeOK
  BY DEF IInv
<1> QED BY <1>1, Invariance, PTL

\* The FOR UPDATE read of every transaction stays the committed row until it ends.
THEOREM StoreLockedCopyIsFresh == Spec => []LockedCopyIsFresh
<1>1. IInv => LockedCopyIsFresh
  BY DEF IInv
<1> QED BY <1>1, Invariance, PTL

\* No committed write is overwritten by a concurrent request.
THEOREM StoreNoLostUpdate == Spec => []NoLostUpdate
<1>1. IInv => NoLostUpdate
  BY DEF IInv
<1> QED BY <1>1, Invariance, PTL

\* No revision number is ever given to two different documents.
THEOREM StoreOneDocumentPerRevision == Spec => []OneDocumentPerRevision
<1>1. IInv => OneDocumentPerRevision
  <2> SUFFICES ASSUME IInv PROVE OneDocumentPerRevision
    OBVIOUS
  <2> DEFINE Writers == {q \in Requests : pc[q] \in Written}
             Known == {copy[r] : r \in Writers} \cup {log[i] : i \in DOMAIN log}
                        \cup ({row} \ {NoDocument})
  <2>1. \A i \in DOMAIN log : \E r \in Writers : copy[r] = log[i]
    BY DEF IInv, OneBroadcastPerCommit, Written
  <2>2. ASSUME NEW d \in Known, NEW r \in Writers, d.rev = copy[r].rev
        PROVE  d = copy[r]
    BY <2>1, <2>2 DEF IInv, WritersDiffer, RowIsWritten
  <2>3. ASSUME NEW d \in Known, NEW e \in Known, d.rev = e.rev PROVE d = e
    BY <2>1, <2>2, <2>3
  <2> QED BY <2>3 DEF OneDocumentPerRevision
<1> QED BY <1>1, Invariance, PTL

\* Every commit is broadcast at most once, and nothing else ever is.
THEOREM StoreOneBroadcastPerCommit == Spec => []OneBroadcastPerCommit
<1>1. IInv => OneBroadcastPerCommit
  BY DEF IInv
<1> QED BY <1>1, Invariance, PTL

\* A previewed batch commits only on the revision it was previewed on.
THEOREM StoreStalePreviewRefused == Spec => []StalePreviewRefused
<1>1. IInv => StalePreviewRefused
  BY DEF IInv
<1> QED BY <1>1, Invariance, PTL

-----------------------------------------------------------------------------
\* A position that an operation adds is that of a class it leaves live.
LEMMA ResultPositions ==
  ASSUME NEW d \in Document, NEW o \in Operation, NEW r \in Requests,
         o.kind # "delete", Writes(d, o)
  PROVE  Result(d, o, r).layout \ d.layout \subseteq Result(d, o, r).classes
<1>1. CASE o.kind = "commands"
  BY <1>1 DEF Result, AfterCommands, Document
<1>2. CASE o.kind = "replace"
  BY <1>2 DEF Operation, Result, AfterReplace
<1>3. CASE o.kind = "layout"
  BY <1>3 DEF Operation, Writes, Result, AfterLayout, Document
<1> QED BY <1>1, <1>2, <1>3 DEF Operation

(* Only a commit changes an existing row into another: it raises the revision
   and adds no position of a class that is not live. *)
THEOREM StorePositionsOfLiveClassesOnly == Spec => PositionsOfLiveClassesOnly
<1> DEFINE Step == row # NoDocument /\ row' # NoDocument /\ row' # row =>
                     /\ row'.rev > row.rev
                     /\ row'.layout \ row.layout \subseteq row'.classes
<1>1. IInv /\ [Next]_storeVars => [Step]_storeVars
  <2> SUFFICES ASSUME IInv, Next, row' # NoDocument, row' # row
               PROVE  /\ row'.rev > row.rev
                      /\ row'.layout \ row.layout \subseteq row'.classes
    OBVIOUS
  <2>1. PICK r \in Requests : Commit(r)
    BY DEF Next, Serve, Begin, GetRow, NotFound, Refuse, LeaveUnchanged, Broadcast,
           BroadcastFails, FindForDelete, DeleteRow
  <2>2. pc[r] = "locked" /\ Accepts(copy[r], op[r]) /\ Writes(copy[r], op[r])
          /\ row' = Result(copy[r], op[r], r)
    BY <2>1 DEF Commit
  <2>3. op[r].kind # "delete"
    BY <2>2 DEF IInv, Arrived
  <2> QED BY <2>2, <2>3, LockedRequest, ResultPositions
<1> QED BY <1>1, Invariance, PTL DEF Spec, PositionsOfLiveClassesOnly

-----------------------------------------------------------------------------
(* Every write takes effect in one step, at its commit: DocumentStore with its
   locks, copies and late broadcasts implements AtomicDocument. *)
THEOREM StoreRefinesAtomicDocument == Spec => ImplementsAtomicDocument
<1> DEFINE done == {r \in Requests : pc[r] \in Written \cup {"deleted"}}
<1>1. Init => Atomic!Init
  BY DEF Init, Atomic!Init, NewDocument, Atomic!NewDocument, Written
<1>2. IInv /\ [Next]_storeVars => [Atomic!Next]_<<row, done>>
  <2> SUFFICES ASSUME IInv, [Next]_storeVars PROVE [Atomic!Next]_<<row, done>>
    OBVIOUS
  <2>1. ASSUME NEW r \in Requests, Commit(r) PROVE Atomic!Next
    <3>1. /\ pc[r] = "locked" /\ Accepts(copy[r], op[r]) /\ Writes(copy[r], op[r])
          /\ row' = Result(copy[r], op[r], r) /\ pc' = [pc EXCEPT ![r] = "committed"]
      BY <2>1 DEF Commit
    <3>2. copy[r] = row /\ row # NoDocument /\ op[r] \in Operations /\ op[r].kind # "delete"
      BY <3>1 DEF IInv, LockedCopyIsFresh, Arrived
    <3>3. r \notin done /\ done' = done \cup {r}
      BY <3>1 DEF IInv, TypeOK, Written
    <3>4. Atomic!Accepts(row, op[r]) /\ Atomic!Writes(row, op[r])
            /\ row' = Atomic!Result(row, op[r], r)
      BY <3>1, <3>2 DEF Accepts, Atomic!Accepts, Writes, Atomic!Writes, Result, Atomic!Result,
           AfterCommands, Atomic!AfterCommands, AfterReplace, Atomic!AfterReplace,
           AfterLayout, Atomic!AfterLayout,
           GateHolds, Atomic!GateHolds, LiveAfter, Atomic!LiveAfter, Deciding, Atomic!Deciding,
           Max, Atomic!Max
    <3> QED BY <3>2, <3>3, <3>4 DEF Atomic!Next, Atomic!Perform
  <2>2. ASSUME NEW r \in Requests, DeleteRow(r) PROVE Atomic!Next
    <3>1. r \notin done /\ done' = done \cup {r} /\ row' = NoDocument
      BY <2>2 DEF DeleteRow, IInv, TypeOK, Written
    <3> QED BY <3>1 DEF Atomic!Next, Atomic!Remove
  <2>3. ASSUME NEW r \in Requests,
               \/ \E o \in Operations : Begin(r, o)
               \/ GetRow(r) \/ NotFound(r) \/ Refuse(r) \/ LeaveUnchanged(r)
               \/ Broadcast(r) \/ BroadcastFails(r) \/ FindForDelete(r)
        PROVE  UNCHANGED <<row, done>>
    BY <2>3 DEF Begin, GetRow, NotFound, Refuse, LeaveUnchanged, Broadcast, BroadcastFails,
         FindForDelete, IInv, TypeOK, Written
  <2>4. CASE UNCHANGED storeVars
    BY <2>4 DEF storeVars
  <2> QED BY <2>1, <2>2, <2>3, <2>4 DEF Next, Serve
<1> QED BY <1>1, <1>2, Invariance, PTL DEF Spec, ImplementsAtomicDocument, Atomic!Spec

(***************************************************************************)
(* What a browser tab can rely on, for any number of tabs, requests and    *)
(* lost sockets, as long as the GET of onOpen fails only on a document     *)
(* that is gone.  The store's invariant holds throughout, since tabs       *)
(* change the store only by the requests they begin.                       *)
(***************************************************************************)

\* A step of the whole is a step of the store or leaves it alone.
LEMMA StoreSteps == [SyncNext]_vars => [Next]_storeVars
BY DEF SyncNext, vars, ServerStep, Next, Open, CloseForGood, Relay, Drop, Revoke, Page,
       RefetchAfter, AdoptReplaced, SubmitFails, Submit, ReleaseNode, Elsewhere, Fetch,
       ReadGet, FailGet, ApplyGet

\* The store of the composition behaves as the store alone.
THEOREM SyncStoreInvariance == SyncSpec => []IInv
<1>1. SyncInit => IInv
  BY InitInv DEF SyncInit
<1>2. IInv /\ [SyncNext]_vars => IInv'
  BY NextInv, StoreSteps
<1> QED BY <1>1, <1>2, PTL DEF SyncSpec

(* What tabs need of the store: a deleted row stays away, the group's log only
   grows, nothing in it is ahead of the row, and an answer is final. *)
LEMMA LogBehindRow ==
  ASSUME IInv, row # NoDocument
  PROVE  /\ row \in Document
         /\ \A i \in DOMAIN log : log[i].rev <= row.rev
         /\ \A r \in Requests : pc[r] = "answered" => copy[r] \in Document
                                                        /\ copy[r].rev <= row.rev
BY DEF IInv, TypeOK, OneBroadcastPerCommit, CopiesBehindRow, Written

LEMMA StoreMoves ==
  ASSUME IInv, [Next]_storeVars
  PROVE  /\ row = NoDocument => row' = NoDocument
         /\ log' = log \/ \E d \in Document : log' = Append(log, d)
         /\ \A r \in Requests : pc[r] = "answered" =>
              pc'[r] = "answered" /\ op'[r] = op[r] /\ copy'[r] = copy[r]
<1> USE DEF IInv, TypeOK, LockedCopyIsFresh, CopiesBehindRow, Written
<1>1. ASSUME NEW q \in Requests, NEW o \in Operations, Begin(q, o)
      PROVE  /\ row' = row /\ log' = log
             /\ \A r \in Requests : r # q => pc'[r] = pc[r] /\ op'[r] = op[r] /\ copy'[r] = copy[r]
             /\ pc[q] # "answered"
  BY <1>1 DEF Begin
<1>2. ASSUME NEW q \in Requests,
             \/ GetRow(q) \/ NotFound(q) \/ Refuse(q) \/ LeaveUnchanged(q)
             \/ FindForDelete(q) \/ BroadcastFails(q)
      PROVE  /\ row' = row /\ log' = log
             /\ \A r \in Requests : r # q => pc'[r] = pc[r] /\ op'[r] = op[r] /\ copy'[r] = copy[r]
             /\ pc[q] # "answered"
  BY <1>2 DEF GetRow, NotFound, Refuse, LeaveUnchanged, FindForDelete, BroadcastFails
<1>3. ASSUME NEW q \in Requests, Commit(q) \/ DeleteRow(q)
      PROVE  /\ row # NoDocument /\ log' = log
             /\ \A r \in Requests : r # q => pc'[r] = pc[r] /\ op'[r] = op[r] /\ copy'[r] = copy[r]
             /\ pc[q] # "answered"
  BY <1>3 DEF Commit, DeleteRow
<1>4. ASSUME NEW q \in Requests, Broadcast(q)
      PROVE  /\ row' = row /\ \E d \in Document : log' = Append(log, d)
             /\ \A r \in Requests : r # q => pc'[r] = pc[r] /\ op'[r] = op[r] /\ copy'[r] = copy[r]
             /\ pc[q] # "answered"
  BY <1>4 DEF Broadcast
<1>5. CASE UNCHANGED storeVars
  BY <1>5 DEF storeVars
<1> QED BY <1>1, <1>2, <1>3, <1>4, <1>5 DEF Next, Serve

-----------------------------------------------------------------------------
\* Showing a document keeps the types, and what was shown stays shown.
LEMMA ShowIsMonotone ==
  ASSUME NEW c \in Clients, NEW d \in Document, Show(c, d),
         view \in [Clients -> Document \cup {NoDocument}], newest \in [Clients -> Nat]
  PROVE  /\ view' \in [Clients -> Document \cup {NoDocument}] /\ newest' \in [Clients -> Nat]
         /\ \A b \in Clients : newest'[b] >= newest[b]
         /\ newest'[c] >= d.rev
         /\ view' = [view EXCEPT ![c] = d]
BY DEF Show, Document

\* A merge shows a document at least as new as the one that arrives.
LEMMA MergeIsNewer ==
  ASSUME NEW v \in Document \cup {NoDocument}, NEW d \in Document
  PROVE  Merge(v, d) \in Document /\ Merge(v, d).rev >= d.rev
BY NoDocumentAssumption DEF Merge, Document

Socket == [status : {"connecting", "open", "terminal"}, pos : Nat]

\* Every step keeps every value in its type.
LEMMA SyncTypePreserved == IInv /\ SyncTypeOK /\ [SyncNext]_vars => SyncTypeOK'
<1> SUFFICES ASSUME IInv, SyncTypeOK, [SyncNext]_vars PROVE SyncTypeOK'
  OBVIOUS
<1>0. /\ TypeOK /\ TypeOK' /\ log \in Seq(Document)
      /\ copy \in [Requests -> Document \cup {NoDocument}]
      /\ row \in Document \cup {NoDocument}
  BY NextInv, StoreSteps DEF IInv, TypeOK
<1> USE DEF SyncTypeOK
<1> HIDE DEF TypeOK
<1>1. ASSUME NEW c \in Clients, Open(c) \/ CloseForGood(c) \/ Drop(c) \/ Revoke(c)
      PROVE  SyncTypeOK'
  <2>1. Len(log) \in Nat /\ Get(c, "open") \in [client : Clients, why : Cause,
                                                doc : Document \cup {NoDocument}]
    BY <1>0 DEF Get, Cause
  <2>2. CASE Open(c)
    BY <1>0, <2>1, <2>2 DEF Open
  <2>3. CASE CloseForGood(c)
    <3>1. [conn[c] EXCEPT !.status = "terminal"] \in Socket
      BY DEF Socket
    <3> QED BY <1>0, <2>3, <3>1 DEF CloseForGood, Socket
  <2>4. CASE Drop(c)
    <3>1. [conn[c] EXCEPT !.status = "connecting"] \in Socket
      BY DEF Socket
    <3> QED BY <1>0, <2>4, <3>1, SyncAssumption DEF Drop, Socket
  <2>5. CASE Revoke(c)
    BY <1>0, <2>5 DEF Revoke
  <2> QED BY <1>1, <2>2, <2>3, <2>4, <2>5
<1>2. ASSUME NEW c \in Clients, Relay(c) PROVE SyncTypeOK'
  <2>1. log[conn[c].pos + 1] \in Document
    BY <1>0, <1>2 DEF Relay
  <2>2. Merge(view[c], log[conn[c].pos + 1]) \in Document
    BY <2>1, MergeIsNewer
  <2>3. view' \in [Clients -> Document \cup {NoDocument}] /\ newest' \in [Clients -> Nat]
    BY <1>2, <2>2, ShowIsMonotone DEF Relay
  <2>4. [conn[c] EXCEPT !.pos = @ + 1] \in Socket
    BY DEF Socket
  <2>5. conn' = [conn EXCEPT ![c] = [conn[c] EXCEPT !.pos = @ + 1]]
        /\ UNCHANGED <<storeVars, member, gets, flow, drops>>
    BY <1>2 DEF Relay
  <2> QED BY <1>0, <2>3, <2>4, <2>5 DEF Socket
<1>3. ASSUME NEW c \in Clients, Page(c) PROVE SyncTypeOK'
  <2>1. CASE RefetchAfter(c)
    <3>1. \A why \in {"refetch", "refresh"} :
            Get(c, why) \in [client : Clients, why : Cause, doc : Document \cup {NoDocument}]
      BY DEF Get, Cause
    <3>2. /\ gets' \subseteq gets \cup {Get(c, "refetch"), Get(c, "refresh")}
          /\ flow' \in [Clients -> Requests \cup {NoRequest}]
          /\ UNCHANGED <<member, conn, view, newest, drops>>
      BY <2>1 DEF RefetchAfter
    <3> QED BY <1>0, <3>1, <3>2
  <2>2. CASE AdoptReplaced(c)
    <3> DEFINE d == copy[flow[c]]
               e == IF view[c] # NoDocument /\ d.rev < view[c].rev THEN view[c] ELSE d
    <3>1. d \in Document /\ e \in Document
      BY <1>0, <2>2 DEF AdoptReplaced, IInv, CopiesBehindRow, Written
    <3>2. Show(c, e) /\ flow' = [flow EXCEPT ![c] = NoRequest]
          /\ UNCHANGED <<member, conn, gets, drops>>
      BY <2>2 DEF AdoptReplaced
    <3> HIDE DEF e
    <3>3. view' \in [Clients -> Document \cup {NoDocument}] /\ newest' \in [Clients -> Nat]
      BY <3>1, <3>2, ShowIsMonotone
    <3> QED BY <1>0, <3>2, <3>3
  <2>3. CASE SubmitFails(c)
    BY <1>0, <2>3 DEF SubmitFails
  <2> QED BY <1>3, <2>1, <2>2, <2>3 DEF Page
<1>4. ASSUME NEW g \in gets, Fetch(g) PROVE SyncTypeOK'
  <2>1. g.client \in Clients /\ g.why \in Cause /\ g.doc \in Document \cup {NoDocument}
    OBVIOUS
  <2>2. CASE ReadGet(g)
    <3>1. [g EXCEPT !.doc = row] \in [client : Clients, why : Cause,
                                      doc : Document \cup {NoDocument}]
      BY <1>0
    <3> QED BY <1>0, <2>2, <3>1 DEF ReadGet
  <2>3. CASE FailGet(g)
    BY <1>0, <2>1, <2>3 DEF FailGet, EndAwait
  <2>4. CASE ApplyGet(g)
    <3> DEFINE e == IF g.why = "open" THEN Merge(view[g.client], g.doc) ELSE g.doc
    <3>1. e \in Document
      BY <2>1, <2>4, MergeIsNewer DEF ApplyGet
    <3>2. /\ Show(g.client, e) /\ gets' = gets \ {g} /\ UNCHANGED <<member, conn, drops>>
          /\ flow' \in [Clients -> Requests \cup {NoRequest}]
      BY <2>1, <2>4 DEF ApplyGet, EndAwait
    <3> HIDE DEF e
    <3>3. view' \in [Clients -> Document \cup {NoDocument}] /\ newest' \in [Clients -> Nat]
      BY <2>1, <3>1, <3>2, ShowIsMonotone
    <3> QED BY <1>0, <3>2, <3>3
  <2> QED BY <1>4, <2>2, <2>3, <2>4 DEF Fetch
<1>5. ASSUME NEW c \in Clients, NEW r \in Requests, NEW o \in Operations, Submit(c, r, o)
      PROVE  SyncTypeOK'
  BY <1>0, <1>5 DEF Submit
<1>6. CASE UNCHANGED syncVars
  BY <1>0, <1>6 DEF syncVars
<1> QED BY <1>1, <1>2, <1>3, <1>4, <1>5, <1>6
  DEF SyncNext, ServerStep, ReleaseNode, Elsewhere, vars, syncVars

-----------------------------------------------------------------------------
(* Why no broadcast is missed: a connected tab has shown a document at least as
   new as each message of the group, or the message is still to be relayed, or
   the refetch that the open event asked for will bring it. *)
Fetching(c, n) ==
  \E g \in gets : g.client = c /\ g.why = "open" /\ (g.doc = NoDocument \/ g.doc.rev >= n)

Covered(c, i) == log[i].rev <= newest[c] \/ conn[c].pos < i \/ Fetching(c, log[i].rev)

BroadcastsCovered ==
  \A c \in Clients :
    /\ conn[c].pos <= Len(log)
    /\ conn[c].status = "open" /\ member[c] /\ row # NoDocument
         => \A i \in DOMAIN log : Covered(c, i)

LEMMA RevisionsAreNumbers ==
  ASSUME NEW s \in Seq(Document)
  PROVE  \A i \in DOMAIN s : i \in Nat /\ s[i] \in Document /\ s[i].rev \in Nat
<1>1. \A i \in DOMAIN s : i \in Nat /\ s[i] \in Document
  OBVIOUS
<1>2. \A d \in Document : d.rev \in Nat
  BY DEF Document
<1> QED BY <1>1, <1>2

\* Nobody who was removed becomes a member again.
LEMMA OnceRemoved ==
  ASSUME SyncTypeOK, [SyncNext]_vars, NEW c \in Clients PROVE member'[c] => member[c]
<1>1. (\E b \in Clients : member' = [member EXCEPT ![b] = FALSE]) \/ member' = member
  BY DEF SyncNext, ServerStep, Open, CloseForGood, Relay, Drop, Revoke, Page, RefetchAfter,
         AdoptReplaced, SubmitFails, Submit, ReleaseNode, Elsewhere, Fetch, ReadGet, FailGet,
         ApplyGet, syncVars, vars
<1> QED BY <1>1, Zenon DEF SyncTypeOK

LEMMA BroadcastsCoveredPreserved ==
  ASSUME "open" \notin FailingGets
  PROVE  IInv /\ SyncTypeOK /\ BroadcastsCovered /\ [SyncNext]_vars => BroadcastsCovered'
<1> SUFFICES ASSUME IInv, SyncTypeOK, BroadcastsCovered, [SyncNext]_vars, NEW b \in Clients
             PROVE  /\ conn'[b].pos <= Len(log')
                    /\ conn'[b].status = "open" /\ member'[b] /\ row' # NoDocument
                         => \A i \in DOMAIN log' : Covered(b, i)'
  BY DEF BroadcastsCovered
<1>0. /\ log \in Seq(Document) /\ log' \in Seq(Document) /\ newest \in [Clients -> Nat]
      /\ conn \in [Clients -> Socket] /\ view \in [Clients -> Document \cup {NoDocument}]
      /\ conn[b].pos \in Nat /\ conn[b].pos <= Len(log) /\ newest[b] \in Nat
      /\ conn[b].status = "open" /\ member[b] /\ row # NoDocument
           => \A i \in DOMAIN log : Covered(b, i)
      /\ row = NoDocument => row' = NoDocument
      /\ member'[b] => member[b]
      /\ \A g \in gets : g \in [client : Clients, why : Cause, doc : Document \cup {NoDocument}]
  BY NextInv, StoreSteps, StoreMoves, OnceRemoved
  DEF IInv, TypeOK, SyncTypeOK, BroadcastsCovered, Socket
<1>1. ASSUME UNCHANGED <<conn, newest, gets>>
      PROVE  /\ conn'[b].pos <= Len(log')
             /\ conn'[b].status = "open" /\ member'[b] /\ row' # NoDocument
                  => \A i \in DOMAIN log' : Covered(b, i)'
  <2>1. CASE log' = log
    BY <1>0, <1>1, <2>1 DEF Covered, Fetching
  <2>2. ASSUME NEW d \in Document, log' = Append(log, d)
        PROVE  /\ conn[b].pos <= Len(log')
               /\ \A i \in DOMAIN log' :
                    (i \in DOMAIN log /\ log'[i] = log[i]) \/ conn[b].pos < i
    BY <1>0, <2>2
  <2> QED BY <1>0, <1>1, <2>1, <2>2, StoreMoves, StoreSteps DEF Covered, Fetching
<1>2. ASSUME UNCHANGED log, conn'[b] = conn[b], newest'[b] >= newest[b],
             \A n \in Nat : row' # NoDocument /\ member'[b] /\ Fetching(b, n)
               => Fetching(b, n)' \/ n <= newest'[b]
      PROVE  /\ conn'[b].pos <= Len(log')
             /\ conn'[b].status = "open" /\ member'[b] /\ row' # NoDocument
                  => \A i \in DOMAIN log' : Covered(b, i)'
  <2>1. \A i \in DOMAIN log : log[i].rev \in Nat
    BY <1>0, RevisionsAreNumbers
  <2>2. ASSUME NEW i \in DOMAIN log, Covered(b, i), member'[b], row' # NoDocument,
               newest'[b] \in Nat
        PROVE  Covered(b, i)'
    BY <1>0, <1>2, <2>1, <2>2 DEF Covered
  <2>3. newest'[b] \in Nat
    BY SyncTypePreserved DEF SyncTypeOK
  <2> QED BY <1>0, <1>2, <2>2, <2>3
<1>3. ASSUME NEW c \in Clients, Open(c)
      PROVE  /\ conn'[b].pos <= Len(log')
             /\ conn'[b].status = "open" /\ member'[b] /\ row' # NoDocument
                  => \A i \in DOMAIN log' : Covered(b, i)'
  <2>1. CASE c = b
    <3>1. /\ log' = log /\ conn'[b].pos = Len(log) /\ Get(b, "open") \in gets'
      BY <1>0, <1>3, <2>1 DEF Open, storeVars
    <3>2. \A n : Fetching(b, n)'
      BY <3>1 DEF Fetching, Get
    <3> QED BY <1>0, <3>1, <3>2 DEF Covered
  <2>2. CASE c # b
    <3>1. UNCHANGED log /\ conn'[b] = conn[b] /\ newest' = newest /\ gets \subseteq gets'
      BY <1>0, <1>3, <2>2 DEF Open, storeVars
    <3> QED BY <1>0, <1>2, <3>1 DEF Fetching
  <2> QED BY <2>1, <2>2
<1>4. ASSUME NEW c \in Clients, CloseForGood(c) \/ Drop(c)
      PROVE  /\ conn'[b].pos <= Len(log')
             /\ conn'[b].status = "open" /\ member'[b] /\ row' # NoDocument
                  => \A i \in DOMAIN log' : Covered(b, i)'
  <2>1. UNCHANGED <<log, newest, gets>>
    BY <1>4 DEF CloseForGood, Drop, storeVars
  <2>2. conn'[b].pos = conn[b].pos /\ (conn'[b] = conn[b] \/ conn'[b].status # "open")
    BY <1>0, <1>4 DEF CloseForGood, Drop, Socket
  <2> QED BY <1>0, <1>2, <2>1, <2>2 DEF Fetching
<1>5. ASSUME NEW c \in Clients, Relay(c)
      PROVE  /\ conn'[b].pos <= Len(log')
             /\ conn'[b].status = "open" /\ member'[b] /\ row' # NoDocument
                  => \A i \in DOMAIN log' : Covered(b, i)'
  <2> DEFINE d == log[conn[c].pos + 1]
  <2>0. conn[c].pos + 1 \in DOMAIN log /\ view[c] \in Document \cup {NoDocument}
    BY <1>0, <1>5 DEF Relay, Socket
  <2>1. d \in Document /\ Merge(view[c], d) \in Document /\ Merge(view[c], d).rev >= d.rev
    BY <1>0, <2>0, MergeIsNewer, RevisionsAreNumbers
  <2>2. /\ \A a \in Clients : newest'[a] >= newest[a]
        /\ newest'[c] >= Merge(view[c], d).rev /\ newest' \in [Clients -> Nat]
    BY <1>0, <1>5, <2>1, ShowIsMonotone DEF Relay
  <2>3. UNCHANGED <<log, row, gets>>
    BY <1>5 DEF Relay, storeVars
  <2>4. CASE c # b
    BY <1>0, <1>2, <1>5, <2>2, <2>3, <2>4 DEF Relay, Fetching
  <2>5. CASE c = b
    <3>1. /\ conn'[b].pos = conn[b].pos + 1 /\ conn[b].pos < Len(log) /\ conn[b].status = "open"
      BY <1>0, <1>5, <2>5 DEF Relay, Socket
    <3>2. newest'[b] >= d.rev /\ d.rev \in Nat /\ newest'[b] \in Nat
      BY <2>1, <2>2, <2>5 DEF Document
    <3>3. \A i \in DOMAIN log : i \in Nat /\ log[i].rev \in Nat
      BY <1>0, RevisionsAreNumbers
    <3>4. ASSUME NEW i \in DOMAIN log, member'[b], row' # NoDocument
               PROVE  Covered(b, i)'
      <4>1. CASE i = conn[b].pos + 1
        BY <2>3, <2>5, <3>2, <4>1 DEF Covered
      <4>2. CASE i # conn[b].pos + 1
        <5>1. Covered(b, i) /\ newest'[b] >= newest[b]
          BY <1>0, <2>2, <2>3, <3>1, <3>4
        <5> QED BY <1>0, <2>3, <3>1, <3>2, <3>3, <4>2, <5>1 DEF Covered, Fetching
      <4> QED BY <4>1, <4>2
    <3> QED BY <1>0, <2>3, <3>1, <3>4
  <2> QED BY <2>4, <2>5
<1>6. ASSUME NEW g \in gets, ReadGet(g)
      PROVE  \A n \in {log[i].rev : i \in DOMAIN log} : Fetching(b, n) => Fetching(b, n)'
  <2>1. /\ row \in Document /\ g.doc = NoDocument
        /\ gets' = (gets \ {g}) \cup {[g EXCEPT !.doc = row]}
        /\ \A n \in {log[i].rev : i \in DOMAIN log} : n <= row.rev
    BY <1>6, LogBehindRow DEF ReadGet
  <2>2. /\ [g EXCEPT !.doc = row].client = g.client /\ [g EXCEPT !.doc = row].why = g.why
        /\ [g EXCEPT !.doc = row].doc = row
    BY <1>0
  <2>3. \A n \in {log[i].rev : i \in DOMAIN log} : n \in Nat
    BY <1>0, RevisionsAreNumbers
  <2> QED BY <2>1, <2>2, <2>3 DEF Fetching, Document
<1>7. ASSUME NEW g \in gets, Fetch(g)
      PROVE  /\ conn'[b].pos <= Len(log')
             /\ conn'[b].status = "open" /\ member'[b] /\ row' # NoDocument
                  => \A i \in DOMAIN log' : Covered(b, i)'
  <2>0. g.client \in Clients /\ g.doc \in Document \cup {NoDocument}
    BY <1>0
  <2>1. CASE ReadGet(g)
    <3>1. UNCHANGED <<log, row, conn, newest>>
      BY <2>1 DEF ReadGet, storeVars
    <3> QED BY <1>0, <1>6, <2>1, <3>1 DEF Covered
  <2>2. CASE FailGet(g)
    <3>1. UNCHANGED <<log, row, conn, newest>> /\ gets' = gets \ {g}
          /\ (row = NoDocument \/ ~member[g.client] \/ g.why # "open") /\ member' = member
      BY <2>2 DEF FailGet, storeVars
    <3> QED BY <1>0, <1>2, <3>1 DEF Fetching
  <2>3. CASE ApplyGet(g)
    <3> DEFINE e == IF g.why = "open" THEN Merge(view[g.client], g.doc) ELSE g.doc
    <3>1. g.doc \in Document /\ e \in Document /\ (g.why = "open" => e.rev >= g.doc.rev)
      BY <1>0, <2>0, <2>3, MergeIsNewer DEF ApplyGet
    <3>2. Show(g.client, e) /\ UNCHANGED <<log, row, conn>> /\ gets' = gets \ {g}
      BY <2>3 DEF ApplyGet, storeVars
    <3> HIDE DEF e
    <3>3. /\ \A a \in Clients : newest'[a] >= newest[a]
          /\ newest'[g.client] >= e.rev /\ newest' \in [Clients -> Nat]
      BY <1>0, <2>0, <3>1, <3>2, ShowIsMonotone
    <3>4. ASSUME NEW n \in Nat, Fetching(b, n) PROVE Fetching(b, n)' \/ n <= newest'[b]
      <4>1. PICK h \in gets : h.client = b /\ h.why = "open"
                                /\ (h.doc = NoDocument \/ h.doc.rev >= n)
        BY <3>4 DEF Fetching
      <4>2. CASE h = g
        <5>1. g.doc # NoDocument
          BY <2>3 DEF ApplyGet
        <5>2. g.doc.rev >= n /\ e.rev >= g.doc.rev /\ newest'[b] >= e.rev
          BY <3>1, <3>3, <4>1, <4>2, <5>1
        <5> QED BY <3>1, <3>3, <5>2 DEF Document
      <4>3. CASE h # g
        BY <3>2, <4>1, <4>3 DEF Fetching
      <4> QED BY <4>2, <4>3
    <3> QED BY <1>0, <1>2, <3>2, <3>3, <3>4
  <2> QED BY <1>7, <2>1, <2>2, <2>3 DEF Fetch
<1>8. ASSUME NEW c \in Clients, Page(c)
      PROVE  /\ conn'[b].pos <= Len(log')
             /\ conn'[b].status = "open" /\ member'[b] /\ row' # NoDocument
                  => \A i \in DOMAIN log' : Covered(b, i)'
  <2>1. UNCHANGED <<log, row, conn>> /\ gets \subseteq gets'
    BY <1>8 DEF Page, RefetchAfter, AdoptReplaced, SubmitFails, storeVars
  <2>2. newest'[b] >= newest[b]
    <3>1. CASE AdoptReplaced(c)
      <4> DEFINE d == copy[flow[c]]
                 e == IF view[c] # NoDocument /\ d.rev < view[c].rev THEN view[c] ELSE d
      <4>1. e \in Document /\ Show(c, e)
        BY <1>0, <3>1 DEF AdoptReplaced, IInv, TypeOK, CopiesBehindRow, Written, SyncTypeOK
      <4> HIDE DEF e
      <4> QED BY <1>0, <4>1, ShowIsMonotone
    <3>2. CASE RefetchAfter(c) \/ SubmitFails(c)
      BY <1>0, <3>2 DEF RefetchAfter, SubmitFails
    <3> QED BY <1>8, <3>1, <3>2 DEF Page
  <2> QED BY <1>0, <1>2, <2>1, <2>2 DEF Fetching
<1> QED BY <1>1, <1>3, <1>4, <1>5, <1>7, <1>8
  DEF SyncNext, ServerStep, Revoke, Submit, ReleaseNode, Elsewhere, vars, syncVars

-----------------------------------------------------------------------------
(* The GET that submitCommand awaits: there is one at most, only while the
   page waits for a command that was answered, and what it has read is not
   older than what the command committed. *)
AwaitedRefetch ==
  \A g \in gets : g.why = "refetch" =>
    LET r == flow[g.client]
    IN  /\ r \in Requests /\ pc[r] = "answered" /\ op[r].kind = "commands"
        /\ g.doc = NoDocument \/ g.doc.rev >= copy[r].rev
OneRefetch ==
  \A g, h \in gets : g.why = "refetch" /\ h.why = "refetch" /\ g.client = h.client => g = h
RefetchInv == AwaitedRefetch /\ OneRefetch

LEMMA RefetchPreserved == IInv /\ SyncTypeOK /\ RefetchInv /\ [SyncNext]_vars => RefetchInv'
<1> SUFFICES ASSUME IInv, SyncTypeOK, RefetchInv, [SyncNext]_vars PROVE RefetchInv'
  OBVIOUS
<1>0. /\ \A r \in Requests : pc[r] = "answered" =>
           pc'[r] = "answered" /\ op'[r] = op[r] /\ copy'[r] = copy[r]
      /\ flow \in [Clients -> Requests \cup {NoRequest}]
      /\ \A g \in gets : g \in [client : Clients, why : Cause, doc : Document \cup {NoDocument}]
  BY StoreSteps, StoreMoves DEF SyncTypeOK
<1> USE DEF RefetchInv, AwaitedRefetch, OneRefetch
<1>1. ASSUME gets' \subseteq gets,
             \A g \in gets' : g.why = "refetch" => flow'[g.client] = flow[g.client]
      PROVE  RefetchInv'
  BY <1>0, <1>1
<1>2. ASSUME NEW c \in Clients, Open(c) PROVE RefetchInv'
  BY <1>0, <1>2 DEF Open, Get
<1>3. ASSUME NEW g \in gets, ReadGet(g) PROVE RefetchInv'
  <2> DEFINE h == [g EXCEPT !.doc = row]
  <2>1. /\ h.client = g.client /\ h.why = g.why /\ h.doc = row
        /\ gets' = (gets \ {g}) \cup {h} /\ flow' = flow /\ row # NoDocument
    BY <1>0, <1>3 DEF ReadGet
  <2>2. \A r \in Requests : pc[r] = "answered" => row.rev >= copy[r].rev
    BY <2>1, LogBehindRow DEF Document
  <2> HIDE DEF h
  <2>3. \A f \in gets' : f.why = "refetch" =>
          \E e \in gets : /\ e.why = "refetch" /\ e.client = f.client
                          /\ f = IF e = g THEN h ELSE e
    BY <2>1
  <2>4. OneRefetch'
    BY <2>3
  <2>5. AwaitedRefetch'
    BY <1>0, <2>1, <2>2
  <2> QED BY <2>4, <2>5
<1>4. ASSUME NEW g \in gets, FailGet(g) \/ ApplyGet(g) PROVE RefetchInv'
  <2>1. gets' = gets \ {g} /\ EndAwait(g)
    BY <1>4 DEF FailGet, ApplyGet
  <2>2. ASSUME NEW f \in gets', f.why = "refetch" PROVE flow'[f.client] = flow[f.client]
    BY <1>0, <2>1, <2>2 DEF EndAwait
  <2> QED BY <1>1, <2>1, <2>2
<1>5. ASSUME NEW c \in Clients, RefetchAfter(c) PROVE RefetchInv'
  <2>1. /\ flow[c] \in Requests /\ pc[flow[c]] = "answered" /\ op[flow[c]].kind = "commands"
        /\ ~\E g \in gets : g.client = c /\ g.why = "refetch"
    BY <1>0, <1>5 DEF RefetchAfter
  <2>2. CASE gets' = gets \cup {Get(c, "refetch")} /\ flow' = flow
    <3>1. /\ Get(c, "refetch").client = c /\ Get(c, "refetch").doc = NoDocument
      BY DEF Get
    <3>2. AwaitedRefetch'
      BY <1>0, <2>1, <2>2, <3>1
    <3>3. OneRefetch'
      BY <2>1, <2>2, <3>1
    <3> QED BY <3>2, <3>3
  <2>3. CASE gets' \subseteq gets \cup {Get(c, "refresh")}
               /\ flow' = [flow EXCEPT ![c] = NoRequest]
    <3>1. Get(c, "refresh").why # "refetch"
      BY DEF Get
    <3>2. \A g \in gets' : g.why = "refetch" => g \in gets /\ g.client # c
      BY <2>1, <2>3, <3>1
    <3>3. \A g \in gets' : g.why = "refetch" => flow'[g.client] = flow[g.client]
      BY <1>0, <2>3, <3>2
    <3> QED BY <1>0, <3>2, <3>3
  <2> QED BY <1>5, <2>2, <2>3 DEF RefetchAfter
<1>6. ASSUME NEW c \in Clients, AdoptReplaced(c) \/ SubmitFails(c) PROVE RefetchInv'
  <2>1. /\ gets' = gets /\ flow' = [flow EXCEPT ![c] = NoRequest]
        /\ pc[flow[c]] # "answered" \/ op[flow[c]].kind # "commands"
    BY <1>6 DEF AdoptReplaced, SubmitFails
  <2>2. \A g \in gets : g.why = "refetch" => g.client # c
    BY <2>1
  <2> QED BY <1>0, <1>1, <2>1, <2>2
<1>7. ASSUME NEW c \in Clients, NEW r \in Requests, NEW o \in Operations, Submit(c, r, o)
      PROVE  RefetchInv'
  <2>1. gets' = gets /\ flow' = [flow EXCEPT ![c] = r] /\ flow[c] = NoRequest
    BY <1>7 DEF Submit
  <2>2. \A g \in gets : g.why = "refetch" => g.client # c
    BY <2>1, NoRequestAssumption
  <2> QED BY <1>0, <1>1, <2>1, <2>2
<1>8. ASSUME UNCHANGED <<gets, flow>> PROVE RefetchInv'
  BY <1>1, <1>8
<1> QED BY <1>2, <1>3, <1>4, <1>5, <1>6, <1>7, <1>8
  DEF SyncNext, Page, Fetch, ServerStep, CloseForGood, Relay, Drop, Revoke, ReleaseNode,
      Elsewhere, vars, syncVars

-----------------------------------------------------------------------------
\* Every state of the tabs is well typed.
THEOREM TabsTypeOK == SyncSpec => []SyncTypeOK
<1>1. SyncInit => SyncTypeOK
  <2>1. SyncInit => TypeOK
    BY InitInv DEF SyncInit, IInv
  <2> QED BY <2>1, SyncAssumption DEF SyncInit, SyncTypeOK, Get, Cause
<1>2. IInv /\ SyncTypeOK /\ [SyncNext]_vars => SyncTypeOK'
  BY SyncTypePreserved
<1> QED BY <1>1, <1>2, SyncStoreInvariance, PTL DEF SyncSpec

(* No broadcast is missed, whatever sockets are lost and in whatever order
   replies and messages arrive, as long as a member's GET of onOpen fails only on
   a document that is gone. *)
THEOREM TabsNoMissedBroadcast == "open" \notin FailingGets => (SyncSpec => []NoMissedBroadcast)
<1> SUFFICES ASSUME "open" \notin FailingGets PROVE SyncSpec => []NoMissedBroadcast
  OBVIOUS
<1>1. SyncInit => BroadcastsCovered
  BY DEF SyncInit, Init, BroadcastsCovered
<1>2. IInv /\ SyncTypeOK /\ BroadcastsCovered /\ [SyncNext]_vars => BroadcastsCovered'
  BY BroadcastsCoveredPreserved
<1>3. SyncTypeOK /\ BroadcastsCovered => NoMissedBroadcast
  <2> SUFFICES ASSUME SyncTypeOK, BroadcastsCovered, NEW c \in Clients, Quiet(c),
                      member[c], row # NoDocument, NEW i \in DOMAIN log
               PROVE  log[i].rev <= newest[c]
    BY DEF NoMissedBroadcast
  <2>1. Covered(c, i) /\ ~Fetching(c, log[i].rev)
    BY DEF BroadcastsCovered, Quiet, Fetching
  <2>2. ~(conn[c].pos < i)
    BY RevisionsAreNumbers DEF Quiet, SyncTypeOK, TypeOK
  <2> QED BY <2>1, <2>2 DEF Covered
<1> QED BY <1>1, <1>2, <1>3, TabsTypeOK, SyncStoreInvariance, PTL DEF SyncSpec

(* When submitCommand's own refetch is applied, the screen shows at least the
   revision its command committed, for any other writers in between. *)
THEOREM TabsReadYourWrites == SyncSpec => ReadYourWrites
<1> DEFINE Step == \A c \in Clients :
             flow[c] # NoRequest /\ flow'[c] = NoRequest /\ view'[c] # view[c]
               /\ pc[flow[c]] = "answered"
             => view'[c].rev >= copy[flow[c]].rev
<1>1. SyncInit => RefetchInv
  BY DEF SyncInit, RefetchInv, AwaitedRefetch, OneRefetch, Get
<1>2. IInv /\ SyncTypeOK /\ RefetchInv /\ [SyncNext]_vars => RefetchInv'
  BY RefetchPreserved
<1>3. IInv /\ SyncTypeOK /\ RefetchInv /\ [SyncNext]_vars => [Step]_vars
  <2> SUFFICES ASSUME IInv, SyncTypeOK, RefetchInv, SyncNext, NEW c \in Clients,
                      flow[c] # NoRequest, flow'[c] = NoRequest, view'[c] # view[c],
                      pc[flow[c]] = "answered"
               PROVE  view'[c].rev >= copy[flow[c]].rev
    OBVIOUS
  <2>0. /\ flow \in [Clients -> Requests \cup {NoRequest}]
        /\ view \in [Clients -> Document \cup {NoDocument}]
        /\ flow[c] \in Requests /\ copy[flow[c]] \in Document
        /\ \A g \in gets : g.client \in Clients
    BY DEF SyncTypeOK, IInv, TypeOK, CopiesBehindRow, Written
  <2>1. ASSUME NEW g \in gets, ApplyGet(g) PROVE view'[c].rev >= copy[flow[c]].rev
    <3>1. g.why = "refetch" /\ g.client = c /\ g.doc # NoDocument
      BY <2>0, <2>1 DEF ApplyGet, EndAwait
    <3>2. view'[c] = g.doc
      BY <2>0, <2>1, <3>1 DEF ApplyGet, Show
    <3> QED BY <3>1, <3>2 DEF RefetchInv, AwaitedRefetch
  <2>2. ASSUME NEW b \in Clients, AdoptReplaced(b) PROVE view'[c].rev >= copy[flow[c]].rev
    <3>1. b = c
      BY <2>0, <2>2 DEF AdoptReplaced
    <3>2. view'[c] = copy[flow[c]]
      BY <2>0, <2>2, <3>1 DEF AdoptReplaced, Show
    <3> QED BY <2>0, <3>2 DEF Document
  <2>3. ASSUME NEW b \in Clients, RefetchAfter(b) \/ SubmitFails(b) PROVE FALSE
    BY <2>3 DEF RefetchAfter, SubmitFails
  <2>4. ASSUME NEW g \in gets, ReadGet(g) \/ FailGet(g) PROVE FALSE
    BY <2>4 DEF ReadGet, FailGet
  <2>5. ASSUME NEW b \in Clients,
               \/ Open(b) \/ CloseForGood(b) \/ Relay(b) \/ Drop(b) \/ Revoke(b)
        PROVE  FALSE
    BY <2>5 DEF Open, CloseForGood, Relay, Drop, Revoke
  <2>6. ASSUME NEW b \in Clients, NEW r \in Requests, NEW o \in Operations,
               Submit(b, r, o)
        PROVE  FALSE
    BY <2>6 DEF Submit
  <2> QED BY <2>1, <2>2, <2>3, <2>4, <2>5, <2>6
    DEF SyncNext, Page, Fetch, ServerStep, ReleaseNode, Elsewhere, syncVars
<1> QED BY <1>1, <1>2, <1>3, TabsTypeOK, SyncStoreInvariance, PTL DEF SyncSpec, ReadYourWrites
=============================================================================
