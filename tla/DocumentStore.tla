--------------------------- MODULE DocumentStore ---------------------------
(***************************************************************************)
(* Concurrent requests on one UmlDocument row.  Every writer but the       *)
(* delete runs in a transaction that reads the row with SELECT .. FOR      *)
(* UPDATE, computes the new document from that copy, saves it and commits; *)
(* only after the commit, when the row lock is already gone, does its      *)
(* on_commit hook send `document.update' to the document's channel group.  *)
(* The group is the log of its messages in the order they were sent: Redis *)
(* appends one message to the channel of every member in a single script.  *)
(***************************************************************************)
EXTENDS DocumentOps

CONSTANTS
  NoRequest,    \* the row lock is free
  NoOperation   \* a request that has not arrived

VARIABLES
  row,      \* the committed row
  locker,   \* the request whose transaction holds the row lock
  pc,       \* how far each request is
  op,       \* what it asks for
  copy,     \* the document it read, then the document it committed
  log       \* messages of the group uml-doc-{id}, oldest first

storeVars == <<row, locker, pc, op, copy, log>>

ASSUME NoRequestAssumption == NoRequest \notin Requests
ASSUME NoOperationAssumption == NoOperation \notin Operation

Init ==
  /\ row = NewDocument
  /\ locker = NoRequest
  /\ pc = [r \in Requests |-> "new"]
  /\ op = [r \in Requests |-> NoOperation]
  /\ copy = [r \in Requests |-> NoDocument]
  /\ log = <<>>

\* A request reaches the service, its membership and role already checked.
Begin(r, o) ==
  /\ pc[r] = "new"
  /\ pc' = [pc EXCEPT ![r] = "waiting"]
  /\ op' = [op EXCEPT ![r] = o]
  /\ UNCHANGED <<row, locker, copy, log>>

-----------------------------------------------------------------------------
\* Mutant of GetRow: the row is read without FOR UPDATE.
GetRowUnlocked(r) ==
  /\ pc[r] = "waiting" /\ op[r].kind # "delete"
  /\ row # NoDocument
  /\ locker' = r
  /\ copy' = [copy EXCEPT ![r] = row]
  /\ pc' = [pc EXCEPT ![r] = "locked"]
  /\ UNCHANGED <<row, op, log>>

\* _get_row(for_update=True) returns the latest committed row and locks it.
GetRow(r) ==
  /\ pc[r] = "waiting" /\ op[r].kind # "delete"
  /\ locker = NoRequest /\ row # NoDocument
  /\ locker' = r
  /\ copy' = [copy EXCEPT ![r] = row]
  /\ pc' = [pc EXCEPT ![r] = "locked"]
  /\ UNCHANGED <<row, op, log>>

(* The row is gone: _get_row raises Http404 at the first or at a later read, or
   the DELETE of delete_document matches nothing and is still answered 204. *)
NotFound(r) ==
  /\ pc[r] = "waiting" \/ (pc[r] = "found" /\ op[r].kind = "delete")
  /\ locker = NoRequest /\ row = NoDocument
  /\ pc' = [pc EXCEPT ![r] = "missing"]
  /\ UNCHANGED <<row, locker, op, copy, log>>

\* Mutant of Refuse: the transaction is left open when a check raises.
RefuseKeepsLock(r) ==
  /\ pc[r] = "locked"
  /\ ~Accepts(copy[r], op[r])
  /\ pc' = [pc EXCEPT ![r] = "refused"]
  /\ UNCHANGED <<row, locker, op, copy, log>>

\* A check raises inside the transaction, which rolls back.
Refuse(r) ==
  /\ pc[r] = "locked"
  /\ ~Accepts(copy[r], op[r])
  /\ locker' = NoRequest
  /\ pc' = [pc EXCEPT ![r] = "refused"]
  /\ UNCHANGED <<row, op, copy, log>>

\* save_layout_position returns the document it read: no write, no broadcast.
LeaveUnchanged(r) ==
  /\ pc[r] = "locked"
  /\ Accepts(copy[r], op[r]) /\ ~Writes(copy[r], op[r])
  /\ locker' = NoRequest
  /\ pc' = [pc EXCEPT ![r] = "unchanged"]
  /\ UNCHANGED <<row, op, copy, log>>

\* Mutant of Commit: the document is also broadcast from inside the transaction.
CommitBroadcasting(r) ==
  /\ pc[r] = "locked"
  /\ Accepts(copy[r], op[r]) /\ Writes(copy[r], op[r])
  /\ row' = Result(copy[r], op[r], r)
  /\ copy' = [copy EXCEPT ![r] = row']
  /\ log' = Append(log, row')
  /\ locker' = NoRequest
  /\ pc' = [pc EXCEPT ![r] = "committed"]
  /\ UNCHANGED op

\* _save and COMMIT; on_commit is still to run.
Commit(r) ==
  /\ pc[r] = "locked"
  /\ Accepts(copy[r], op[r]) /\ Writes(copy[r], op[r])
  /\ row' = Result(copy[r], op[r], r)
  /\ copy' = [copy EXCEPT ![r] = row']
  /\ locker' = NoRequest
  /\ pc' = [pc EXCEPT ![r] = "committed"]
  /\ UNCHANGED <<op, log>>

\* broadcast_document, after which the response is returned.
Broadcast(r) ==
  /\ pc[r] = "committed"
  /\ log' = Append(log, copy[r])
  /\ pc' = [pc EXCEPT ![r] = "answered"]
  /\ UNCHANGED <<row, locker, op, copy>>

\* group_send raises (Redis down): the client gets an error for a committed write.
BroadcastFails(r) ==
  /\ pc[r] = "committed"
  /\ pc' = [pc EXCEPT ![r] = "failed"]
  /\ UNCHANGED <<row, locker, op, copy, log>>

-----------------------------------------------------------------------------
\* delete_document_view: get_document answers 404 before any side effect ...
FindForDelete(r) ==
  /\ pc[r] = "waiting" /\ op[r].kind = "delete"
  /\ row # NoDocument
  /\ pc' = [pc EXCEPT ![r] = "found"]
  /\ UNCHANGED <<row, locker, op, copy, log>>

\* ... then delete_document, whose DELETE waits for the row lock it never took.
DeleteRow(r) ==
  /\ pc[r] = "found"
  /\ locker = NoRequest /\ row # NoDocument
  /\ row' = NoDocument
  /\ pc' = [pc EXCEPT ![r] = "deleted"]
  /\ UNCHANGED <<locker, op, copy, log>>

\* The transaction steps of one request, in the order the code takes them.
Serve(r) ==
  \/ GetRow(r)
  \/ NotFound(r)
  \/ Refuse(r)
  \/ LeaveUnchanged(r)
  \/ Commit(r)
  \/ Broadcast(r)
  \/ FindForDelete(r)
  \/ DeleteRow(r)

Next ==
  \E r \in Requests :
    \/ \E o \in Operations : Begin(r, o)
    \/ Serve(r)
    \/ BroadcastFails(r)

Spec == Init /\ [][Next]_storeVars
FairSpec == Spec /\ \A r \in Requests : WF_storeVars(Serve(r))

-----------------------------------------------------------------------------
Ended == {"missing", "refused", "unchanged", "answered", "failed", "deleted"}
Written == {"committed", "answered", "failed"}

\* Every value is of its type; the row starts at, and never leaves, positive revisions.
TypeOK ==
  /\ row \in Document \cup {NoDocument}
  /\ locker \in Requests \cup {NoRequest}
  /\ pc \in [Requests -> {"new", "waiting", "locked", "committed", "found"} \cup Ended]
  /\ op \in [Requests -> Operations \cup {NoOperation}]
  /\ copy \in [Requests -> Document \cup {NoDocument}]
  /\ log \in Seq(Document)

(* The row lock makes the read-apply-save of services.py serial: whoever is
   inside its transaction computes from the row as it is now committed. *)
LockedCopyIsFresh ==
  \A r \in Requests :
    pc[r] = "locked" => locker = r /\ row # NoDocument /\ copy[r] = row

(* No acknowledged or committed write is silently overwritten by a concurrent
   one: its effect shows until a whole-document replace supersedes it. *)
NoLostUpdate ==
  \A r \in Requests :
    pc[r] \in Written /\ row # NoDocument =>
      r \in row.applied \/ copy[r].rev < row.base

(* A revision number names one document.  Clients drop a document whose
   revision they already have, so two different documents under one revision
   would never be told apart. *)
OneDocumentPerRevision ==
  LET Known == {copy[r] : r \in {q \in Requests : pc[q] \in Written}}
                 \cup {log[i] : i \in DOMAIN log}
                 \cup ({row} \ {NoDocument})
  IN  \A d, e \in Known : d.rev = e.rev => d = e

(* Each committed write is broadcast exactly once and nothing else is: a
   refused, missing or no-op request sends nothing, and the order of the
   broadcasts may differ from the order of the commits. *)
OneBroadcastPerCommit ==
  /\ \A i \in DOMAIN log : \E r \in Requests : pc[r] = "answered" /\ copy[r] = log[i]
  /\ \A r \in Requests : pc[r] = "answered" => \E i \in DOMAIN log : copy[r] = log[i]
  /\ \A i, j \in DOMAIN log : log[i] = log[j] => i = j

(* A batch made from a preview (expected_revision) commits only on the
   revision that was previewed, whatever committed in between. *)
StalePreviewRefused ==
  \A r \in Requests :
    pc[r] \in Written /\ op[r].kind = "commands" /\ op[r].expected # AnyRevision =>
      copy[r].rev = op[r].expected + Len(op[r].cmds)

(* save_layout_position may race RemoveClass: a position is only ever added
   for a class that is live when it is committed, and while the row exists
   its revision only grows. *)
PositionsOfLiveClassesOnly ==
  [][row # NoDocument /\ row' # NoDocument /\ row' # row =>
       /\ row'.rev > row.rev
       /\ row'.layout \ row.layout \subseteq row'.classes]_storeVars

\* The store implements the atomic document: a write takes effect at its commit.
Atomic == INSTANCE AtomicDocument WITH
  doc <- row, done <- {r \in Requests : pc[r] \in Written \cup {"deleted"}}
ImplementsAtomicDocument == Atomic!Spec

(* No request waits for the row lock forever: every transaction that takes it
   ends, whether it commits, rolls back or finds the row deleted. *)
EveryRequestEnds == \A r \in Requests : pc[r] = "waiting" ~> pc[r] \in Ended
=============================================================================
