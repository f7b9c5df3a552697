----------------------------- MODULE Membership -----------------------------
(***************************************************************************)
(* The members of one organization and concurrent requests that change     *)
(* them (backend/apps/organizations: api.py, permissions.py, services.py). *)
(*                                                                         *)
(* A request is authorized first, by a read of its own.  A role change or  *)
(* a removal then locks the target's row, counts the other owners and      *)
(* writes, in one transaction.  The count takes no lock: SELECT .. FOR     *)
(* UPDATE is not allowed with an aggregate, so the ORM leaves it out, and  *)
(* the count sees what is committed by then (READ COMMITTED).              *)
(***************************************************************************)
EXTENDS Naturals, FiniteSets

CONSTANTS
  Users,        \* registered users
  FirstOwners,  \* the owners the organization has when the requests arrive
  Requests,     \* HTTP requests
  NoRequest,    \* a row nobody has locked, a request that asks for nothing yet
  NoMember      \* the role of a user without a membership

ASSUME FirstOwnersAssumption == FirstOwners \subseteq Users /\ FirstOwners # {}
ASSUME NoRequestAssumption == NoRequest \notin Requests

VARIABLES
  exists,   \* the organization has not been deleted
  role,     \* role[u]: the committed membership row of u
  locker,   \* locker[u]: the request whose transaction has locked that row
  pc,       \* how far each request is
  req,      \* what it asks for
  seen,     \* the role its locked read returned
  alone     \* history: no other transaction overlapped r's since it locked its row

vars == <<exists, role, locker, pc, req, seen, alone>>

Role == {"OWNER", "EDITOR"}   \* VIEWER is treated like EDITOR here
MayHold == Role \cup {NoMember}

\* MemberAddIn admits no OWNER; "dissolve" is delete_organization.
Request ==
  [kind : {"add"}, by : Users, on : Users, to : {"EDITOR"}]
    \cup [kind : {"change"}, by : Users, on : Users, to : Role]
    \cup [kind : {"remove"}, by : Users, on : Users]
    \cup [kind : {"dissolve"}, by : Users]

ASSUME NoRequestIsNotARequest == NoRequest \notin Request
ASSUME NoMemberAssumption == NoMember \notin Role

\* create_organization has made its creator an owner; others may have been added.
Init ==
  /\ exists = TRUE
  /\ role = [u \in Users |-> IF u \in FirstOwners THEN "OWNER" ELSE NoMember]
  /\ locker = [u \in Users |-> NoRequest]
  /\ pc = [r \in Requests |-> "new"]
  /\ req = [r \in Requests |-> NoRequest]
  /\ seen = [r \in Requests |-> NoMember]
  /\ alone = [r \in Requests |-> TRUE]

-----------------------------------------------------------------------------
(* resolve_membership and require_role: a member may leave, everything else
   takes an owner.  The answer is not looked at again. *)
Allowed(q) ==
  \/ role[q.by] = "OWNER"
  \/ role[q.by] # NoMember /\ q.kind = "remove" /\ q.on = q.by

Authorize(r, q) ==
  /\ pc[r] = "new"
  /\ req' = [req EXCEPT ![r] = q]
  /\ pc' = [pc EXCEPT ![r] = IF Allowed(q) THEN "allowed" ELSE "refused"]
  /\ UNCHANGED <<exists, role, locker, seen, alone>>

\* add_member looks for a membership, then inserts one; two statements, no transaction.
CheckAbsent(r) ==
  /\ pc[r] = "allowed" /\ req[r].kind = "add"
  /\ pc' = [pc EXCEPT ![r] = IF role[req[r].on] = NoMember THEN "absent" ELSE "refused"]
  /\ UNCHANGED <<exists, role, locker, req, seen, alone>>

(* The unique constraint decides, once a transaction that may be deleting the
   row has ended; with the organization gone the foreign key refuses. *)
Insert(r) ==
  LET u == req[r].on
  IN  /\ pc[r] = "absent" /\ locker[u] = NoRequest
      /\ IF exists /\ role[u] = NoMember
         THEN /\ role' = [role EXCEPT ![u] = req[r].to]
              /\ pc' = [pc EXCEPT ![r] = "done"]
         ELSE /\ pc' = [pc EXCEPT ![r] = "refused"]
              /\ UNCHANGED role
      /\ UNCHANGED <<exists, locker, req, seen, alone>>

-----------------------------------------------------------------------------
InTransaction == {r \in Requests : pc[r] \in {"locked", "counted"}}

\* r's transaction now overlaps all those under way, and they overlap it.
Overlap(r) ==
  alone' = [s \in Requests |-> IF s = r THEN InTransaction = {}
                               ELSE alone[s] /\ s \notin InTransaction]

\* Mutant of LockRow: the row is read without FOR UPDATE.
ReadRow(r) ==
  LET u == req[r].on
  IN  /\ pc[r] = "allowed" /\ req[r].kind \in {"change", "remove"}
      /\ role[u] # NoMember
      /\ seen' = [seen EXCEPT ![r] = role[u]]
      /\ pc' = [pc EXCEPT ![r] = "locked"]
      /\ Overlap(r)
      /\ UNCHANGED <<exists, role, locker, req>>

\* change_member_role, remove_member: SELECT .. FOR UPDATE of the target's row.
LockRow(r) ==
  LET u == req[r].on
  IN  /\ pc[r] = "allowed" /\ req[r].kind \in {"change", "remove"}
      /\ locker[u] = NoRequest /\ role[u] # NoMember
      /\ locker' = [locker EXCEPT ![u] = r]
      /\ seen' = [seen EXCEPT ![r] = role[u]]
      /\ pc' = [pc EXCEPT ![r] = "locked"]
      /\ Overlap(r)
      /\ UNCHANGED <<exists, role, req>>

\* The target is not a member, or is no longer one.
NoSuchMember(r) ==
  /\ pc[r] = "allowed" /\ req[r].kind \in {"change", "remove"}
  /\ locker[req[r].on] = NoRequest /\ role[req[r].on] = NoMember
  /\ pc' = [pc EXCEPT ![r] = "refused"]
  /\ UNCHANGED <<exists, role, locker, req, seen, alone>>

\* Whether r takes an owner away: only then are the other owners counted.
EndsOwner(r) == seen[r] = "OWNER" /\ (req[r].kind = "change" => req[r].to # "OWNER")
OtherOwners(u) == {v \in Users \ {u} : role[v] = "OWNER"}

\* Mutant of CountOwners: the count includes the target, which is an owner itself.
CountEveryOwner(r) ==
  /\ pc[r] = "locked"
  /\ pc' = [pc EXCEPT ![r] = "counted"]
  /\ UNCHANGED <<exists, role, locker, req, seen, alone>>

\* _assert_not_last_owner: LastOwnerError rolls the transaction back.
CountOwners(r) ==
  LET u == req[r].on
  IN  /\ pc[r] = "locked"
      /\ IF EndsOwner(r) /\ OtherOwners(u) = {}
         THEN /\ pc' = [pc EXCEPT ![r] = "refused"]
              /\ locker' = [locker EXCEPT ![u] = NoRequest]
         ELSE /\ pc' = [pc EXCEPT ![r] = "counted"]
              /\ UNCHANGED locker
      /\ UNCHANGED <<exists, role, req, seen, alone>>

\* The UPDATE or DELETE, and COMMIT.
Write(r) ==
  LET u == req[r].on
  IN  /\ pc[r] = "counted"
      /\ role' = [role EXCEPT ![u] = IF req[r].kind = "remove" THEN NoMember ELSE req[r].to]
      /\ locker' = [locker EXCEPT ![u] = NoRequest]
      /\ pc' = [pc EXCEPT ![r] = "done"]
      /\ UNCHANGED <<exists, req, seen, alone>>

\* delete_organization cascades to every membership, whose rows it waits for.
Dissolve(r) ==
  /\ pc[r] = "allowed" /\ req[r].kind = "dissolve"
  /\ \A u \in Users : locker[u] = NoRequest
  /\ exists' = FALSE
  /\ role' = [u \in Users |-> NoMember]
  /\ pc' = [pc EXCEPT ![r] = "done"]
  /\ UNCHANGED <<locker, req, seen, alone>>

-----------------------------------------------------------------------------
Serve(r) ==
  \/ CheckAbsent(r) \/ Insert(r)
  \/ LockRow(r) \/ NoSuchMember(r) \/ CountOwners(r) \/ Write(r)
  \/ Dissolve(r)

Next == \E r \in Requests : (\E q \in Request : Authorize(r, q)) \/ Serve(r)

Spec == Init /\ [][Next]_vars

-----------------------------------------------------------------------------
\* Every variable holds a value of its type, the histories included.
TypeOK ==
  /\ exists \in BOOLEAN
  /\ role \in [Users -> MayHold]
  /\ locker \in [Users -> Requests \cup {NoRequest}]
  /\ pc \in [Requests -> {"new", "allowed", "absent", "locked", "counted", "done", "refused"}]
  /\ req \in [Requests -> Request \cup {NoRequest}]
  /\ seen \in [Requests -> MayHold]
  /\ alone \in [Requests -> BOOLEAN]

Owners == {u \in Users : role[u] = "OWNER"}

(* "an organization must always have at least one OWNER": the shared check
   behind demotion and removal keeps one, whatever requests run together. *)
AlwaysAnOwner == exists => Owners # {}

(* What the check does achieve: the last owner is lost only by two
   transactions that each took an owner away and overlapped each other. *)
OwnerlessOnlyByOverlap ==
  exists /\ Owners = {} =>
    \E r, s \in Requests :
      r # s /\ \A x \in {r, s} : pc[x] = "done" /\ ~alone[x] /\ seen[x] = "OWNER"

(* Nobody stops being an owner unchecked: the transaction that does it read
   the row as OWNER under its lock, so a promotion that commits after the read
   of a removal cannot slip past the count. *)
OwnerEndsCounted ==
  [][\A u \in Users : role[u] = "OWNER" /\ role'[u] # "OWNER" /\ exists' =>
       \E r \in Requests : pc[r] = "counted" /\ req[r].on = u /\ seen[r] = "OWNER"]_vars
=============================================================================
