------------------------- MODULE Membership_proofs -------------------------
(***************************************************************************)
(* What holds of the members of an organization for any number of users    *)
(* and concurrent requests: an owner ends only after a count under the     *)
(* lock of its row, so the organization loses its last owner only if two   *)
(* such transactions overlap.                                              *)
(***************************************************************************)
EXTENDS Membership, TLAPS

\* A request in a transaction holds the lock of its target's row, and nobody else does.
LocksHeld ==
  /\ \A r \in Requests : pc[r] # "new" => req[r] \in Request
  /\ \A r \in Requests : pc[r] = "absent" => req[r].kind = "add"
  /\ \A r \in InTransaction :
       /\ req[r].kind \in {"change", "remove"}
       /\ locker[req[r].on] = r
  /\ \A u \in Users :
       locker[u] # NoRequest => locker[u] \in InTransaction /\ req[locker[u]].on = u

\* The locked row is still as it was read.
SeenIsCurrent == \A r \in InTransaction : seen[r] = role[req[r].on]

\* Two transactions that are both under way have overlapped.
OverlapIsNoted == \A r, s \in InTransaction : r # s => ~alone[r]

\* s took an owner away while another transaction was under way.
TookOwner(s) == pc[s] = "done" /\ ~alone[s] /\ seen[s] = "OWNER"

(* The count of a transaction stays true until its write, or else some
   overlapping transaction has taken an owner away meanwhile. *)
CountHolds ==
  \A r \in Requests :
    pc[r] = "counted" /\ EndsOwner(r) =>
      \/ \E v \in Users : v # req[r].on /\ role[v] = "OWNER"
      \/ ~alone[r] /\ \E s \in Requests : s # r /\ TookOwner(s)

IInv ==
  TypeOK /\ LocksHeld /\ SeenIsCurrent /\ OverlapIsNoted /\ CountHolds /\ OwnerlessOnlyByOverlap

-----------------------------------------------------------------------------
\* An organization with an owner and no request under way satisfies the invariant.
LEMMA InitInv == Init => IInv
BY FirstOwnersAssumption, NoRequestAssumption
DEF Init, IInv, TypeOK, LocksHeld, SeenIsCurrent, OverlapIsNoted, CountHolds,
    OwnerlessOnlyByOverlap, InTransaction, Owners, MayHold, Role

\* The fields of a request, by its kind.
LEMMA RequestFields ==
  ASSUME NEW q \in Request
  PROVE  /\ q.by \in Users
         /\ q.kind \in {"add", "change", "remove"} => q.on \in Users
         /\ q.kind \in {"add", "change"} => q.to \in Role
BY DEF Request, Role

\* Every step keeps every value in its type.
LEMMA TypePreserved == TypeOK /\ LocksHeld /\ [Next]_vars => TypeOK'
<1> SUFFICES ASSUME TypeOK, LocksHeld, [Next]_vars PROVE TypeOK'
  OBVIOUS
<1> USE DEF TypeOK, MayHold
<1>0. \A r \in Requests : pc[r] # "new" => req[r] \in Request
  BY DEF LocksHeld
<1>1. ASSUME NEW r \in Requests, NEW q \in Request, Authorize(r, q) PROVE TypeOK'
  BY <1>1 DEF Authorize
<1>2. ASSUME NEW r \in Requests, CheckAbsent(r) PROVE TypeOK'
  BY <1>2 DEF CheckAbsent
<1>3. ASSUME NEW r \in Requests, Insert(r) PROVE TypeOK'
  <2>1. req[r].on \in Users /\ req[r].to \in Role
    BY <1>0, <1>3, RequestFields DEF Insert, LocksHeld
  <2> QED BY <1>3, <2>1 DEF Insert
<1>4. ASSUME NEW r \in Requests, LockRow(r) PROVE TypeOK'
  <2>1. req[r].on \in Users
    BY <1>0, <1>4, RequestFields DEF LockRow
  <2> QED BY <1>4, <2>1 DEF LockRow, Overlap
<1>5. ASSUME NEW r \in Requests, NoSuchMember(r) PROVE TypeOK'
  BY <1>5 DEF NoSuchMember
<1>6. ASSUME NEW r \in Requests, CountOwners(r) PROVE TypeOK'
  BY <1>6 DEF CountOwners
<1>7. ASSUME NEW r \in Requests, Write(r) PROVE TypeOK'
  <2>1. req[r] \in Request /\ req[r].kind \in {"change", "remove"}
    BY <1>0, <1>7 DEF Write, LocksHeld, InTransaction
  <2> QED BY <1>7, <2>1, RequestFields DEF Write
<1>8. ASSUME NEW r \in Requests, Dissolve(r) PROVE TypeOK'
  BY <1>8 DEF Dissolve
<1>9. CASE UNCHANGED vars
  BY <1>9 DEF vars
<1> QED BY <1>1, <1>2, <1>3, <1>4, <1>5, <1>6, <1>7, <1>8, <1>9 DEF Next, Serve

\* Locks are taken and given back together with the steps of their transaction.
LEMMA LocksPreserved == TypeOK /\ LocksHeld /\ [Next]_vars => LocksHeld'
<1> SUFFICES ASSUME TypeOK, LocksHeld, [Next]_vars PROVE LocksHeld'
  OBVIOUS
<1> USE NoRequestAssumption DEF TypeOK, LocksHeld, InTransaction
<1>1. ASSUME NEW r \in Requests, NEW q \in Request, Authorize(r, q) PROVE LocksHeld'
  BY <1>1 DEF Authorize
<1>2. ASSUME NEW r \in Requests, CheckAbsent(r) PROVE LocksHeld'
  BY <1>2 DEF CheckAbsent
<1>3. ASSUME NEW r \in Requests, Insert(r) PROVE LocksHeld'
  BY <1>3 DEF Insert
<1>4. ASSUME NEW r \in Requests, LockRow(r) PROVE LocksHeld'
  <2>1. req[r] \in Request /\ req[r].on \in Users
    BY <1>4, RequestFields DEF LockRow
  <2> QED BY <1>4, <2>1 DEF LockRow
<1>5. ASSUME NEW r \in Requests, NoSuchMember(r) PROVE LocksHeld'
  BY <1>5 DEF NoSuchMember
<1>6. ASSUME NEW r \in Requests, CountOwners(r) PROVE LocksHeld'
  <2>1. req[r] \in Request /\ req[r].on \in Users /\ locker[req[r].on] = r
    BY <1>6, RequestFields DEF CountOwners
  <2>2. \A t \in Requests : t # r => pc'[t] = pc[t]
    BY <1>6 DEF CountOwners
  <2>3. CASE pc'[r] = "counted" /\ locker' = locker
    BY <1>6, <2>1, <2>2, <2>3 DEF CountOwners
  <2>4. CASE pc'[r] = "refused" /\ locker' = [locker EXCEPT ![req[r].on] = NoRequest]
    BY <1>6, <2>1, <2>2, <2>4 DEF CountOwners
  <2> QED BY <1>6, <2>3, <2>4 DEF CountOwners
<1>7. ASSUME NEW r \in Requests, Write(r) PROVE LocksHeld'
  <2>1. req[r] \in Request /\ req[r].on \in Users /\ locker[req[r].on] = r
    BY <1>7, RequestFields DEF Write
  <2>2. /\ pc'[r] = "done" /\ \A t \in Requests : t # r => pc'[t] = pc[t]
        /\ locker' = [locker EXCEPT ![req[r].on] = NoRequest] /\ req' = req
    BY <1>7 DEF Write
  <2> QED BY <2>1, <2>2
<1>8. ASSUME NEW r \in Requests, Dissolve(r) PROVE LocksHeld'
  BY <1>8 DEF Dissolve
<1>9. CASE UNCHANGED vars
  BY <1>9 DEF vars
<1> QED BY <1>1, <1>2, <1>3, <1>4, <1>5, <1>6, <1>7, <1>8, <1>9 DEF Next, Serve

\* With no row locked, nobody is in a transaction.
LEMMA NobodyInTransaction ==
  ASSUME TypeOK, LocksHeld, \A u \in Users : locker[u] = NoRequest
  PROVE  InTransaction = {}
BY NoRequestAssumption, RequestFields DEF LocksHeld, InTransaction

\* Only the holder of the lock, or nobody, changes the row of a transaction.
LEMMA SeenPreserved ==
  TypeOK /\ LocksHeld /\ SeenIsCurrent /\ [Next]_vars => SeenIsCurrent'
<1> SUFFICES ASSUME TypeOK, LocksHeld, SeenIsCurrent, [Next]_vars,
                    NEW s \in Requests, s \in InTransaction'
             PROVE  seen'[s] = role'[req'[s].on]
  BY DEF SeenIsCurrent, InTransaction
<1> USE NoRequestAssumption DEF TypeOK, LocksHeld, SeenIsCurrent, InTransaction
<1>1. ASSUME NEW r \in Requests, NEW q \in Request, Authorize(r, q)
      PROVE  seen'[s] = role'[req'[s].on]
  BY <1>1 DEF Authorize
<1>2. ASSUME NEW r \in Requests, CheckAbsent(r) \/ NoSuchMember(r) \/ CountOwners(r)
      PROVE  seen'[s] = role'[req'[s].on]
  BY <1>2 DEF CheckAbsent, NoSuchMember, CountOwners
<1>3. ASSUME NEW r \in Requests, Insert(r) PROVE seen'[s] = role'[req'[s].on]
  <2>1. s \in InTransaction /\ locker[req[s].on] = s /\ locker[req[r].on] = NoRequest
    BY <1>3 DEF Insert
  <2>2. role'[req[s].on] = role[req[s].on]
    BY <1>3, <2>1, RequestFields DEF Insert
  <2> QED BY <1>3, <2>1, <2>2 DEF Insert
<1>4. ASSUME NEW r \in Requests, LockRow(r) PROVE seen'[s] = role'[req'[s].on]
  BY <1>4 DEF LockRow
<1>5. ASSUME NEW r \in Requests, Write(r) PROVE seen'[s] = role'[req'[s].on]
  <2>1. s \in InTransaction /\ s # r /\ req[r].on # req[s].on
    BY <1>5 DEF Write
  <2> QED BY <1>5, <2>1 DEF Write
<1>6. ASSUME NEW r \in Requests, Dissolve(r) PROVE seen'[s] = role'[req'[s].on]
  <2>1. s \in InTransaction
    BY <1>6 DEF Dissolve
  <2> QED BY <1>6, <2>1, NobodyInTransaction DEF Dissolve
<1>7. CASE UNCHANGED vars
  BY <1>7 DEF vars
<1> QED BY <1>1, <1>2, <1>3, <1>4, <1>5, <1>6, <1>7 DEF Next, Serve

\* A transaction that begins notes the overlap on both sides.
LEMMA OverlapPreserved == TypeOK /\ OverlapIsNoted /\ [Next]_vars => OverlapIsNoted'
<1> SUFFICES ASSUME TypeOK, OverlapIsNoted, [Next]_vars PROVE OverlapIsNoted'
  OBVIOUS
<1> USE DEF TypeOK, OverlapIsNoted, InTransaction
<1>1. ASSUME NEW r \in Requests, LockRow(r) PROVE OverlapIsNoted'
  BY <1>1 DEF LockRow, Overlap
<1>2. ASSUME NEW r \in Requests, NEW q \in Request, Authorize(r, q) PROVE OverlapIsNoted'
  BY <1>2 DEF Authorize
<1>3. ASSUME NEW r \in Requests,
             \/ CheckAbsent(r) \/ Insert(r) \/ NoSuchMember(r)
             \/ CountOwners(r) \/ Write(r) \/ Dissolve(r)
      PROVE  OverlapIsNoted'
  BY <1>3 DEF CheckAbsent, Insert, NoSuchMember, CountOwners, Write, Dissolve
<1>4. CASE UNCHANGED vars
  BY <1>4 DEF vars
<1> QED BY <1>1, <1>2, <1>3, <1>4 DEF Next, Serve

-----------------------------------------------------------------------------
(* Unless the organization is deleted, an owner ends only by the write of a
   transaction that read the row as that of an owner. *)
LEMMA OwnerEndsByWrite ==
  ASSUME TypeOK, LocksHeld, SeenIsCurrent, [Next]_vars, \A r \in Requests : ~Dissolve(r),
         NEW u \in Users, role[u] = "OWNER", role'[u] # "OWNER"
  PROVE  \E r \in Requests :
           Write(r) /\ req[r].on = u /\ seen[r] = "OWNER" /\ EndsOwner(r)
<1> USE DEF TypeOK
<1>1. ASSUME NEW r \in Requests, Write(r)
      PROVE  req[r].on = u /\ seen[r] = "OWNER" /\ EndsOwner(r)
  <2>1. req[r] \in Request /\ req[r].on \in Users /\ r \in InTransaction
    BY <1>1, RequestFields DEF Write, LocksHeld, InTransaction
  <2>2. req[r].on = u
    BY <1>1, <2>1 DEF Write
  <2> QED BY <1>1, <2>1, <2>2 DEF Write, SeenIsCurrent, EndsOwner
<1>2. ASSUME NEW r \in Requests, Insert(r) PROVE FALSE
  BY <1>2, RequestFields, NoMemberAssumption DEF Insert, LocksHeld, Role
<1>3. ASSUME NEW r \in Requests,
             \/ \E q \in Request : Authorize(r, q)
             \/ CheckAbsent(r) \/ LockRow(r) \/ NoSuchMember(r) \/ CountOwners(r)
      PROVE  FALSE
  BY <1>3 DEF Authorize, CheckAbsent, LockRow, NoSuchMember, CountOwners
<1>4. CASE UNCHANGED vars
  BY <1>4 DEF vars
<1> QED BY <1>1, <1>2, <1>3, <1>4 DEF Next, Serve

\* What a transaction that has ended did stays on record.
LEMMA TookOwnerStays ==
  ASSUME TypeOK, [Next]_vars, NEW s \in Requests, TookOwner(s)
  PROVE  TookOwner(s)'
<1> USE DEF TypeOK, TookOwner
<1>1. ASSUME NEW r \in Requests, NEW q \in Request, Authorize(r, q) PROVE TookOwner(s)'
  BY <1>1 DEF Authorize
<1>2. ASSUME NEW r \in Requests, LockRow(r) PROVE TookOwner(s)'
  BY <1>2 DEF LockRow, Overlap
<1>3. ASSUME NEW r \in Requests,
             \/ CheckAbsent(r) \/ Insert(r) \/ NoSuchMember(r)
             \/ CountOwners(r) \/ Write(r) \/ Dissolve(r)
      PROVE  TookOwner(s)'
  BY <1>3 DEF CheckAbsent, Insert, NoSuchMember, CountOwners, Write, Dissolve
<1>4. CASE UNCHANGED vars
  BY <1>4 DEF vars
<1> QED BY <1>1, <1>2, <1>3, <1>4 DEF Next, Serve

\* A transaction that has counted goes on only by its write.
LEMMA CountedStays ==
  ASSUME TypeOK, [Next]_vars, NEW r \in Requests, pc'[r] = "counted", ~CountOwners(r)
  PROVE  /\ pc[r] = "counted" /\ req'[r] = req[r] /\ seen'[r] = seen[r]
         /\ ~alone[r] => ~alone'[r]
<1> USE DEF TypeOK
<1>1. ASSUME NEW s \in Requests, NEW q \in Request, Authorize(s, q)
      PROVE  /\ pc[r] = "counted" /\ req'[r] = req[r] /\ seen'[r] = seen[r]
             /\ alone'[r] = alone[r]
  BY <1>1 DEF Authorize
<1>2. ASSUME NEW s \in Requests, LockRow(s)
      PROVE  /\ pc[r] = "counted" /\ req'[r] = req[r] /\ seen'[r] = seen[r]
             /\ ~alone[r] => ~alone'[r]
  BY <1>2 DEF LockRow, Overlap
<1>3. ASSUME NEW s \in Requests,
             \/ CheckAbsent(s) \/ Insert(s) \/ NoSuchMember(s)
             \/ (s # r /\ CountOwners(s)) \/ Write(s) \/ Dissolve(s)
      PROVE  /\ pc[r] = "counted" /\ req'[r] = req[r] /\ seen'[r] = seen[r]
             /\ alone'[r] = alone[r]
  BY <1>3 DEF CheckAbsent, Insert, NoSuchMember, CountOwners, Write, Dissolve
<1>4. CASE UNCHANGED vars
  BY <1>4 DEF vars
<1> QED BY <1>1, <1>2, <1>3, <1>4 DEF Next, Serve

\* A count is made void only by an overlapping transaction that takes an owner away.
LEMMA CountPreserved == IInv /\ [Next]_vars => CountHolds'
<1> SUFFICES ASSUME IInv, [Next]_vars, NEW r \in Requests,
                    pc'[r] = "counted", EndsOwner(r)'
             PROVE  \/ \E v \in Users : v # req'[r].on /\ role'[v] = "OWNER"
                    \/ ~alone'[r] /\ \E s \in Requests : s # r /\ TookOwner(s)'
  BY DEF CountHolds
<1>0. TypeOK /\ LocksHeld /\ SeenIsCurrent /\ OverlapIsNoted /\ CountHolds
  BY DEF IInv
<1>1. CASE CountOwners(r)
  <2>1. EndsOwner(r)
    BY <1>1 DEF CountOwners, EndsOwner
  <2>2. OtherOwners(req[r].on) # {}
    BY <1>0, <1>1, <2>1 DEF CountOwners, TypeOK
  <2> QED BY <1>1, <2>2 DEF CountOwners, OtherOwners
<1>2. CASE ~CountOwners(r)
  <2>1. /\ pc[r] = "counted" /\ req'[r] = req[r] /\ seen'[r] = seen[r]
        /\ ~alone[r] => ~alone'[r]
    BY <1>0, <1>2, CountedStays
  <2>2. EndsOwner(r)
    BY <2>1 DEF EndsOwner
  <2>3. CASE ~alone[r] /\ \E s \in Requests : s # r /\ TookOwner(s)
    BY <1>0, <2>1, <2>3, TookOwnerStays
  <2>4. ASSUME NEW v \in Users, v # req[r].on, role[v] = "OWNER", role'[v] # "OWNER"
        PROVE  ~alone'[r] /\ \E s \in Requests : s # r /\ TookOwner(s)'
    <3>1. \A s \in Requests : ~Dissolve(s)
      <4>1. r \in InTransaction
        BY <2>1 DEF InTransaction
      <4> QED BY <1>0, <4>1, NobodyInTransaction DEF Dissolve
    <3>2. PICK s \in Requests :
            Write(s) /\ req[s].on = v /\ seen[s] = "OWNER" /\ EndsOwner(s)
      BY <1>0, <2>4, <3>1, OwnerEndsByWrite
    <3>3. s # r /\ s \in InTransaction /\ r \in InTransaction
      BY <2>1, <2>4, <3>2 DEF Write, InTransaction
    <3>4. ~alone[r] /\ ~alone[s]
      BY <1>0, <3>3 DEF OverlapIsNoted
    <3> QED BY <1>0, <2>1, <3>2, <3>3, <3>4 DEF Write, TookOwner, TypeOK
  <2> QED BY <1>0, <2>1, <2>2, <2>3, <2>4 DEF CountHolds
<1> QED BY <1>1, <1>2

\* The last owner is taken by a transaction whose count an overlapping one made void.
LEMMA OwnerlessPreserved == IInv /\ [Next]_vars => OwnerlessOnlyByOverlap'
<1> SUFFICES ASSUME IInv, [Next]_vars, exists', Owners' = {}
             PROVE  \E r, s \in Requests : r # s /\ TookOwner(r)' /\ TookOwner(s)'
  BY DEF OwnerlessOnlyByOverlap, TookOwner
<1>0. TypeOK /\ LocksHeld /\ SeenIsCurrent /\ CountHolds /\ OwnerlessOnlyByOverlap
  BY DEF IInv
<1>1. exists /\ \A r \in Requests : ~Dissolve(r)
  BY <1>0 DEF Next, Serve, Authorize, CheckAbsent, Insert, LockRow, NoSuchMember,
       CountOwners, Write, Dissolve, vars
<1>2. CASE Owners = {}
  <2>1. PICK r, s \in Requests : r # s /\ TookOwner(r) /\ TookOwner(s)
    BY <1>0, <1>1, <1>2 DEF OwnerlessOnlyByOverlap, TookOwner
  <2> QED BY <1>0, <2>1, TookOwnerStays
<1>3. ASSUME NEW u \in Users, role[u] = "OWNER"
      PROVE  \E r, s \in Requests : r # s /\ TookOwner(r)' /\ TookOwner(s)'
  <2>1. \A v \in Users : role'[v] # "OWNER"
    BY DEF Owners
  <2>2. PICK r \in Requests : Write(r) /\ req[r].on = u /\ seen[r] = "OWNER" /\ EndsOwner(r)
    BY <1>0, <1>1, <1>3, <2>1, OwnerEndsByWrite
  <2>3. \A v \in Users : v # u => role[v] # "OWNER"
    BY <1>0, <2>1, <2>2 DEF Write, TypeOK
  <2>4. ~alone[r] /\ \E s \in Requests : s # r /\ TookOwner(s)
    BY <1>0, <2>2, <2>3 DEF CountHolds, Write
  <2>5. TookOwner(r)'
    BY <1>0, <2>2, <2>4 DEF Write, TookOwner, TypeOK
  <2> QED BY <1>0, <2>4, <2>5, TookOwnerStays
<1> QED BY <1>2, <1>3 DEF Owners

-----------------------------------------------------------------------------
\* The invariant holds of every behaviour, for all users, requests and first owners.
THEOREM Invariance == Spec => []IInv
<1>1. IInv /\ [Next]_vars => IInv'
  BY TypePreserved, LocksPreserved, SeenPreserved, OverlapPreserved, CountPreserved,
     OwnerlessPreserved DEF IInv
<1> QED BY <1>1, InitInv, PTL DEF Spec

\* Every state of the members' requests is well typed.
THEOREM MembersTypeOK == Spec => []TypeOK
<1>1. IInv => TypeOK
  BY DEF IInv
<1> QED BY <1>1, Invariance, PTL

(* _assert_not_last_owner keeps an owner unless two transactions that each take
   one away run at the same time. *)
THEOREM MembersOwnerlessOnlyByOverlap == Spec => []OwnerlessOnlyByOverlap
<1>1. IInv => OwnerlessOnlyByOverlap
  BY DEF IInv
<1> QED BY <1>1, Invariance, PTL

\* No owner ends without its transaction having seen that it is one.
THEOREM MembersOwnerEndsCounted == Spec => OwnerEndsCounted
<1>1. ASSUME IInv, [Next]_vars
      PROVE  \A u \in Users : role[u] = "OWNER" /\ role'[u] # "OWNER" /\ exists' =>
               \E r \in Requests : pc[r] = "counted" /\ req[r].on = u /\ seen[r] = "OWNER"
  <2> SUFFICES ASSUME NEW u \in Users, role[u] = "OWNER", role'[u] # "OWNER", exists'
               PROVE  \E r \in Requests :
                        pc[r] = "counted" /\ req[r].on = u /\ seen[r] = "OWNER"
    OBVIOUS
  <2>1. \A r \in Requests : ~Dissolve(r)
    BY DEF Dissolve
  <2>2. TypeOK /\ LocksHeld /\ SeenIsCurrent
    BY <1>1 DEF IInv
  <2>3. PICK r \in Requests : Write(r) /\ req[r].on = u /\ seen[r] = "OWNER"
    BY <1>1, <2>1, <2>2, OwnerEndsByWrite
  <2> QED BY <2>3 DEF Write
<1>2. IInv /\ [Next]_vars =>
        [\A u \in Users : role[u] = "OWNER" /\ role'[u] # "OWNER" /\ exists' =>
           \E r \in Requests : pc[r] = "counted" /\ req[r].on = u /\ seen[r] = "OWNER"]_vars
  BY <1>1
<1> QED BY <1>2, Invariance, PTL DEF Spec, OwnerEndsCounted
=============================================================================
