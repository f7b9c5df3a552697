-------------------------- MODULE NodeLocks_proofs --------------------------
(***************************************************************************)
(* What holds of the node locks for any number of connections and classes  *)
(* and for every choice of periods and delays with MaxDelay < TTL: the     *)
(* keys, whether or not the channel layer loses messages; what frames and  *)
(* screens tell, when it loses none; and, as the staleness timer outlasts  *)
(* the key by MaxDelay, that no screen flickers.                           *)
(***************************************************************************)
EXTENDS NodeLocks, Integers, TLAPS

\* A handler that is half way.
Working == [do : FrameKind \cup {"save"}, class : Classes, age : 0..MaxDelay]

\* A handler may wait until it reaches the delay bound.
LEMMA TaskAges ==
  ASSUME NEW t \in Working, t.age < MaxDelay
  PROVE  [t EXCEPT !.age = @ + 1] \in Working
BY TimingAssumption DEF Working

\* A frame may get older until it reaches the delay bound.
LEMMA FrameAges ==
  ASSUME NEW f \in FrameSet, f.age < MaxDelay
  PROVE  [f EXCEPT !.age = @ + 1] \in FrameSet
<1>1. CASE f \in [kind : FrameKind, class : Classes, from : Holder, age : 0..MaxDelay]
  BY <1>1, TimingAssumption DEF FrameSet
<1>2. CASE f \in [kind : {"locks"}, owners : [Classes -> Holder], age : 0..MaxDelay]
  BY <1>2, TimingAssumption DEF FrameSet
<1> QED BY <1>1, <1>2 DEF FrameSet

\* What a browser shows after a frame is again a set of holders and timers.
LEMMA FrameHandled ==
  ASSUME NEW f \in FrameSet, NEW s \in [Classes -> Holder], NEW d \in [Classes -> 0..Stale]
  PROVE  ShownAfter(s, f) \in [Classes -> Holder] /\ DueAfter(d, f) \in [Classes -> 0..Stale]
<1>1. Stale \in 0..Stale /\ 0 \in 0..Stale /\ None \in Holder
  BY TimingAssumption DEF Holder
<1>2. CASE f \in [kind : FrameKind, class : Classes, from : Holder, age : 0..MaxDelay]
  BY <1>1, <1>2 DEF ShownAfter, DueAfter, FrameKind
<1>3. CASE f \in [kind : {"locks"}, owners : [Classes -> Holder], age : 0..MaxDelay]
  BY <1>1, <1>3 DEF ShownAfter, DueAfter
<1> QED BY <1>2, <1>3 DEF FrameSet

\* Every step keeps every value in its type.
LEMMA TypePreserved == TypeOK /\ [Next]_vars => TypeOK'
<1> SUFFICES ASSUME TypeOK, [Next]_vars PROVE TypeOK'
  OBVIOUS
<1>0. /\ TTL \in 0..TTL /\ 0 \in 0..TTL /\ 0 \in 0..MaxDelay /\ 0 \in 0..Stale
      /\ None \in Holder /\ Conns \subseteq Holder
  BY TimingAssumption DEF Holder
<1> USE <1>0 DEF TypeOK, redis, browser
<1>1. ASSUME NEW k \in Conns, Join(k) PROVE TypeOK'
  BY <1>1 DEF Join
<1>2. ASSUME NEW k \in Conns, Snapshot(k) PROVE TypeOK'
  <2>1. [kind |-> "locks", owners |-> owner, age |-> 0] \in FrameSet
    BY DEF FrameSet
  <2>2. <<[kind |-> "locks", owners |-> owner, age |-> 0]>> \o inbox[k] \in Seq(FrameSet)
    BY <2>1
  <2> QED BY <1>2, <2>2 DEF Snapshot
<1>3. ASSUME NEW k \in Conns, NEW c \in Classes, Claim(k, c) PROVE TypeOK'
  BY <1>3 DEF Claim, Task, FrameKind
<1>4. ASSUME NEW k \in Conns, NEW c \in Classes, Move(k, c) PROVE TypeOK'
  BY <1>4 DEF Move, Task, FrameKind
<1>5. ASSUME NEW k \in Conns, NEW c \in Classes, Release(k, c) PROVE TypeOK'
  BY <1>5 DEF Release, Task, FrameKind
<1>6. ASSUME NEW k \in Conns, Save(k) PROVE TypeOK'
  <2>1. task[k] \in Working
    BY <1>6 DEF Save, Idle, Working
  <2>2. [task[k] EXCEPT !.do = "unlocked"] \in Working
    BY <2>1 DEF Working, FrameKind
  <2> QED BY <1>6, <2>2 DEF Save, Working
<1>7. ASSUME NEW k \in Conns, Send(k) PROVE TypeOK'
  <2> DEFINE frame == Frame(task[k].do, task[k].class,
                            IF task[k].do = "unlocked" THEN None ELSE k, task[k].age)
  <2>1. task[k] \in Working /\ task[k].do \in FrameKind
    BY <1>7 DEF Send, Idle, FrameKind, Working
  <2>2. frame \in FrameSet
    BY <2>1 DEF Working, Frame, FrameSet
  <2>3. /\ inbox' = [j \in Conns |-> IF j \in Members /\ Room(j)
                                     THEN Append(inbox[j], frame) ELSE inbox[j]]
        /\ task' = [task EXCEPT ![k] = Idle]
        /\ UNCHANGED <<redis, state, held, browser>>
    BY <1>7 DEF Send
  <2> HIDE DEF frame
  <2>4. inbox' \in [Conns -> Seq(FrameSet)]
    BY <2>2, <2>3
  <2> QED BY <2>3, <2>4
<1>8. ASSUME NEW k \in Conns, Disconnect(k) PROVE TypeOK'
  BY <1>8 DEF Disconnect
<1>9. ASSUME NEW k \in Conns, NEW c \in Classes, ReleaseHeld(k, c) PROVE TypeOK'
  <2>1. /\ held' = [held EXCEPT ![k] = @ \ {c}]
        /\ UNCHANGED <<state, inbox, browser>>
    BY <1>9 DEF ReleaseHeld
  <2>2. CASE owner[c] = k
    <3>1. Task("unlocked", c) \in Working
      BY DEF Task, Working, FrameKind
    <3>2. /\ owner' = [owner EXCEPT ![c] = None] /\ ttl' = [ttl EXCEPT ![c] = 0]
          /\ task' = [task EXCEPT ![k] = Task("unlocked", c)]
      BY <1>9, <2>2 DEF ReleaseHeld
    <3> QED BY <2>1, <3>1, <3>2 DEF Working
  <2>3. CASE owner[c] # k
    BY <1>9, <2>1, <2>3 DEF ReleaseHeld
  <2> QED BY <2>2, <2>3
<1>10. ASSUME NEW k \in Conns, Closed(k) PROVE TypeOK'
  BY <1>10 DEF Closed
<1>11. ASSUME NEW k \in Conns, Crash(k) PROVE TypeOK'
  BY <1>11 DEF Crash
<1>12. ASSUME NEW k \in Conns, Deliver(k) PROVE TypeOK'
  <2>1. Head(inbox[k]) \in FrameSet /\ Tail(inbox[k]) \in Seq(FrameSet)
    BY <1>12 DEF Deliver
  <2>2. /\ ShownAfter(shown[k], Head(inbox[k])) \in [Classes -> Holder]
        /\ DueAfter(due[k], Head(inbox[k])) \in [Classes -> 0..Stale]
    BY <2>1, FrameHandled
  <2> QED BY <1>12, <2>1, <2>2 DEF Deliver
<1>13. CASE Tick
  <2>1. ttl' \in [Classes -> 0..TTL] /\ due' \in [Conns -> [Classes -> 0..Stale]]
    BY <1>13, TimingAssumption DEF Tick, Older
  <2>2. owner' \in [Classes -> Holder] /\ shown' \in [Conns -> [Classes -> Holder]]
    BY <1>13 DEF Tick
  <2>3. ASSUME NEW k \in Conns PROVE task'[k] \in {Idle} \cup Working
    <3>1. CASE task[k].do \in FrameKind
      <4>1. task[k] \in Working /\ task[k].age < MaxDelay
        BY <1>13, <3>1 DEF Tick, Idle, FrameKind, Working
      <4>2. [task[k] EXCEPT !.age = @ + 1] \in Working
        BY <4>1, TaskAges
      <4> QED BY <1>13, <3>1, <4>2 DEF Tick
    <3>2. CASE task[k].do \notin FrameKind
      BY <1>13, <3>2 DEF Tick, Working
    <3> QED BY <3>1, <3>2
  <2>4. task' \in [Conns -> {Idle} \cup Working]
    BY <1>13, <2>3 DEF Tick
  <2>5. ASSUME NEW k \in Conns PROVE inbox'[k] \in Seq(FrameSet)
    <3>1. \A i \in DOMAIN inbox[k] : [inbox[k][i] EXCEPT !.age = @ + 1] \in FrameSet
      BY <1>13, FrameAges DEF Tick
    <3>2. inbox'[k] = [i \in 1..Len(inbox[k]) |-> [inbox[k][i] EXCEPT !.age = @ + 1]]
      BY <1>13 DEF Tick
    <3> QED BY <3>1, <3>2
  <2>6. inbox' \in [Conns -> Seq(FrameSet)]
    BY <1>13, <2>5 DEF Tick
  <2>7. UNCHANGED <<state, held>>
    BY <1>13 DEF Tick
  <2> QED BY <2>1, <2>2, <2>4, <2>6, <2>7 DEF Working
<1>14. CASE UNCHANGED vars
  BY <1>14 DEF vars
<1> QED
  BY <1>1, <1>2, <1>3, <1>4, <1>5, <1>6, <1>7, <1>8, <1>9, <1>10, <1>11, <1>12, <1>13, <1>14
  DEF Next

-----------------------------------------------------------------------------
(* The inductive invariant: the safety properties of the keys hold one another
   up.  A signal is never late because its handler sends it at most MaxDelay
   after Redis confirmed the owner, and the key outlives that. *)
IInv == TypeOK /\ KeyHasTime /\ OwnedIsHeld /\ SignalsComeFromOwner

\* With no connection and no key, the invariant holds.
LEMMA InitInv == Init => IInv
BY TimingAssumption, NoneAssumption
DEF Init, IInv, TypeOK, KeyHasTime, OwnedIsHeld, SignalsComeFromOwner, Idle, Holder

\* Owner and time to live are set and cleared together, also by the clock.
LEMMA KeyHasTimePreserved == TypeOK /\ KeyHasTime /\ [Next]_vars => KeyHasTime'
<1> SUFFICES ASSUME TypeOK, KeyHasTime, [Next]_vars PROVE KeyHasTime'
  OBVIOUS
<1> USE DEF TypeOK, KeyHasTime, redis, browser
<1>1. ASSUME NEW k \in Conns, NEW c \in Classes,
             Claim(k, c) \/ Move(k, c) \/ Release(k, c) \/ ReleaseHeld(k, c)
      PROVE  KeyHasTime'
  BY <1>1, TimingAssumption, NoneAssumption DEF Claim, Move, Release, ReleaseHeld
<1>2. CASE Tick
  BY <1>2 DEF Tick, Older
<1>3. ASSUME NEW k \in Conns,
             \/ Join(k) \/ Snapshot(k) \/ Save(k) \/ Send(k) \/ Deliver(k)
             \/ Disconnect(k) \/ Closed(k) \/ Crash(k)
      PROVE  UNCHANGED redis
  BY <1>3 DEF Join, Snapshot, Save, Send, Deliver, Disconnect, Closed, Crash
<1>4. CASE UNCHANGED vars
  BY <1>4 DEF vars
<1> QED BY <1>1, <1>2, <1>3, <1>4 DEF Next

\* A consumer notes a lock with the claim and strikes it out with the release.
LEMMA OwnedIsHeldPreserved == TypeOK /\ OwnedIsHeld /\ [Next]_vars => OwnedIsHeld'
<1> SUFFICES ASSUME TypeOK, OwnedIsHeld, [Next]_vars PROVE OwnedIsHeld'
  OBVIOUS
<1> USE NoneAssumption DEF TypeOK, OwnedIsHeld, redis, browser
<1>1. ASSUME NEW k \in Conns, NEW c \in Classes, Claim(k, c) PROVE OwnedIsHeld'
  BY <1>1 DEF Claim, Ready
<1>2. ASSUME NEW k \in Conns, NEW c \in Classes, Release(k, c) PROVE OwnedIsHeld'
  BY <1>2 DEF Release
<1>3. ASSUME NEW k \in Conns, NEW c \in Classes, ReleaseHeld(k, c) PROVE OwnedIsHeld'
  BY <1>3 DEF ReleaseHeld
<1>4. ASSUME NEW k \in Conns,
             Join(k) \/ Snapshot(k) \/ Disconnect(k) \/ Closed(k) \/ Crash(k)
      PROVE  OwnedIsHeld'
  BY <1>4 DEF Join, Snapshot, Disconnect, Ready, Closed, Crash
<1>5. ASSUME NEW k \in Conns,
             Save(k) \/ Send(k) \/ Deliver(k) \/ \E c \in Classes : Move(k, c)
      PROVE  OwnedIsHeld'
  BY <1>5 DEF Save, Send, Deliver, Move
<1>6. CASE Tick
  BY <1>6 DEF Tick
<1>7. CASE UNCHANGED vars
  BY <1>7 DEF vars
<1> QED BY <1>1, <1>2, <1>3, <1>4, <1>5, <1>6, <1>7 DEF Next

\* No step of anybody, nor the clock, takes the lock from under a frame about to be sent.
LEMMA SignalsPreserved ==
  TypeOK /\ SignalsComeFromOwner /\ [Next]_vars => SignalsComeFromOwner'
<1> DEFINE Signalling(t) == t.do \in {"locked", "position"}
           Backed(j, o, l, t) == o[t.class] = j /\ l[t.class] + t.age >= TTL
<1> SUFFICES ASSUME TypeOK, SignalsComeFromOwner, [Next]_vars,
                    NEW j \in Conns, Signalling(task'[j])
             PROVE  Backed(j, owner', ttl', task'[j])
  BY DEF SignalsComeFromOwner
<1>0. /\ Signalling(task[j]) => Backed(j, owner, ttl, task[j]) /\ task[j] \in Working
      /\ ~Signalling(Idle) /\ TTL \in Nat /\ MaxDelay \in Nat /\ MaxDelay < TTL
  BY TimingAssumption DEF SignalsComeFromOwner, TypeOK, Working, Idle
<1>1. ASSUME NEW k \in Conns, NEW c \in Classes, Claim(k, c) \/ Move(k, c),
             NEW do \in {"locked", "position"}, task' = [task EXCEPT ![k] = Task(do, c)]
      PROVE  Backed(j, owner', ttl', task'[j])
  <2>1. owner'[c] = k /\ ttl'[c] = TTL
    BY <1>1 DEF Claim, Move, TypeOK
  <2>2. \A b \in Classes \ {c} : owner'[b] = owner[b] /\ ttl'[b] = ttl[b]
    BY <1>1 DEF Claim, Move, TypeOK
  <2>3. CASE j = k
    <3>1. task'[j].class = c /\ task'[j].age = 0
      BY <1>1, <2>3 DEF Task, TypeOK
    <3> QED BY <1>0, <2>1, <2>3, <3>1
  <2>4. CASE j # k
    <3>1. task'[j] = task[j] /\ task[j].class \in Classes /\ owner[task[j].class] = j
      BY <1>0, <1>1, <2>4 DEF TypeOK, Working
    <3>2. task[j].class # c
      BY <1>1, <2>4, <3>1, NoneAssumption DEF Claim, Move
    <3> QED BY <1>0, <2>2, <3>1, <3>2
  <2> QED BY <2>3, <2>4
<1>2. ASSUME NEW k \in Conns, NEW c \in Classes, owner[c] = k, task[k] = Idle,
             owner' = [owner EXCEPT ![c] = None], ttl' = [ttl EXCEPT ![c] = 0],
             NEW do \in {"save", "unlocked"}, task' = [task EXCEPT ![k] = Task(do, c)]
      PROVE  Backed(j, owner', ttl', task'[j])
  <2>1. j # k
    BY <1>2 DEF Task, TypeOK
  <2>2. task'[j] = task[j] /\ task[j].class \in Classes /\ owner[task[j].class] = j
    BY <1>0, <1>2, <2>1 DEF TypeOK, Working
  <2> QED BY <1>0, <1>2, <2>1, <2>2 DEF TypeOK
<1>3. ASSUME UNCHANGED redis, task'[j] = task[j] PROVE Backed(j, owner', ttl', task'[j])
  BY <1>0, <1>3 DEF redis
<1>4. ASSUME NEW k \in Conns, Save(k) \/ Send(k) \/ Crash(k)
      PROVE  Backed(j, owner', ttl', task'[j])
  <2>1. UNCHANGED redis
    BY <1>4 DEF Save, Send, Crash
  <2>2. j # k
    BY <1>0, <1>4 DEF Save, Send, Crash, TypeOK, Working, Idle
  <2>3. task'[j] = task[j]
    BY <1>4, <2>2 DEF Save, Send, Crash, TypeOK
  <2> QED BY <1>3, <2>1, <2>3
<1>5. ASSUME NEW k \in Conns,
             \/ Join(k) \/ Snapshot(k) \/ Deliver(k) \/ Disconnect(k) \/ Closed(k)
             \/ \E c \in Classes : ReleaseHeld(k, c) /\ owner[c] # k
      PROVE  Backed(j, owner', ttl', task'[j])
  BY <1>3, <1>5 DEF Join, Snapshot, Deliver, Disconnect, Closed, ReleaseHeld, redis
<1>6. CASE Tick
  <2>1. Signalling(task[j]) /\ task[j].age < MaxDelay
          /\ task'[j] = [task[j] EXCEPT !.age = @ + 1]
    BY <1>6 DEF Tick, FrameKind
  <2>2. task[j] \in Working /\ Backed(j, owner, ttl, task[j])
    BY <1>0, <2>1
  <2>3. task'[j].class = task[j].class /\ task'[j].age = task[j].age + 1
    BY <2>1, <2>2 DEF Working
  <2> DEFINE c == task[j].class
  <2>4. c \in Classes /\ task[j].age \in Nat /\ ttl[c] \in Nat /\ ttl[c] > 1
    BY <1>0, <2>1, <2>2 DEF Working, TypeOK
  <2>5. owner'[c] = owner[c] /\ ttl'[c] = ttl[c] - 1
    BY <1>6, <2>4 DEF Tick, Older
  <2> QED BY <1>0, <2>2, <2>3, <2>4, <2>5
<1>7. CASE UNCHANGED vars
  BY <1>3, <1>7 DEF vars, redis
<1>8. ASSUME NEW k \in Conns, NEW c \in Classes,
             \/ Claim(k, c) \/ Move(k, c) \/ Release(k, c)
             \/ ReleaseHeld(k, c) /\ owner[c] = k
      PROVE  Backed(j, owner', ttl', task'[j])
  BY <1>1, <1>2, <1>8 DEF Claim, Move, Release, ReleaseHeld, Ready
<1> QED BY <1>4, <1>5, <1>6, <1>7, <1>8 DEF Next

-----------------------------------------------------------------------------
\* The invariant holds of every behaviour, for all periods with MaxDelay < TTL.
THEOREM Invariance == Spec => []IInv
<1>1. IInv /\ [Next]_vars => IInv'
  BY TypePreserved, KeyHasTimePreserved, OwnedIsHeldPreserved, SignalsPreserved DEF IInv
<1> QED BY <1>1, InitInv, PTL DEF Spec

\* Every state of the lock system is well typed.
THEOREM LocksTypeOK == Spec => []TypeOK
<1>1. IInv => TypeOK
  BY DEF IInv
<1> QED BY <1>1, Invariance, PTL

\* No lock exists without a time at which it ends by itself.
THEOREM LocksKeyHasTime == Spec => []KeyHasTime
<1>1. IInv => KeyHasTime
  BY DEF IInv
<1> QED BY <1>1, Invariance, PTL

(* A claim or a position is never announced for a connection that has lost the
   lock meanwhile: the consumer's check in Redis is still true when it sends. *)
THEOREM LocksSignalsComeFromOwner == Spec => []SignalsComeFromOwner
<1>1. IInv => SignalsComeFromOwner
  BY DEF IInv
<1> QED BY <1>1, Invariance, PTL

\* disconnect() leaves no lock behind: what it does not release has expired.
THEOREM LocksOwnedIsHeld == Spec => []OwnedIsHeld
<1>1. IInv => OwnedIsHeld
  BY DEF IInv
<1> QED BY <1>1, Invariance, PTL

-----------------------------------------------------------------------------
(* What the frames on their way make of a screen.  Whom a frame names as the
   holder of c, and the holder named after n frames, x being on the screen. *)
Says(f, c) ==
  CASE f.kind = "locked" -> IF f.class = c THEN f.from ELSE None
    [] f.kind = "locks"  -> f.owners[c]
    [] OTHER             -> None
Said(x, s, c, n) == IF n = 0 THEN x ELSE Says(s[n], c)
Announces(f, c, k) == f.kind = "locked" /\ f.class = c /\ f.from = k

\* Whoever else is named for c, the claim of k follows.
NamesAtLast(x, s, c, k) ==
  \A n \in 0..Len(s) : Said(x, s, c, n) \notin {None, k} =>
    \E m \in n+1..Len(s) : Announces(s[m], c, k)

InOrder(s) ==
  \A a, b \in DOMAIN s :
    a < b /\ s[a].kind = "locked" /\ s[b].kind = "position" /\ s[a].class = s[b].class
        /\ s[a].from # s[b].from
      => \E m \in a+1..b-1 :
           s[m].kind = "locked" /\ s[m].class = s[b].class /\ s[m].from = s[b].from

ClaimsNamed(s) == \A n \in DOMAIN s : s[n].kind = "locked" => s[n].from # None

\* A frame that names nobody else may follow; the claim of k may follow anything.
LEMMA AppendNames ==
  ASSUME NEW s \in Seq(FrameSet), NEW f \in FrameSet, NEW x, NEW c, NEW k,
         \/ NamesAtLast(x, s, c, k) /\ Says(f, c) \in {None, k}
         \/ Announces(f, c, k)
  PROVE  NamesAtLast(x, Append(s, f), c, k)
<1> DEFINE t == Append(s, f)
<1>1. /\ t \in Seq(FrameSet) /\ Len(t) = Len(s) + 1 /\ Len(s) \in Nat
      /\ t[Len(s) + 1] = f /\ \A n \in 1..Len(s) : t[n] = s[n]
  OBVIOUS
<1> HIDE DEF t
<1>2. CASE Announces(f, c, k)
  <2>1. Says(f, c) = k
    BY <1>2 DEF Announces, Says
  <2> QED BY <1>1, <1>2, <2>1 DEF NamesAtLast, Said
<1>3. CASE NamesAtLast(x, s, c, k) /\ Says(f, c) \in {None, k}
  <2> SUFFICES ASSUME NEW n \in 0..Len(t), Said(x, t, c, n) \notin {None, k}
               PROVE  \E m \in n+1..Len(t) : Announces(t[m], c, k)
    BY DEF NamesAtLast, t
  <2>1. n \in 0..Len(s) /\ Said(x, s, c, n) = Said(x, t, c, n)
    BY <1>1, <1>3 DEF Said
  <2>2. PICK m \in n+1..Len(s) : Announces(s[m], c, k)
    BY <1>3, <2>1 DEF NamesAtLast
  <2> QED BY <1>1, <2>1, <2>2
<1> QED BY <1>2, <1>3 DEF t

\* A snapshot taken when k owned c may come before everything else.
LEMMA PrependNames ==
  ASSUME NEW s \in Seq(FrameSet), NEW f \in FrameSet, NEW x, NEW c, NEW k,
         NamesAtLast(x, s, c, k), Says(f, c) \in {None, k}
  PROVE  NamesAtLast(x, <<f>> \o s, c, k)
<1> DEFINE t == <<f>> \o s
<1>1. /\ t \in Seq(FrameSet) /\ Len(t) = Len(s) + 1 /\ Len(s) \in Nat
      /\ t[1] = f /\ \A n \in 1..Len(s) : t[n + 1] = s[n]
  OBVIOUS
<1> HIDE DEF t
<1> SUFFICES ASSUME NEW n \in 0..Len(t), Said(x, t, c, n) \notin {None, k}
             PROVE  \E m \in n+1..Len(t) : Announces(t[m], c, k)
  BY DEF NamesAtLast, t
<1>2. n # 1
  BY <1>1 DEF Said
<1> DEFINE p == IF n = 0 THEN 0 ELSE n - 1
<1>3. /\ p \in 0..Len(s) /\ Said(x, s, c, p) = Said(x, t, c, n)
      /\ p + 2 >= n + 1
  BY <1>1, <1>2 DEF Said
<1>4. PICK m \in p+1..Len(s) : Announces(s[m], c, k)
  BY <1>3 DEF NamesAtLast
<1>5. m + 1 \in n+1..Len(t) /\ t[m + 1] = s[m]
  BY <1>1, <1>3, <1>4
<1> QED BY <1>4, <1>5

\* Handling the first frame leaves the same named at last.
LEMMA DeliverNames ==
  ASSUME NEW s \in Seq(FrameSet), s # <<>>, NEW shows \in [Classes -> Holder],
         NEW c \in Classes, NEW k \in Conns, NamesAtLast(shows[c], s, c, k)
  PROVE  NamesAtLast(ShownAfter(shows, Head(s))[c], Tail(s), c, k)
<1> DEFINE t == Tail(s)
           f == Head(s)
<1>1. /\ t \in Seq(FrameSet) /\ Len(t) = Len(s) - 1 /\ Len(s) \in Nat \ {0} /\ Len(t) \in Nat
      /\ f = s[1] /\ f \in FrameSet /\ \A n \in 1..Len(t) : t[n] = s[n + 1]
  OBVIOUS
<1>2. \/ Says(f, c) = ShownAfter(shows, f)[c]
      \/ ~Announces(f, c, k) /\ ShownAfter(shows, f)[c] \in {None, shows[c]}
  <2>1. CASE f \in [kind : FrameKind, class : Classes, from : Holder, age : 0..MaxDelay]
    BY <2>1 DEF FrameKind, Says, ShownAfter, Announces
  <2>2. CASE f \in [kind : {"locks"}, owners : [Classes -> Holder], age : 0..MaxDelay]
    BY <2>2 DEF Says, ShownAfter
  <2> QED BY <1>1, <2>1, <2>2 DEF FrameSet
<1> DEFINE y == ShownAfter(shows, f)[c]
<1> HIDE DEF t, f, y
<1> SUFFICES ASSUME NEW n \in 0..Len(t), Said(y, t, c, n) \notin {None, k}
             PROVE  \E m \in n+1..Len(t) : Announces(t[m], c, k)
  BY DEF NamesAtLast, t, f, y
<1>3. PICK m \in n+2..Len(s) : Announces(s[m], c, k)
  <2>1. CASE n = 0 /\ y = Says(f, c)
    <3>1. 1 \in 0..Len(s) /\ Said(shows[c], s, c, 1) = y
      BY <1>1, <2>1 DEF Said
    <3> QED BY <1>1, <2>1, <3>1 DEF NamesAtLast, Said
  <2>2. CASE n = 0 /\ y # Says(f, c)
    <3>1. ~Announces(f, c, k) /\ shows[c] \notin {None, k}
      BY <1>2, <2>2 DEF Said, y
    <3>2. PICK m \in 1..Len(s) : Announces(s[m], c, k)
      BY <1>1, <3>1 DEF NamesAtLast, Said
    <3> QED BY <1>1, <2>2, <3>1, <3>2
  <2>3. CASE n # 0
    <3>1. n + 1 \in 0..Len(s) /\ Said(shows[c], s, c, n + 1) = Said(y, t, c, n)
      BY <1>1, <2>3 DEF Said
    <3> QED BY <1>1, <3>1 DEF NamesAtLast
  <2> QED BY <2>1, <2>2, <2>3
<1>4. m - 1 \in n+1..Len(t) /\ t[m - 1] = s[m]
  BY <1>1, <1>3
<1> QED BY <1>3, <1>4

\* What frames name does not depend on their age, and a fired timer names nobody.
LEMMA AgeNames ==
  ASSUME NEW s \in Seq(FrameSet), NEW t \in Seq(FrameSet), NEW x, NEW y, NEW c, NEW k,
         NamesAtLast(x, s, c, k), y \in {None, x},
         Len(t) = Len(s), \A n \in 1..Len(s) : t[n] = [s[n] EXCEPT !.age = @ + 1]
  PROVE  NamesAtLast(y, t, c, k)
<1>1. ASSUME NEW n \in 1..Len(s)
      PROVE  Says(t[n], c) = Says(s[n], c) /\ (Announces(s[n], c, k) => Announces(t[n], c, k))
  <2>1. s[n] \in FrameSet /\ t[n] = [s[n] EXCEPT !.age = @ + 1]
    BY <1>1
  <2>2. CASE s[n] \in [kind : FrameKind, class : Classes, from : Holder, age : 0..MaxDelay]
    BY <2>1, <2>2 DEF FrameKind, Says, Announces
  <2>3. CASE s[n] \in [kind : {"locks"}, owners : [Classes -> Holder], age : 0..MaxDelay]
    BY <2>1, <2>3 DEF Says, Announces
  <2> QED BY <2>1, <2>2, <2>3 DEF FrameSet
<1> QED BY <1>1 DEF NamesAtLast, Said

\* Frames stay in order when one of their owner follows, also behind a snapshot.
LEMMA AppendInOrder ==
  ASSUME NEW s \in Seq(FrameSet), NEW f \in FrameSet, InOrder(s),
         f.kind = "position" => NamesAtLast(None, s, f.class, f.from) /\ f.from # None
                                  /\ ClaimsNamed(s)
  PROVE  InOrder(Append(s, f))
<1> DEFINE t == Append(s, f)
<1>1. /\ t \in Seq(FrameSet) /\ Len(t) = Len(s) + 1 /\ Len(s) \in Nat
      /\ t[Len(s) + 1] = f /\ \A n \in 1..Len(s) : t[n] = s[n]
  OBVIOUS
<1> HIDE DEF t
<1> SUFFICES ASSUME NEW a \in 1..Len(t), NEW b \in 1..Len(t), a < b,
                    t[a].kind = "locked", t[b].kind = "position", t[a].class = t[b].class,
                    t[a].from # t[b].from
             PROVE  \E m \in a+1..b-1 : t[m].kind = "locked" /\ t[m].class = t[b].class
                                          /\ t[m].from = t[b].from
  BY <1>1 DEF InOrder, t
<1>2. CASE b = Len(s) + 1
  <2>1. /\ a \in 1..Len(s) /\ t[a] = s[a] /\ t[b] = f
        /\ Says(s[a], f.class) \notin {None, f.from}
    BY <1>1, <1>2 DEF Says, ClaimsNamed
  <2>2. PICK m \in a+1..Len(s) : Announces(s[m], f.class, f.from)
    BY <1>1, <1>2, <2>1 DEF NamesAtLast, Said
  <2> QED BY <1>1, <1>2, <2>1, <2>2 DEF Announces
<1>3. CASE b # Len(s) + 1
  <2>1. a \in 1..Len(s) /\ b \in 1..Len(s) /\ t[a] = s[a] /\ t[b] = s[b]
    BY <1>1, <1>3
  <2>2. PICK m \in a+1..b-1 : s[m].kind = "locked" /\ s[m].class = s[b].class
                                /\ s[m].from = s[b].from
    BY <1>1, <2>1 DEF InOrder
  <2> QED BY <1>1, <2>1, <2>2
<1> QED BY <1>2, <1>3

\* Claims name somebody wherever a frame is added or taken, and at any age.
LEMMA NamedFrames ==
  ASSUME NEW s \in Seq(FrameSet), ClaimsNamed(s)
  PROVE  /\ ClaimsNamed(<<>>)
         /\ \A f \in FrameSet : (f.kind = "locked" => f.from # None) =>
              ClaimsNamed(Append(s, f)) /\ ClaimsNamed(<<f>> \o s)
         /\ s # <<>> => ClaimsNamed(Tail(s))
         /\ \A t \in Seq(FrameSet) :
              Len(t) = Len(s) /\ (\A n \in 1..Len(s) : t[n] = [s[n] EXCEPT !.age = @ + 1])
                => ClaimsNamed(t)
<1>1. \A f \in FrameSet : (f.kind = "locked" => f.from # None) => ClaimsNamed(Append(s, f))
  BY DEF ClaimsNamed
<1>2. ASSUME NEW f \in FrameSet, f.kind = "locked" => f.from # None
      PROVE  ClaimsNamed(<<f>> \o s)
  <2> DEFINE t == <<f>> \o s
  <2>1. /\ DOMAIN t = 1..Len(s)+1 /\ DOMAIN s = 1..Len(s) /\ Len(s) \in Nat
        /\ t[1] = f /\ \A n \in 1..Len(s) : t[n + 1] = s[n]
    OBVIOUS
  <2> HIDE DEF t
  <2>2. ASSUME NEW n \in DOMAIN t PROVE t[n].kind = "locked" => t[n].from # None
    <3>1. CASE n = 1
      BY <1>2, <2>1, <3>1
    <3>2. CASE n # 1
      <4>1. n - 1 \in 1..Len(s) /\ (n - 1) + 1 = n
        BY <2>1, <3>2
      <4> QED BY <2>1, <4>1 DEF ClaimsNamed
    <3> QED BY <3>1, <3>2
  <2> QED BY <2>2 DEF ClaimsNamed, t
<1>3. ASSUME s # <<>> PROVE ClaimsNamed(Tail(s))
  <2>1. /\ DOMAIN Tail(s) = 1..Len(s)-1 /\ DOMAIN s = 1..Len(s) /\ Len(s) \in Nat
        /\ \A n \in 1..Len(s)-1 : n + 1 \in 1..Len(s) /\ Tail(s)[n] = s[n + 1]
    BY <1>3
  <2> QED BY <2>1 DEF ClaimsNamed
<1>4. ASSUME NEW t \in Seq(FrameSet), Len(t) = Len(s),
             \A n \in 1..Len(s) : t[n] = [s[n] EXCEPT !.age = @ + 1]
      PROVE  ClaimsNamed(t)
  <2>1. ASSUME NEW n \in 1..Len(s)
        PROVE  t[n].kind = "locked" => s[n].kind = "locked" /\ t[n].from = s[n].from
    <3>1. s[n] \in FrameSet /\ t[n] = [s[n] EXCEPT !.age = @ + 1]
      BY <1>4
    <3>2. CASE s[n] \in [kind : FrameKind, class : Classes, from : Holder, age : 0..MaxDelay]
      BY <3>1, <3>2
    <3>3. CASE s[n] \in [kind : {"locks"}, owners : [Classes -> Holder], age : 0..MaxDelay]
      BY <3>1, <3>3
    <3> QED BY <3>1, <3>2, <3>3 DEF FrameSet
  <2>2. DOMAIN t = 1..Len(s) /\ DOMAIN s = 1..Len(s)
    BY <1>4
  <2> QED BY <2>1, <2>2 DEF ClaimsNamed
<1>5. ClaimsNamed(<<>>)
  BY DEF ClaimsNamed
<1> QED BY <1>1, <1>2, <1>3, <1>4, <1>5

(* t has the frames of s at places d lower, as far as it has such places, and
   at other places no claims and positions. *)
Shifted(s, t, d) ==
  /\ \A n \in 1..Len(t) : t[n].kind \in {"locked", "position"} =>
       n + d \in 1..Len(s) /\ t[n] = s[n + d]
  /\ \A m \in 1..Len(s) : m - d \in 1..Len(t) => t[m - d] = s[m]

\* Frames that another sequence has at other places stay in order there.
LEMMA ShiftInOrder ==
  ASSUME NEW s \in Seq(FrameSet), NEW t \in Seq(FrameSet), NEW d \in Int, InOrder(s),
         Shifted(s, t, d)
  PROVE  InOrder(t)
<1>0. DOMAIN s = 1..Len(s) /\ DOMAIN t = 1..Len(t)
  OBVIOUS
<1> SUFFICES ASSUME NEW a \in 1..Len(t), NEW b \in 1..Len(t), a < b,
                    t[a].kind = "locked", t[b].kind = "position", t[a].class = t[b].class,
                    t[a].from # t[b].from
             PROVE  \E m \in a+1..b-1 : t[m].kind = "locked" /\ t[m].class = t[b].class
                                          /\ t[m].from = t[b].from
  BY <1>0 DEF InOrder
<1>1. /\ t[a].kind \in {"locked", "position"} /\ t[b].kind \in {"locked", "position"}
      /\ a \in Int /\ b \in Int
  OBVIOUS
<1> DEFINE p == a + d
           q == b + d
<1>2. /\ p \in 1..Len(s) /\ q \in 1..Len(s) /\ t[a] = s[p] /\ t[b] = s[q]
  BY <1>1 DEF Shifted
<1>3. p \in Int /\ q \in Int /\ p < q /\ a = p - d /\ b = q - d
  BY <1>1
<1> HIDE DEF p, q
<1>4. \E m \in p+1..q-1 : s[m].kind = "locked" /\ s[m].class = s[q].class
                            /\ s[m].from = s[q].from
  BY <1>0, <1>1, <1>2, <1>3 DEF InOrder
<1>5. PICK m \in p+1..q-1 : s[m].kind = "locked" /\ s[m].class = s[q].class
                              /\ s[m].from = s[q].from
  BY <1>4
<1>6. Len(s) \in Int /\ Len(t) \in Int
  OBVIOUS
<1>7. m \in 1..Len(s) /\ m - d \in a+1..b-1 /\ m - d \in 1..Len(t)
  <2>1. m \in Int /\ p < m /\ m < q
    BY <1>3
  <2>2. 1 <= p /\ q <= Len(s) /\ 1 <= a /\ b <= Len(t)
    BY <1>2, <1>6
  <2>3. m - d \in Int /\ a < m - d /\ m - d < b
    BY <1>1, <1>3, <2>1
  <2> QED BY <1>1, <1>3, <1>6, <2>1, <2>2, <2>3
<1>8. t[m - d] = s[m]
  BY <1>7 DEF Shifted
<1> QED BY <1>2, <1>5, <1>7, <1>8

\* A snapshot may come first, and the first frame may be taken.
LEMMA EndsInOrder ==
  ASSUME NEW s \in Seq(FrameSet), NEW f \in FrameSet, InOrder(s)
  PROVE  /\ f.kind = "locks" => InOrder(<<f>> \o s)
         /\ s # <<>> => InOrder(Tail(s))
<1>1. ASSUME f.kind = "locks" PROVE InOrder(<<f>> \o s)
  <2> DEFINE t == <<f>> \o s
             d == 0 - 1
  <2>1. /\ t \in Seq(FrameSet) /\ Len(t) = Len(s) + 1 /\ Len(s) \in Nat
        /\ t[1] = f /\ \A n \in 1..Len(s) : t[n + 1] = s[n]
    OBVIOUS
  <2>2. d \in Int /\ \A n \in Int : n + d = n - 1 /\ n - d = n + 1
    OBVIOUS
  <2> HIDE DEF t, d
  <2>3. ASSUME NEW n \in 1..Len(t), t[n].kind \in {"locked", "position"}
        PROVE  n + d \in 1..Len(s) /\ t[n] = s[n + d]
    <3>1. n # 1
      BY <1>1, <2>1, <2>3
    <3>2. n - 1 \in 1..Len(s) /\ (n - 1) + 1 = n /\ n \in Int
      BY <3>1, <2>1
    <3> QED BY <2>1, <2>2, <3>2
  <2>4. \A m \in 1..Len(s) : m - d \in 1..Len(t) => t[m - d] = s[m]
    BY <2>1, <2>2
  <2>5. InOrder(t)
    BY <2>1, <2>2, <2>3, <2>4, ShiftInOrder DEF Shifted
  <2> QED BY <2>5 DEF t
<1>2. ASSUME s # <<>> PROVE InOrder(Tail(s))
  <2> DEFINE t == Tail(s)
  <2>1. /\ t \in Seq(FrameSet) /\ Len(t) = Len(s) - 1 /\ Len(s) \in Nat \ {0}
        /\ \A n \in 1..Len(t) : t[n] = s[n + 1]
    BY <1>2
  <2> HIDE DEF t
  <2>2. /\ \A n \in 1..Len(t) : n + 1 \in 1..Len(s) /\ t[n] = s[n + 1]
        /\ \A m \in 1..Len(s) : m - 1 \in 1..Len(t) => t[m - 1] = s[m]
    BY <2>1
  <2>3. InOrder(t)
    BY <2>1, <2>2, 1 \in Int, ShiftInOrder DEF Shifted
  <2> QED BY <2>3 DEF t
<1> QED BY <1>1, <1>2

LEMMA AgeInOrder ==
  ASSUME NEW s \in Seq(FrameSet), NEW t \in Seq(FrameSet), InOrder(s),
         Len(t) = Len(s), \A n \in 1..Len(s) : t[n] = [s[n] EXCEPT !.age = @ + 1]
  PROVE  InOrder(t)
<1>1. ASSUME NEW n \in 1..Len(s)
      PROVE  /\ t[n].kind = s[n].kind
             /\ s[n].kind \in FrameKind => t[n].class = s[n].class /\ t[n].from = s[n].from
  <2>1. s[n] \in FrameSet /\ t[n] = [s[n] EXCEPT !.age = @ + 1]
    OBVIOUS
  <2>2. CASE s[n] \in [kind : FrameKind, class : Classes, from : Holder, age : 0..MaxDelay]
    BY <2>1, <2>2
  <2>3. CASE s[n] \in [kind : {"locks"}, owners : [Classes -> Holder], age : 0..MaxDelay]
    BY <2>1, <2>3 DEF FrameKind
  <2> QED BY <2>1, <2>2, <2>3 DEF FrameSet
<1>2. /\ DOMAIN s = 1..Len(s) /\ DOMAIN t = 1..Len(s) /\ Len(s) \in Nat
      /\ "locked" \in FrameKind /\ "position" \in FrameKind
  BY DEF FrameKind
<1> SUFFICES ASSUME NEW a \in 1..Len(s), NEW b \in 1..Len(s), a < b,
                    t[a].kind = "locked", t[b].kind = "position", t[a].class = t[b].class,
                    t[a].from # t[b].from
             PROVE  \E m \in a+1..b-1 : t[m].kind = "locked" /\ t[m].class = t[b].class
                                          /\ t[m].from = t[b].from
  BY <1>2 DEF InOrder
<1>3. PICK m \in a+1..b-1 : s[m].kind = "locked" /\ s[m].class = s[b].class
                              /\ s[m].from = s[b].from
  BY <1>1, <1>2 DEF InOrder
<1>4. m \in 1..Len(s)
  BY <1>2
<1> QED BY <1>1, <1>2, <1>3, <1>4

-----------------------------------------------------------------------------
(* Frames and screens, when the channel layer loses nothing.  Who is away has
   an empty screen and no frames, a crashed process does nothing, and claims
   name a claimant. *)
Here == {"joined", "open"}
AwayIsEmpty ==
  \A j \in Conns : state[j] \notin Here =>
    inbox[j] = <<>> /\ \A c \in Classes : shown[j][c] = None
CrashedIsIdle == \A k \in Conns : state[k] = "crashed" => task[k] = Idle
ClaimsNameSomebody == \A j \in Conns : ClaimsNamed(inbox[j])
Screens == AwayIsEmpty /\ CrashedIsIdle /\ ClaimsNameSomebody

(* On every screen the frames under way name the owner at last, once the owner
   has sent its claim. *)
Announcing(k, c) == task[k].do = "locked" /\ task[k].class = c
OwnerNamedAtLast ==
  \A j \in Conns, c \in Classes : \A k \in Conns :
    owner[c] = k /\ state[k] # "crashed" /\ ~Announcing(k, c)
      => NamesAtLast(shown[j][c], inbox[j], c, k)

FramesInOrder == \A j \in Conns : InOrder(inbox[j])

\* What a step that sends nothing leaves in the channels.
LEMMA SameFrames ==
  ASSUME TypeOK, NEW k \in Conns,
         \/ Join(k) \/ Save(k) \/ Closed(k)
         \/ \E c \in Classes : Claim(k, c) \/ Move(k, c) \/ Release(k, c) \/ ReleaseHeld(k, c)
  PROVE  /\ inbox' = inbox /\ shown' = shown
         /\ \A i \in Conns : i # k => task'[i] = task[i] /\ state'[i] = state[i]
         /\ state'[k] = "crashed" => state[k] = "crashed"
         /\ state[k] \in Here => state'[k] \in Here
<1> USE DEF TypeOK, browser, Here
<1>1. CASE Join(k) \/ Closed(k)
  BY <1>1 DEF Join, Closed
<1>2. CASE Save(k)
  BY <1>2 DEF Save
<1>3. ASSUME NEW c \in Classes, Claim(k, c) \/ Move(k, c) \/ Release(k, c)
      PROVE  /\ inbox' = inbox /\ shown' = shown /\ state' = state
             /\ \A i \in Conns : i # k => task'[i] = task[i]
  BY <1>3 DEF Claim, Move, Release
<1>4. ASSUME NEW c \in Classes, ReleaseHeld(k, c)
      PROVE  /\ inbox' = inbox /\ shown' = shown /\ state' = state
             /\ \A i \in Conns : i # k => task'[i] = task[i]
  BY <1>4 DEF ReleaseHeld
<1> QED BY <1>1, <1>2, <1>3, <1>4

\* The frame of a sender, and the channels after it.
Sent(k) == Frame(task[k].do, task[k].class, IF task[k].do = "unlocked" THEN None ELSE k,
                 task[k].age)

LEMMA SendDelivers ==
  ASSUME TypeOK, NEW k \in Conns, Send(k), ~Lossy
  PROVE  /\ Sent(k) \in FrameSet /\ task[k] \in Working /\ task[k].do \in FrameKind
         /\ Sent(k).kind = task[k].do /\ Sent(k).class = task[k].class
         /\ Sent(k).from = IF task[k].do = "unlocked" THEN None ELSE k
         /\ \A j \in Conns : inbox'[j] = IF state[j] \in Here THEN Append(inbox[j], Sent(k))
                                         ELSE inbox[j]
         /\ UNCHANGED <<redis, state, held, browser>>
         /\ task' = [task EXCEPT ![k] = Idle]
<1>1. task[k] \in Working /\ task[k].do \in FrameKind
  BY DEF Send, TypeOK, Idle, FrameKind, Working
<1>2. /\ Sent(k) \in FrameSet /\ Sent(k).kind = task[k].do /\ Sent(k).class = task[k].class
      /\ Sent(k).from = IF task[k].do = "unlocked" THEN None ELSE k
  BY <1>1 DEF Sent, Frame, FrameSet, Working, Holder
<1>3. \A j \in Conns : inbox'[j] = IF j \in Members /\ Room(j)
                                   THEN Append(inbox[j], Sent(k)) ELSE inbox[j]
  BY DEF Send, Sent
<1>4. \A j \in Conns : j \in Members <=> state[j] \in Here
  BY DEF Members, Here
<1>5. /\ \A j \in Members : Room(j)
      /\ UNCHANGED <<redis, state, held, browser>> /\ task' = [task EXCEPT ![k] = Idle]
  BY DEF Send
<1> QED BY <1>1, <1>2, <1>3, <1>4, <1>5

\* What a tick does to the frames and the screens.
LEMMA TickAges ==
  ASSUME TypeOK, Tick, NEW j \in Conns
  PROVE  /\ inbox'[j] \in Seq(FrameSet) /\ Len(inbox'[j]) = Len(inbox[j])
         /\ \A n \in 1..Len(inbox[j]) : inbox'[j][n] = [inbox[j][n] EXCEPT !.age = @ + 1]
         /\ \A c \in Classes : shown'[j][c] \in {None, shown[j][c]}
         /\ \A c \in Classes : owner'[c] \in {None, owner[c]}
         /\ task'[j].do = task[j].do /\ task'[j].class = task[j].class
         /\ task[j] = Idle => task'[j] = Idle
         /\ state' = state
<1>1. inbox'[j] = [i \in 1..Len(inbox[j]) |-> [inbox[j][i] EXCEPT !.age = @ + 1]]
  BY DEF Tick, TypeOK
<1>2. \A i \in 1..Len(inbox[j]) : [inbox[j][i] EXCEPT !.age = @ + 1] \in FrameSet
  BY FrameAges DEF Tick, TypeOK
<1>3. Len(inbox[j]) \in Nat
  BY DEF TypeOK
<1>4. task[j] \in {Idle} \cup Working
  BY DEF TypeOK, Working
<1>5. /\ task'[j] = IF task[j].do \in FrameKind THEN [task[j] EXCEPT !.age = @ + 1] ELSE task[j]
      /\ state' = state
      /\ \A c \in Classes : /\ shown'[j][c] = IF due[j][c] = 1 THEN None ELSE shown[j][c]
                            /\ owner'[c] = IF ttl[c] = 1 THEN None ELSE owner[c]
  BY DEF Tick
<1>6. /\ task'[j].do = task[j].do /\ task'[j].class = task[j].class
      /\ task[j] = Idle => task'[j] = Idle
  BY <1>4, <1>5 DEF Working, Idle, FrameKind
<1> QED BY <1>1, <1>2, <1>3, <1>5, <1>6

\* The snapshot a connection reads names the owners of that moment.
SnapshotFrame == [kind |-> "locks", owners |-> owner, age |-> 0]

LEMMA SnapshotNamesOwners ==
  ASSUME TypeOK
  PROVE  /\ SnapshotFrame \in FrameSet /\ SnapshotFrame.kind = "locks"
         /\ \A c \in Classes : Says(SnapshotFrame, c) = owner[c]
<1>1. owner \in [Classes -> Holder] /\ 0 \in 0..MaxDelay
  BY TimingAssumption DEF TypeOK
<1>2. SnapshotFrame \in [kind : {"locks"}, owners : [Classes -> Holder], age : 0..MaxDelay]
  BY <1>1 DEF SnapshotFrame
<1>3. SnapshotFrame.kind = "locks" /\ SnapshotFrame.owners = owner
  BY DEF SnapshotFrame
<1> QED BY <1>2, <1>3 DEF FrameSet, Says

\* Only those who are here get frames, and claims are sent by connections.
LEMMA ScreensPreserved ==
  TypeOK /\ Screens /\ ~Lossy /\ [Next]_vars => Screens'
<1> SUFFICES ASSUME TypeOK, Screens, ~Lossy, [Next]_vars PROVE Screens'
  OBVIOUS
<1> USE DEF Screens, AwayIsEmpty, CrashedIsIdle, ClaimsNameSomebody
<1>1. ASSUME NEW k \in Conns,
             \/ Join(k) \/ Save(k) \/ Closed(k)
             \/ \E c \in Classes : Claim(k, c) \/ Move(k, c) \/ Release(k, c) \/ ReleaseHeld(k, c)
      PROVE  Screens'
  <2>1. state[k] # "crashed"
    BY <1>1 DEF Join, Save, Closed, Claim, Move, Release, ReleaseHeld, Ready, Idle
  <2>2. /\ inbox' = inbox /\ shown' = shown
        /\ \A i \in Conns : i # k => task'[i] = task[i] /\ state'[i] = state[i]
        /\ state'[k] = "crashed" => state[k] = "crashed"
        /\ state[k] \in Here => state'[k] \in Here
    BY <1>1, SameFrames
  <2> QED BY <2>1, <2>2
<1>2. ASSUME NEW k \in Conns, Snapshot(k) PROVE Screens'
  <2> DEFINE f == [kind |-> "locks", owners |-> owner, age |-> 0]
  <2>1. /\ state[k] \in Here /\ state'[k] = "open" /\ inbox'[k] = <<f>> \o inbox[k]
        /\ \A j \in Conns : j # k => state'[j] = state[j] /\ inbox'[j] = inbox[j]
        /\ UNCHANGED <<task, shown>>
    BY <1>2 DEF Snapshot, TypeOK, Here, browser
  <2>2. f \in FrameSet /\ f.kind = "locks"
    BY SnapshotNamesOwners DEF SnapshotFrame
  <2>3. inbox[k] \in Seq(FrameSet)
    BY DEF TypeOK
  <2> HIDE DEF f
  <2>4. ClaimsNamed(inbox'[k])
    BY <2>1, <2>2, <2>3, NamedFrames
  <2> QED BY <2>1, <2>4 DEF Here
<1>3. ASSUME NEW k \in Conns, Send(k) PROVE Screens'
  <2>1. /\ Sent(k) \in FrameSet /\ (Sent(k).kind = "locked" => Sent(k).from # None)
        /\ \A j \in Conns : inbox'[j] = IF state[j] \in Here THEN Append(inbox[j], Sent(k))
                                        ELSE inbox[j]
        /\ UNCHANGED <<redis, state, held, browser>> /\ task' = [task EXCEPT ![k] = Idle]
    BY <1>3, SendDelivers, NoneAssumption
  <2>2. \A j \in Conns : inbox[j] \in Seq(FrameSet)
    BY DEF TypeOK
  <2>3. \A j \in Conns : ClaimsNamed(inbox'[j])
    BY <2>1, <2>2, NamedFrames
  <2> QED BY <2>1, <2>3 DEF browser, TypeOK
<1>4. ASSUME NEW k \in Conns, Disconnect(k) \/ Crash(k) PROVE Screens'
  <2>1. /\ state'[k] \notin Here /\ inbox'[k] = <<>> /\ \A c \in Classes : shown'[k][c] = None
        /\ \A j \in Conns : j # k => /\ state'[j] = state[j] /\ inbox'[j] = inbox[j]
                                     /\ shown'[j] = shown[j] /\ task'[j] = task[j]
        /\ state'[k] = "crashed" => task'[k] = Idle
    BY <1>4 DEF Disconnect, Crash, TypeOK, Here
  <2>2. ClaimsNamed(<<>>)
    BY DEF ClaimsNamed
  <2> QED BY <2>1, <2>2
<1>5. ASSUME NEW k \in Conns, Deliver(k) PROVE Screens'
  <2>1. /\ state[k] \in Here /\ inbox[k] # <<>> /\ inbox'[k] = Tail(inbox[k])
        /\ UNCHANGED <<state, task>>
        /\ \A j \in Conns : j # k => inbox'[j] = inbox[j] /\ shown'[j] = shown[j]
    BY <1>5 DEF Deliver, TypeOK, Here
  <2>2. ClaimsNamed(inbox'[k])
    BY <2>1, NamedFrames DEF TypeOK
  <2> QED BY <2>1, <2>2
<1>6. CASE Tick
  <2> SUFFICES ASSUME NEW j \in Conns
               PROVE  /\ state'[j] \notin Here =>
                           inbox'[j] = <<>> /\ \A c \in Classes : shown'[j][c] = None
                      /\ state'[j] = "crashed" => task'[j] = Idle
                      /\ ClaimsNamed(inbox'[j])
    OBVIOUS
  <2>1. /\ inbox'[j] \in Seq(FrameSet) /\ Len(inbox'[j]) = Len(inbox[j]) /\ state' = state
        /\ \A n \in 1..Len(inbox[j]) : inbox'[j][n] = [inbox[j][n] EXCEPT !.age = @ + 1]
        /\ \A c \in Classes : shown'[j][c] \in {None, shown[j][c]}
        /\ task[j] = Idle => task'[j] = Idle
    BY <1>6, TickAges
  <2>2. inbox[j] \in Seq(FrameSet) /\ ClaimsNamed(inbox[j])
    BY DEF TypeOK
  <2>3. ClaimsNamed(inbox'[j])
    BY <2>1, <2>2, NamedFrames
  <2>4. inbox[j] = <<>> => inbox'[j] = <<>>
    BY <2>1
  <2> QED BY <2>1, <2>3, <2>4
<1>7. CASE UNCHANGED vars
  BY <1>7 DEF vars
<1> QED BY <1>1, <1>2, <1>3, <1>4, <1>5, <1>6, <1>7 DEF Next

\* Nobody is named where there is nothing.
LEMMA NothingNames == \A c, k : NamesAtLast(None, <<>>, c, k)
BY DEF NamesAtLast, Said

\* The owner is named at last also after every step.
LEMMA OwnerNamedPreserved ==
  IInv /\ Screens /\ OwnerNamedAtLast /\ ~Lossy /\ [Next]_vars => OwnerNamedAtLast'
<1> SUFFICES ASSUME IInv, Screens, OwnerNamedAtLast, ~Lossy, [Next]_vars,
                    NEW j \in Conns, NEW c \in Classes, NEW k \in Conns,
                    owner'[c] = k, state'[k] # "crashed",
                    ~(task'[k].do = "locked" /\ task'[k].class = c)
             PROVE  NamesAtLast(shown'[j][c], inbox'[j], c, k)
  BY DEF OwnerNamedAtLast, Announcing
<1>0. /\ TypeOK /\ k # None /\ inbox[j] \in Seq(FrameSet) /\ shown[j] \in [Classes -> Holder]
      /\ owner[c] = k /\ state[k] # "crashed" /\ ~Announcing(k, c)
           => NamesAtLast(shown[j][c], inbox[j], c, k)
  BY NoneAssumption DEF IInv, TypeOK, OwnerNamedAtLast
<1>1. ASSUME NEW i \in Conns,
             \/ Join(i) \/ Save(i) \/ Closed(i)
             \/ \E d \in Classes : Claim(i, d) \/ Move(i, d) \/ Release(i, d) \/ ReleaseHeld(i, d)
      PROVE  NamesAtLast(shown'[j][c], inbox'[j], c, k)
  <2>1. /\ inbox' = inbox /\ shown' = shown
        /\ k # i => task'[k] = task[k] /\ state'[k] = state[k]
    BY <1>0, <1>1, SameFrames
  <2>2. k = i => state[k] # "crashed" /\ ~Announcing(k, c)
    BY <1>1 DEF Join, Save, Closed, Claim, Move, Release, ReleaseHeld, Ready, Idle, Announcing
  <2>3. owner[c] = k
    <3>1. CASE Join(i) \/ Save(i) \/ Closed(i)
      BY <3>1 DEF Join, Save, Closed, redis
    <3>2. ASSUME NEW d \in Classes, Claim(i, d) PROVE owner[c] = k
      BY <1>0, <3>2 DEF Claim, TypeOK, Task
    <3>3. ASSUME NEW d \in Classes, Move(i, d) \/ Release(i, d) \/ ReleaseHeld(i, d)
          PROVE  owner[c] = k
      BY <1>0, <3>3 DEF Move, Release, ReleaseHeld, TypeOK, redis
    <3> QED BY <1>1, <3>1, <3>2, <3>3
  <2> QED BY <1>0, <2>1, <2>2, <2>3 DEF Announcing
<1>2. ASSUME NEW i \in Conns, Snapshot(i) PROVE NamesAtLast(shown'[j][c], inbox'[j], c, k)
  <2> DEFINE f == [kind |-> "locks", owners |-> owner, age |-> 0]
  <2>1. /\ owner[c] = k /\ shown' = shown /\ task' = task /\ state[k] # "crashed"
        /\ inbox'[j] = IF i = j THEN <<f>> \o inbox[j] ELSE inbox[j]
    BY <1>0, <1>2 DEF Snapshot, TypeOK, browser, redis
  <2>2. NamesAtLast(shown[j][c], inbox[j], c, k)
    BY <1>0, <2>1 DEF Announcing
  <2>3. f \in FrameSet /\ Says(f, c) = owner[c]
    BY <1>0, SnapshotNamesOwners DEF SnapshotFrame
  <2> HIDE DEF f
  <2>4. NamesAtLast(shown[j][c], <<f>> \o inbox[j], c, k)
    BY <1>0, <2>1, <2>2, <2>3, PrependNames
  <2> QED BY <2>1, <2>2, <2>4
<1>3. ASSUME NEW i \in Conns, Send(i) PROVE NamesAtLast(shown'[j][c], inbox'[j], c, k)
  <2>1. /\ Sent(i) \in FrameSet /\ Sent(i).kind = task[i].do /\ Sent(i).class = task[i].class
        /\ Sent(i).from = IF task[i].do = "unlocked" THEN None ELSE i
        /\ task[i].do \in FrameKind
        /\ inbox'[j] = IF state[j] \in Here THEN Append(inbox[j], Sent(i)) ELSE inbox[j]
        /\ UNCHANGED <<redis, state, held, browser>> /\ task' = [task EXCEPT ![i] = Idle]
    BY <1>0, <1>3, SendDelivers
  <2>2. owner[c] = k /\ shown' = shown /\ state[k] # "crashed" /\ (k # i => task'[k] = task[k])
    BY <1>0, <2>1 DEF redis, browser, TypeOK
  <2>3. CASE state[j] \notin Here
    BY <2>1, <2>2, <2>3, NothingNames DEF Screens, AwayIsEmpty
  <2>4. CASE state[j] \in Here /\ i = k /\ Announcing(k, c)
    <3>1. Announces(Sent(i), c, k)
      BY <2>1, <2>4 DEF Announces, Announcing
    <3> QED BY <1>0, <2>1, <2>2, <2>4, <3>1, AppendNames
  <2>5. CASE state[j] \in Here /\ ~(i = k /\ Announcing(k, c))
    <3>1. NamesAtLast(shown[j][c], inbox[j], c, k)
      BY <1>0, <2>2, <2>5 DEF Announcing
    <3>2. task[i].do = "locked" => owner[task[i].class] = i
      BY DEF IInv, SignalsComeFromOwner
    <3>3. Says(Sent(i), c) \in {None, k}
      BY <2>1, <2>2, <3>2 DEF Says, FrameKind
    <3> QED BY <1>0, <2>1, <2>2, <2>5, <3>1, <3>3, AppendNames
  <2> QED BY <2>3, <2>4, <2>5
<1>4. ASSUME NEW i \in Conns, Disconnect(i) \/ Crash(i)
      PROVE  NamesAtLast(shown'[j][c], inbox'[j], c, k)
  <2>1. /\ i = j => shown'[j][c] = None /\ inbox'[j] = <<>>
        /\ i # j => shown'[j] = shown[j] /\ inbox'[j] = inbox[j]
    BY <1>0, <1>4 DEF Disconnect, Crash, TypeOK
  <2>2. owner[c] = k /\ state[k] # "crashed" /\ task'[k] = task[k]
    BY <1>0, <1>4 DEF Disconnect, Crash, Ready, TypeOK, redis
  <2> QED BY <1>0, <2>1, <2>2, NothingNames DEF Announcing
<1>5. ASSUME NEW i \in Conns, Deliver(i) PROVE NamesAtLast(shown'[j][c], inbox'[j], c, k)
  <2>1. owner[c] = k /\ state' = state /\ task' = task
    BY <1>5 DEF Deliver, redis
  <2>2. NamesAtLast(shown[j][c], inbox[j], c, k)
    BY <1>0, <2>1 DEF Announcing
  <2>3. CASE i # j
    BY <1>0, <1>5, <2>2, <2>3 DEF Deliver, TypeOK
  <2>4. CASE i = j
    <3>1. /\ inbox[j] # <<>> /\ inbox'[j] = Tail(inbox[j])
          /\ shown'[j] = ShownAfter(shown[j], Head(inbox[j]))
      BY <1>0, <1>5, <2>4 DEF Deliver, TypeOK
    <3> QED BY <1>0, <2>2, <3>1, DeliverNames
  <2> QED BY <2>3, <2>4
<1>6. CASE Tick
  <2>1. /\ inbox'[j] \in Seq(FrameSet) /\ Len(inbox'[j]) = Len(inbox[j])
        /\ \A n \in 1..Len(inbox[j]) : inbox'[j][n] = [inbox[j][n] EXCEPT !.age = @ + 1]
        /\ shown'[j][c] \in {None, shown[j][c]}
    BY <1>0, <1>6, TickAges
  <2>2. /\ owner'[c] \in {None, owner[c]} /\ state' = state
        /\ task'[k].do = task[k].do /\ task'[k].class = task[k].class
    BY <1>0, <1>6, TickAges
  <2>3. NamesAtLast(shown[j][c], inbox[j], c, k)
    BY <1>0, <2>2 DEF Announcing
  <2> QED BY <1>0, <2>1, <2>3, AgeNames
<1>7. CASE UNCHANGED vars
  BY <1>0, <1>7 DEF vars, Announcing
<1> QED BY <1>1, <1>2, <1>3, <1>4, <1>5, <1>6, <1>7 DEF Next

\* A position that follows a claim of somebody else has its own claim in between.
LEMMA OrderPreserved ==
  IInv /\ Screens /\ OwnerNamedAtLast /\ FramesInOrder /\ ~Lossy /\ [Next]_vars
    => FramesInOrder'
<1> SUFFICES ASSUME IInv, Screens, OwnerNamedAtLast, FramesInOrder, ~Lossy, [Next]_vars,
                    NEW j \in Conns
             PROVE  InOrder(inbox'[j])
  BY DEF FramesInOrder
<1>0. TypeOK /\ inbox[j] \in Seq(FrameSet) /\ InOrder(inbox[j]) /\ InOrder(<<>>)
  BY DEF IInv, TypeOK, FramesInOrder, InOrder
<1>1. ASSUME NEW i \in Conns,
             \/ Join(i) \/ Save(i) \/ Closed(i)
             \/ \E d \in Classes : Claim(i, d) \/ Move(i, d) \/ Release(i, d) \/ ReleaseHeld(i, d)
      PROVE  InOrder(inbox'[j])
  BY <1>0, <1>1, SameFrames
<1>2. ASSUME NEW i \in Conns, Snapshot(i) PROVE InOrder(inbox'[j])
  <2> DEFINE f == [kind |-> "locks", owners |-> owner, age |-> 0]
  <2>1. inbox'[j] = IF i = j THEN <<f>> \o inbox[j] ELSE inbox[j]
    BY <1>0, <1>2 DEF Snapshot, TypeOK
  <2>2. f \in FrameSet /\ f.kind = "locks"
    BY <1>0, SnapshotNamesOwners DEF SnapshotFrame
  <2> HIDE DEF f
  <2> QED BY <1>0, <2>1, <2>2, EndsInOrder
<1>3. ASSUME NEW i \in Conns, Send(i) PROVE InOrder(inbox'[j])
  <2>1. /\ Sent(i) \in FrameSet /\ Sent(i).kind = task[i].do /\ Sent(i).class = task[i].class
        /\ Sent(i).from = IF task[i].do = "unlocked" THEN None ELSE i
        /\ task[i].do \in FrameKind /\ task[i] \in Working
        /\ inbox'[j] = IF state[j] \in Here THEN Append(inbox[j], Sent(i)) ELSE inbox[j]
    BY <1>0, <1>3, SendDelivers
  <2>2. ASSUME Sent(i).kind = "position"
        PROVE  /\ NamesAtLast(None, inbox[j], Sent(i).class, Sent(i).from)
               /\ Sent(i).from # None /\ ClaimsNamed(inbox[j])
    <3> DEFINE d == task[i].class
    <3>1. /\ task[i].do = "position" /\ Sent(i).class = d /\ Sent(i).from = i
          /\ d \in Classes
      BY <2>1, <2>2 DEF Working
    <3>2. owner[d] = i /\ state[i] # "crashed" /\ ~Announcing(i, d)
      BY <3>1 DEF IInv, SignalsComeFromOwner, Screens, CrashedIsIdle, Idle, Announcing
    <3>3. NamesAtLast(shown[j][d], inbox[j], d, i)
      BY <3>1, <3>2 DEF OwnerNamedAtLast
    <3>4. NamesAtLast(None, inbox[j], d, i)
      BY <3>3 DEF NamesAtLast, Said
    <3> QED BY <3>1, <3>4, NoneAssumption DEF Screens, ClaimsNameSomebody
  <2> QED BY <1>0, <2>1, <2>2, AppendInOrder
<1>4. ASSUME NEW i \in Conns, Disconnect(i) \/ Crash(i) PROVE InOrder(inbox'[j])
  BY <1>0, <1>4 DEF Disconnect, Crash, TypeOK
<1>5. ASSUME NEW i \in Conns, Deliver(i) PROVE InOrder(inbox'[j])
  <2>1. \/ inbox'[j] = inbox[j]
        \/ inbox[j] # <<>> /\ inbox'[j] = Tail(inbox[j])
    BY <1>0, <1>5 DEF Deliver, TypeOK
  <2>2. Head(inbox[j]) \in FrameSet \/ inbox[j] = <<>>
    BY <1>0
  <2> QED BY <1>0, <2>1, <2>2, EndsInOrder
<1>6. CASE Tick
  BY <1>0, <1>6, TickAges, AgeInOrder
<1>7. CASE UNCHANGED vars
  BY <1>0, <1>7 DEF vars
<1> QED BY <1>1, <1>2, <1>3, <1>4, <1>5, <1>6, <1>7 DEF Next

-----------------------------------------------------------------------------
FramesInv == IInv /\ Screens /\ OwnerNamedAtLast /\ FramesInOrder

\* What frames tell is right in every state of a channel layer that loses nothing.
THEOREM FramesInvariance == ~Lossy => (Spec => []FramesInv)
<1> SUFFICES ASSUME ~Lossy PROVE Spec => []FramesInv
  OBVIOUS
<1>1. Init => FramesInv
  <2>1. Init => IInv
    BY InitInv
  <2>2. ASSUME Init PROVE Screens /\ OwnerNamedAtLast /\ FramesInOrder
    BY <2>2, NoneAssumption
    DEF Init, Screens, AwayIsEmpty, CrashedIsIdle, ClaimsNameSomebody, ClaimsNamed,
        OwnerNamedAtLast, FramesInOrder, InOrder
  <2> QED BY <2>1, <2>2 DEF FramesInv
<1>2. FramesInv /\ [Next]_vars => FramesInv'
  <2>1. IInv /\ [Next]_vars => IInv'
    BY TypePreserved, KeyHasTimePreserved, OwnedIsHeldPreserved, SignalsPreserved DEF IInv
  <2> QED BY <2>1, ScreensPreserved, OwnerNamedPreserved, OrderPreserved DEF FramesInv, IInv
<1> QED BY <1>1, <1>2, PTL DEF Spec

(* For any connections and classes: between the claim of one connection and the
   position of another a browser is always told of the second one's claim. *)
THEOREM LocksFramesFollowOwnership == ~Lossy => (Spec => []FramesFollowOwnership)
<1> SUFFICES ASSUME ~Lossy PROVE Spec => []FramesFollowOwnership
  OBVIOUS
<1>1. FramesInv => FramesFollowOwnership
  BY DEF FramesInv, FramesInOrder, InOrder, FramesFollowOwnership
<1>2. Spec => []FramesInv
  BY FramesInvariance
<1> QED BY <1>1, <1>2, PTL

\* When everything has landed, no browser shows a node as locked by the wrong one.
THEOREM LocksQuietNeverWrongOwner == ~Lossy => (Spec => []QuietNeverWrongOwner)
<1> SUFFICES ASSUME ~Lossy PROVE Spec => []QuietNeverWrongOwner
  OBVIOUS
<1>1. FramesInv => QuietNeverWrongOwner
  <2> SUFFICES ASSUME FramesInv, Quiet, NEW j \in Conns, NEW c \in Classes,
                      shown[j][c] # None, owner[c] # None, state[owner[c]] # "crashed"
               PROVE  shown[j][c] = owner[c]
    BY DEF QuietNeverWrongOwner
  <2>1. owner[c] \in Conns /\ inbox[j] = <<>> /\ task[owner[c]] = Idle
    BY DEF FramesInv, IInv, TypeOK, Holder, Quiet
  <2>2. NamesAtLast(shown[j][c], <<>>, c, owner[c])
    BY <2>1 DEF FramesInv, OwnerNamedAtLast, Announcing, Idle
  <2> QED BY <2>2 DEF NamesAtLast, Said
<1>2. Spec => []FramesInv
  BY FramesInvariance
<1> QED BY <1>1, <1>2, PTL

-----------------------------------------------------------------------------
(* Timers.  A frame of class c that a handler is to send, or that is on its
   way to j's browser. *)
UnderWay(j, kind, c, a) ==
  \/ \E k \in Conns : task[k].do = kind /\ task[k].class = c /\ task[k].age = a
  \/ \E i \in DOMAIN inbox[j] : inbox[j][i].kind = kind /\ inbox[j][i].class = c
                                  /\ inbox[j][i].age = a

(* The timer of an entry outlasts the key, or lasts until a position that is
   under way has come; or the browser is yet to hear of a claim. *)
InTime(j, c) ==
  \/ \E a \in 0..MaxDelay : UnderWay(j, "locked", c, a)
  \/ due[j][c] >= MaxDelay + ttl[c]
  \/ \E a \in 0..MaxDelay : UnderWay(j, "position", c, a) /\ due[j][c] + a >= MaxDelay + 1
OwnersInTime ==
  \A j \in Conns, c \in Classes :
    shown[j][c] # None /\ shown[j][c] = owner[c] /\ state[owner[c]] # "crashed" => InTime(j, c)

\* A signal stays under way to a browser that is there, unless its sender crashes.
LEMMA SignalStays ==
  ASSUME IInv, ~Lossy, NEW j \in Conns, NEW c \in Classes,
         NEW kind \in {"locked", "position"}, NEW a, UnderWay(j, kind, c, a), NEW i \in Conns,
         \/ Join(i) \/ Snapshot(i) \/ Save(i) \/ Send(i) \/ Disconnect(i) \/ Closed(i)
         \/ Crash(i) \/ (Deliver(i) /\ i # j)
         \/ \E d \in Classes : Claim(i, d) \/ Move(i, d) \/ Release(i, d) \/ ReleaseHeld(i, d),
         state'[j] \in Here, ~(Crash(i) /\ owner[c] = i)
  PROVE  UnderWay(j, kind, c, a)'
<1>0. TypeOK /\ inbox[j] \in Seq(FrameSet) /\ DOMAIN inbox[j] = 1..Len(inbox[j])
  BY DEF IInv, TypeOK
<1>1. CASE \E n \in DOMAIN inbox[j] : inbox[j][n].kind = kind /\ inbox[j][n].class = c
                                        /\ inbox[j][n].age = a
  <2>1. PICK n \in DOMAIN inbox[j] : inbox[j][n].kind = kind /\ inbox[j][n].class = c
                                        /\ inbox[j][n].age = a
    BY <1>1
  <2>2. \E m \in DOMAIN inbox'[j] : inbox'[j][m] = inbox[j][n]
    <3>1. CASE \/ Join(i) \/ Save(i) \/ Closed(i) \/ (Deliver(i) /\ i # j)
               \/ \E d \in Classes : Claim(i, d) \/ Move(i, d) \/ Release(i, d) \/ ReleaseHeld(i, d)
      <4>1. inbox'[j] = inbox[j]
        BY <1>0, <3>1, SameFrames DEF Deliver, TypeOK
      <4> QED BY <4>1
    <3>2. CASE Snapshot(i)
      <4> DEFINE f == [kind |-> "locks", owners |-> owner, age |-> 0]
      <4>1. inbox'[j] = IF i = j THEN <<f>> \o inbox[j] ELSE inbox[j]
        BY <1>0, <3>2 DEF Snapshot, TypeOK
      <4> HIDE DEF f
      <4>2. CASE i = j
        <5>1. n + 1 \in DOMAIN (<<f>> \o inbox[j]) /\ (<<f>> \o inbox[j])[n + 1] = inbox[j][n]
          BY <1>0
        <5> QED BY <4>1, <4>2, <5>1
      <4> QED BY <4>1, <4>2
    <3>3. CASE Send(i)
      <4>1. inbox'[j] = IF state[j] \in Here THEN Append(inbox[j], Sent(i)) ELSE inbox[j]
        BY <1>0, <3>3, SendDelivers
      <4>2. n \in DOMAIN Append(inbox[j], Sent(i)) /\ Append(inbox[j], Sent(i))[n] = inbox[j][n]
        BY <1>0
      <4> QED BY <4>1, <4>2
    <3>4. CASE Disconnect(i) \/ Crash(i)
      <4>1. i # j
        BY <1>0, <3>4 DEF Disconnect, Crash, TypeOK, Here
      <4>2. inbox'[j] = inbox[j]
        BY <1>0, <3>4, <4>1 DEF Disconnect, Crash, TypeOK
      <4> QED BY <4>2
    <3> QED BY <3>1, <3>2, <3>3, <3>4
  <2> QED BY <2>1, <2>2 DEF UnderWay
<1>2. CASE \E k \in Conns : task[k].do = kind /\ task[k].class = c /\ task[k].age = a
  <2>1. PICK k \in Conns : task[k].do = kind /\ task[k].class = c /\ task[k].age = a
    BY <1>2
  <2>2. /\ owner[c] = k /\ task[k] # Idle /\ task[k].do # "save" /\ task[k].do \in FrameKind
        /\ k # None
    BY <2>1, NoneAssumption DEF IInv, SignalsComeFromOwner, Idle, FrameKind
  <2>3. CASE Send(i) /\ i = k
    <3>1. /\ inbox'[j] = IF state[j] \in Here THEN Append(inbox[j], Sent(i)) ELSE inbox[j]
          /\ Sent(i).kind = task[i].do /\ Sent(i).class = task[i].class /\ UNCHANGED state
      BY <1>0, <2>3, SendDelivers
    <3>2. Sent(i).age = a
      BY <2>1, <2>3 DEF Sent, Frame
    <3>3. Len(inbox[j]) + 1 \in DOMAIN inbox'[j] /\ inbox'[j][Len(inbox[j]) + 1] = Sent(i)
      BY <1>0, <3>1
    <3> QED BY <2>1, <2>3, <3>1, <3>2, <3>3 DEF UnderWay
  <2>4. CASE ~(Send(i) /\ i = k)
    <3>1. task'[k] = task[k]
      <4>1. CASE \/ Join(i) \/ Snapshot(i) \/ Closed(i) \/ Disconnect(i) \/ Deliver(i)
        BY <4>1 DEF Join, Snapshot, Closed, Disconnect, Deliver
      <4>2. CASE Save(i) \/ Send(i) \/ Crash(i)
        <5>1. i # k
          BY <2>1, <2>2, <2>4, <4>2 DEF Save
        <5> QED BY <1>0, <4>2, <5>1 DEF Save, Send, Crash, TypeOK
      <4>3. ASSUME NEW d \in Classes,
                   Claim(i, d) \/ Move(i, d) \/ Release(i, d) \/ ReleaseHeld(i, d)
            PROVE  task'[k] = task[k]
        <5>1. i # k
          BY <2>2, <4>3 DEF Claim, Move, Release, ReleaseHeld, Ready
        <5> QED BY <1>0, <4>3, <5>1 DEF Claim, Move, Release, ReleaseHeld, TypeOK
      <4> QED BY <4>1, <4>2, <4>3
    <3> QED BY <2>1, <3>1 DEF UnderWay
  <2> QED BY <2>3, <2>4
<1> QED BY <1>1, <1>2 DEF UnderWay

\* A tick comes only as long as nothing under way is as old as it may get.
LEMMA SignalAges ==
  ASSUME TypeOK, Tick, NEW j \in Conns, NEW c \in Classes,
         NEW kind \in {"locked", "position"}, NEW a \in 0..MaxDelay, UnderWay(j, kind, c, a)
  PROVE  a < MaxDelay /\ UnderWay(j, kind, c, a + 1)'
<1>0. kind \in FrameKind
  BY DEF FrameKind
<1>1. ASSUME NEW k \in Conns, task[k].do = kind, task[k].class = c, task[k].age = a
      PROVE  a < MaxDelay /\ UnderWay(j, kind, c, a + 1)'
  <2>1. task[k] \in Working
    BY <1>0, <1>1 DEF TypeOK, Idle, FrameKind, Working
  <2>2. a < MaxDelay /\ task'[k] = [task[k] EXCEPT !.age = @ + 1]
    BY <1>0, <1>1 DEF Tick
  <2>3. task'[k].do = kind /\ task'[k].class = c /\ task'[k].age = a + 1
    BY <1>1, <2>1, <2>2 DEF Working
  <2> QED BY <2>2, <2>3 DEF UnderWay
<1>2. ASSUME NEW i \in DOMAIN inbox[j], inbox[j][i].kind = kind, inbox[j][i].class = c,
             inbox[j][i].age = a
      PROVE  a < MaxDelay /\ UnderWay(j, kind, c, a + 1)'
  <2> DEFINE f == inbox[j][i]
  <2>1. f \in FrameSet /\ f.age < MaxDelay
    BY <1>2 DEF TypeOK, Tick
  <2>2. f \in [kind : FrameKind, class : Classes, from : Holder, age : 0..MaxDelay]
    BY <1>0, <1>2, <2>1 DEF FrameSet, FrameKind
  <2>3. i \in DOMAIN inbox'[j] /\ inbox'[j][i] = [f EXCEPT !.age = @ + 1]
    BY DEF Tick
  <2>4. inbox'[j][i].kind = kind /\ inbox'[j][i].class = c /\ inbox'[j][i].age = a + 1
    BY <1>2, <2>2, <2>3
  <2> QED BY <1>2, <2>1, <2>3, <2>4 DEF UnderWay
<1> QED BY <1>1, <1>2 DEF UnderWay

(* What a frame makes of an entry: a new timer, another entry or none, or the
   frame is about something else. *)
LEMMA HandledInTime ==
  ASSUME NEW f \in FrameSet, NEW s \in [Classes -> Holder], NEW d \in [Classes -> 0..Stale],
         NEW c \in Classes, ShownAfter(s, f)[c] # None
  PROVE  \/ DueAfter(d, f)[c] = Stale
         \/ /\ f.kind \in {"locked", "position"} => f.class # c
            /\ ShownAfter(s, f)[c] = s[c] /\ DueAfter(d, f)[c] = d[c]
<1>1. CASE f \in [kind : FrameKind, class : Classes, from : Holder, age : 0..MaxDelay]
  BY <1>1 DEF ShownAfter, DueAfter, FrameKind
<1>2. CASE f \in [kind : {"locks"}, owners : [Classes -> Holder], age : 0..MaxDelay]
  BY <1>2 DEF ShownAfter, DueAfter
<1> QED BY <1>1, <1>2 DEF FrameSet

\* Also after every step a browser's timers outlast the keys of the owners it shows.
LEMMA InTimePreserved ==
  IInv /\ Screens /\ OwnersInTime /\ ~Lossy /\ [Next]_vars => OwnersInTime'
<1> SUFFICES ASSUME IInv, Screens, OwnersInTime, ~Lossy, [Next]_vars,
                    NEW j \in Conns, NEW c \in Classes,
                    shown'[j][c] # None, shown'[j][c] = owner'[c],
                    state'[owner'[c]] # "crashed"
             PROVE  InTime(j, c)'
  BY DEF OwnersInTime
<1>0. /\ TypeOK /\ TypeOK' /\ MaxDelay \in Nat /\ TTL \in Nat /\ Stale \in Nat
      /\ TTL + MaxDelay <= Stale /\ 0 \in 0..MaxDelay
      /\ shown[j] \in [Classes -> Holder] /\ due[j] \in [Classes -> 0..Stale]
      /\ due[j][c] \in Nat /\ ttl[c] \in Nat /\ ttl'[c] \in Nat /\ ttl'[c] <= TTL
  <2>1. TypeOK /\ TypeOK'
    BY TypePreserved DEF IInv
  <2>2. /\ MaxDelay \in Nat /\ TTL \in Nat /\ Stale \in Nat
        /\ TTL + MaxDelay <= Stale /\ 0 \in 0..MaxDelay
    BY TimingAssumption
  <2>3. /\ shown[j] \in [Classes -> Holder] /\ due[j] \in [Classes -> 0..Stale]
        /\ due[j][c] \in 0..Stale /\ ttl[c] \in 0..TTL /\ ttl'[c] \in 0..TTL
    BY <2>1 DEF TypeOK
  <2> QED BY <2>1, <2>2, <2>3
<1>1. state'[j] \in Here
  BY <1>0, ScreensPreserved DEF Screens, AwayIsEmpty
<1>2. shown[j][c] # None /\ shown[j][c] = owner[c] /\ state[owner[c]] # "crashed" => InTime(j, c)
  BY DEF OwnersInTime
<1>3. ASSUME NEW i \in Conns,
             \/ Join(i) \/ Snapshot(i) \/ Save(i) \/ Send(i) \/ Disconnect(i) \/ Closed(i)
             \/ Crash(i) \/ (Deliver(i) /\ i # j)
             \/ \E d \in Classes : Claim(i, d) \/ Move(i, d) \/ Release(i, d) \/ ReleaseHeld(i, d),
             shown'[j][c] = shown[j][c], owner'[c] = owner[c], due'[j][c] = due[j][c],
             ttl'[c] = ttl[c] \/ (ttl[c] > 0 /\ UnderWay(j, "position", c, 0)')
      PROVE  InTime(j, c)'
  <2>1. owner[c] \in Conns /\ state[owner[c]] # "crashed" /\ ~(Crash(i) /\ owner[c] = i)
    <3>1. owner[c] \in Conns
      BY <1>0, <1>3 DEF TypeOK, Holder
    <3>2. ~(Crash(i) /\ owner[c] = i)
      <4> SUFFICES ASSUME Crash(i), owner[c] = i PROVE FALSE
        OBVIOUS
      <4>1. state' = [state EXCEPT ![i] = "crashed"] /\ i \in DOMAIN state
        BY <1>0 DEF Crash, TypeOK
      <4>2. state'[owner'[c]] = "crashed"
        BY <1>3, <4>1
      <4> QED BY <4>2
    <3>3. state[owner[c]] = "crashed" => state'[owner[c]] = "crashed"
      BY <1>0, <1>3, <3>1 DEF Join, Snapshot, Save, Send, Disconnect, Closed, Crash, Deliver,
                        Claim, Move, Release, ReleaseHeld, Ready, TypeOK
    <3> QED BY <1>3, <3>1, <3>2, <3>3
  <2>2. InTime(j, c)
    BY <1>2, <1>3, <2>1
  <2>3. ASSUME NEW kind \in {"locked", "position"}, NEW a \in 0..MaxDelay, UnderWay(j, kind, c, a)
        PROVE  UnderWay(j, kind, c, a)'
    BY <1>1, <1>3, <2>1, <2>3, SignalStays
  <2>4. CASE due[j][c] >= MaxDelay + ttl[c] /\ ttl'[c] # ttl[c]
    <3>1. due'[j][c] + 0 >= MaxDelay + 1
      BY <1>0, <1>3, <2>4
    <3> QED BY <1>0, <1>3, <2>4, <3>1 DEF InTime
  <2>5. CASE due[j][c] >= MaxDelay + ttl[c] /\ ttl'[c] = ttl[c]
    BY <1>3, <2>5 DEF InTime
  <2>6. CASE \E a \in 0..MaxDelay : UnderWay(j, "locked", c, a)
    BY <2>3, <2>6 DEF InTime
  <2>7. CASE \E a \in 0..MaxDelay : UnderWay(j, "position", c, a) /\ due[j][c] + a >= MaxDelay + 1
    BY <1>3, <2>3, <2>7 DEF InTime
  <2> QED BY <2>2, <2>4, <2>5, <2>6, <2>7 DEF InTime
<1>4. ASSUME NEW i \in Conns,
             \/ Join(i) \/ Snapshot(i) \/ Save(i) \/ Send(i) \/ Disconnect(i) \/ Closed(i)
             \/ Crash(i) \/ (Deliver(i) /\ i # j)
      PROVE  InTime(j, c)'
  <2>1. owner' = owner /\ ttl' = ttl
    BY <1>4 DEF Join, Snapshot, Save, Send, Disconnect, Closed, Crash, Deliver, redis
  <2>2. shown'[j][c] = shown[j][c] /\ due'[j][c] = due[j][c]
    <3>1. CASE Disconnect(i) \/ Crash(i)
      <4>1. i # j
        BY <1>0, <1>1, <3>1 DEF Disconnect, Crash, TypeOK, Here
      <4> QED BY <1>0, <3>1, <4>1 DEF Disconnect, Crash, TypeOK
    <3>2. CASE Deliver(i) /\ i # j
      BY <1>0, <3>2 DEF Deliver, TypeOK
    <3>3. CASE Join(i) \/ Snapshot(i) \/ Save(i) \/ Send(i) \/ Closed(i)
      BY <3>3 DEF Join, Snapshot, Save, Send, Closed, browser
    <3> QED BY <1>4, <3>1, <3>2, <3>3
  <2> QED BY <1>3, <1>4, <2>1, <2>2
<1>5. ASSUME NEW i \in Conns, NEW d \in Classes,
             Claim(i, d) \/ Move(i, d) \/ Release(i, d) \/ ReleaseHeld(i, d)
      PROVE  InTime(j, c)'
  <2>1. shown' = shown /\ due' = due
    BY <1>5 DEF Claim, Move, Release, ReleaseHeld, browser
  <2>2. CASE Claim(i, d) /\ d = c
    <3>1. task'[i] = Task("locked", c)
      BY <1>0, <2>2 DEF Claim, TypeOK
    <3>2. UnderWay(j, "locked", c, 0)'
      BY <3>1 DEF UnderWay, Task
    <3> QED BY <1>0, <3>2 DEF InTime
  <2>3. CASE Move(i, d) /\ d = c
    <3>1. task'[i] = Task("position", c) /\ owner' = owner /\ owner[c] = i
      BY <1>0, <2>3 DEF Move, TypeOK
    <3>2. UnderWay(j, "position", c, 0)'
      BY <3>1 DEF UnderWay, Task
    <3>3. ttl[c] > 0
      BY <1>0, <3>1, NoneAssumption DEF IInv, KeyHasTime
    <3> QED BY <1>3, <1>5, <2>1, <3>1, <3>2, <3>3
  <2>4. CASE ~((Claim(i, d) \/ Move(i, d)) /\ d = c)
    <3>1. owner'[c] = owner[c] /\ ttl'[c] = ttl[c]
      BY <1>0, <1>5, <2>4 DEF Claim, Move, Release, ReleaseHeld, TypeOK, redis
    <3> QED BY <1>3, <1>5, <2>1, <3>1
  <2> QED BY <2>2, <2>3, <2>4
<1>6. CASE Deliver(j)
  <2> DEFINE f == Head(inbox[j])
  <2>1. /\ inbox[j] # <<>> /\ inbox'[j] = Tail(inbox[j]) /\ shown'[j] = ShownAfter(shown[j], f)
        /\ due'[j] = DueAfter(due[j], f) /\ UNCHANGED <<redis, state, held, task>>
    BY <1>0, <1>6 DEF Deliver, TypeOK
  <2>2. f \in FrameSet /\ f = inbox[j][1] /\ inbox[j] \in Seq(FrameSet)
    BY <1>0, <2>1 DEF TypeOK
  <2> HIDE DEF f
  <2>3. \/ due'[j][c] = Stale
        \/ /\ f.kind \in {"locked", "position"} => f.class # c
           /\ shown'[j][c] = shown[j][c] /\ due'[j][c] = due[j][c]
    BY <1>0, <2>1, <2>2, HandledInTime
  <2>4. CASE due'[j][c] = Stale
    <3>1. due'[j][c] >= MaxDelay + ttl'[c]
      BY <1>0, <2>4
    <3> QED BY <3>1 DEF InTime
  <2>5. CASE /\ f.kind \in {"locked", "position"} => f.class # c
             /\ shown'[j][c] = shown[j][c] /\ due'[j][c] = due[j][c]
    <3>1. owner'[c] = owner[c] /\ ttl'[c] = ttl[c] /\ state' = state
      BY <2>1 DEF redis
    <3>2. ASSUME NEW kind \in {"locked", "position"}, NEW a \in 0..MaxDelay,
                 UnderWay(j, kind, c, a)
          PROVE  UnderWay(j, kind, c, a)'
      <4>1. ASSUME NEW n \in DOMAIN inbox[j], inbox[j][n].kind = kind, inbox[j][n].class = c,
                   inbox[j][n].age = a
            PROVE  UnderWay(j, kind, c, a)'
        <5>1. n # 1
          BY <2>2, <2>5, <4>1
        <5>2. n - 1 \in DOMAIN inbox'[j] /\ inbox'[j][n - 1] = inbox[j][n]
          BY <2>1, <2>2, <5>1
        <5> QED BY <4>1, <5>2 DEF UnderWay
      <4> QED BY <2>1, <3>2, <4>1 DEF UnderWay
    <3> QED BY <1>2, <2>5, <3>1, <3>2 DEF InTime
  <2> QED BY <2>3, <2>4, <2>5
<1>7. CASE Tick
  <2>1. /\ ttl'[c] = Older(ttl[c]) /\ owner'[c] = (IF ttl[c] = 1 THEN None ELSE owner[c])
        /\ due'[j][c] = Older(due[j][c])
        /\ shown'[j][c] = (IF due[j][c] = 1 THEN None ELSE shown[j][c]) /\ state' = state
    BY <1>7 DEF Tick
  <2>2. InTime(j, c) /\ ttl[c] > 0
    <3>1. shown[j][c] = shown'[j][c] /\ owner[c] = owner'[c]
      BY <2>1
    <3>2. ttl[c] > 0
      BY <1>0, <3>1 DEF IInv, KeyHasTime
    <3> QED BY <1>2, <2>1, <3>1, <3>2
  <2>3. CASE due[j][c] >= MaxDelay + ttl[c]
    <3>1. due'[j][c] >= MaxDelay + ttl'[c]
      BY <1>0, <2>1, <2>2, <2>3 DEF Older
    <3> QED BY <3>1 DEF InTime
  <2>4. ASSUME NEW a \in 0..MaxDelay, UnderWay(j, "locked", c, a) PROVE InTime(j, c)'
    <3>1. a < MaxDelay /\ UnderWay(j, "locked", c, a + 1)'
      BY <1>0, <1>7, <2>4, SignalAges
    <3>2. a + 1 \in 0..MaxDelay
      BY <1>0, <3>1
    <3> QED BY <3>1, <3>2 DEF InTime
  <2>5. ASSUME NEW a \in 0..MaxDelay, UnderWay(j, "position", c, a),
               due[j][c] + a >= MaxDelay + 1
        PROVE  InTime(j, c)'
    <3>1. a < MaxDelay /\ UnderWay(j, "position", c, a + 1)'
      BY <1>0, <1>7, <2>5, SignalAges
    <3>2. a + 1 \in 0..MaxDelay /\ due'[j][c] + (a + 1) >= MaxDelay + 1
      BY <1>0, <2>1, <2>5, <3>1 DEF Older
    <3> QED BY <3>1, <3>2 DEF InTime
  <2> QED BY <2>2, <2>3, <2>4, <2>5 DEF InTime
<1>8. CASE UNCHANGED vars
  BY <1>2, <1>8 DEF vars, InTime, UnderWay
<1> QED BY <1>3, <1>4, <1>5, <1>6, <1>7, <1>8 DEF Next

\* A tick that fires the timer of an entry finds its owner gone, or a claim on its way.
LEMMA FiresLate ==
  ASSUME IInv, OwnersInTime, Tick, NEW j \in Conns, NEW c \in Classes,
         shown[j][c] # None, shown'[j][c] = None, owner'[c] = shown[j][c],
         state[owner'[c]] # "crashed"
  PROVE  ClaimUnderWay(j, c)
<1>0. /\ TypeOK /\ MaxDelay \in Nat /\ due[j][c] \in Nat /\ ttl[c] \in Nat
  BY TimingAssumption DEF IInv, TypeOK
<1>1. /\ owner'[c] = (IF ttl[c] = 1 THEN None ELSE owner[c])
      /\ shown'[j][c] = (IF due[j][c] = 1 THEN None ELSE shown[j][c])
  BY DEF Tick
<1>2. owner[c] = shown[j][c] /\ ttl[c] # 1 /\ ttl[c] # 0 /\ due[j][c] = 1
  BY <1>0, <1>1 DEF IInv, KeyHasTime
<1>3. InTime(j, c)
  BY <1>1, <1>2 DEF OwnersInTime
<1>4. ~(due[j][c] >= MaxDelay + ttl[c])
  BY <1>0, <1>2
<1>5. ASSUME NEW a \in 0..MaxDelay, UnderWay(j, "position", c, a), due[j][c] + a >= MaxDelay + 1
      PROVE  FALSE
  <2>1. a < MaxDelay
    BY <1>0, <1>5, SignalAges
  <2> QED BY <1>0, <1>2, <1>5, <2>1
<1>6. \E a \in 0..MaxDelay : UnderWay(j, "locked", c, a)
  BY <1>3, <1>4, <1>5 DEF InTime
<1> QED BY <1>6 DEF UnderWay, ClaimUnderWay

(* For all periods and delays with TTL + MaxDelay <= Stale, a browser keeps the
   entry of an owner that moves on in time: its timer fires only once the key
   has expired, the owner has crashed, or another claim is on its way. *)
THEOREM LocksNoFlicker == ~Lossy => (Spec => NoFlicker)
<1> SUFFICES ASSUME ~Lossy PROVE Spec => NoFlicker
  OBVIOUS
<1>1. Init => OwnersInTime
  BY DEF Init, OwnersInTime
<1>2. FramesInv /\ OwnersInTime /\ [Next]_vars => OwnersInTime'
  BY InTimePreserved DEF FramesInv
<1>3. FramesInv /\ OwnersInTime
        => [Tick => \A j \in Conns, c \in Classes :
              shown[j][c] # None /\ shown'[j][c] = None
                => owner'[c] # shown[j][c] \/ ClaimUnderWay(j, c)
                     \/ state[owner'[c]] = "crashed"]_vars
  BY FiresLate DEF FramesInv
<1>4. Spec => []FramesInv
  BY FramesInvariance
<1> QED BY <1>1, <1>2, <1>3, <1>4, PTL DEF Spec, NoFlicker

=============================================================================
