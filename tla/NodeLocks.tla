----------------------------- MODULE NodeLocks -----------------------------
(***************************************************************************)
(* Exclusive dragging of class nodes: the Redis locks with a time to live  *)
(* (backend/apps/uml_documents/locks.py), the WebSocket consumer of each   *)
(* connection (consumers.py), the frames it sends to the document's group, *)
(* and what every browser shows as locked (frontend/src/state/document.ts).*)
(*                                                                         *)
(* A handler changes Redis first and tells the group afterwards, so other  *)
(* connections run between the two.  Frames of one connection are handled  *)
(* one after the other.  Time is counted in ticks; a frame reaches the     *)
(* browsers at most MaxDelay ticks after the change of Redis it reports.   *)
(***************************************************************************)
EXTENDS Naturals, Sequences

CONSTANTS
  Conns,      \* connections; each is one token and is used once
  Classes,    \* class nodes of the document
  None,       \* nobody
  TTL,        \* LOCK_TTL_MS
  Stale,      \* _LOCK_STALE_MS
  MaxDelay,   \* longest delay of a frame (an assumption on the deployment)
  Capacity,   \* messages a channel can hold
  Lossy       \* whether the channel layer drops messages for a full channel

ASSUME NoneAssumption == None \notin Conns
ASSUME TimingAssumption ==
  /\ TTL \in Nat /\ Stale \in Nat /\ MaxDelay \in Nat
  /\ MaxDelay < TTL
  /\ TTL + MaxDelay <= Stale
ASSUME ChannelAssumption == Capacity \in Nat \ {0} /\ Lossy \in BOOLEAN

VARIABLES
  owner,   \* owner[c]: the token stored under uml-lock:{doc}:{c}
  ttl,     \* ttl[c]: ticks until that key expires
  state,   \* state[k]: life of connection k
  held,    \* held[k]: the consumer's own record of what it claimed
  task,    \* task[k]: what k's handler still has to do
  inbox,   \* inbox[k]: frames on their way to k's browser
  shown,   \* shown[k][c]: whom k's browser shows as locking c
  due      \* due[k][c]: ticks until k's browser drops that entry, 0 if no timer

vars == <<owner, ttl, state, held, task, inbox, shown, due>>
redis == <<owner, ttl>>
browser == <<shown, due>>

Holder == Conns \cup {None}
FrameKind == {"locked", "position", "unlocked"}
Idle == [do |-> "idle", class |-> None, age |-> 0]
Task(do, c) == [do |-> do, class |-> c, age |-> 0]
Frame(kind, c, from, age) == [kind |-> kind, class |-> c, from |-> from, age |-> age]

Init ==
  /\ owner = [c \in Classes |-> None]
  /\ ttl = [c \in Classes |-> 0]
  /\ state = [k \in Conns |-> "new"]
  /\ held = [k \in Conns |-> {}]
  /\ task = [k \in Conns |-> Idle]
  /\ inbox = [k \in Conns |-> <<>>]
  /\ shown = [k \in Conns |-> [c \in Classes |-> None]]
  /\ due = [k \in Conns |-> [c \in Classes |-> 0]]

-----------------------------------------------------------------------------
(* connect(): the connection joins the group, is accepted, and only then
   reads which locks are held; group messages wait behind that snapshot. *)
Join(k) ==
  /\ state[k] = "new"
  /\ state' = [state EXCEPT ![k] = "joined"]
  /\ UNCHANGED <<redis, held, task, inbox, browser>>

Snapshot(k) ==
  /\ state[k] = "joined"
  /\ state' = [state EXCEPT ![k] = "open"]
  /\ inbox' = [inbox EXCEPT ![k] = <<[kind |-> "locks", owners |-> owner, age |-> 0]>> \o @]
  /\ UNCHANGED <<redis, held, task, browser>>

-----------------------------------------------------------------------------
Ready(k) == state[k] = "open" /\ task[k] = Idle

\* Mutant of Claim: the consumer forgets to note the lock it took.
ClaimNotNoted(k, c) ==
  /\ Ready(k) /\ owner[c] = None
  /\ owner' = [owner EXCEPT ![c] = k]
  /\ ttl' = [ttl EXCEPT ![c] = TTL]
  /\ task' = [task EXCEPT ![k] = Task("locked", c)]
  /\ UNCHANGED <<state, held, inbox, browser>>

\* Mutant of Claim: SET NX without an expiry.
ClaimForever(k, c) ==
  /\ Ready(k) /\ owner[c] = None
  /\ owner' = [owner EXCEPT ![c] = k]
  /\ held' = [held EXCEPT ![k] = @ \cup {c}]
  /\ task' = [task EXCEPT ![k] = Task("locked", c)]
  /\ UNCHANGED <<ttl, state, inbox, browser>>

(* _handle_claim: SET NX PX.  A refused claim is answered to the claimant
   alone and changes nothing. *)
Claim(k, c) ==
  /\ Ready(k) /\ owner[c] = None
  /\ owner' = [owner EXCEPT ![c] = k]
  /\ ttl' = [ttl EXCEPT ![c] = TTL]
  /\ held' = [held EXCEPT ![k] = @ \cup {c}]
  /\ task' = [task EXCEPT ![k] = Task("locked", c)]
  /\ UNCHANGED <<state, inbox, browser>>

\* Mutant of Move: the consumer's own record authorizes the frame, not Redis.
MoveIfHeld(k, c) ==
  /\ Ready(k) /\ c \in held[k]
  /\ ttl' = IF owner[c] = None THEN ttl ELSE [ttl EXCEPT ![c] = TTL]
  /\ task' = [task EXCEPT ![k] = Task("position", c)]
  /\ UNCHANGED <<owner, state, held, inbox, browser>>

\* _handle_position: the owner-only refresh is the authorization of the frame.
Move(k, c) ==
  /\ Ready(k) /\ owner[c] = k
  /\ ttl' = [ttl EXCEPT ![c] = TTL]
  /\ task' = [task EXCEPT ![k] = Task("position", c)]
  /\ UNCHANGED <<owner, state, held, inbox, browser>>

(* _handle_release: the key is deleted first; a release with coordinates then
   writes the layout, one without goes straight to the group. *)
Release(k, c) ==
  /\ Ready(k) /\ owner[c] = k
  /\ owner' = [owner EXCEPT ![c] = None]
  /\ ttl' = [ttl EXCEPT ![c] = 0]
  /\ held' = [held EXCEPT ![k] = @ \ {c}]
  /\ \E do \in {"save", "unlocked"} : task' = [task EXCEPT ![k] = Task(do, c)]
  /\ UNCHANGED <<state, inbox, browser>>

\* save_layout_position returns, after waiting for the row lock as long as it takes.
Save(k) ==
  /\ task[k].do = "save"
  /\ task' = [task EXCEPT ![k].do = "unlocked"]
  /\ UNCHANGED <<redis, state, held, inbox, browser>>

\* The group is told: one message to the channel of every joined connection.
Members == {j \in Conns : state[j] \in {"joined", "open"}}
Room(j) == Len(inbox[j]) < Capacity

Send(k) ==
  /\ task[k].do \in FrameKind
  /\ Lossy \/ \A j \in Members : Room(j)
  /\ LET t == task[k]
         frame == Frame(t.do, t.class, IF t.do = "unlocked" THEN None ELSE k, t.age)
     IN  inbox' = [j \in Conns |-> IF j \in Members /\ Room(j)
                                   THEN Append(inbox[j], frame) ELSE inbox[j]]
  /\ task' = [task EXCEPT ![k] = Idle]
  /\ UNCHANGED <<redis, state, held, browser>>

-----------------------------------------------------------------------------
\* The socket closes; the browser is gone and the consumer leaves the group.
Disconnect(k) ==
  /\ Ready(k)
  /\ state' = [state EXCEPT ![k] = "closing"]
  /\ inbox' = [inbox EXCEPT ![k] = <<>>]
  /\ shown' = [shown EXCEPT ![k] = [c \in Classes |-> None]]
  /\ due' = [due EXCEPT ![k] = [c \in Classes |-> 0]]
  /\ UNCHANGED <<redis, held, task>>

\* disconnect() releases each held lock and tells the group if it was still its own.
ReleaseHeld(k, c) ==
  /\ state[k] = "closing" /\ task[k] = Idle /\ c \in held[k]
  /\ held' = [held EXCEPT ![k] = @ \ {c}]
  /\ IF owner[c] = k
     THEN /\ owner' = [owner EXCEPT ![c] = None]
          /\ ttl' = [ttl EXCEPT ![c] = 0]
          /\ task' = [task EXCEPT ![k] = Task("unlocked", c)]
     ELSE UNCHANGED <<redis, task>>
  /\ UNCHANGED <<state, inbox, browser>>

Closed(k) ==
  /\ state[k] = "closing" /\ task[k] = Idle /\ held[k] = {}
  /\ state' = [state EXCEPT ![k] = "closed"]
  /\ UNCHANGED <<redis, held, task, inbox, browser>>

\* The server process dies: disconnect() never runs, whatever the handler was doing.
Crash(k) ==
  /\ state[k] \in {"joined", "open", "closing"}
  /\ state' = [state EXCEPT ![k] = "crashed"]
  /\ held' = [held EXCEPT ![k] = {}]
  /\ task' = [task EXCEPT ![k] = Idle]
  /\ inbox' = [inbox EXCEPT ![k] = <<>>]
  /\ shown' = [shown EXCEPT ![k] = [c \in Classes |-> None]]
  /\ due' = [due EXCEPT ![k] = [c \in Classes |-> 0]]
  /\ UNCHANGED redis

-----------------------------------------------------------------------------
\* Mutant of ShownAfter: an entry on the screen is not overwritten by a later claim.
ShownFirstWins(s, f) ==
  CASE f.kind = "locks" -> f.owners
    [] f.kind = "locked" -> [s EXCEPT ![f.class] = IF @ = None THEN f.from ELSE @]
    [] f.kind = "position" -> s
    [] f.kind = "unlocked" -> [s EXCEPT ![f.class] = None]

\* Mutant of DueAfter: a position does not restart the timer of its class.
DueFromClaim(d, f) ==
  CASE f.kind = "locks" -> [c \in Classes |-> IF f.owners[c] = None THEN 0 ELSE Stale]
    [] f.kind = "locked" -> [d EXCEPT ![f.class] = Stale]
    [] f.kind = "position" -> d
    [] f.kind = "unlocked" -> [d EXCEPT ![f.class] = 0]

\* Mutant of DueAfter: the locks of the snapshot get no timer.
DueNotOnSnapshot(d, f) ==
  CASE f.kind = "locks" -> [c \in Classes |-> 0]
    [] f.kind \in {"locked", "position"} -> [d EXCEPT ![f.class] = Stale]
    [] f.kind = "unlocked" -> [d EXCEPT ![f.class] = 0]

(* The socket handlers of useDocument.  A position frame restarts the timer of
   its class, whether or not the class is shown as locked. *)
ShownAfter(s, f) ==
  CASE f.kind = "locks" -> f.owners
    [] f.kind = "locked" -> [s EXCEPT ![f.class] = f.from]
    [] f.kind = "position" -> s
    [] f.kind = "unlocked" -> [s EXCEPT ![f.class] = None]

DueAfter(d, f) ==
  CASE f.kind = "locks" -> [c \in Classes |-> IF f.owners[c] = None THEN 0 ELSE Stale]
    [] f.kind \in {"locked", "position"} -> [d EXCEPT ![f.class] = Stale]
    [] f.kind = "unlocked" -> [d EXCEPT ![f.class] = 0]

Deliver(k) ==
  /\ state[k] = "open" /\ inbox[k] # <<>>
  /\ inbox' = [inbox EXCEPT ![k] = Tail(@)]
  /\ shown' = [shown EXCEPT ![k] = ShownAfter(@, Head(inbox[k]))]
  /\ due' = [due EXCEPT ![k] = DueAfter(@, Head(inbox[k]))]
  /\ UNCHANGED <<redis, state, held, task>>

(* One tick.  Keys whose time is up expire without a word to anybody, browsers
   drop entries whose timer fires, and nothing is delayed beyond MaxDelay. *)
Older(n) == IF n = 0 THEN 0 ELSE n - 1

Tick ==
  /\ \A k \in Conns :
       /\ task[k].do \in FrameKind => task[k].age < MaxDelay
       /\ \A i \in DOMAIN inbox[k] : inbox[k][i].age < MaxDelay
  /\ ttl' = [c \in Classes |-> Older(ttl[c])]
  /\ owner' = [c \in Classes |-> IF ttl[c] = 1 THEN None ELSE owner[c]]
  /\ due' = [k \in Conns |-> [c \in Classes |-> Older(due[k][c])]]
  /\ shown' = [k \in Conns |->
                 [c \in Classes |-> IF due[k][c] = 1 THEN None ELSE shown[k][c]]]
  /\ task' = [k \in Conns |->
                IF task[k].do \in FrameKind THEN [task[k] EXCEPT !.age = @ + 1] ELSE task[k]]
  /\ inbox' = [k \in Conns |->
                 [i \in DOMAIN inbox[k] |-> [inbox[k][i] EXCEPT !.age = @ + 1]]]
  /\ UNCHANGED <<state, held>>

-----------------------------------------------------------------------------
Next ==
  \/ Tick
  \/ \E k \in Conns :
       \/ Join(k) \/ Snapshot(k) \/ Save(k) \/ Send(k) \/ Deliver(k)
       \/ Disconnect(k) \/ Closed(k) \/ Crash(k)
       \/ \E c \in Classes :
            Claim(k, c) \/ Move(k, c) \/ Release(k, c) \/ ReleaseHeld(k, c)

Spec == Init /\ [][Next]_vars

(* Time passes, started handlers and disconnects run to their end and browsers
   handle what they receive.  Users need not do anything. *)
FairSpec ==
  /\ Spec
  /\ WF_vars(Tick)
  /\ \A k \in Conns :
       /\ WF_vars(Snapshot(k))
       /\ WF_vars(Save(k) \/ Send(k))
       /\ WF_vars(Deliver(k))
       /\ WF_vars(Closed(k) \/ \E c \in Classes : ReleaseHeld(k, c))

-----------------------------------------------------------------------------
FrameSet ==
  [kind : FrameKind, class : Classes, from : Holder, age : 0..MaxDelay]
    \cup [kind : {"locks"}, owners : [Classes -> Holder], age : 0..MaxDelay]

\* Types; no timer is above its period and no frame is older than the delay bound.
TypeOK ==
  /\ owner \in [Classes -> Holder]
  /\ ttl \in [Classes -> 0..TTL]
  /\ state \in [Conns -> {"new", "joined", "open", "closing", "closed", "crashed"}]
  /\ held \in [Conns -> SUBSET Classes]
  /\ task \in [Conns -> {Idle} \cup [do : FrameKind \cup {"save"}, class : Classes,
                                      age : 0..MaxDelay]]
  /\ inbox \in [Conns -> Seq(FrameSet)]
  /\ shown \in [Conns -> [Classes -> Holder]]
  /\ due \in [Conns -> [Classes -> 0..Stale]]

\* A key exists exactly as long as its time to live has not run out.
KeyHasTime == \A c \in Classes : owner[c] = None <=> ttl[c] = 0

(* A locked or position frame about to be broadcast comes from the connection
   that owns the lock now, not merely when its handler asked Redis. *)
SignalsComeFromOwner ==
  \A k \in Conns :
    task[k].do \in {"locked", "position"} =>
      owner[task[k].class] = k /\ ttl[task[k].class] + task[k].age >= TTL

(* disconnect() forgets no lock: after it has run, nothing is owned by the
   connection, and until then whatever it owns is in its held set. *)
OwnedIsHeld ==
  \A k \in Conns, c \in Classes :
    owner[c] = k => state[k] = "crashed" \/ (state[k] # "closed" /\ c \in held[k])

(* Frames arrive in the order of ownership: after a browser was told that k
   locked c, no position of another connection follows before its own claim. *)
FramesFollowOwnership ==
  \A j \in Conns : \A a, b \in DOMAIN inbox[j] :
    LET fa == inbox[j][a]
        fb == inbox[j][b]
    IN  a < b /\ fa.kind = "locked" /\ fb.kind = "position" /\ fa.class = fb.class
          /\ fa.from # fb.from
        => \E m \in a + 1 .. b - 1 :
             inbox[j][m].kind = "locked" /\ inbox[j][m].class = fb.class
               /\ inbox[j][m].from = fb.from

\* No handler is half way and no frame is on its way.
Quiet == \A k \in Conns : task[k] = Idle /\ inbox[k] = <<>> /\ state[k] # "joined"

(* Once everything has landed, a browser never shows a node as locked by
   anybody but its owner, unless the owner crashed before saying so. *)
QuietNeverWrongOwner ==
  Quiet => \A j \in Conns, c \in Classes :
             shown[j][c] # None /\ owner[c] # None /\ state[owner[c]] # "crashed"
               => shown[j][c] = owner[c]

\* A claim of c that j's browser has not been told of yet.
ClaimUnderWay(j, c) ==
  \/ \E k \in Conns : task[k].do = "locked" /\ task[k].class = c
  \/ \E i \in DOMAIN inbox[j] : inbox[j][i].kind = "locked" /\ inbox[j][i].class = c

(* "an actively-refreshed lock never flickers": the staleness timer of a
   browser never clears the entry of an owner that still holds the lock,
   because it outlasts the server's time to live by the longest delay. *)
NoFlicker ==
  [][Tick => \A j \in Conns, c \in Classes :
       shown[j][c] # None /\ shown'[j][c] = None
         => owner'[c] # shown[j][c] \/ ClaimUnderWay(j, c)
              \/ state[owner'[c]] = "crashed"]_vars

(* "Connected clients converge on a silently expired lock": when a node stays
   free, every browser ends up showing it free, even if frames were lost. *)
FreeNodeEventuallyShownFree ==
  \A j \in Conns, c \in Classes :
    <>[](owner[c] = None) => <>[](shown[j][c] = None)

\* The locks of a connection that died without disconnecting become claimable again.
CrashedOwnerLosesLocks ==
  \A k \in Conns, c \in Classes : state[k] = "crashed" ~> owner[c] # k
=============================================================================
