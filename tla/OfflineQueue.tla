---------------------------- MODULE OfflineQueue ----------------------------
(***************************************************************************)
(* The mutations of a runtime screen of the mobile client, and the queue   *)
(* that keeps those that did not reach the generated backend               *)
(* (mobile/lib/features/screen_designer: runtime_screen_page.dart,         *)
(* pending_action_store.dart, pending_action_sync_service.dart,            *)
(* screen_action_client.dart).                                             *)
(*                                                                         *)
(* Presses of a button are numbered in their order, and so are the queue's *)
(* entries: one press at a time is under way on a page, and what a page    *)
(* that was left hears is dropped.  A list in the store is therefore the   *)
(* set of its entries.  All callbacks run in one isolate; between two      *)
(* events of the outside, load, change and save of the preferences'        *)
(* memory is one step, while the platform writes them to disk later.       *)
(***************************************************************************)
EXTENDS Naturals, FiniteSets, Sequences, FiniteSetsExt

CONSTANTS
  Button,      \* the page's buttons: one call of theirs is awaited at a time (_busy)
  Syncs,       \* runs of syncNow that can be under way at once
  MaxPresses,  \* bound: presses that create, update or delete
  Deletes,     \* those of them that delete a record
  MaxPages,    \* bound: times the screen is opened in a process that nobody kills
  MaxKills     \* bound: times the process is killed

ASSUME BoundsAssumption == MaxPresses \in Nat /\ MaxPages \in Nat /\ MaxKills \in Nat
ASSUME ButtonAssumption == Button \notin Syncs

Presses == 1..MaxPresses
Callers == {Button} \cup Syncs

VARIABLES
  page,     \* the number of the screen that is open, 0 without one
  opened,   \* screens opened so far
  pressed,  \* presses so far
  work,     \* what each caller is doing
  queue,    \* the queue in the preferences' memory
  disk,     \* the queue as it was last written
  writes,   \* platform writes under way, in order, with who awaits them
  count,    \* pendingCount of the open screen: its sync button shows it unless 0
  applied,  \* how often the server has carried out each press; two stands for more
  wire,     \* requests nobody awaits any more that the server may yet receive
  told,     \* history: presses whose screen said "queued, will sync automatically"
  doubt,    \* history: presses some attempt of which ended unknown, or went out twice
  kills     \* times the process was killed

vars == <<page, opened, pressed, work, queue, disk, writes, count,
          applied, wire, told, doubt, kills>>

(* at: the request is "out", the server has "applied" or "refused" it, the
   caller awaits its platform write ("saving"), or a button is "stuck" with an
   answer it will never have.  A sync still has todo to send, and refreshes the
   count of the screen whose service it is. *)
Work == [at : {"idle", "out", "applied", "refused", "saving", "stuck"},
         press : 0..MaxPresses, todo : SUBSET Presses, page : Nat]

Idle == [at |-> "idle", press |-> 0, todo |-> {}, page |-> 0]

Init ==
  /\ page = 0 /\ opened = 0 /\ pressed = 0
  /\ work = [c \in Callers |-> Idle]
  /\ queue = {} /\ disk = {} /\ writes = <<>>
  /\ count = 0
  /\ applied = [n \in Presses |-> 0]
  /\ wire = {} /\ told = {} /\ doubt = {} /\ kills = 0

Calling(c) == work[c].at \in {"out", "applied", "refused"}

-----------------------------------------------------------------------------
(* The screen *)

\* initState: startListening subscribes and refreshes the count.
OpenPage ==
  /\ page = 0 /\ opened < MaxPages + kills
  /\ page' = opened + 1 /\ opened' = opened + 1
  /\ count' = Cardinality(queue)
  /\ UNCHANGED <<pressed, work, queue, disk, writes, applied, wire, told, doubt, kills>>

(* dispose.  What the button awaits goes on without it, and its outcome is
   dropped (!mounted): a press that then fails is neither queued nor shown. *)
ClosePage ==
  /\ page # 0 /\ opened < MaxPages
  /\ page' = 0
  /\ work' = [work EXCEPT ![Button] = Idle]
  /\ wire' = IF work[Button].at = "out" THEN wire \cup {work[Button].press} ELSE wire
  /\ UNCHANGED <<opened, pressed, queue, disk, writes, count, applied, told, doubt, kills>>

\* _run: the request goes out at once.
Press ==
  /\ page # 0 /\ work[Button] = Idle /\ pressed < MaxPresses
  /\ pressed' = pressed + 1
  /\ work' = [work EXCEPT ![Button] =
                [at |-> "out", press |-> pressed + 1, todo |-> {}, page |-> page]]
  /\ UNCHANGED <<page, opened, queue, disk, writes, count, applied, wire, told, doubt, kills>>

-----------------------------------------------------------------------------
(* The server, and the network between *)

\* The generated service: a delete of what is gone is a 404, all else is carried out.
CarryOut(n) == applied' = [applied EXCEPT ![n] = IF @ < 2 THEN @ + 1 ELSE @]
Gone(n) == n \in Deletes /\ applied[n] > 0

Accept(c) ==
  /\ work[c].at = "out" /\ ~Gone(work[c].press)
  /\ CarryOut(work[c].press)
  /\ work' = [work EXCEPT ![c].at = "applied"]
  /\ UNCHANGED <<page, opened, pressed, queue, disk, writes, count, wire, told, doubt, kills>>

\* A 4xx or 5xx answer, at any time.
Refuse(c) ==
  /\ work[c].at = "out"
  /\ work' = [work EXCEPT ![c].at = "refused"]
  /\ UNCHANGED <<page, opened, pressed, queue, disk, writes, count,
                 applied, wire, told, doubt, kills>>

AcceptLate(n) ==
  /\ n \in wire
  /\ wire' = wire \ {n}
  /\ IF Gone(n) THEN UNCHANGED applied ELSE CarryOut(n)
  /\ UNCHANGED <<page, opened, pressed, work, queue, disk, writes, count, told, doubt, kills>>

(* _send: the body of a 2xx answer may still fail to parse; a timeout, as any
   error, may come before or after the server has the request; and so may the
   ClientException of a connection that breaks, which counts as unreachable. *)
Outcome(c, result) ==
  /\ Calling(c)
  /\ CASE result = "success" -> work[c].at = "applied"
       [] result \in {"failed", "unreachable"} -> TRUE
  /\ IF work[c].at = "out" THEN wire' \in {wire, wire \cup {work[c].press}}
                           ELSE UNCHANGED wire

\* The server has carried the press out, or may do so, and the caller does not know.
Unknown(c, result) ==
  result # "success" /\ (work[c].at = "applied" \/ work[c].press \in wire')

-----------------------------------------------------------------------------
(* The queue *)

\* _save: the memory changes at once, the platform writes after what it was given before.
Save(c, list) ==
  /\ queue' = list
  /\ writes' = Append(writes, [by |-> c, press |-> work[c].press, list |-> list])
  /\ work' = [work EXCEPT ![c].at = "saving"]

\* Mutant of ButtonHears: whatever fails is queued, a timeout too.
ButtonHearsQueuesAll(result) ==
  /\ Outcome(Button, result)
  /\ IF result = "success"
     THEN work' = [work EXCEPT ![Button] = Idle] /\ UNCHANGED <<queue, writes, doubt>>
     ELSE /\ Save(Button, queue \cup {work[Button].press})
          /\ doubt' = IF result = "unreachable" /\ Unknown(Button, result)
                      THEN doubt \cup {work[Button].press} ELSE doubt
  /\ UNCHANGED <<page, opened, pressed, disk, count, applied, told, kills>>

(* The rest of _run: only an unreachable server makes _queue add an entry; any
   other outcome is shown and that is all. *)
ButtonHears(result) ==
  /\ Outcome(Button, result)
  /\ IF result = "unreachable"
     THEN /\ Save(Button, queue \cup {work[Button].press})
          /\ doubt' = IF Unknown(Button, result)
                      THEN doubt \cup {work[Button].press} ELSE doubt
     ELSE work' = [work EXCEPT ![Button] = Idle] /\ UNCHANGED <<queue, writes, doubt>>
  /\ UNCHANGED <<page, opened, pressed, disk, count, applied, told, kills>>

\* The entry syncNow sends next, or its end; only then is the count refreshed.
Send(s, list, of) ==
  work' = [work EXCEPT ![s] =
             IF list = {} THEN Idle
             ELSE [at |-> "out", press |-> Min(list), todo |-> list \ {Min(list)}, page |-> of]]

Refresh(list, of) == count' = IF list = {} /\ of = page THEN Cardinality(queue') ELSE count

\* What another run of syncNow has loaded and not yet heard about.
BeingSent ==
  (UNION {work[s].todo : s \in Syncs})
    \cup {work[s].press : s \in {t \in Syncs : Calling(t)}}

(* syncNow, on a tap or on any report of connectivity: loads the queue and
   replays all of it, whether or not another run is under way. *)
SyncNow(s) ==
  /\ page # 0 /\ work[s] = Idle
  /\ Send(s, queue, page)
  /\ UNCHANGED queue
  /\ Refresh(queue, page)
  /\ doubt' = doubt \cup (queue \cap BeingSent)
  /\ UNCHANGED <<page, opened, pressed, disk, writes, applied, wire, told, kills>>

\* Mutant of SyncHears: what is saved is the list the run had loaded, less the entry.
SyncHearsSavesLoaded(s, result) ==
  /\ Outcome(s, result)
  /\ doubt' = IF Unknown(s, result) THEN doubt \cup {work[s].press} ELSE doubt
  /\ IF result = "success"
     THEN Save(s, work[s].todo) /\ UNCHANGED count
     ELSE /\ Send(s, work[s].todo, work[s].page)
          /\ UNCHANGED <<queue, writes>>
          /\ Refresh(work[s].todo, work[s].page)
  /\ UNCHANGED <<page, opened, pressed, disk, applied, told, kills>>

\* Mutant of SyncHears: a failure ends the batch.
SyncHearsStops(s, result) ==
  /\ Outcome(s, result)
  /\ doubt' = IF Unknown(s, result) THEN doubt \cup {work[s].press} ELSE doubt
  /\ IF result = "success"
     THEN Save(s, queue \ {work[s].press}) /\ UNCHANGED count
     ELSE /\ Send(s, {}, work[s].page)
          /\ UNCHANGED <<queue, writes>>
          /\ Refresh({}, work[s].page)
  /\ UNCHANGED <<page, opened, pressed, disk, applied, told, kills>>

(* The rest of an iteration: a success removes the entry from what the store
   holds by now; a failure leaves it and goes on to the next. *)
SyncHears(s, result) ==
  /\ Outcome(s, result)
  /\ doubt' = IF Unknown(s, result) THEN doubt \cup {work[s].press} ELSE doubt
  /\ IF result = "success"
     THEN Save(s, queue \ {work[s].press}) /\ UNCHANGED count
     ELSE /\ Send(s, work[s].todo, work[s].page)
          /\ UNCHANGED <<queue, writes>>
          /\ Refresh(work[s].todo, work[s].page)
  /\ UNCHANGED <<page, opened, pressed, disk, applied, told, kills>>

(* What _send does not guard: its timeout bounds the wait for the headers of an
   answer, not for the body, which may stall for ever; and the bytes of a 2xx
   body are decoded outside any try, so that they may throw.  Either ends the
   whole run of syncNow: nothing is removed, the entries behind are not sent and
   the count is not refreshed. *)
SyncBreaksOff(s) ==
  /\ work[s].at \in {"applied", "refused"}
  /\ work' = [work EXCEPT ![s] = Idle]
  /\ doubt' = IF work[s].at = "applied" THEN doubt \cup {work[s].press} ELSE doubt
  /\ UNCHANGED <<page, opened, pressed, queue, disk, writes, count, applied, wire, told, kills>>

\* The same at a button: _busy stays true, so that the screen has to be left.
ButtonBreaksOff ==
  /\ work[Button].at \in {"applied", "refused"}
  /\ work' = [work EXCEPT ![Button].at = "stuck"]
  /\ UNCHANGED <<page, opened, pressed, queue, disk, writes, count,
                 applied, wire, told, doubt, kills>>

(* setString completes, and whoever awaits it goes on, if it is still there:
   the button's screen says "queued", a sync goes on to its next entry. *)
WriteDone ==
  /\ writes # <<>>
  /\ LET w == Head(writes)
         awaited == work[w.by].at = "saving" /\ work[w.by].press = w.press
     IN  /\ disk' = w.list
         /\ writes' = Tail(writes)
         /\ UNCHANGED queue
         /\ CASE ~awaited -> UNCHANGED <<work, count, told>>
              [] awaited /\ w.by = Button ->
                   /\ work' = [work EXCEPT ![Button] = Idle]
                   /\ count' = Cardinality(queue)
                   /\ told' = told \cup {w.press}
              [] awaited /\ w.by \in Syncs ->
                   /\ Send(w.by, work[w.by].todo, work[w.by].page)
                   /\ Refresh(work[w.by].todo, work[w.by].page)
                   /\ UNCHANGED told
  /\ UNCHANGED <<page, opened, pressed, applied, wire, doubt, kills>>

(* The process dies: writes that have not happened are lost, and requests that
   are out may still arrive. *)
Kill ==
  /\ kills < MaxKills
  /\ kills' = kills + 1
  /\ page' = 0
  /\ work' = [c \in Callers |-> Idle]
  /\ queue' = disk /\ writes' = <<>>
  /\ wire' = wire \cup {work[c].press : c \in {d \in Callers : work[d].at = "out"}}
  /\ doubt' = doubt \cup {work[c].press : c \in {d \in Callers : Calling(d)}} \cup (disk \ queue)
  /\ UNCHANGED <<opened, pressed, disk, count, applied, told>>

-----------------------------------------------------------------------------
Results == {"success", "failed", "unreachable"}

Next ==
  \/ OpenPage \/ ClosePage \/ Press
  \/ \E c \in Callers : Accept(c) \/ Refuse(c)
  \/ \E n \in Presses : AcceptLate(n)
  \/ \E result \in Results : ButtonHears(result) \/ \E s \in Syncs : SyncHears(s, result)
  \/ \E s \in Syncs : SyncNow(s) \/ SyncBreaksOff(s)
  \/ ButtonBreaksOff
  \/ WriteDone
  \/ Kill

Spec == Init /\ [][Next]_vars

\* The user taps "N pending", which is there only while the count is not 0.
Tap == count # 0 /\ \E s \in Syncs : SyncNow(s)

\* A run of syncNow goes on, or is at its end.
SyncGoesOn(s) ==
  Calling(s) /\ ((\E result \in Results : SyncHears(s, result)) \/ SyncBreaksOff(s))

(* The headers come or send's timeout does, and then the answer is heard or the
   run is cut off; the platform writes what it is given.  Of the world around:
   the user comes back to the screen and taps the indicator while there is one,
   and if a press that is no delete is sent for ever, then the server carries it
   out for ever, and its answer is heard for ever. *)
Fairness ==
  /\ WF_vars(WriteDone) /\ WF_vars(OpenPage) /\ SF_vars(Tap)
  /\ WF_vars(\E s \in Syncs : SyncGoesOn(s))
  /\ \A n \in Presses \ Deletes :
       /\ SF_vars(\E s \in Syncs : work[s].press = n /\ Accept(s))
       /\ SF_vars(\E s \in Syncs : work[s].press = n /\ SyncHears(s, "success"))

FairSpec == Spec /\ Fairness

-----------------------------------------------------------------------------
\* The types; a write is of the list it is to leave on disk.
TypeOK ==
  /\ page \in Nat /\ opened \in Nat /\ pressed \in 0..MaxPresses
  /\ work \in [Callers -> Work]
  /\ queue \subseteq Presses /\ disk \subseteq Presses
  /\ writes \in Seq([by : Callers, press : 0..MaxPresses, list : SUBSET Presses])
  /\ count \in Nat
  /\ applied \in [Presses -> 0..2]
  /\ wire \subseteq Presses /\ told \subseteq Presses /\ doubt \subseteq Presses
  /\ kills \in 0..MaxKills

(* "No connection - queued, will sync automatically": what the screen says so of
   is on disk, and stays there, whatever is killed or runs at the same time,
   until the server has carried it out. *)
QueuedIsKept == \A n \in told : n \in disk \/ applied[n] > 0

(* "Only this case is safe to queue and retry automatically": the server carries
   a press out again only after an attempt whose outcome was unknown, a kill, or
   two runs of syncNow at once; never because an answered press, or a failed
   attempt at a button that is not unreachable, is sent again. *)
TwiceOnlyInDoubt == \A n \in Presses : applied[n] > 1 => n \in doubt

\* A run of syncNow is cut off before it has come to entry n.
CutOffBefore(n) == \E s \in Syncs : work[s].press < n /\ SyncBreaksOff(s)

(* As long as the user taps the indicator, a queued create or update leaves the
   queue: the indicator is shown while there is one, and no failure of another
   entry holds it back, unless answers to entries in front of it are cut off for
   ever - the code's "moves on to the next one" promises even then. *)
QueuedEntryLeaves ==
  \A n \in Presses \ Deletes :
    <>[][~CutOffBefore(n)]_vars => (n \in queue ~> n \notin queue)
=============================================================================
