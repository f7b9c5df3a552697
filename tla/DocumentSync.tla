---------------------------- MODULE DocumentSync ----------------------------
(***************************************************************************)
(* Browser tabs that show the document of DocumentStore: the useDocument   *)
(* hook (frontend/src/state/document.ts) and the connection part of the    *)
(* DocumentConsumer (backend/apps/uml_documents/consumers.py).             *)
(*                                                                         *)
(* A tab learns of new revisions on two channels that are not ordered with *)
(* respect to each other: messages of the document's group, relayed over   *)
(* its socket and merged by revision, and replies to GETs, which some      *)
(* callers merge and others store as they come.  Relaying is reading the   *)
(* group's log from the position at which the tab joined.                  *)
(***************************************************************************)
EXTENDS DocumentStore

CONSTANTS
  Clients,        \* browser tabs on the document's page
  MaxDrops,       \* bound: sockets lost over a behaviour
  FailingGets     \* the GETs that may fail although the row is there, by cause

VARIABLES
  member,   \* member[c]: c's user belongs to the organization
  conn,     \* conn[c]: socket status and the number of group messages relayed
  view,     \* view[c]: the document on the screen, or NoDocument
  newest,   \* history: the greatest revision c has ever shown
  gets,     \* GETs under way: who asked, why, and the document read so far
  flow,     \* flow[c]: the request c's page awaits (isSubmitting)
  drops     \* sockets lost so far

syncVars == <<member, conn, view, newest, gets, flow, drops>>
vars == <<storeVars, syncVars>>

(* "mount" is the fetch of the first effect, "open" the refetch of onOpen,
   "refetch" the GET submitCommand awaits, "refresh" refreshDocument's.  Bound:
   GETs of one tab and cause that are still to be read count as one. *)
Cause == {"mount", "open", "refetch", "refresh"}

ASSUME SyncAssumption == MaxDrops \in Nat /\ FailingGets \subseteq Cause

Get(c, why) == [client |-> c, why |-> why, doc |-> NoDocument]

SyncInit ==
  /\ Init
  /\ member = [c \in Clients |-> TRUE]
  /\ conn = [c \in Clients |-> [status |-> "connecting", pos |-> 0]]
  /\ view = [c \in Clients |-> NoDocument]
  /\ newest = [c \in Clients |-> 0]
  /\ gets = {Get(c, "mount") : c \in Clients}
  /\ flow = [c \in Clients |-> NoRequest]
  /\ drops = 0

\* mergeRemote: an incoming revision that is not newer is dropped.
Merge(prev, d) == IF prev # NoDocument /\ d.rev <= prev.rev THEN prev ELSE d

Show(c, d) ==
  /\ view' = [view EXCEPT ![c] = d]
  /\ newest' = [newest EXCEPT ![c] = IF d.rev > @ THEN d.rev ELSE @]

-----------------------------------------------------------------------------
\* Mutant of Open: a tab that is back trusts what it already shows.
OpenWithoutRefetch(c) ==
  /\ conn[c].status = "connecting"
  /\ member[c] /\ row # NoDocument
  /\ conn' = [conn EXCEPT ![c] = [status |-> "open", pos |-> Len(log)]]
  /\ UNCHANGED <<storeVars, member, view, newest, gets, flow, drops>>

(* The server joins the tab to the group before it accepts the socket; the
   open event then makes the tab fetch the document once more. *)
Open(c) ==
  /\ conn[c].status = "connecting"
  /\ member[c] /\ row # NoDocument
  /\ conn' = [conn EXCEPT ![c] = [status |-> "open", pos |-> Len(log)]]
  /\ gets' = gets \cup {Get(c, "open")}
  /\ UNCHANGED <<storeVars, member, view, newest, flow, drops>>

\* 4404 on connect, or 4403 on the next relay: the tab never tries again.
CloseForGood(c) ==
  /\ \/ conn[c].status = "connecting" /\ ~(member[c] /\ row # NoDocument)
     \/ conn[c].status = "open" /\ conn[c].pos < Len(log) /\ ~member[c]
  /\ conn' = [conn EXCEPT ![c].status = "terminal"]
  /\ UNCHANGED <<storeVars, member, view, newest, gets, flow, drops>>

\* document_update re-checks membership, sends the document, and the tab merges it.
Relay(c) ==
  /\ conn[c].status = "open" /\ conn[c].pos < Len(log) /\ member[c]
  /\ conn' = [conn EXCEPT ![c].pos = @ + 1]
  /\ Show(c, Merge(view[c], log[conn[c].pos + 1]))
  /\ UNCHANGED <<storeVars, member, gets, flow, drops>>

\* The socket dies; what the group sends until the tab is back is not kept for it.
Drop(c) ==
  /\ conn[c].status = "open" /\ drops < MaxDrops
  /\ conn' = [conn EXCEPT ![c].status = "connecting"]
  /\ drops' = drops + 1
  /\ UNCHANGED <<storeVars, member, view, newest, gets, flow>>

\* An owner removes c's user from the organization.
Revoke(c) ==
  /\ member[c]
  /\ member' = [member EXCEPT ![c] = FALSE]
  /\ UNCHANGED <<storeVars, conn, view, newest, gets, flow, drops>>

-----------------------------------------------------------------------------
(* get_document_view resolves the membership and reads the row, at any time
   between request and reply; without either of them the reply is a 404. *)
ReadGet(g) ==
  /\ g.doc = NoDocument /\ member[g.client] /\ row # NoDocument
  /\ gets' = (gets \ {g}) \cup {[g EXCEPT !.doc = row]}
  /\ UNCHANGED <<storeVars, member, conn, view, newest, flow, drops>>

\* submitCommand's await ends, with the reply or with its error.
EndAwait(g) ==
  flow' = IF g.why = "refetch" THEN [flow EXCEPT ![g.client] = NoRequest] ELSE flow

\* Mutant of FailGet: an error of the refetch skips setIsSubmitting(false).
FailGetWithoutFinally(g) ==
  /\ g.doc = NoDocument
  /\ row = NoDocument \/ ~member[g.client] \/ g.why \in FailingGets
  /\ gets' = gets \ {g}
  /\ UNCHANGED <<storeVars, member, conn, view, newest, flow, drops>>

\* A GET that fails leaves the screen as it is.
FailGet(g) ==
  /\ g.doc = NoDocument
  /\ row = NoDocument \/ ~member[g.client] \/ g.why \in FailingGets
  /\ gets' = gets \ {g}
  /\ EndAwait(g)
  /\ UNCHANGED <<storeVars, member, conn, view, newest, drops>>

\* Only onOpen's reply is merged; the others are stored whatever is on screen.
ApplyGet(g) ==
  /\ g.doc # NoDocument
  /\ gets' = gets \ {g}
  /\ Show(g.client, IF g.why = "open" THEN Merge(view[g.client], g.doc) ELSE g.doc)
  /\ EndAwait(g)
  /\ UNCHANGED <<storeVars, member, conn, drops>>

-----------------------------------------------------------------------------
\* The page submits a command, confirms a batch or imports a file.
Submit(c, r, o) ==
  /\ member[c] /\ flow[c] = NoRequest /\ view[c] # NoDocument
  /\ o.kind \in {"commands", "replace"}
  /\ Begin(r, o)
  /\ flow' = [flow EXCEPT ![c] = r]
  /\ UNCHANGED <<member, conn, view, newest, gets, drops>>

\* node.release with final coordinates, through the socket; nothing is awaited.
ReleaseNode(c, r, o) ==
  /\ member[c] /\ conn[c].status = "open"
  /\ o.kind = "layout"
  /\ Begin(r, o)
  /\ UNCHANGED syncVars

\* Any write by somebody whose tab is not one of Clients, the delete included.
Elsewhere(r, o) ==
  /\ Begin(r, o)
  /\ UNCHANGED syncVars

\* Mutant of RefetchAfter: the refetch does not await the response of the POST.
RefetchWithoutAwait(c) ==
  /\ flow[c] # NoRequest /\ op[flow[c]].kind = "commands"
  /\ pc[flow[c]] \notin {"refused", "missing", "failed"}
  /\ ~\E g \in gets : g.client = c /\ g.why = "refetch"
  /\ gets' = gets \cup {Get(c, "refetch")}
  /\ UNCHANGED <<storeVars, member, conn, view, newest, flow, drops>>

(* The response to a submitted command or batch makes the page fetch the
   document; the POST's own revision is not used.  A batch is confirmed
   through another endpoint, whose refreshDocument does not hold isSubmitting. *)
RefetchAfter(c) ==
  /\ flow[c] # NoRequest /\ pc[flow[c]] = "answered" /\ op[flow[c]].kind = "commands"
  /\ ~\E g \in gets : g.client = c /\ g.why = "refetch"
  /\ IF Len(op[flow[c]].cmds) = 1
     THEN gets' = gets \cup {Get(c, "refetch")} /\ flow' = flow
     ELSE gets' = gets \cup {Get(c, "refresh")} /\ flow' = [flow EXCEPT ![c] = NoRequest]
  /\ UNCHANGED <<storeVars, member, conn, view, newest, drops>>

\* applyDocument: the reply to an import, unless something newer is on screen.
AdoptReplaced(c) ==
  /\ flow[c] # NoRequest /\ pc[flow[c]] = "answered" /\ op[flow[c]].kind = "replace"
  /\ LET d == copy[flow[c]]
     IN  Show(c, IF view[c] # NoDocument /\ d.rev < view[c].rev THEN view[c] ELSE d)
  /\ flow' = [flow EXCEPT ![c] = NoRequest]
  /\ UNCHANGED <<storeVars, member, conn, gets, drops>>

\* An error response leaves the screen untouched, even when the write was committed.
SubmitFails(c) ==
  /\ flow[c] # NoRequest /\ pc[flow[c]] \in {"refused", "missing", "failed"}
  /\ flow' = [flow EXCEPT ![c] = NoRequest]
  /\ UNCHANGED <<storeVars, member, conn, view, newest, gets, drops>>

-----------------------------------------------------------------------------
ServerStep == (\E r \in Requests : Serve(r) \/ BroadcastFails(r)) /\ UNCHANGED syncVars

Page(c) == RefetchAfter(c) \/ AdoptReplaced(c) \/ SubmitFails(c)
Fetch(g) == ReadGet(g) \/ FailGet(g) \/ ApplyGet(g)

SyncNext ==
  \/ ServerStep
  \/ \E c \in Clients :
       \/ Open(c) \/ CloseForGood(c) \/ Relay(c) \/ Drop(c) \/ Revoke(c)
       \/ Page(c)
       \/ \E r \in Requests, o \in Operations : Submit(c, r, o) \/ ReleaseNode(c, r, o)
  \/ \E g \in gets : Fetch(g)
  \/ \E r \in Requests, o \in Operations : Elsewhere(r, o)

SyncSpec == SyncInit /\ [][SyncNext]_vars

(* Server threads run to their end, the event loop of a tab delivers what has
   arrived, and a lost socket is retried; nobody has to submit anything. *)
SyncFairness ==
  /\ \A r \in Requests : WF_vars(Serve(r) /\ UNCHANGED syncVars)
  /\ \A c \in Clients :
       /\ WF_vars(Open(c) \/ CloseForGood(c))
       /\ WF_vars(Relay(c))
       /\ WF_vars(Page(c))
       /\ WF_vars(\E g \in gets : g.client = c /\ Fetch(g))

SyncFairSpec == SyncSpec /\ SyncFairness

-----------------------------------------------------------------------------
\* The store's types, and those of the tabs; what a screen shows is a whole document.
SyncTypeOK ==
  /\ TypeOK
  /\ member \in [Clients -> BOOLEAN]
  /\ conn \in [Clients -> [status : {"connecting", "open", "terminal"}, pos : Nat]]
  /\ view \in [Clients -> Document \cup {NoDocument}]
  /\ newest \in [Clients -> Nat]
  /\ gets \subseteq [client : Clients, why : Cause,
                     doc : Document \cup {NoDocument}]
  /\ flow \in [Clients -> Requests \cup {NoRequest}]
  /\ drops \in 0..MaxDrops

\* Nothing addressed to c is under way and no broadcast is outstanding.
Quiet(c) ==
  /\ conn[c].status = "open" /\ conn[c].pos = Len(log)
  /\ flow[c] = NoRequest /\ \A g \in gets : g.client # c
  /\ \A r \in Requests : pc[r] # "committed"

(* Joining the group before the refetch leaves no gap: once everything under
   way has landed, a member's connected tab has shown the newest broadcast
   revision, through any drop and reconnect and any reordering of the
   broadcasts.  A removed member, whose refetch is a 404, is promised nothing. *)
NoMissedBroadcast ==
  \A c \in Clients :
    Quiet(c) /\ member[c] /\ row # NoDocument
      => \A i \in DOMAIN log : log[i].rev <= newest[c]

(* After submitCommand's own refetch is applied, the screen is at least at the
   revision the command committed. *)
ReadYourWrites ==
  [][\A c \in Clients :
       flow[c] # NoRequest /\ flow'[c] = NoRequest /\ view'[c] # view[c]
         /\ pc[flow[c]] = "answered"
       => view'[c].rev >= copy[flow[c]].rev]_vars

(* isSubmitting never sticks: whatever fails on the way, the page's await ends. *)
EverySubmitSettles == \A c \in Clients : flow[c] # NoRequest ~> flow[c] = NoRequest

(* Every broadcast revision eventually reaches every tab that is not shut out,
   and a removed member's tab is shut out as soon as there is something to relay
   or it has to connect: it neither waits nor tries again for ever. *)
EveryBroadcastArrives ==
  \A c \in Clients : \A n \in 1..(1 + Cardinality(Requests)) :
    (\E i \in DOMAIN log : log[i].rev = n)
      ~> (newest[c] >= n \/ conn[c].status = "terminal" \/ row = NoDocument
          \/ (~member[c] /\ conn[c].status = "open" /\ conn[c].pos = Len(log)))

=============================================================================
