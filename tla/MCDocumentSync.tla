--------------------------- MODULE MCDocumentSync ---------------------------
(***************************************************************************)
(* One tab, and requests from anywhere else: tabs meet only in the         *)
(* store, so one tab against other writers already shows every race on its *)
(* screen.  A command, a batch, an import, a released node and a delete    *)
(* are the operations whose replies tabs treat apart.                      *)
(***************************************************************************)
EXTENDS DocumentSync, TLC

CONSTANTS t1, r1, r2, c1

OneClient == {t1}
TwoRequests == {r1, r2}
OneClass == {c1}
Symmetry2 == Permutations(TwoRequests)

Cmd(kind) == [kind |-> kind, class |-> c1]
Commands(cmds) == [kind |-> "commands", cmds |-> cmds, expected |-> AnyRevision]
Add == Commands(<<Cmd("AddClass")>>)
Gated == Commands(<<Cmd("Gated")>>)
Batch == Commands(<<Cmd("AddClass"), Cmd("Edit")>>)
Import == [kind |-> "replace", classes |-> {c1}, layout |-> {}]
Release == [kind |-> "layout", class |-> c1]
Delete == [kind |-> "delete"]

EveryOperation == {Add, Gated, Batch, Import, Release, Delete}
OnlyCommands == {Add}
\* Every GET may fail but the one a tab sends when its socket opens.
AllButOpen == Cause \ {"open"}

(* Requests are alike, so r1 may be the first to arrive: any operation alone, a
   command, batch or import before a command, or a command before the delete. *)
FirstThenSecond ==
  op[r2] # NoOperation =>
    \/ op[r1] \in {Add, Batch, Import} /\ op[r2] = Add
    \/ op[r1] = Add /\ op[r2] = Delete

MCNext == SyncNext /\ FirstThenSecond'
MCSpec == SyncInit /\ [][MCNext]_vars /\ SyncFairness
=============================================================================
