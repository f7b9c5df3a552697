-------------------------- MODULE MCDocumentStore --------------------------
(***************************************************************************)
(* Instances of DocumentStore for TLC: a few requests that each may ask    *)
(* for any operation of a small set, so that every pair of operations      *)
(* meets on the row lock, between commit and broadcast, and around delete. *)
(***************************************************************************)
EXTENDS DocumentStore, TLC

CONSTANTS r1, r2, r3, c1

MCRequests == {r1, r2, r3}
MCClasses == {c1}

Cmd(kind) == [kind |-> kind, class |-> c1]
Commands(cmds, expected) == [kind |-> "commands", cmds |-> cmds, expected |-> expected]

\* submit_command, submit_commands (free, previewed at revision 1 or 2, empty), the rest.
MCOperations ==
  {Commands(<<Cmd(kind)>>, AnyRevision) : kind \in CommandKind}
    \cup {Commands(<<Cmd("AddClass"), Cmd("Gated")>>, e) : e \in {AnyRevision, 1}}
    \cup {Commands(<<Cmd("RemoveClass"), Cmd("Gated")>>, AnyRevision)}
    \cup {Commands(<<Cmd("Edit")>>, 2), Commands(<<>>, AnyRevision)}
    \cup {[kind |-> "replace", classes |-> {c1}, layout |-> {c1}],
          [kind |-> "layout", class |-> c1],
          [kind |-> "delete"]}
=============================================================================
