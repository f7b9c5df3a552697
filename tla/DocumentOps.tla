---------------------------- MODULE DocumentOps ----------------------------
(***************************************************************************)
(* The value of one UML document and the pure operations a request applies *)
(* to it (backend/apps/uml_documents/services.py, uml_modeling/documents). *)
(*                                                                         *)
(* A document is reduced to what concurrent requests can disagree about:   *)
(* its revision, which classes are live, which classes have a persisted    *)
(* position, and whose effects its content shows.  `applied' stands for    *)
(* the content: the requests whose change is visible in it since `base',   *)
(* the revision of the last wholesale replacement.                         *)
(***************************************************************************)
EXTENDS Naturals, Sequences, FiniteSetsExt

CONSTANTS
  Requests,     \* one-shot server requests that write the document
  Classes,      \* ids of UML classes
  NoDocument,   \* the row does not exist
  AnyRevision,  \* submit_commands(expected_revision=None)
  Operations    \* the operations a request may ask for

Document ==
  [rev : Nat \ {0}, classes : SUBSET Classes, layout : SUBSET Classes,
   applied : SUBSET Requests, base : Nat]

ASSUME NoDocumentAssumption == NoDocument \notin Document
ASSUME AnyRevisionAssumption == AnyRevision \notin Nat

\* create_document: an empty model and layout at revision 1.
NewDocument == [rev |-> 1, classes |-> {}, layout |-> {}, applied |-> {}, base |-> 1]

(* A UmlCommand.  "Edit" is every command that neither adds nor removes a
   class (rename, attributes, operations, relationships); "Gated" is one that
   services.py validates before applying it (SetGenerationProfile,
   UpdateRelationship), whose target must exist in the model. *)
CommandKind == {"AddClass", "RemoveClass", "Edit", "Gated"}
Command == [kind : CommandKind, class : Classes]

Operation ==
  [kind : {"commands"}, cmds : Seq(Command), expected : Nat \cup {AnyRevision}]
    \cup {o \in [kind : {"replace"}, classes : SUBSET Classes, layout : SUBSET Classes] :
             o.layout \subseteq o.classes}   \* the importer positions its own classes only
    \cup [kind : {"layout"}, class : Classes]
    \cup [kind : {"delete"}]

ASSUME OperationsAssumption == Operations \subseteq Operation

-----------------------------------------------------------------------------
\* The commands among the first n that decide whether class c is live.
Deciding(cmds, n, c) ==
  {i \in 1..n : cmds[i].class = c /\ cmds[i].kind \in {"AddClass", "RemoveClass"}}

(* dispatcher.apply over a batch, one command after the other: a class is live
   iff the last command that adds or removes it adds it. *)
LiveAfter(classes, cmds, n) ==
  {c \in Classes :
     LET D == Deciding(cmds, n, c)
     IN  IF D = {} THEN c \in classes ELSE cmds[Max(D)].kind = "AddClass"}

\* The write-time gate, evaluated on the document as the batch has left it so far.
GateHolds(classes, cmds) ==
  \A i \in DOMAIN cmds :
    cmds[i].kind = "Gated" => cmds[i].class \in LiveAfter(classes, cmds, i - 1)

\* Mutant of Accepts: expected_revision is not compared under the lock.
AcceptsAnyRevision(d, op) ==
  op.kind = "commands" => op.cmds # <<>> /\ GateHolds(d.classes, op.cmds)

\* Whether an operation on document d passes every check that raises.
Accepts(d, op) ==
  op.kind = "commands" =>
    /\ op.expected \in {AnyRevision, d.rev}
    /\ op.cmds # <<>>
    /\ GateHolds(d.classes, op.cmds)

\* Mutant of Writes: the class of a position is not looked up again.
WritesAlways(d, op) == TRUE

\* save_layout_position for a class that is no longer in the model writes nothing.
Writes(d, op) == op.kind = "layout" => op.class \in d.classes

\* Mutant of Result: saving a position or a replacement keeps the revision.
ResultKeepsRevision(d, op, r) ==
  CASE op.kind = "commands" ->
         [d EXCEPT !.rev = @ + Len(op.cmds), !.applied = @ \cup {r},
                   !.classes = LiveAfter(@, op.cmds, Len(op.cmds))]
    [] op.kind = "replace" ->
         [d EXCEPT !.classes = op.classes, !.layout = op.layout, !.applied = {r}]
    [] op.kind = "layout" ->
         [d EXCEPT !.layout = @ \cup {op.class}, !.applied = @ \cup {r}]

\* Every command of a batch adds one to the revision.
AfterCommands(d, cmds, r) ==
  [d EXCEPT !.rev = @ + Len(cmds),
            !.classes = LiveAfter(@, cmds, Len(cmds)),
            !.applied = @ \cup {r}]

\* replace_document_content: nothing but the revision comes from the old document.
AfterReplace(d, classes, layout, r) ==
  [rev |-> d.rev + 1, classes |-> classes, layout |-> layout,
   applied |-> {r}, base |-> d.rev + 1]

\* save_layout_position also prunes the positions of classes that are gone.
AfterLayout(d, class, r) ==
  [d EXCEPT !.rev = @ + 1,
            !.layout = (@ \cap d.classes) \cup {class},
            !.applied = @ \cup {r}]

\* The document an accepted, writing operation of request r turns d into.
Result(d, op, r) ==
  CASE op.kind = "commands" -> AfterCommands(d, op.cmds, r)
    [] op.kind = "replace" -> AfterReplace(d, op.classes, op.layout, r)
    [] op.kind = "layout" -> AfterLayout(d, op.class, r)
=============================================================================
