--------------------------- MODULE AtomicDocument ---------------------------
(***************************************************************************)
(* What the document store promises: every request takes effect at most    *)
(* once, in one indivisible step, on the document as the previous request  *)
(* left it.  DocumentStore, with its row lock, snapshots and commits, is   *)
(* shown to implement this.                                                *)
(***************************************************************************)
EXTENDS DocumentOps

VARIABLES
  doc,    \* the document, or NoDocument once it is deleted
  done    \* the requests that have taken effect

Init == doc = NewDocument /\ done = {}

Perform(r, op) ==
  /\ r \notin done
  /\ doc # NoDocument
  /\ Accepts(doc, op) /\ Writes(doc, op)
  /\ doc' = Result(doc, op, r)
  /\ done' = done \cup {r}

Remove(r) ==
  /\ r \notin done
  /\ doc' = NoDocument
  /\ done' = done \cup {r}

Next ==
  \E r \in Requests :
    \/ \E op \in Operations : op.kind # "delete" /\ Perform(r, op)
    \/ Remove(r)

Spec == Init /\ [][Next]_<<doc, done>>
=============================================================================
