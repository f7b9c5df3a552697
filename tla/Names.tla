------------------------------- MODULE Names -------------------------------
(***************************************************************************)
(* Names typed in a diagram and the database identifiers made from them    *)
(* (relational_mapping/mapping/naming.py).                                 *)
(*                                                                         *)
(* A typed name is a record: the words a reader sees and the form they are *)
(* written in ("OrderLine", "order_line" and "order line" have the words   *)
(* <<"order", "line">> in three forms).  The form tells two names apart in *)
(* the model and is what snake_case forgets.  A database identifier is its *)
(* sequence of words: joining parts with "_" is concatenation, so two      *)
(* identifiers are the same text exactly when they are the same sequence.  *)
(***************************************************************************)
EXTENDS Naturals, Sequences, FiniteSets, SequencesExt

Word == STRING \ {""}
Forms == {"empty", "spaces", "symbols", "unset", "pascal", "snake", "spaced", "joined", "acronym"}
NameType == [form : Forms, words : Seq(Word)]

Name(form, words) == [form |-> form, words |-> words]
NoName  == Name("empty", <<>>)     \* "" , and an absent role or name
Spaces  == Name("spaces", <<>>)    \* whitespace only
Symbols == Name("symbols", <<>>)   \* e.g. "***": no letter or digit

IsBlank(name) == name.form \in {"empty", "spaces"}

(* str.strip() on a name of this model: only whitespace-only text changes. *)
Strip(name) == IF IsBlank(name) THEN NoName ELSE name

(* snake_case raises InvalidElementNameError when nothing is left of the   *)
(* name; the empty text passes unchanged.                                  *)
HasSnakeCase(name) == name.form \notin {"spaces", "symbols"}
SnakeCase(name) == name.words

Numbered(base, taken) ==
  LET with(k) == base \o <<ToString(k)>>
  IN  with(Min({k \in 2..(Cardinality(taken) + 2) : with(k) \notin taken}))

(* unique_name without and with an owning class.                           *)
UniqueName(taken, preferred) ==
  IF preferred \notin taken THEN preferred ELSE Numbered(preferred, taken)

UniqueOwnedName(taken, preferred, owner) ==
  IF preferred \notin taken THEN preferred
  ELSE UniqueName(taken, SnakeCase(owner) \o preferred)
=============================================================================
