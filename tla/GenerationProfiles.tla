-------------------------- MODULE GenerationProfiles --------------------------
(***************************************************************************)
(* The "profile" of a class or an attribute: how the generated backend     *)
(* treats it (relational_mapping/mapping/profile_parser.py and             *)
(* domain/profile.py).  A profile as sent is a function from key to value; *)
(* a boolean value is "true" or "false", any other JSON value "text".      *)
(***************************************************************************)
EXTENDS Naturals, Sequences, FiniteSets, SequencesExt

NoProfile == <<>>           \* {} : nothing declared

TableKeys  == {"entity", "auditable", "readOnly", "crud", "defaultSort"}
ColumnKeys == {"searchable", "sortable", "readOnly"}
CrudOrder  == <<"create", "read", "update", "delete">>
NoSort     == [attribute |-> "", direction |-> "asc"]

(* _profile_body and _boolean: known keys only, booleans only.             *)
KnownKeys(profile, allowed) == DOMAIN profile \subseteq allowed
Booleans(profile, keys) ==
  \A key \in keys \cap DOMAIN profile : profile[key] \in {"true", "false"}

(* _crud: known operations, none twice.                                    *)
WellFormedCrud(crud) ==
  /\ ToSet(crud) \subseteq ToSet(CrudOrder)
  /\ IsInjective(crud)

(* _default_sort: an attribute id and a direction.                         *)
WellFormedSort(sort) ==
  sort.attribute # "" /\ sort.direction \in {"asc", "desc"}

WellFormedTableProfile(profile) ==
  /\ KnownKeys(profile, TableKeys)
  /\ Booleans(profile, {"entity", "auditable", "readOnly"})
  /\ "crud" \in DOMAIN profile => WellFormedCrud(profile.crud)
  /\ "defaultSort" \in DOMAIN profile => WellFormedSort(profile.defaultSort)

WellFormedColumnProfile(profile) ==
  KnownKeys(profile, ColumnKeys) /\ Booleans(profile, ColumnKeys)

(* The parsed profiles: every field is "none" when it is not declared.     *)
Declared(profile, key, none) ==
  IF key \in DOMAIN profile THEN profile[key] ELSE none

ParseTableProfile(profile) ==
  [entity      |-> Declared(profile, "entity", "none"),
   auditable   |-> Declared(profile, "auditable", "none"),
   readOnly    |-> Declared(profile, "readOnly", "none"),
   crud        |-> IF "crud" \in DOMAIN profile
                     THEN SelectSeq(CrudOrder, LAMBDA c : Contains(profile.crud, c))
                     ELSE <<"none">>,
   defaultSort |-> Declared(profile, "defaultSort", NoSort)]

ParseColumnProfile(profile) ==
  [key \in ColumnKeys |-> Declared(profile, key, "none")]

(* effective_operations: what crud and readOnly leave of the six operations *)
(* of a generated controller.                                              *)
OperationNames == <<"create", "findById", "update", "delete", "list", "count">>
ReadOperations == {"findById", "list", "count"}
OperationsOf(crud) == IF crud = "read" THEN ReadOperations ELSE {crud}

EffectiveOperations(parsed) ==
  LET byCrud == IF parsed.crud = <<"none">> THEN ToSet(OperationNames)
                ELSE UNION {OperationsOf(c) : c \in ToSet(parsed.crud)}
      allowed == IF parsed.readOnly = "true" THEN byCrud \cap ReadOperations
                 ELSE byCrud
  IN  SelectSeq(OperationNames, LAMBDA op : op \in allowed)
=============================================================================
