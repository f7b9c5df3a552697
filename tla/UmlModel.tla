------------------------------ MODULE UmlModel ------------------------------
(***************************************************************************)
(* The canonical UML model (uml_modeling/domain), the command handlers     *)
(* that transform it (uml_commands/handlers) and the write-time gates the  *)
(* document service puts before them (uml_documents/services.py).          *)
(*                                                                         *)
(* The handlers are total: one whose target is gone returns the model      *)
(* unchanged, and none looks at what validation would say of the result.   *)
(* Visibilities, operation signatures and sibling keys of the metadata are *)
(* left out: no rule, mapping or conversion of the modules reads them.     *)
(***************************************************************************)
EXTENDS Integers, Names, GenerationProfiles

NoId == ""
Unbounded == 9        \* an absent upper bound, printed "*"
Unset == Name("unset", <<>>)

Multiplicity(lower, upper) == [lower |-> lower, upper |-> upper]
NoMultiplicity == Multiplicity(Unbounded, Unbounded)
Primitive(tag) == [tag |-> tag, enum |-> NoId]
EnumRef(enum)  == [tag |-> "ENUM", enum |-> enum]
End(cls, mult, role) == [cls |-> cls, mult |-> mult, role |-> role]

PrimitiveTypes ==
  {"STRING", "TEXT", "INTEGER", "LONG", "DECIMAL", "BOOLEAN", "DATE", "DATETIME"}

RelationshipKinds == {"association", "aggregation", "composition", "generalization"}

(***************************************************************************)
(* The elements of a model.  A class or an enumeration a reference names   *)
(* need not be there.                                                      *)
(***************************************************************************)
MultiplicityType == [lower : Int, upper : Int]
AttributeType ==
  [id : STRING, name : NameType, type : [tag : PrimitiveTypes \cup {"ENUM"}, enum : STRING]]
OperationType == [id : STRING, name : NameType]
ClassType ==
  [id : STRING, name : NameType, attrs : Seq(AttributeType), ops : Seq(OperationType)]
LiteralType == [id : STRING, name : NameType, value : NameType]
EnumerationType == [id : STRING, name : NameType, literals : Seq(LiteralType)]
EndType == [cls : STRING, mult : MultiplicityType, role : NameType]
RelationshipType ==
  [id : STRING, kind : RelationshipKinds, name : NameType, source : EndType, target : EndType]

(* What the metadata holds is parsed where it is used.                     *)
IsModel(m) ==
  /\ DOMAIN m = {"classes", "enums", "rels", "meta"}
  /\ m.classes \in Seq(ClassType)
  /\ m.enums \in Seq(EnumerationType)
  /\ m.rels \in Seq(RelationshipType)

EmptyModel == [classes |-> <<>>, enums |-> <<>>, rels |-> <<>>, meta |-> <<>>]

(* A comprehension over a sequence: the elements that pass, in their order. *)
Only(seq, kept) ==
  LET found[n \in 0..Len(seq)] ==
        IF n = 0 THEN <<>>
        ELSE IF seq[n] \in kept THEN Append(found[n-1], seq[n]) ELSE found[n-1]
  IN  found[Len(seq)]
Filter(seq, Test(_)) == Only(seq, {e \in ToSet(seq) : Test(e)})

IdsOf(elements) == {elements[i].id : i \in DOMAIN elements}
HasId(elements, id) == id \in IdsOf(elements)
ById(elements, id) == elements[SelectInSeq(elements, LAMBDA e : e.id = id)]
Without(elements, id) == Filter(elements, LAMBDA e : e.id # id)
Updated(elements, id, element) ==
  [i \in DOMAIN elements |-> IF elements[i].id = id THEN element ELSE elements[i]]

ClassById(model, id) == ById(model.classes, id)
EnumerationById(model, id) == ById(model.enums, id)
AttributeIds(model) == UNION {IdsOf(model.classes[i].attrs) : i \in DOMAIN model.classes}

(* iter_named_elements: classes with their members, enumerations with their *)
(* literals.                                                               *)
NamedElements(model) ==
  LET classes == ToSet(model.classes)
      enums   == ToSet(model.enums)
  IN  classes \cup enums \cup (UNION {ToSet(c.attrs) \cup ToSet(c.ops) : c \in classes})
        \cup (UNION {ToSet(e.literals) : e \in enums})

Generalizations(model) == Filter(model.rels, LAMBDA r : r.kind = "generalization")

(***************************************************************************)
(* parse_multiplicity and format_multiplicity: the text is the sequence of *)
(* its bounds, "*" being Unbounded; int("*") is what a bare "*" fails on.  *)
(***************************************************************************)
FormatMultiplicity(m) ==
  IF m.lower = m.upper THEN <<m.lower>> ELSE <<m.lower, m.upper>>
ParsesAsMultiplicity(text) == Len(text) \in {1, 2} /\ text[1] # Unbounded
ParseMultiplicity(text) == Multiplicity(text[1], text[Len(text)])

(***************************************************************************)
(* generation_profile.py                                                   *)
(***************************************************************************)
WithoutDanglingDefaultSort(profile, removed) ==
  IF "defaultSort" \in DOMAIN profile /\ profile.defaultSort.attribute \in removed
    THEN Restrict(profile, DOMAIN profile \ {"defaultSort"})
    ELSE profile

(* Mutant of PruneGenerationMetadata: default sorts are left alone.        *)
PruneOwnEntries(meta, removed) == Restrict(meta, DOMAIN meta \ removed)
PruneGenerationMetadata(meta, removed) ==
  LET pruned == [id \in DOMAIN meta \ removed |->
                   WithoutDanglingDefaultSort(meta[id], removed)]
  IN  Restrict(pruned, {id \in DOMAIN pruned : DOMAIN pruned[id] # {}})

SetGenerationProfile(model, c) ==
  IF c.id \notin IdsOf(model.classes) \cup AttributeIds(model) THEN model
  ELSE LET others == DOMAIN model.meta \ {c.id}
       IN  [model EXCEPT !.meta =
              IF DOMAIN c.profile = {} THEN Restrict(@, others)
              ELSE [id \in others \cup {c.id} |->
                      IF id = c.id THEN c.profile ELSE @[id]]]

(***************************************************************************)
(* classes.py, attributes.py, operations.py, relationships.py              *)
(***************************************************************************)
AddClass(model, c) ==
  [model EXCEPT !.classes =
     Append(@, [id |-> c.id, name |-> c.name, attrs |-> <<>>, ops |-> <<>>])]

RemoveClass(model, c) ==
  IF ~HasId(model.classes, c.id) THEN model
  ELSE LET target  == ClassById(model, c.id)
           removed == {c.id} \cup IdsOf(target.attrs)
       IN  [model EXCEPT
              !.classes = Without(@, c.id),
              !.rels    = Filter(@, LAMBDA r : c.id \notin {r.source.cls, r.target.cls}),
              !.meta    = PruneGenerationMetadata(@, removed)]

RenameClass(model, c) ==
  IF ~HasId(model.classes, c.id) THEN model
  ELSE [model EXCEPT !.classes =
          Updated(@, c.id, [ClassById(model, c.id) EXCEPT !.name = c.name])]

AddAttribute(model, c) ==
  IF ~HasId(model.classes, c.cls) THEN model
  ELSE [model EXCEPT !.classes =
          Updated(@, c.cls, [ClassById(model, c.cls) EXCEPT !.attrs = Append(@, c.attr)])]

RemoveAttribute(model, c) ==
  IF ~HasId(model.classes, c.cls) THEN model
  ELSE LET target == ClassById(model, c.cls)
       IN  IF ~HasId(target.attrs, c.id) THEN model
           ELSE [model EXCEPT
                   !.classes = Updated(@, c.cls, [target EXCEPT !.attrs = Without(@, c.id)]),
                   !.meta    = PruneGenerationMetadata(@, {c.id})]

AddOperation(model, c) ==
  IF ~HasId(model.classes, c.cls) THEN model
  ELSE [model EXCEPT !.classes =
          Updated(@, c.cls, [ClassById(model, c.cls) EXCEPT !.ops = Append(@, c.op)])]

RemoveOperation(model, c) ==
  IF ~HasId(model.classes, c.cls) THEN model
  ELSE [model EXCEPT !.classes =
          Updated(@, c.cls, [ClassById(model, c.cls) EXCEPT !.ops = Without(@, c.id)])]

(* A blind append: the endpoints are not looked up.                        *)
AddRelationship(model, c) == [model EXCEPT !.rels = Append(@, c.rel)]

RemoveRelationship(model, c) == [model EXCEPT !.rels = Without(@, c.id)]

UpdateRelationship(model, c) ==
  IF ~HasId(model.rels, c.id) THEN model
  ELSE LET existing == ById(model.rels, c.id)
           mult(old, new) == IF existing.kind = "generalization" \/ new = NoMultiplicity
                               THEN old ELSE new
       IN  [model EXCEPT !.rels = Updated(@, c.id,
              [existing EXCEPT
                 !.name = IF c.name = Unset THEN @ ELSE Strip(c.name),
                 !.source.mult = mult(@, c.sourceMult),
                 !.target.mult = mult(@, c.targetMult)])]

(* A command as the route decodes it.                                      *)
Additions == {"AddClass", "AddAttribute", "AddOperation", "AddRelationship"}
CommandTypes ==
  Additions \cup {"RemoveClass", "RenameClass", "RemoveAttribute", "RemoveOperation",
                 "RemoveRelationship", "UpdateRelationship", "SetGenerationProfile"}

IsCommand(c) ==
  /\ c.type \in CommandTypes
  /\ c.type = "AddClass" => c.id \in STRING
  /\ c.type \in {"AddClass", "RenameClass", "UpdateRelationship"} => c.name \in NameType
  /\ c.type = "AddAttribute" => c.attr \in AttributeType
  /\ c.type = "AddOperation" => c.op \in OperationType
  /\ c.type = "AddRelationship" => c.rel \in RelationshipType
  /\ c.type = "UpdateRelationship" => {c.sourceMult, c.targetMult} \subseteq MultiplicityType

(* dispatcher.apply: the handler of the command's type.                    *)
Handle(model, c) ==
  CASE c.type = "AddClass"             -> AddClass(model, c)
    [] c.type = "RemoveClass"          -> RemoveClass(model, c)
    [] c.type = "RenameClass"          -> RenameClass(model, c)
    [] c.type = "AddAttribute"         -> AddAttribute(model, c)
    [] c.type = "RemoveAttribute"      -> RemoveAttribute(model, c)
    [] c.type = "AddOperation"         -> AddOperation(model, c)
    [] c.type = "RemoveOperation"      -> RemoveOperation(model, c)
    [] c.type = "AddRelationship"      -> AddRelationship(model, c)
    [] c.type = "RemoveRelationship"   -> RemoveRelationship(model, c)
    [] c.type = "UpdateRelationship"   -> UpdateRelationship(model, c)
    [] c.type = "SetGenerationProfile" -> SetGenerationProfile(model, c)

(***************************************************************************)
(* The gates of submit_command: "ok", "invalid" (InvalidCommandPayload,    *)
(* answered 422) or "crash" (an exception nothing catches, answered 500).  *)
(***************************************************************************)
Verdict(valid) == IF valid THEN "ok" ELSE "invalid"

RelationshipUpdateGate(model, c) ==
  Verdict(/\ HasId(model.rels, c.id)
          /\ {c.sourceMult, c.targetMult} # {NoMultiplicity} =>
               ById(model.rels, c.id).kind # "generalization")

(* _descendant_class_ids and _is_inheritance_root work on the ids of the   *)
(* relationships, whether or not a class has them.                         *)
ChildrenOf(model, ids) ==
  {r.source.cls : r \in {g \in ToSet(Generalizations(model)) : g.target.cls \in ids}}

DescendantClassIds(model, id) ==
  LET reached[n \in Nat] ==
        LET ids == IF n = 0 THEN {} ELSE reached[n-1]
        IN  ids \cup ChildrenOf(model, ids \cup {id})
  IN  reached[Len(model.rels)]

IsInheritanceRoot(model, id) ==
  \A r \in ToSet(Generalizations(model)) : r.source.cls # id

(* The scope of defaultSort: the attributes of the class and, for a root,  *)
(* of its descendants, each looked up with class_by_id(...).attributes.    *)
DefaultSortGate(model, c) ==
  LET heirs == IF IsInheritanceRoot(model, c.id)
                 THEN DescendantClassIds(model, c.id) ELSE {}
      scope == {c.id} \cup heirs
  IN  IF ~(heirs \subseteq IdsOf(model.classes)) THEN "crash"
      ELSE Verdict(c.profile.defaultSort.attribute \in
                     UNION {IdsOf(ClassById(model, id).attrs) : id \in scope})

GenerationProfileGate(model, c) ==
  IF c.id \notin IdsOf(model.classes) \cup AttributeIds(model) THEN "invalid"
  ELSE IF DOMAIN c.profile = {} THEN "ok"
  ELSE IF ~HasId(model.classes, c.id) THEN Verdict(WellFormedColumnProfile(c.profile))
  ELSE IF ~WellFormedTableProfile(c.profile) THEN "invalid"
  ELSE IF "defaultSort" \notin DOMAIN c.profile THEN "ok"
  ELSE DefaultSortGate(model, c)

(* command_from_payload: the multiplicity texts it is given parse.          *)
Decodes(c) ==
  LET parses(mult) == ParsesAsMultiplicity(FormatMultiplicity(mult))
  IN  /\ c.type = "AddRelationship" => parses(c.rel.source.mult) /\ parses(c.rel.target.mult)
      /\ c.type = "UpdateRelationship" =>
           \A mult \in {c.sourceMult, c.targetMult} : mult = NoMultiplicity \/ parses(mult)

Gate(model, c) ==
  IF ~Decodes(c) THEN "invalid"
  ELSE CASE c.type = "UpdateRelationship"   -> RelationshipUpdateGate(model, c)
         [] c.type = "SetGenerationProfile" -> GenerationProfileGate(model, c)
         [] OTHER -> "ok"

(* The id of the element a command adds.  Ids are random UUIDs: a new one   *)
(* is in no model and no other command.                                    *)
DrawnId(c) ==
  CASE c.type = "AddClass"        -> c.id
    [] c.type = "AddAttribute"    -> c.attr.id
    [] c.type = "AddOperation"    -> c.op.id
    [] c.type = "AddRelationship" -> c.rel.id

IdsInUse(model) ==
  IdsOf(model.classes) \cup IdsOf(model.rels) \cup AttributeIds(model)
    \cup UNION {IdsOf(c.ops) : c \in ToSet(model.classes)}

DrawFreshIds(commands, model) ==
  LET adding == {i \in DOMAIN commands : commands[i].type \in Additions}
  IN  /\ \A i \in adding : DrawnId(commands[i]) \notin IdsInUse(model)
      /\ \A i, j \in adding : DrawnId(commands[i]) = DrawnId(commands[j]) => i = j

(* A list of commands applied one after the other, unchecked by the gates. *)
Play(model, commands) == FoldLeft(Handle, model, commands)
=============================================================================
