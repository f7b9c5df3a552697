---------------------------- MODULE UmlValidation ----------------------------
(***************************************************************************)
(* The twelve validation rules (uml_modeling/validation/rules) as sets of  *)
(* diagnostics <<severity, code, element id>>.  A command is applied       *)
(* whatever they say; they tell the user what the generators will refuse.  *)
(***************************************************************************)
EXTENDS UmlModel

Error(code, ids)   == {<<"error", code, id>> : id \in ids}
Warning(code, ids) == {<<"warning", code, id>> : id \in ids}

(* Every element after the first one of its name.                          *)
Repeated(elements) ==
  {elements[i].id : i \in {j \in DOMAIN elements :
                             \E k \in 1..(j-1) : elements[k].name = elements[j].name}}

EmptyElementName(model) ==
  Error("EMPTY_ELEMENT_NAME", {e.id : e \in {n \in NamedElements(model) : IsBlank(n.name)}})

DuplicateClassName(model) == Error("DUPLICATE_CLASS_NAME", Repeated(model.classes))

DuplicateAttributeName(model) ==
  Error("DUPLICATE_ATTRIBUTE_NAME", UNION {Repeated(c.attrs) : c \in ToSet(model.classes)})

DuplicateOperationName(model) ==
  Error("DUPLICATE_OPERATION_NAME", UNION {Repeated(c.ops) : c \in ToSet(model.classes)})

DuplicateEnumerationLiteral(model) ==
  Error("DUPLICATE_ENUMERATION_LITERAL", UNION {Repeated(e.literals) : e \in ToSet(model.enums)})

HasUnknownType(attr, model) ==
  attr.type.tag = "ENUM" /\ ~HasId(model.enums, attr.type.enum)

UnknownAttributeType(model) ==
  Error("UNKNOWN_ATTRIBUTE_TYPE",
        {a.id : a \in {b \in UNION {ToSet(c.attrs) : c \in ToSet(model.classes)} :
                         HasUnknownType(b, model)}})

(* Mutant of Dangling: the target is not looked up.                        *)
DanglingSource(rel, model) == rel.source.cls \notin IdsOf(model.classes)
Dangling(rel, model) == ~({rel.source.cls, rel.target.cls} \subseteq IdsOf(model.classes))

InvalidRelationshipEndpoint(model) ==
  Error("INVALID_RELATIONSHIP_ENDPOINT",
        {r.id : r \in {s \in ToSet(model.rels) : Dangling(s, model)}})

IsInvalid(mult) == mult.upper # Unbounded /\ mult.upper < mult.lower

InvalidMultiplicity(model) ==
  Error("INVALID_MULTIPLICITY",
        {r.id : r \in {s \in ToSet(model.rels) :
                         IsInvalid(s.source.mult) \/ IsInvalid(s.target.mult)}})

(***************************************************************************)
(* generalization_cycle: an iterative depth-first search.  stack is path   *)
(* and frames together: the grey classes, each with the parents it has     *)
(* still to look at.  Every grey parent met closes a cycle, reported once  *)
(* per set of members.                                                     *)
(***************************************************************************)
ParentsInOrder(model, id) ==
  LET own == Filter(Generalizations(model), LAMBDA r : r.source.cls = id)
  IN  [i \in DOMAIN own |-> own[i].target.cls]

Frame(model, id) == [cls |-> id, left |-> ParentsInOrder(model, id)]
Grey(stack) == {stack[i].cls : i \in DOMAIN stack}

(* Mutant of CycleMembers: all that is grey belongs to the cycle.           *)
WholePath(stack, child) == Grey(stack)
(* path[path.index(child):]                                                *)
CycleMembers(stack, child) ==
  {stack[i].cls : i \in SelectInSeq(stack, LAMBDA f : f.cls = child)..Len(stack)}

(* Start the next white class, finish the top one, or follow its next edge. *)
StartNext(model, d) ==
  LET rest == [d EXCEPT !.starts = Tail(@)]
  IN  IF Head(d.starts) \in d.black THEN rest
      ELSE [rest EXCEPT !.stack = <<Frame(model, Head(d.starts))>>]

FinishTop(d) ==
  [d EXCEPT !.black = @ \cup {Last(d.stack).cls}, !.stack = Front(@)]

FollowEdge(model, d) ==
  LET top   == Last(d.stack)
      child == Head(top.left)
      next  == [d EXCEPT !.stack = Append(Front(@), [top EXCEPT !.left = Tail(@)])]
  IN  IF child \in Grey(d.stack)
        THEN [next EXCEPT !.cycles = @ \cup {CycleMembers(d.stack, child)}]
      ELSE IF child \in d.black THEN next
      ELSE [next EXCEPT !.stack = Append(@, Frame(model, child))]

Explore(model, d) ==
  IF d.stack = <<>> THEN StartNext(model, d)
  ELSE IF Last(d.stack).left = <<>> THEN FinishTop(d)
  ELSE FollowEdge(model, d)

Searches ==
  [starts : Seq(STRING), stack : Seq([cls : STRING, left : Seq(STRING)]),
   black : SUBSET STRING, cycles : SUBSET SUBSET STRING]

StartOf(model) ==
  LET edges == Generalizations(model)
  IN  [starts |-> [i \in DOMAIN edges |-> edges[i].source.cls],
       stack |-> <<>>, black |-> {}, cycles |-> {}]

IsOver(d) == d.starts = <<>> /\ d.stack = <<>>

ReportedCycles(model) ==
  LET search[d \in Searches] ==
        IF IsOver(d) THEN d.cycles ELSE search[Explore(model, d)]
  IN  search[StartOf(model)]

(* min(cycle_members) is abstracted to any member: one diagnostic a cycle.  *)
GeneralizationCycle(model) ==
  {<<"error", "GENERALIZATION_CYCLE", CHOOSE id \in cycle : TRUE>> :
     cycle \in ReportedCycles(model)}

DistinctParents(model, id) == ToSet(ParentsInOrder(model, id))

MultiParentGeneralization(model) ==
  Error("MULTI_PARENT_GENERALIZATION",
        {id \in IdsOf(model.classes) : Cardinality(DistinctParents(model, id)) > 1})

SelfAssociation(model) ==
  Warning("SELF_ASSOCIATION",
          {r.id : r \in {s \in ToSet(model.rels) :
                           s.kind = "association" /\ s.source.cls = s.target.cls}})

ClassWithoutAttributes(model) ==
  Warning("CLASS_WITHOUT_ATTRIBUTES",
          {c.id : c \in {d \in ToSet(model.classes) : d.attrs = <<>>}})

(* engine.validate: every rule, whatever the others found.                 *)
Validate(model) ==
  EmptyElementName(model) \cup DuplicateClassName(model)
    \cup DuplicateAttributeName(model) \cup DuplicateOperationName(model)
    \cup DuplicateEnumerationLiteral(model) \cup UnknownAttributeType(model)
    \cup InvalidRelationshipEndpoint(model) \cup InvalidMultiplicity(model)
    \cup GeneralizationCycle(model) \cup MultiParentGeneralization(model)
    \cup SelfAssociation(model) \cup ClassWithoutAttributes(model)

IsClean(model) == \A d \in Validate(model) : d[1] # "error"
=============================================================================
