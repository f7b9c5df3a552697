-------------------------- MODULE RelationalMapping --------------------------
(***************************************************************************)
(* map_to_relational (relational_mapping/mapping/mapper.py): the canonical *)
(* model as tables, columns, keys and constraints.  Every generalization   *)
(* tree collapses into the table of its root.  A column is taken out of    *)
(* the sequence of words it is named by; the identifier fk_<table>__<col>  *)
(* has an empty word between its two parts.  Lengths, precisions and the   *)
(* always-present primary key constraint are left out: a column type fixes *)
(* the first two, and the key is the column "id" everywhere.               *)
(*                                                                         *)
(* The result carries the first error of the pipeline, or "none".  Every   *)
(* error is an UnmappableModelError, answered 422 by each caller.          *)
(***************************************************************************)
EXTENDS UmlModel

Id == <<"id">>
NoOwner == <<>>      \* a column of no class; of a class, the sequence of its id
Part(prefix, table, columns) == <<prefix>> \o table \o <<"">> \o columns

ColumnType(tag) ==
  CASE tag = "STRING" -> "VARCHAR" [] tag = "LONG" -> "BIGINT"
    [] tag = "DECIMAL" -> "NUMERIC" [] tag = "DATETIME" -> "TIMESTAMPTZ"
    [] OTHER -> tag

PlainColumn(name, type, nullable) ==
  [name |-> name, type |-> type, nullable |-> nullable, enum |-> <<>>,
   source |-> NoId, owner |-> NoOwner, profile |-> ParseColumnProfile(NoProfile)]

ColumnNames(columns) == {columns[i].name : i \in DOMAIN columns}
NamesOf(elements) == {elements[i].name : i \in DOMAIN elements}
ByName(elements, name) == elements[SelectInSeq(elements, LAMBDA e : e.name = name)]

(***************************************************************************)
(* Stage 1: profiles, endpoints and hierarchy.                             *)
(***************************************************************************)
ProfileIsMalformed(model, id) ==
  \/ HasId(model.classes, id) /\ ~WellFormedTableProfile(model.meta[id])
  \/ /\ ~HasId(model.classes, id)
     /\ id \in AttributeIds(model)
     /\ ~WellFormedColumnProfile(model.meta[id])

ProfileAt(model, id) == IF id \in DOMAIN model.meta THEN model.meta[id] ELSE NoProfile

ParentsOf(model, id) ==
  {r.target.cls : r \in {g \in ToSet(model.rels) : g.kind = "generalization" /\ g.source.cls = id}}

HasParent(model, id) == ParentsOf(model, id) # {}
ParentOf(model, id) == CHOOSE p \in ParentsOf(model, id) : TRUE

(* _find_generalization_cycle follows the only parent of each class; with  *)
(* n classes a chain of n parents that has not ended is in a cycle.        *)
Ancestor(model, id, n) ==
  FoldLeft(LAMBDA at, step : IF HasParent(model, at) THEN ParentOf(model, at) ELSE at,
           id, [step \in 1..n |-> step])
RootOf(model, id) == Ancestor(model, id, Len(model.classes))
HasGeneralizationCycle(model) ==
  \E id \in IdsOf(model.classes) : HasParent(model, RootOf(model, id))

HierarchyError(model) ==
  IF \E r \in ToSet(model.rels) :
       ~({r.source.cls, r.target.cls} \subseteq IdsOf(model.classes)) THEN "DanglingEndpoint"
  ELSE IF \E c \in IdsOf(model.classes) : Cardinality(ParentsOf(model, c)) > 1
    THEN "MultipleParents"
  ELSE IF HasGeneralizationCycle(model) THEN "GeneralizationCycle"
  ELSE IF \E id \in DOMAIN model.meta : ProfileIsMalformed(model, id) THEN "InvalidProfile"
  ELSE "none"

Roots(model) == Filter(model.classes, LAMBDA c : ~HasParent(model, c.id))

(* _descendants_breadth_first, with the root in front: the classes of the  *)
(* root's table.                                                           *)
Tree(model, root) ==
  LET childrenOf(c) == Filter(model.classes, LAMBDA d : c.id \in ParentsOf(model, d.id))
      below(level) == FlattenSeq([i \in DOMAIN level |-> childrenOf(level[i])])
      descend(tree) == [all |-> tree.all \o below(tree.level), level |-> below(tree.level)]
  IN  FoldLeft(LAMBDA tree, step : descend(tree), [all |-> <<root>>, level |-> <<root>>],
               model.classes).all

(***************************************************************************)
(* Stage 2: every enumeration, used or not; its names are unique among     *)
(* enumerations only.                                                      *)
(***************************************************************************)
Label(literal) == IF literal.value = NoName THEN literal.name ELSE literal.value

MapEnumeration(types, enum) ==
  Append(types, [name   |-> UniqueName(NamesOf(types), SnakeCase(enum.name)),
                 labels |-> [i \in DOMAIN enum.literals |-> Label(enum.literals[i])],
                 source |-> enum.id])

EnumTypes(model) == FoldLeft(MapEnumeration, <<>>, model.enums)

EnumTypeName(types, id) == types[SelectInSeq(types, LAMBDA t : t.source = id)].name

(***************************************************************************)
(* Stage 3: one table per root.                                            *)
(***************************************************************************)
(* The columns to map: each attribute with its class; only the root's own  *)
(* attributes are NOT NULL.                                                *)
AttributesOf(tree) ==
  FlattenSeq([k \in DOMAIN tree |->
    [i \in DOMAIN tree[k].attrs |->
       [attr |-> tree[k].attrs[i], cls |-> tree[k], nullable |-> k # 1]]])

AttributeColumnError(a, taken, model) ==
  IF \/ ~HasSnakeCase(a.attr.name)
     \/ SnakeCase(a.attr.name) \in taken /\ ~HasSnakeCase(a.cls.name) THEN "InvalidElementName"
  ELSE IF a.attr.type.tag = "ENUM" /\ ~HasId(model.enums, a.attr.type.enum)
    THEN "UnknownEnumeration"
  ELSE "none"

AttributeColumn(a, taken, model) ==
  [name |-> UniqueOwnedName(taken, SnakeCase(a.attr.name), a.cls.name),
   type |-> ColumnType(a.attr.type.tag), nullable |-> a.nullable,
   enum |-> IF a.attr.type.tag = "ENUM"
              THEN EnumTypeName(EnumTypes(model), a.attr.type.enum) ELSE <<>>,
   source |-> a.attr.id, owner |-> <<a.cls.id>>,
   profile |-> ParseColumnProfile(ProfileAt(model, a.attr.id))]

MapAttribute(model, draft, a) ==
  LET taken == ColumnNames(draft.columns)
      error == AttributeColumnError(a, taken, model)
  IN  IF draft.error # "none" \/ error # "none"
        THEN [draft EXCEPT !.error = IF @ = "none" THEN error ELSE @]
        ELSE [draft EXCEPT !.columns = Append(@, AttributeColumn(a, taken, model))]

MapTableForRoot(model, schema, root) ==
  LET tree  == Tree(model, root)
      fixed == IF Len(tree) = 1 THEN <<PlainColumn(Id, "UUID", FALSE)>>
               ELSE <<PlainColumn(Id, "UUID", FALSE),
                      PlainColumn(<<"class", "type">>, "VARCHAR", FALSE)>>
      drawn == FoldLeft(LAMBDA d, a : MapAttribute(model, d, a),
                        [columns |-> fixed,
                         error |-> IF HasSnakeCase(root.name) THEN "none"
                                   ELSE "InvalidElementName"],
                        AttributesOf(tree))
      table == [name |-> UniqueName(NamesOf(schema.tables), SnakeCase(root.name)),
                columns |-> drawn.columns, fks |-> <<>>, uniques |-> <<>>, indexes |-> <<>>,
                classes |-> [k \in DOMAIN tree |-> tree[k].id],
                discriminator |-> IF Len(tree) = 1 THEN <<>>
                                  ELSE [k \in DOMAIN tree |-> tree[k].name],
                profile |-> ParseTableProfile(ProfileAt(model, root.id))]
  IN  IF schema.error # "none" THEN schema
      ELSE [schema EXCEPT !.tables = Append(@, table), !.error = drawn.error]

(***************************************************************************)
(* Stage 4: relationships.                                                 *)
(***************************************************************************)
IsMany(mult) == mult.upper > 1

FkColumnName(end, table, taken) ==
  UniqueName(taken, (IF end.role = NoName THEN table ELSE SnakeCase(end.role)) \o Id)

ForeignKey(holder, column, table, onDelete, rel) ==
  [name |-> Part("fk", holder, column), column |-> column, table |-> table,
   onDelete |-> onDelete, rel |-> rel.id]

(* _build_join_table: both ends many.                                      *)
JoinTable(rel, name, source, target, sourceTable, targetTable) ==
  [name |-> name,
   columns |-> <<PlainColumn(Id, "UUID", FALSE), PlainColumn(source, "UUID", FALSE),
                 PlainColumn(target, "UUID", FALSE)>>,
   fks |-> <<ForeignKey(name, source, sourceTable, "CASCADE", rel),
             ForeignKey(name, target, targetTable, "CASCADE", rel)>>,
   uniques |-> <<Part("uq", name, source \o target)>>,
   indexes |-> <<Part("ix", name, source), Part("ix", name, target)>>,
   classes |-> <<>>, discriminator |-> <<>>, profile |-> ParseTableProfile(NoProfile)]

(* Mutant of TakenInJoin: the first key's name is not remembered.          *)
TakenAtFirst(source) == {Id}
TakenInJoin(source)  == {Id, source}

BuildJoinTable(rel, sourceTable, targetTable, taken) ==
  LET named(source) ==
        JoinTable(rel, UniqueName(taken, sourceTable \o targetTable), source,
                  FkColumnName(rel.target, targetTable, TakenInJoin(source)),
                  sourceTable, targetTable)
  IN  named(FkColumnName(rel.source, sourceTable, {Id}))

(* Mutant of TargetHolds: the wrong end decides.                           *)
TargetHoldsWhenSingle(rel) == ~IsMany(rel.target.mult)
(* Which end holds the key: the many one, or the target when neither is.   *)
TargetHolds(rel) == ~IsMany(rel.source.mult)

(* _add_simple_fk on the table of the end that holds the key.              *)
AddKey(table, rel, referenced, column, referencedTable) ==
  LET composed == rel.kind = "composition"
      nullable == IF composed THEN rel.source.cls = rel.target.cls
                  ELSE referenced.mult.lower <= 0
      oneToOne == ~IsMany(rel.source.mult) /\ ~IsMany(rel.target.mult)
      action == IF composed THEN "CASCADE" ELSE "NO_ACTION"
  IN  [table EXCEPT
         !.columns = Append(@, PlainColumn(column, "UUID", nullable)),
         !.fks     = Append(@, ForeignKey(table.name, column, referencedTable, action, rel)),
         !.uniques = IF oneToOne THEN Append(@, Part("uq", table.name, column)) ELSE @,
         !.indexes = IF oneToOne THEN @ ELSE Append(@, Part("ix", table.name, column))]

WithForeignKey(table, rel, referencedTable) ==
  LET referenced == IF TargetHolds(rel) THEN rel.source ELSE rel.target
  IN  AddKey(table, rel, referenced,
             FkColumnName(referenced, referencedTable, ColumnNames(table.columns)),
             referencedTable)

(* The roles snake_case is applied to: the referenced ends' only.          *)
ReferencedEnds(rel) ==
  IF IsMany(rel.source.mult) /\ IsMany(rel.target.mult) THEN {rel.source, rel.target}
  ELSE {IF TargetHolds(rel) THEN rel.source ELSE rel.target}

TableOfClass(model, schema, id) ==
  SelectInSeq(schema.tables, LAMBDA t : Contains(t.classes, RootOf(model, id)))

LinkTables(schema, rel, source, target) ==
  LET name(t) == schema.tables[t].name
  IN  IF schema.error # "none" \/ rel.kind = "generalization" THEN schema
      ELSE IF \E end \in ReferencedEnds(rel) : ~HasSnakeCase(end.role)
        THEN [schema EXCEPT !.error = "InvalidElementName"]
      ELSE IF IsMany(rel.source.mult) /\ IsMany(rel.target.mult)
        THEN [schema EXCEPT !.tables =
                Append(@, BuildJoinTable(rel, name(source), name(target), NamesOf(@)))]
      ELSE IF TargetHolds(rel)
        THEN [schema EXCEPT !.tables[target] = WithForeignKey(@, rel, name(source))]
      ELSE [schema EXCEPT !.tables[source] = WithForeignKey(@, rel, name(target))]

MapRelationship(model, schema, rel) ==
  LinkTables(schema, rel, TableOfClass(model, schema, rel.source.cls),
             TableOfClass(model, schema, rel.target.cls))

(***************************************************************************)
(* The pipeline.                                                           *)
(***************************************************************************)
NoSchema(error) == [error |-> error, tables |-> <<>>, enumTypes |-> <<>>]

(* The first error, of the hierarchy or of the stages after it, or the     *)
(* schema.                                                                 *)
FirstError(blocked, schema, enumTypes) ==
  CASE blocked # "none" -> NoSchema(blocked)
    [] blocked = "none" /\ schema.error # "none" -> NoSchema(schema.error)
    [] OTHER -> [schema EXCEPT !.enumTypes = enumTypes]

MapToRelational(model) ==
  LET started == NoSchema(IF \A e \in ToSet(model.enums) : HasSnakeCase(e.name)
                            THEN "none" ELSE "InvalidElementName")
      drawn   == FoldLeft(LAMBDA s, root : MapTableForRoot(model, s, root),
                          started, Roots(model))
      linked  == FoldLeft(LAMBDA s, rel : MapRelationship(model, s, rel), drawn, model.rels)
  IN  FirstError(HierarchyError(model), linked, EnumTypes(model))
=============================================================================
