------------------------------ MODULE XmiInterop ------------------------------
(***************************************************************************)
(* Exchange of a model with Enterprise Architect (xmi_interop).  A file is *)
(* a record of the elements the readers look at; tags, geometry, encoding  *)
(* and visibilities are left out.  A file has the dialect "1.1", which     *)
(* export_xmi writes, or "2.1".                                            *)
(*                                                                         *)
(* An xid is the sequence of the texts it is made of, none where there is  *)
(* no reference: _ea_id is injective.  The ids new_id() draws at an import *)
(* are functions of the position in the file; an import replaces the whole *)
(* model, so they only have to differ from one another.                    *)
(***************************************************************************)
EXTENDS RelationalMapping

EaTypeName(tag) ==
  CASE tag = "STRING"  -> Name("pascal", <<"string">>)
    [] tag = "TEXT"    -> Name("pascal", <<"text">>)
    [] tag = "INTEGER" -> Name("snake", <<"int">>)
    [] tag = "LONG"    -> Name("snake", <<"long">>)
    [] tag = "DECIMAL" -> Name("snake", <<"decimal">>)
    [] tag = "BOOLEAN" -> Name("snake", <<"boolean">>)
    [] tag = "DATE"    -> Name("snake", <<"date">>)
    [] tag = "DATETIME" -> Name("snake", <<"datetime">>)

(* A file as the readers find it; XMI ids tell the elements apart.         *)
Xid == Seq(STRING)
NoXid == <<>>
FeatureType == [kind : STRING, name : NameType, typeName : NameType, typeRef : Xid]
ElementType ==
  [xid : Xid, name : NameType, stype : STRING, features : Seq(FeatureType),
   synthetic : BOOLEAN, isRoot : BOOLEAN]
AssociationEndType ==
  [ref : Xid, mult : Seq(Int), aggregation : STRING, role : NameType]
AssociationType ==
  [name : NameType, ends : Seq(AssociationEndType), associationClass : Xid]

IsFile(file) ==
  /\ file.classes \in Seq(ElementType)
  /\ file.associations \in Seq(AssociationType)
  /\ file.generalizations \in Seq([child : Xid, parent : Xid])
  /\ IsInjective([i \in DOMAIN file.classes |-> file.classes[i].xid])

(* _PRIMITIVES, by the lower-case word; anything else becomes String.      *)
PrimitiveNamed(name) ==
  LET is(words) == name.words \in {<<w>> : w \in words}
  IN  CASE is({"int", "integer", "short"}) -> "INTEGER"
        [] is({"long", "bigint"}) -> "LONG"
        [] is({"text", "clob"}) -> "TEXT"
        [] is({"double", "float", "decimal", "numeric"}) -> "DECIMAL"
        [] is({"boolean", "bool"}) -> "BOOLEAN"
        [] is({"date"}) -> "DATE"
        [] is({"datetime", "timestamp", "timestamptz"}) -> "DATETIME"
        [] OTHER -> "STRING"

(***************************************************************************)
(* export_xmi.                                                             *)
(***************************************************************************)
Feature(kind, name, typeName, typeRef) ==
  [kind |-> kind, name |-> name, typeName |-> typeName, typeRef |-> typeRef]
ClassElement(xid, name, stype, features, synthetic) ==
  [xid |-> xid, name |-> name, stype |-> stype, features |-> features, synthetic |-> synthetic,
   isRoot |-> FALSE]

(* The class of Enterprise Architect's own that every file begins with.    *)
EARootClass == Name("acronym", <<"ea", "root", "class">>)
RootElement ==
  [ClassElement(<<"EAID", "root", "class">>, EARootClass, "Class", <<>>, FALSE)
     EXCEPT !.isRoot = TRUE]

DatatypeXid(tag) == <<"datatype", tag>>
TypeNameOf(type, model) ==
  IF type.tag = "ENUM" THEN EnumerationById(model, type.enum).name ELSE EaTypeName(type.tag)

WriteClass(c, model) ==
  ClassElement(<<c.id>>, c.name, "Class",
    [i \in DOMAIN c.attrs |->
       Feature("Attribute", c.attrs[i].name, TypeNameOf(c.attrs[i].type, model),
               IF c.attrs[i].type.tag = "ENUM" THEN <<c.attrs[i].type.enum>>
               ELSE DatatypeXid(c.attrs[i].type.tag))]
      \o [i \in DOMAIN c.ops |-> Feature("Operation", c.ops[i].name, NoName, NoXid)], FALSE)

WriteEnumeration(e) ==
  ClassElement(<<e.id>>, e.name, "Enumeration",
    [i \in DOMAIN e.literals |-> Feature("Attribute", e.literals[i].name, NoName, NoXid)], FALSE)

IsJoinRelationship(rel) ==
  rel.kind # "generalization" /\ IsMany(rel.source.mult) /\ IsMany(rel.target.mult)

JoinXid(rel) == <<rel.id, "join">>

(* _plan_join_relationships: the names of the join classes, in order; the  *)
(* underscore makes them one verbatim name of the two.                     *)
JoinName(rel, model) ==
  Name("joined", ClassById(model, rel.source.cls).name.words
                   \o ClassById(model, rel.target.cls).name.words)

AddJoinName(model, names, rel) ==
  LET base == JoinName(rel, model)
      taken == ToSet(names) \cup NamesOf(model.classes) \cup NamesOf(model.enums)
  IN  Append(names, IF base \notin taken THEN base
                    ELSE Name("joined", Numbered(base.words,
                           {n.words : n \in {m \in taken : m.form = "joined"}})))
JoinNames(joins, model) ==
  FoldLeft(LAMBDA names, rel : AddJoinName(model, names, rel), <<>>, joins)

(* _relational_join_tables: the columns, when the model maps at all.       *)
JoinColumns(rel, tables) ==
  LET own    == SelectInSeq(tables, LAMBDA t : t.classes = <<>> /\ t.fks[1].rel = rel.id)
  IN  IF own = 0 THEN <<>>
      ELSE [i \in DOMAIN tables[own].columns |->
              Feature("Attribute", Name("snake", tables[own].columns[i].name),
                      Name("pascal", <<"uuid">>), NoXid)]

WriteJoinClass(rel, name, tables) ==
  ClassElement(JoinXid(rel), name, "Class", JoinColumns(rel, tables), TRUE)

Aggregation(kind) ==
  CASE kind = "aggregation" -> "shared" [] kind = "composition" -> "composite" [] OTHER -> "none"

AssociationEnd(end, aggregation) ==
  [ref |-> <<end.cls>>, mult |-> FormatMultiplicity(end.mult), aggregation |-> aggregation,
   role |-> end.role]

WriteAssociation(rel) ==
  [name |-> rel.name,
   ends |-> <<AssociationEnd(rel.source, Aggregation(rel.kind)),
              AssociationEnd(rel.target, "none")>>,
   associationClass |-> IF IsJoinRelationship(rel) THEN JoinXid(rel) ELSE NoXid]

(* Looking up a class or an enumeration that is gone raises.               *)
Exports(model) ==
  /\ \A r \in ToSet(model.rels) : {r.source.cls, r.target.cls} \subseteq IdsOf(model.classes)
  /\ \A c \in ToSet(model.classes) : \A a \in ToSet(c.attrs) :
       a.type.tag = "ENUM" => HasId(model.enums, a.type.enum)

ExportWith(tables, model) ==
  LET joins == Filter(model.rels, IsJoinRelationship)
      names == JoinNames(joins, model)
      others == Filter(model.rels, LAMBDA r : r.kind # "generalization")
      heirs  == Generalizations(model)
  IN  [dialect |-> "1.1",
       classes |-> <<RootElement>>
             \o ([i \in DOMAIN model.classes |-> WriteClass(model.classes[i], model)]
                   \o [i \in DOMAIN model.enums |-> WriteEnumeration(model.enums[i])]
                   \o [i \in DOMAIN joins |-> WriteJoinClass(joins[i], names[i], tables)]),
       associations |-> [i \in DOMAIN others |-> WriteAssociation(others[i])],
       generalizations |-> [i \in DOMAIN heirs |->
                              [child |-> <<heirs[i].source.cls>>, parent |-> <<heirs[i].target.cls>>]],
       datatypes |-> [xid \in {DatatypeXid(tag) : tag \in PrimitiveTypes} |-> EaTypeName(xid[2])]]

ExportXmi(model) == ExportWith(MapToRelational(model).tables, model)

(***************************************************************************)
(* The two readers.  In UML 1.3 the end that carries the aggregation is    *)
(* the whole; in UML 2 it is the part.                                     *)
(***************************************************************************)
(* Mutant of MarkedEnd: UML 1.3 is read like UML 2.                        *)
OtherEnd(i, dialect) == 3 - i
MarkedEnd(i, dialect) == IF dialect = "1.1" THEN i ELSE 3 - i

IsWhole(ends, i, dialect) ==
  LET marked == MarkedEnd(i, dialect)
  IN  (dialect = "1.1" \/ Len(ends) = 2)
        /\ ends[marked].aggregation \in {"shared", "composite"}

RawKind(ends, i, dialect) ==
  IF ends[MarkedEnd(i, dialect)].aggregation = "composite" THEN "composition" ELSE "aggregation"

(* _read_class_v1 skips what Enterprise Architect adds: its root class, by *)
(* the mark or by the name alone, and the stubs of other packages.  The    *)
(* reader of 2.1 skips nothing.  An enumeration is a class of its          *)
(* stereotype (or an element of its own in 2.1).                           *)
IsPlumbing(c) == c.isRoot \/ c.name = EARootClass \/ c.stype = "EAStub"
ReadableClasses(file) ==
  Filter(file.classes, LAMBDA c : file.dialect = "1.1" => ~IsPlumbing(c))
IsEnumeration(c) == c.stype = "Enumeration"

(***************************************************************************)
(* _build.                                                                 *)
(***************************************************************************)
NewId(kind, i) == kind \o ToString(i)
MemberId(owner, kind, i) == owner \o "." \o kind \o ToString(i)

ClassesIn(file) == Filter(ReadableClasses(file), LAMBDA c : ~IsEnumeration(c))
EnumsIn(file)   == Filter(ReadableClasses(file), IsEnumeration)
XidsOf(elements) == {elements[i].xid : i \in DOMAIN elements}
ImportedId(elements, kind, xid) == NewId(kind, SelectInSeq(elements, LAMBDA e : e.xid = xid))

(* _resolve_type, "none" for an attribute typed by a class.  A name takes  *)
(* the last enumeration of that name.                                      *)
ResolveType(feature, file) ==
  LET enums   == EnumsIn(file)
      classes == ClassesIn(file)
      typed   == IF feature.typeRef \in DOMAIN file.datatypes
                   THEN file.datatypes[feature.typeRef] ELSE feature.typeName
  IN  CASE feature.typeRef \in XidsOf(enums) ->
             EnumRef(ImportedId(enums, "xe", feature.typeRef))
        [] feature.typeRef \notin XidsOf(enums)
             /\ (feature.typeRef \in XidsOf(classes) \/ feature.typeName \in NamesOf(classes)) ->
             Primitive("none")
        [] OTHER ->
             IF typed \in NamesOf(enums)
               THEN EnumRef(NewId("xe", SelectLastInSeq(enums, LAMBDA e : e.name = typed)))
               ELSE Primitive(PrimitiveNamed(typed))

ImportAttributes(c, id, file) ==
  LET attrs == Filter(c.features, LAMBDA f :
                 f.kind = "Attribute" /\ ResolveType(f, file).tag # "none")
  IN  [i \in DOMAIN attrs |->
         [id |-> MemberId(id, "a", i), name |-> attrs[i].name,
          type |-> ResolveType(attrs[i], file)]]

ImportOperations(c, id) ==
  LET ops == Filter(c.features, LAMBDA f : f.kind = "Operation")
  IN  [i \in DOMAIN ops |-> [id |-> MemberId(id, "o", i), name |-> ops[i].name]]

ImportClass(c, file) ==
  LET id == ImportedId(ClassesIn(file), "xc", c.xid)
  IN  [id |-> id, name |-> c.name, attrs |-> ImportAttributes(c, id, file),
       ops |-> ImportOperations(c, id)]

ImportEnumeration(e, i) ==
  [id |-> NewId("xe", i), name |-> e.name,
   literals |-> [k \in DOMAIN e.features |->
                   [id |-> MemberId(NewId("xe", i), "l", k), name |-> e.features[k].name,
                    value |-> NoName]]]

(* _hide_association_classes: our own join classes, and the empty ones EA  *)
(* attaches to an association.  Only the reader of 1.1 looks for them.     *)
IsHidden(c, imported, file) ==
  /\ file.dialect = "1.1"
  /\ \E a \in ToSet(file.associations) : a.associationClass = c.xid
  /\ c.synthetic \/ (imported.attrs = <<>> /\ imported.ops = <<>>)

ImportedClasses(file) ==
  LET kept == Filter(ClassesIn(file), LAMBDA c : ~IsHidden(c, ImportClass(c, file), file))
  IN  [i \in DOMAIN kept |-> ImportClass(kept[i], file)]

(* _multiplicity: a missing or malformed text becomes 0..*.                *)
ImportedMultiplicity(text) ==
  IF ParsesAsMultiplicity(text) THEN ParseMultiplicity(text) ELSE Multiplicity(0, Unbounded)

ImportGeneralization(g, file) ==
  LET end(xid) == End(ImportedId(ClassesIn(file), "xc", xid), Multiplicity(1, 1), NoName)
  IN  [kind |-> "generalization", source |-> end(g.child), target |-> end(g.parent),
       name |-> NoName]

ImportAssociation(a, file) ==
  LET end(i) == End(ImportedId(ClassesIn(file), "xc", a.ends[i].ref),
                    ImportedMultiplicity(a.ends[i].mult), a.ends[i].role)
      whole(i) == IsWhole(a.ends, i, file.dialect)
      first == IF whole(1) \/ ~whole(2) THEN 1 ELSE 2
  IN  [kind |-> IF whole(1) \/ whole(2) THEN RawKind(a.ends, first, file.dialect)
                ELSE "association",
       source |-> end(first), target |-> end(3 - first), name |-> a.name]

ImportedRelationships(file) ==
  LET xids  == XidsOf(ClassesIn(file))
      heirs == Filter(file.generalizations, LAMBDA g : {g.child, g.parent} \subseteq xids)
      links == Filter(file.associations, LAMBDA a :
                 Len(a.ends) = 2 /\ {a.ends[1].ref, a.ends[2].ref} \subseteq xids)
      all   == [i \in DOMAIN heirs |-> ImportGeneralization(heirs[i], file)]
                 \o [i \in DOMAIN links |-> ImportAssociation(links[i], file)]
  IN  [i \in DOMAIN all |->
         [id |-> NewId("xr", i), kind |-> all[i].kind, name |-> all[i].name,
          source |-> all[i].source, target |-> all[i].target]]

(* import_xmi: a file without a class is refused; nothing else is.         *)
Imported(classes, enums, rels) ==
  IF classes = <<>> THEN [error |-> "UnsupportedXmi", model |-> EmptyModel]
  ELSE [error |-> "none",
        model |-> [classes |-> classes, rels |-> rels, meta |-> <<>>,
                   enums |-> [i \in DOMAIN enums |-> ImportEnumeration(enums[i], i)]]]

ImportXmi(file) ==
  Imported(ImportedClasses(file), EnumsIn(file), ImportedRelationships(file))
=============================================================================
