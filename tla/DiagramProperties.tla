-------------------------- MODULE DiagramProperties --------------------------
(***************************************************************************)
(* What must hold of every diagram that commands, files and plans can      *)
(* produce, whatever order they come in: validation, the relational        *)
(* schema, the generated project, the manifest, the exported file and the  *)
(* previewed image agree with the model and with one another.              *)
(***************************************************************************)
EXTENDS Diagram, UmlValidation, DomainManifest

Codes == {d[2] : d \in {e \in Validate(model) : e[1] = "error"}}
Schema == MapToRelational(model)

(* The classes above a class, by repeated steps to the parents.            *)
Above(m, id) ==
  LET above[n \in 0..Len(m.rels)] ==
        LET ids == IF n = 0 THEN {id} ELSE above[n-1]
        IN  ids \cup UNION {ParentsOf(m, x) : x \in ids}
  IN  above[Len(m.rels)]

OnCycle(m, id) == \E parent \in ParentsOf(m, id) : id \in Above(m, parent)

(***************************************************************************)
(* The depth-first search of the cycle rule (relationships.py) reports a   *)
(* cycle exactly when some class is its own ancestor, and every reported   *)
(* cycle consists of ancestors of one another, whatever other trees,       *)
(* second parents and dangling ends surround it.                           *)
(***************************************************************************)
CycleRuleExact ==
  LET cycles == ReportedCycles(model)
      ids    == {r.source.cls : r \in ToSet(Generalizations(model))}
  IN  /\ cycles = {} <=> ~\E id \in ids : OnCycle(model, id)
      /\ \A cycle \in cycles : \A id \in cycle :
           cycle \subseteq Above(model, id) /\ OnCycle(model, id)

(***************************************************************************)
(* Validation and the mapper are written apart (rules/, mapper.py): a      *)
(* model without validation errors maps, unless a name has no letter or    *)
(* digit, and what the mapper refuses of the hierarchy and of types is     *)
(* what the rules report.  A stored profile never stops the mapper.        *)
(***************************************************************************)
NamesHaveLetters ==
  /\ \A e \in NamedElements(model) : e.name.form # "symbols"
  /\ \A r \in ToSet(model.rels) : {r.source.role.form, r.target.role.form} \cap {"symbols", "spaces"} = {}

AreConsistent(error, codes) ==
  /\ codes = {} /\ NamesHaveLetters => error = "none"
  /\ error = "DanglingEndpoint" <=> "INVALID_RELATIONSHIP_ENDPOINT" \in codes
  /\ error = "MultipleParents" => "MULTI_PARENT_GENERALIZATION" \in codes
  /\ error = "GeneralizationCycle" => "GENERALIZATION_CYCLE" \in codes
  /\ error = "UnknownEnumeration" => "UNKNOWN_ATTRIBUTE_TYPE" \in codes
  /\ error # "InvalidProfile"

MapperAgreesWithValidation == AreConsistent(Schema.error, Codes)

(***************************************************************************)
(* Whatever the names, roles and multiplicities, the schema is one that    *)
(* PostgreSQL accepts: tables, the columns of a table, enumeration types   *)
(* and constraints have names of their own, and every key and typed column *)
(* refers to something that exists (naming.py, mapper.py).                 *)
(***************************************************************************)
ConstraintNames(table) ==
  [i \in DOMAIN table.fks |-> table.fks[i].name] \o table.uniques \o table.indexes

DistinctNames(elements) == IsInjective([i \in DOMAIN elements |-> elements[i].name])

DistinctConstraints(tables) ==
  /\ \A t \in ToSet(tables) : IsInjective(ConstraintNames(t))
  /\ \A i, j \in DOMAIN tables : i # j =>
       ToSet(ConstraintNames(tables[i])) \cap ToSet(ConstraintNames(tables[j])) = {}

IsWellFormed(tables, types) ==
  /\ DistinctNames(tables)
  /\ DistinctNames(types)
  /\ DistinctConstraints(tables)
  /\ \A t \in ToSet(tables) :
       /\ DistinctNames(t.columns)
       /\ \A f \in ToSet(t.fks) :
            f.column \in ColumnNames(t.columns) /\ f.table \in NamesOf(tables)
       /\ \A c \in ToSet(t.columns) : IsEnum(c) => c.enum \in NamesOf(types)

(* A schema that could not be made has no tables and no types.             *)
SchemaWellFormed == \A schema \in {Schema} : IsWellFormed(schema.tables, schema.enumTypes)

(***************************************************************************)
(* The database admits the links the diagram admits (mapper.py 334-539).   *)
(* Each association, aggregation and composition is held by one table; an  *)
(* object has at most one partner in the database exactly when the end     *)
(* says so; a partner is compulsory only when the end says so or when the  *)
(* object is a part; and parts go with their whole, where a part has one.  *)
(***************************************************************************)
TableNameOf(schema, id) == schema.tables[TableOfClass(model, schema, id)].name
KeysOf(table, rel) == {f \in ToSet(table.fks) : f.rel = rel.id}
IsUnique(table, key) == Contains(table.uniques, Part("uq", table.name, key.column))

(* The objects of the table near have one partner in far at most: a key in *)
(* their table, or a unique key in the far table.                          *)
AtMostOne(holder, key, near, far) ==
  \/ holder.name = near /\ key.table = far
  \/ holder.name = far /\ key.table = near /\ IsUnique(holder, key)

(* A key alone in its table, between the tables source and target: what it *)
(* makes compulsory, what it deletes, and how many partners it allows.     *)
KeyIsRight(holder, key, rel, source, target) ==
  LET isPart == rel.kind = "composition"
      referenced == {end \in {<<rel.source, source>>, <<rel.target, target>>} : end[2] = key.table}
  IN  /\ ~ByName(holder.columns, key.column).nullable =>
           isPart \/ \E end \in referenced : end[1].mult.lower > 0
      /\ isPart /\ ~IsMany(rel.source.mult) => key.table = source /\ key.onDelete = "CASCADE"
      /\ source # target =>
           /\ AtMostOne(holder, key, source, target) <=> ~IsMany(rel.target.mult)
           /\ AtMostOne(holder, key, target, source) <=> ~IsMany(rel.source.mult)

IsRealised(tables, rel, source, target) ==
  \E t \in ToSet(tables) :
    /\ \A other \in ToSet(tables) : KeysOf(other, rel) # {} <=> other = t
    /\ IF Cardinality(KeysOf(t, rel)) = 1
         THEN \A key \in KeysOf(t, rel) : KeyIsRight(t, key, rel, source, target)
         ELSE /\ IsMany(rel.source.mult) /\ IsMany(rel.target.mult)
              /\ source # target => {key.table : key \in KeysOf(t, rel)} = {source, target}

RelationshipsRealised ==
  \A schema \in {Schema} : schema.error = "none" =>
    \A rel \in {r \in ToSet(model.rels) : r.kind # "generalization"} :
      IsRealised(schema.tables, rel, TableNameOf(schema, rel.source.cls),
                 TableNameOf(schema, rel.target.cls))

(***************************************************************************)
(* No command leaves a profile behind for an element that is gone, or one  *)
(* whose default sort names an attribute that is gone                      *)
(* (generation_profile.py, classes.py, attributes.py), and none stores one *)
(* that the generators could not parse.                                    *)
(***************************************************************************)
ProfilesOfLiveElements ==
  \A id \in DOMAIN model.meta :
    LET profile == model.meta[id]
    IN  /\ id \in IdsOf(model.classes) \cup AttributeIds(model)
        /\ profile # NoProfile /\ ~ProfileIsMalformed(model, id)
        /\ "defaultSort" \in DOMAIN profile /\ HasId(model.classes, id) =>
             profile.defaultSort.attribute \in AttributeIds(model)

(***************************************************************************)
(* The files of a generated project fit together (context.py, renderer.py):*)
(* every type of the project that a file names or imports is one of its    *)
(* files, every member a service calls is a member of the type it is       *)
(* called on, and every type used is imported.  Two gaps of the generator   *)
(* are left out: build_service_context never imports BigDecimal, though a  *)
(* searchable decimal attribute puts it into the signature of list; and an *)
(* attribute named like the field of a foreign key makes two fields.       *)
(***************************************************************************)
OwnPackages ==
  {"domain", "persistence", "application", "application.dto", "api", "errors"}
Unimported(file) ==
  {t \in file.uses : NeedsImport(t) /\ t.pkg # file.type.pkg /\ t \notin file.imports}
BigDecimal == JavaType("java.math", <<"BigDecimal">>)

NamedLikeAKey(t) ==
  \E k \in ToSet(t.fks) : RelationshipBaseName(k.column) \in ColumnNames(t.columns)

FitTogether(files, tables) ==
  LET declared == {f.type : f \in files}
      members(type) == UNION {ToSet(f.members) : f \in {g \in files : g.type = type}}
  IN  /\ \A f \in files :
           /\ \A t \in f.uses \cup f.imports : t.pkg \in OwnPackages => t \in declared
           /\ \A call \in f.calls : call[2] \in members(call[1])
           /\ Unimported(f) \subseteq (IF f.type.name # <<>> /\ Last(f.type.name) = "service"
                                       THEN {BigDecimal} ELSE {})
      /\ (\A t \in tables : ~NamedLikeAKey(t)) => \A f \in files : IsInjective(f.members)

(* A project that is refused has no files.                                 *)
GeneratedCodeResolves ==
  FitTogether(ToSet(BuildProjectArchive(model).files), ToSet(Schema.tables))

(***************************************************************************)
(* The manifest describes the backend that is generated of the same model, *)
(* though both are built apart (domain_manifest/builder, context.py):      *)
(* where the project is generated, the manifest exists (but for a default  *)
(* sort the generator does not look at, that of a class with subclasses),  *)
(* every entity with a resource has a controller, its attributes are those *)
(* of the response, and its relationships are fields of the entity that    *)
(* refer to entities.                                                      *)
(***************************************************************************)
Described(entity, entities, files) ==
  LET typed(type) == {f \in files : f.type = type}
      owner(a) == Entity(IF a.subtype = <<>> THEN entity.name ELSE a.subtype[1])
  IN  /\ entity.hasResource =>
           /\ typed(Controller(entity.name)) # {}
           /\ \E dto \in typed(ResponseDto(entity.name)) :
                {a.name : a \in entity.attributes} = ToSet(dto.members)
      /\ \A a \in entity.attributes :
           /\ a.enum # <<>> => typed(EnumClass(a.enum)) # {}
           /\ \E f \in typed(owner(a)) :
                {a.name, RelationshipBaseName(a.name)} \cap ToSet(f.members) # {}
      /\ \A r \in entity.relationships :
           /\ \E f \in typed(Entity(entity.name)) : r.field \in ToSet(f.members)
           /\ \E target \in entities : target.name = r.target

Agree(manifest, files, tables) ==
  /\ manifest.error = "none" <=> \A t \in tables : HasInheritance(t) => SortResolves(t)
  /\ \A e \in manifest.entities : Described(e, manifest.entities, files)

ManifestMatchesProject ==
  \A schema \in {Schema} :
    \A project \in {Archive(model, schema)} :
      project.error = "none" =>
        Agree(BuildManifest(schema.tables, schema.enumTypes), ToSet(project.files),
              ToSet(schema.tables))

(***************************************************************************)
(* Exporting a diagram and importing the file gives the diagram back       *)
(* (exporter.py, importer.py): classes, members with their types,          *)
(* enumerations and relationships with kind, ends, multiplicities and      *)
(* roles, though the file adds a join class for every many-to-many.  Ids,  *)
(* profiles and literal values are not in the file, nor is what a          *)
(* generalization has beyond its ends.  Two names are lost on the way: a   *)
(* class or enumeration named like a type of EA takes that type's place    *)
(* when it is read, and one named EARootClass is taken for EA's own root   *)
(* class and skipped with its relationships.                               *)
(***************************************************************************)
ShadowsAType ==
  {n.words : n \in NamesOf(model.classes) \cup NamesOf(model.enums)}
    \cap {EaTypeName(tag).words : tag \in PrimitiveTypes} # {}

NamedLikeTheRoot == EARootClass \in NamesOf(model.classes) \cup NamesOf(model.enums)

ClassIndex(m, id) == SelectInSeq(m.classes, LAMBDA c : c.id = id)
TypeView(m, type) ==
  IF type.tag = "ENUM" THEN SelectInSeq(m.enums, LAMBDA e : e.id = type.enum) ELSE type.tag
ClassView(m, c) ==
  [name |-> c.name, ops |-> [i \in DOMAIN c.ops |-> c.ops[i].name],
   attrs |-> [i \in DOMAIN c.attrs |-> <<c.attrs[i].name, TypeView(m, c.attrs[i].type)>>]]
RelationshipView(m, r) ==
  LET end(e) == IF r.kind = "generalization" THEN <<ClassIndex(m, e.cls)>>
                ELSE <<ClassIndex(m, e.cls), e.mult, e.role>>
  IN  [kind |-> r.kind, source |-> end(r.source), target |-> end(r.target),
       name |-> IF r.kind = "generalization" THEN NoName ELSE r.name]
ModelView(m) ==
  [classes |-> [i \in DOMAIN m.classes |-> ClassView(m, m.classes[i])],
   enums   |-> [i \in DOMAIN m.enums |->
                  <<m.enums[i].name, [k \in DOMAIN m.enums[i].literals |-> m.enums[i].literals[k].name]>>],
   rels    |-> [kind \in {"generalization", "other"} |->
                  LET own == Filter(m.rels, LAMBDA r :
                               (r.kind = "generalization") = (kind = "generalization"))
                  IN  [i \in DOMAIN own |-> RelationshipView(m, own[i])]]]

XmiRoundTrip ==
  model.classes # <<>> /\ Exports(model) /\ ~ShadowsAType /\ ~NamedLikeTheRoot =>
    \A file \in {ExportXmi(model)} : \A back \in {ImportXmi(file)} :
      back.error = "none" /\ ModelView(back.model) = ModelView(model)

(***************************************************************************)
(* Once the plan made of an image is applied, the diagram is the image     *)
(* (service.py 328-488): no class, member or relationship more or less,    *)
(* the image's types and multiplicities, also when the image retypes a     *)
(* member, drops a class or repeats one under another capitalization.  The *)
(* names in the diagram have to tell its elements apart.                   *)
(***************************************************************************)
DistinctKeys(elements) == IsInjective([i \in DOMAIN elements |-> Key(elements[i].name)])
TellsApart(m) ==
  DistinctKeys(m.classes) /\ \A c \in ToSet(m.classes) : DistinctKeys(c.attrs) /\ DistinctKeys(c.ops)

Shows(m, image) ==
  LET boxes(key) == {b \in ToSet(image.classes) : Key(b.name) = key}
      attributesOf(bs) == UNION {{<<Key(a.name), Primitive(a.type)>> : a \in ToSet(b.attrs)} : b \in bs}
      operationsOf(bs) == UNION {{Key(op) : op \in ToSet(b.ops)} : b \in bs}
      ends(name1, mult1, name2, mult2) == <<Key(name1), mult1, Key(name2), mult2>>
      drawn(text, default) == ParseMultiplicity(OrElse(NormalizeImageMultiplicity(text), default))
      nameOf(end) == ClassById(m, end.cls).name
  IN  /\ Keys(m.classes) = Keys(image.classes)
      /\ \A c \in ToSet(m.classes) :
           /\ {<<Key(a.name), a.type>> : a \in ToSet(c.attrs)} = attributesOf(boxes(Key(c.name)))
           /\ Keys(c.ops) = operationsOf(boxes(Key(c.name)))
      /\ {<<r.kind, ends(nameOf(r.source), r.source.mult, nameOf(r.target), r.target.mult)>> :
            r \in ToSet(m.rels)}
           = {<<l.kind, ends(l.source, drawn(l.sourceMult, <<0, 1>>),
                             l.target, drawn(l.targetMult, <<0, Unbounded>>))>> :
                l \in ToSet(image.rels)}

ImageShown ==
  [][\A p \in Plans :
       /\ plans'[p].applied # plans[p].applied
       /\ plans[p].request.kind = "image"
       /\ TellsApart(plans[p].seen)
       => Shows(model', plans[p].request.image)]_vars

(***************************************************************************)
(* What the proofs take of strings, which the provers know nothing of:     *)
(* that literals, and what is joined of texts and numbers, are strings,    *)
(* and that numbers are written differently.  The proofs take it for all   *)
(* numbers and texts; the run evaluates it for those at hand.              *)
(***************************************************************************)
StringFactsFor(numbers, texts) ==
  /\ {"", "id", "class", "type"} \subseteq STRING
  /\ \A i \in numbers : ToString(i) \in Word
  /\ \A i, j \in numbers : ToString(i) = ToString(j) => i = j
  /\ \A kind \in {"xc", "xe", "xr"} : \A i \in numbers : NewId(kind, i) \in STRING
  /\ \A kind \in {"xc", "xe", "xr"} : \A i, j \in numbers : NewId(kind, i) = NewId(kind, j) => i = j
  /\ \A owner \in texts : \A kind \in {"a", "o", "l"} : \A i \in numbers :
       MemberId(owner, kind, i) \in STRING
  /\ \A at, i \in numbers : NewIdAt(at, i) \in STRING
=============================================================================
