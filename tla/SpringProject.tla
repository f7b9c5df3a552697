---------------------------- MODULE SpringProject ----------------------------
(***************************************************************************)
(* The generated Spring Boot project (spring_generator/emit and            *)
(* generation_export/service.py), one record per file: the type it         *)
(* declares, the members others may call, the types its text uses, the     *)
(* types it imports and the members of other files it calls.  Wording,     *)
(* layout and the order of imports are left out.                           *)
(*                                                                         *)
(* A Java name is the sequence of words it is written from, so the class   *)
(* OrderLine and the table order_line have the same words.                 *)
(***************************************************************************)
EXTENDS RelationalMapping

JavaType(pkg, name) == [pkg |-> pkg, name |-> name]
Framework(pkg, names) == {JavaType(pkg, <<n>>) : n \in names}
Persistence(names) == Framework("jakarta.persistence", names)
Constraints(names) == Framework("jakarta.validation.constraints", names)
Web(names) == Framework("org.springframework.web.bind.annotation", names)
Paging(names) == Framework("org.springframework.data.domain", names)
Util(names) == Framework("java.util", names)

Entity(table)     == JavaType("domain", table)
EnumClass(name)   == JavaType("domain", name)
Repository(table) == JavaType("persistence", table \o <<"repository">>)
Service(table)    == JavaType("application", table \o <<"service">>)
Specs(table)      == JavaType("application", table \o <<"specifications">>)
Controller(table) == JavaType("api", table \o <<"controller">>)
RequestDto(table)  == JavaType("application.dto", table \o <<"request", "dto">>)
ResponseDto(table) == JavaType("application.dto", table \o <<"response", "dto">>)
NotFound == JavaType("errors", <<"resource", "not", "found", "exception">>)

NeedsImport(type) == type.pkg # "java.lang"

JavaTypeFor(columnType) ==
  CASE columnType = "UUID"        -> JavaType("java.util", <<"UUID">>)
    [] columnType = "INTEGER"     -> JavaType("java.lang", <<"Integer">>)
    [] columnType = "BIGINT"      -> JavaType("java.lang", <<"Long">>)
    [] columnType = "NUMERIC"     -> JavaType("java.math", <<"BigDecimal">>)
    [] columnType = "BOOLEAN"     -> JavaType("java.lang", <<"Boolean">>)
    [] columnType = "DATE"        -> JavaType("java.time", <<"LocalDate">>)
    [] columnType = "TIMESTAMPTZ" -> JavaType("java.time", <<"OffsetDateTime">>)
    [] OTHER                      -> JavaType("java.lang", <<"String">>)

(***************************************************************************)
(* Columns of a table: keys, searchable and sortable ones.                 *)
(***************************************************************************)
FkOf(table, column) == SelectInSeq(table.fks, LAMBDA f : f.column = column.name)
IsPk(column) == column.name = Id
IsFk(table, column) == ~IsPk(column) /\ FkOf(table, column) # 0
IsEnum(column) == column.enum # <<>>
HasInheritance(table) == table.discriminator # <<>>
IsDiscriminator(table, column) == HasInheritance(table) /\ column.name = <<"class", "type">>

IsSupportedType(type) == type \in {"VARCHAR", "TEXT", "INTEGER", "BIGINT", "NUMERIC"}

IsPlainColumn(table, column) ==
  /\ ~IsPk(column) /\ ~IsFk(table, column) /\ ~IsDiscriminator(table, column)
  /\ ~IsEnum(column) /\ IsSupportedType(column.type)

IsSearchable(table, column) ==
  column.profile.searchable = "true" /\ IsPlainColumn(table, column)
IsSortable(table, column) ==
  column.profile.sortable = "true" /\ IsPlainColumn(table, column)

SearchFilters(table) == Filter(table.columns, LAMBDA c : IsSearchable(table, c))
SortableFields(table) == Filter(table.columns, LAMBDA c : IsSortable(table, c))
FilterTypes(table) == {JavaTypeFor(c.type) : c \in ToSet(SearchFilters(table))}

HasDefaultSort(table) == table.profile.defaultSort # NoSort

(* _resolve_default_sort: the first column made from the attribute, which  *)
(* has to be sortable; raises InvalidDefaultSortError otherwise.           *)
DefaultSortColumn(table) ==
  SelectInSeq(table.columns, LAMBDA c : c.source = table.profile.defaultSort.attribute)
DefaultSortResolves(table) ==
  HasDefaultSort(table) =>
    /\ DefaultSortColumn(table) # 0
    /\ LET column == table.columns[DefaultSortColumn(table)]
       IN  /\ ~IsPk(column) /\ ~IsFk(table, column) /\ ~IsEnum(column)
           /\ IsSupportedType(column.type)
           /\ column.profile.sortable = "true"

NeedsSortValidation(table) ==
  SearchFilters(table) # <<>> \/ SortableFields(table) # <<>> \/ HasDefaultSort(table)

(***************************************************************************)
(* Fields of entities and DTOs.                                            *)
(***************************************************************************)
Field(member, type, annotations) ==
  [member |-> member, type |-> type, annotations |-> annotations]

NotNull(column) == IF column.nullable THEN {} ELSE Constraints({"NotNull"})
Size(column) == IF column.type = "VARCHAR" THEN Constraints({"Size"}) ELSE {}

(* relationship_base_name: customer_id is the field customer.              *)
RelationshipBaseName(column) ==
  IF Len(column) > 1 /\ Last(column) = "id" THEN Front(column) ELSE column

IsOneToOne(table, fk) == Contains(table.uniques, Part("uq", table.name, fk.column))

RelationshipField(table, column) ==
  LET fk == table.fks[FkOf(table, column)]
      kind == IF IsOneToOne(table, fk) THEN "OneToOne" ELSE "ManyToOne"
  IN  Field(RelationshipBaseName(column.name), Entity(fk.table),
            Persistence({kind, "JoinColumn"}) \cup NotNull(column))

EnumField(column) ==
  Field(column.name, EnumClass(column.enum),
        Persistence({"Enumerated", "EnumType", "Column"}) \cup NotNull(column))

ScalarField(column) ==
  Field(column.name, JavaTypeFor(column.type),
        IF IsPk(column) THEN Persistence({"Id", "GeneratedValue", "GenerationType", "Column"})
        ELSE Persistence({"Column"}) \cup NotNull(column) \cup Size(column))

EntityField(table, column) ==
  CASE IsFk(table, column) -> RelationshipField(table, column)
    [] ~IsFk(table, column) /\ IsEnum(column) -> EnumField(column)
    [] OTHER -> ScalarField(column)

DtoField(column, forRequest) ==
  Field(column.name,
        IF IsEnum(column) THEN EnumClass(column.enum) ELSE JavaTypeFor(column.type),
        IF forRequest THEN NotNull(column) \cup Size(column) ELSE {})

Members(fields) == [i \in DOMAIN fields |-> fields[i].member]
TypesIn(fields) ==
  UNION {{fields[i].type} \cup fields[i].annotations : i \in DOMAIN fields}
AnnotationsIn(fields) == UNION {fields[i].annotations : i \in DOMAIN fields}

(***************************************************************************)
(* The files of a table.                                                   *)
(***************************************************************************)
Source(type, members, uses, imports, calls) ==
  [type |-> type, members |-> members, uses |-> uses, calls |-> calls,
   imports |-> {t \in imports : NeedsImport(t)}]

ScalarTypes(fields) ==
  {type \in {fields[i].type : i \in DOMAIN fields} : type.pkg # "domain"}

EntitySource(table) ==
  LET fields == [i \in DOMAIN table.columns |-> EntityField(table, table.columns[i])]
      fixed  == Persistence({"Column", "Entity", "GeneratedValue", "GenerationType", "Id", "Table"})
  IN  Source(Entity(table.name), Members(fields),
             TypesIn(fields) \cup Persistence({"Entity", "Table"}),
             fixed \cup ScalarTypes(fields) \cup AnnotationsIn(fields), {})

DtoSource(table, type, forRequest) ==
  LET columns == IF forRequest THEN Filter(table.columns, LAMBDA c : ~IsPk(c))
                 ELSE table.columns
      fields  == [i \in DOMAIN columns |-> DtoField(columns[i], forRequest)]
  IN  Source(type, Members(fields), TypesIn(fields), TypesIn(fields), {})

(* Mutant of HasSpecificationExecutor: decided by the sortable columns.    *)
HasSortExecutor(table) == SortableFields(table) # <<>>
HasSpecificationExecutor(table) == ~HasInheritance(table) /\ SearchFilters(table) # <<>>

RepositorySource(table) ==
  LET filtered == HasSpecificationExecutor(table)
      executor == IF filtered
                    THEN Framework("org.springframework.data.jpa.repository",
                                   {"JpaSpecificationExecutor"}) ELSE {}
      types == Framework("org.springframework.data.jpa.repository", {"JpaRepository"})
                 \cup Util({"UUID"}) \cup {Entity(table.name)} \cup executor
  IN  Source(Repository(table.name),
             IF filtered THEN <<<<"find", "by", "specification">>>> ELSE <<>>, types, types, {})

(* build_service_context: its own repository, then one per other table its *)
(* foreign keys refer to.                                                  *)
Dependencies(table) == {Repository(f.table) : f \in ToSet(table.fks)} \ {Repository(table.name)}

(* toResponseDto reads every entity field into the response; applyRequest  *)
(* writes every field but the key from the request.                        *)
ServiceCalls(table) ==
  LET field(c) == EntityField(table, c).member
      columns  == ToSet(table.columns)
      writable == {c \in columns : ~IsPk(c)}
      refs     == {c \in columns : IsFk(table, c)}
  IN  {<<Entity(table.name), field(c)>> : c \in columns}
        \cup {<<ResponseDto(table.name), c.name>> : c \in columns}
        \cup {<<RequestDto(table.name), c.name>> : c \in writable}
        \cup {<<Entity(table.fks[FkOf(table, c)].table), Id>> : c \in refs}
        \cup (IF SearchFilters(table) = <<>> THEN {}
              ELSE {<<Repository(table.name), <<"find", "by", "specification">>>>})

ServiceFixedTypes(table) ==
  Framework("org.springframework.stereotype", {"Service"})
    \cup Framework("org.springframework.transaction.annotation", {"Transactional"})
    \cup Paging({"Page", "Pageable"}) \cup Util({"UUID"})
    \cup {Entity(table.name), Repository(table.name), RequestDto(table.name),
          ResponseDto(table.name), NotFound}

ServiceSource(table) ==
  LET filtered == SearchFilters(table) # <<>>
      listed   == (IF filtered THEN Framework("org.springframework.data.jpa.domain", {"Specification"})
                   ELSE {})
                  \cup (IF NeedsSortValidation(table) THEN Paging({"Sort"}) \cup Util({"Set"}) ELSE {})
                  \cup (IF HasDefaultSort(table) THEN Paging({"PageRequest"}) ELSE {})
      common   == ServiceFixedTypes(table) \cup Dependencies(table) \cup listed
  IN  Source(Service(table.name), <<<<"list">>>>,
             common \cup FilterTypes(table)
               \cup (IF filtered THEN {Specs(table.name)} ELSE {}),
             common, ServiceCalls(table))

ControllerSource(table) ==
  LET types == Web({"RestController", "RequestMapping", "PostMapping", "GetMapping", "PutMapping",
                    "DeleteMapping", "PathVariable", "RequestBody", "ResponseStatus"})
                 \cup Framework("org.springframework.http", {"HttpStatus"})
                 \cup Paging({"Page", "Pageable"}) \cup Framework("jakarta.validation", {"Valid"})
                 \cup Util({"UUID"})
                 \cup {Service(table.name), RequestDto(table.name), ResponseDto(table.name)}
                 \cup (IF SearchFilters(table) = <<>> THEN {} ELSE Web({"RequestParam"}))
  IN  Source(Controller(table.name), <<>>, types \cup FilterTypes(table),
             types \cup FilterTypes(table), {<<Service(table.name), <<"list">>>>})

SpecificationSource(table) ==
  LET types == Util({"ArrayList", "List"})
                 \cup Framework("jakarta.persistence.criteria", {"Predicate"})
                 \cup Framework("org.springframework.data.jpa.domain", {"Specification"})
                 \cup {Entity(table.name)} \cup FilterTypes(table)
  IN  Source(Specs(table.name), <<>>, types, types,
             {<<Entity(table.name), c.name>> : c \in ToSet(SearchFilters(table))})
(***************************************************************************)
(* A generalization tree: one entity per class of the table, the root's    *)
(* repository, and nothing else.                                           *)
(***************************************************************************)
OwnedBy(table, k, column) ==
  /\ ~IsDiscriminator(table, column)
  /\ \/ column.owner = <<table.classes[k]>>
     \/ k = 1 /\ (IsPk(column) \/ (IsFk(table, column) /\ column.owner = NoOwner))

SubclassEntity(table, k) ==
  IF k = 1 THEN Entity(table.name) ELSE Entity(table.discriminator[k].words)

InheritanceSource(table, k) ==
  LET columns == Filter(table.columns, LAMBDA c : OwnedBy(table, k, c))
      fields  == [i \in DOMAIN columns |-> EntityField(table, columns[i])]
      root    == IF k = 1
                   THEN Persistence({"Table", "Inheritance", "InheritanceType",
                                     "DiscriminatorColumn"})
                   ELSE {}
      ids     == IF k = 1 THEN Persistence({"Id", "GeneratedValue", "GenerationType"}) ELSE {}
      column  == IF fields = <<>> THEN {} ELSE Persistence({"Column"})
      common  == Persistence({"Entity", "DiscriminatorValue"}) \cup root
  IN  Source(SubclassEntity(table, k), Members(fields),
             common \cup TypesIn(fields) \cup {Entity(table.name)},
             common \cup ids \cup column \cup ScalarTypes(fields)
               \cup (AnnotationsIn(fields) \ Persistence({"Id", "GeneratedValue",
                                                          "GenerationType", "Column"})),
             {})

(***************************************************************************)
(* Refusals (errors.py): the first rule a table or an enumeration breaks.  *)
(***************************************************************************)
MalformedInheritance(table) ==
  \/ table.classes = <<>>
  \/ <<"class", "type">> \notin ColumnNames(table.columns)
  \/ DOMAIN table.discriminator # DOMAIN table.classes
  \/ \E c \in ToSet(table.columns) :
       \/ c.owner \notin {NoOwner} \cup {<<id>> : id \in ToSet(table.classes)}
       \/ IsFk(table, c) /\ c.owner \notin {NoOwner, <<table.classes[1]>>}
       \/ /\ ~IsPk(c) /\ ~IsDiscriminator(table, c) /\ ~IsFk(table, c)
          /\ c.owner = NoOwner

OutOfScope(table) ==
  \/ ~\E c \in ToSet(table.columns) : IsPk(c) /\ c.type = "UUID"
  \/ \E c \in ToSet(table.columns) : c.type = "ENUM" /\ ~IsEnum(c)
  \/ HasInheritance(table) /\ MalformedInheritance(table)

(* pascal_case and camel_case on what the mapper made is always legal but  *)
(* for an empty name; on the verbatim name of a subclass it is not.        *)
LegalJavaName(name) == name.form \in {"pascal", "snake", "acronym"}

TableRefusal(table) ==
  IF OutOfScope(table) THEN "UngeneratableTable"
  ELSE IF \/ <<>> \in ColumnNames(table.columns) \cup {table.name}
          \/ HasInheritance(table) /\ \E k \in 2..Len(table.discriminator) :
               ~LegalJavaName(table.discriminator[k]) THEN "InvalidJavaIdentifier"
  ELSE IF ~HasInheritance(table) /\ ~DefaultSortResolves(table) THEN "InvalidDefaultSort"
  ELSE "none"

Constants(enumType) == [i \in DOMAIN enumType.labels |-> enumType.labels[i].words]

EnumRefusal(enumType) ==
  IF enumType.labels = <<>> THEN "EmptyEnumType"
  ELSE IF NoName \in ToSet(enumType.labels) THEN "InvalidJavaIdentifier"
  ELSE IF ~IsInjective(Constants(enumType)) THEN "DuplicateEnumConstant"
  ELSE IF enumType.name = <<>> THEN "InvalidJavaIdentifier"
  ELSE "none"

(***************************************************************************)
(* renderer.py and build_project_archive.                                  *)
(***************************************************************************)
TableSources(table) ==
  IF HasInheritance(table)
    THEN [k \in DOMAIN table.classes |-> InheritanceSource(table, k)]
           \o <<RepositorySource(table)>>
    ELSE <<EntitySource(table), RepositorySource(table),
           DtoSource(table, RequestDto(table.name), TRUE),
           DtoSource(table, ResponseDto(table.name), FALSE),
           ServiceSource(table), ControllerSource(table)>>
         \o (IF SearchFilters(table) = <<>> THEN <<>> ELSE <<SpecificationSource(table)>>)

EnumSource(enumType) ==
  Source(EnumClass(enumType.name), Constants(enumType), {}, {}, {})

FixedSources ==
  [i \in 1..6 |->
     Source(<<NotFound, JavaType("errors", <<"global", "exception", "handler">>),
              JavaType("resources", <<"application.yml">>), JavaType("project", <<"build.gradle">>),
              JavaType("project", <<"settings.gradle">>), JavaType("", <<"application">>)>>[i],
            <<>>, {}, {}, {})]

FirstRefusal(refusals) ==
  IF ToSet(refusals) \subseteq {"none"} THEN "none"
  ELSE refusals[SelectInSeq(refusals, LAMBDA r : r # "none")]

NoProject(error) == [error |-> error, files |-> <<>>]

(* The first refusal, two files of one path, or the files.                 *)
Project(refusal, files) ==
  CASE refusal # "none" -> NoProject(refusal)
    [] refusal = "none" /\ ~IsInjective([i \in DOMAIN files |-> files[i].type]) ->
         NoProject("PathCollision")
    [] OTHER -> [error |-> "none", files |-> files]

GenerateProject(tables, enums) ==
  Project(FirstRefusal([i \in DOMAIN tables |-> TableRefusal(tables[i])]
                         \o [i \in DOMAIN enums |-> EnumRefusal(enums[i])]),
          FlattenSeq([i \in DOMAIN tables |-> TableSources(tables[i])])
            \o [i \in DOMAIN enums |-> EnumSource(enums[i])] \o FixedSources)

Archive(model, schema) ==
  CASE model.classes = <<>> -> NoProject("NothingToGenerate")
    [] model.classes # <<>> /\ schema.error # "none" -> NoProject(schema.error)
    [] OTHER -> GenerateProject(schema.tables, schema.enumTypes)

BuildProjectArchive(model) == Archive(model, MapToRelational(model))
=============================================================================
