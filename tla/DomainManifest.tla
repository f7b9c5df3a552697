---------------------------- MODULE DomainManifest ----------------------------
(***************************************************************************)
(* build_manifest (domain_manifest/builder): the JSON description of the   *)
(* generated backend that other clients read.  It is built from the same   *)
(* schema as the project but by code of its own, so that the two can drift *)
(* apart.  Order within the lists is left out.                             *)
(***************************************************************************)
EXTENDS SpringProject

(* Mutant of Subtype: every attribute is the root's.                       *)
SubtypeOfRoot(table, column) == <<>>
(* _subtype: the class of the tree a column belongs to, by its name; none  *)
(* for the root and where there is no tree.                                *)
Subtype(table, column) ==
  IF column.owner = NoOwner \/ table.classes = <<>> \/ column.owner = <<table.classes[1]>>
    THEN <<>>
  ELSE LET k == SelectInSeq(table.classes, LAMBDA id : column.owner = <<id>>)
       IN  IF k \notin DOMAIN table.discriminator THEN <<>> ELSE <<table.discriminator[k].words>>

ManifestAttribute(table, column) ==
  [name |-> column.name, type |-> column.type, required |-> ~column.nullable,
   primaryKey |-> IsPk(column), enum |-> column.enum, subtype |-> Subtype(table, column)]

ManifestAttributes(table) ==
  {ManifestAttribute(table, c) : c \in {d \in ToSet(table.columns) : ~IsDiscriminator(table, d)}}

ManifestRelationship(table, fk) ==
  LET column == ByName(table.columns, fk.column)
  IN  [field |-> RelationshipBaseName(column.name), attribute |-> column.name,
       kind |-> IF IsOneToOne(table, fk) THEN "oneToOne" ELSE "manyToOne",
       target |-> fk.table, required |-> ~column.nullable]

(* Only a table with a controller has a resource path, and with it         *)
(* operations; a table left without operations loses the path.             *)
HasResource(table) ==
  ~HasInheritance(table) /\ EffectiveOperations(table.profile) # <<>>

(* _resolver: the discriminator is skipped, and a defaultSort on an id     *)
(* that no column comes from raises ManifestError.                         *)
SortResolves(table) ==
  \/ ~HasDefaultSort(table)
  \/ \E c \in ToSet(table.columns) :
       ~IsDiscriminator(table, c) /\ c.source = table.profile.defaultSort.attribute

ManifestEntity(table) ==
  [name          |-> table.name,
   hasResource   |-> HasResource(table),
   operations    |-> IF HasResource(table) THEN ToSet(EffectiveOperations(table.profile)) ELSE {},
   subtypes      |-> IF HasInheritance(table)
                       THEN {table.discriminator[k].words : k \in 2..Len(table.discriminator)}
                       ELSE {},
   attributes    |-> ManifestAttributes(table),
   relationships |-> {ManifestRelationship(table, f) : f \in ToSet(table.fks)}]

ManifestEnum(enumType) == [name |-> enumType.name, values |-> Constants(enumType)]

(* The builder refuses a name pascal_case, camel_case or the path segment  *)
(* refuses, like the generator, but neither an enumeration without labels  *)
(* nor one with two labels of one constant.                                *)
DescribesTable(table) ==
  /\ table.name # <<>> /\ <<>> \notin ColumnNames(table.columns)
  /\ HasInheritance(table) =>
       \A k \in 2..Len(table.discriminator) : LegalJavaName(table.discriminator[k])
  /\ SortResolves(table)

DescribesEnum(enumType) == enumType.name # <<>> /\ NoName \notin ToSet(enumType.labels)

BuildManifest(tables, enums) ==
  IF (\A t \in ToSet(tables) : DescribesTable(t)) /\ \A e \in ToSet(enums) : DescribesEnum(e)
    THEN [error    |-> "none",
          entities |-> {ManifestEntity(t) : t \in ToSet(tables)},
          enums    |-> {ManifestEnum(e) : e \in ToSet(enums)}]
    ELSE [error |-> "ManifestError", entities |-> {}, enums |-> {}]
=============================================================================
