--------------------------- MODULE Diagram_proofs ---------------------------
(***************************************************************************)
(* Proofs about Diagram for every scenario that satisfies                  *)
(* ScenarioAssumption and any number of plans and confirmations:           *)
(*                                                                         *)
(*   1. each command handler keeps a model typed, with class and           *)
(*      relationship ids of its own and profiles of live elements, so a    *)
(*      batch does, and so does an import;                                 *)
(*   2. what the assistant makes of a request are commands;                *)
(*   3. plans against the document's revision (PlanInv), and with the      *)
(*      above the inductive invariant DiagramInv;                          *)
(*   4. with DiagramInv, what ModelTheorems says of every model holds of   *)
(*      the document's in every state;                                     *)
(*   5. what is read back of a file that was written, element by           *)
(*      element: the round trip through XMI.                               *)
(*                                                                         *)
(* DiagramInvariants has PlanInv, DiagramInv and the invariants of the     *)
(* folds.                                                                  *)
(***************************************************************************)
EXTENDS ModelTheorems, TLAPS

(* Elements found by their ids, and updated.                               *)
LEMMA ByIdIs ==
  ASSUME NEW S, NEW elements \in Seq(S), NEW id \in IdsOf(elements)
  PROVE  \E i \in DOMAIN elements : ById(elements, id) = elements[i] /\ elements[i].id = id
<1> DEFINE I == {i \in 1..Len(elements) : elements[i].id = id}
<1>1. I \in SUBSET (1..Len(elements)) /\ I # {} /\ Len(elements) \in Nat
  BY DEF IdsOf
<1>2. Min(I) \in I
  <2> HIDE DEF I
  <2> QED
    BY <1>1, MinOf
<1>3. ById(elements, id) = elements[Min(I)]
  BY <1>1 DEF ById, SelectInSeq
<1>4. Min(I) \in DOMAIN elements /\ elements[Min(I)].id = id
  BY <1>2
<1> HIDE DEF I
<1> QED
  BY <1>3, <1>4

LEMMA WithoutIs ==
  ASSUME NEW S, NEW elements \in Seq(S), NEW id
  PROVE  /\ Without(elements, id) \in Seq(S)
         /\ ToSet(Without(elements, id)) = {e \in ToSet(elements) : e.id # id}
         /\ \E at : Picks(Without(elements, id), elements, at)
<1> DEFINE kept == {e \in ToSet(elements) : e.id # id}
<1>1. Without(elements, id) = Only(elements, kept)
  BY DEF Without, Filter
<1> HIDE DEF kept
<1>2. /\ Without(elements, id) \in Seq(S)
      /\ ToSet(Without(elements, id)) = ToSet(elements) \cap kept
      /\ \E at : Picks(Without(elements, id), elements, at)
  BY <1>1, OnlyPicks
<1> QED
  BY <1>2 DEF kept

LEMMA UpdatedIs ==
  ASSUME NEW S, NEW elements \in Seq(S), NEW id, NEW element \in S
  PROVE  /\ Updated(elements, id, element) \in Seq(S)
         /\ DOMAIN Updated(elements, id, element) = DOMAIN elements
BY DEF Updated

LEMMA ByIdTyped ==
  ASSUME NEW S, NEW elements \in Seq(S), NEW id, HasId(elements, id)
  PROVE  ById(elements, id) \in S
BY ByIdIs DEF HasId

LEMMA ClassReplaced ==
  ASSUME NEW m, IsModel(m), NEW id, NEW class \in ClassType
  PROVE  IsModel([m EXCEPT !.classes = Updated(@, id, class)])
BY UpdatedIs DEF IsModel

LEMMA HandleTyped ==
  ASSUME NEW m, IsModel(m), NEW c, IsCommand(c)
  PROVE  IsModel(Handle(m, c))
<1>1. CASE c.type = "AddClass"
  <2>1. [id |-> c.id, name |-> c.name, attrs |-> <<>>, ops |-> <<>>] \in ClassType
    BY <1>1 DEF IsCommand, ClassType
  <2>2. IsModel(AddClass(m, c))
    BY <2>1 DEF AddClass, IsModel
  <2> QED
    BY <1>1, <2>2 DEF Handle
<1>2. CASE c.type = "RemoveClass"
  BY <1>2, WithoutIs, OnlyPicks DEF IsModel, RemoveClass, Filter, Handle
<1>3. CASE c.type = "RenameClass"
  <2>1. ASSUME HasId(m.classes, c.id)
        PROVE  [ClassById(m, c.id) EXCEPT !.name = c.name] \in ClassType
    <3>1. ClassById(m, c.id) \in ClassType
      BY <2>1, ByIdTyped DEF ClassById, IsModel
    <3> QED
      BY <1>3, <3>1 DEF ClassType, IsCommand
  <2>2. IsModel(RenameClass(m, c))
    BY <2>1, ClassReplaced DEF RenameClass
  <2> QED
    BY <1>3, <2>2 DEF Handle
<1>4. CASE c.type = "AddAttribute"
  <2>1. ASSUME HasId(m.classes, c.cls)
        PROVE  [ClassById(m, c.cls) EXCEPT !.attrs = Append(@, c.attr)] \in ClassType
    <3>1. ClassById(m, c.cls) \in ClassType
      BY <2>1, ByIdTyped DEF ClassById, IsModel
    <3>2. c.attr \in AttributeType
      BY <1>4 DEF IsCommand
    <3>3. Append(ClassById(m, c.cls).attrs, c.attr) \in Seq(AttributeType)
      BY <3>1, <3>2 DEF ClassType
    <3> QED
      BY <3>1, <3>3 DEF ClassType
  <2>2. IsModel(AddAttribute(m, c))
    BY <2>1, ClassReplaced DEF AddAttribute
  <2> QED
    BY <1>4, <2>2 DEF Handle
<1>5. CASE c.type = "RemoveAttribute"
  <2> DEFINE target == ClassById(m, c.cls)
  <2>1. ASSUME HasId(m.classes, c.cls)
        PROVE  [target EXCEPT !.attrs = Without(@, c.id)] \in ClassType
    <3>1. target \in ClassType
      BY <2>1, ByIdTyped DEF ClassById, IsModel
    <3>2. Without(target.attrs, c.id) \in Seq(AttributeType)
      BY <3>1, WithoutIs DEF ClassType
    <3> QED
      BY <3>1, <3>2 DEF ClassType
  <2>2. ASSUME HasId(m.classes, c.cls)
        PROVE  Updated(m.classes, c.cls, [target EXCEPT !.attrs = Without(@, c.id)])
                 \in Seq(ClassType)
    BY <2>1, <2>2, UpdatedIs DEF IsModel
  <2> HIDE DEF target
  <2>3. IsModel(RemoveAttribute(m, c))
    BY <2>2 DEF RemoveAttribute, IsModel, target
  <2> QED
    BY <1>5, <2>3 DEF Handle
<1>6. CASE c.type = "AddOperation"
  <2>1. ASSUME HasId(m.classes, c.cls)
        PROVE  [ClassById(m, c.cls) EXCEPT !.ops = Append(@, c.op)] \in ClassType
    <3>1. ClassById(m, c.cls) \in ClassType
      BY <2>1, ByIdTyped DEF ClassById, IsModel
    <3>2. c.op \in OperationType
      BY <1>6 DEF IsCommand
    <3>3. Append(ClassById(m, c.cls).ops, c.op) \in Seq(OperationType)
      BY <3>1, <3>2 DEF ClassType
    <3> QED
      BY <3>1, <3>3 DEF ClassType
  <2>2. IsModel(AddOperation(m, c))
    BY <2>1, ClassReplaced DEF AddOperation
  <2> QED
    BY <1>6, <2>2 DEF Handle
<1>7. CASE c.type = "RemoveOperation"
  <2>1. ASSUME HasId(m.classes, c.cls)
        PROVE  [ClassById(m, c.cls) EXCEPT !.ops = Without(@, c.id)] \in ClassType
    <3>1. ClassById(m, c.cls) \in ClassType
      BY <2>1, ByIdTyped DEF ClassById, IsModel
    <3>2. Without(ClassById(m, c.cls).ops, c.id) \in Seq(OperationType)
      BY <3>1, WithoutIs DEF ClassType
    <3> QED
      BY <3>1, <3>2 DEF ClassType
  <2>2. IsModel(RemoveOperation(m, c))
    BY <2>1, ClassReplaced DEF RemoveOperation
  <2> QED
    BY <1>7, <2>2 DEF Handle
<1>8. CASE c.type = "AddRelationship"
  <2>1. IsModel(AddRelationship(m, c))
    BY <1>8 DEF AddRelationship, IsModel, IsCommand
  <2> QED
    BY <1>8, <2>1 DEF Handle
<1>9. CASE c.type = "RemoveRelationship"
  BY <1>9, WithoutIs DEF IsModel, RemoveRelationship, Handle
<1>10. CASE c.type = "UpdateRelationship"
  <2> DEFINE existing == ById(m.rels, c.id)
             mult(old, new) == IF existing.kind = "generalization" \/ new = NoMultiplicity
                                 THEN old ELSE new
             changed == [existing EXCEPT
                 !.name = IF c.name = Unset THEN @ ELSE Strip(c.name),
                 !.source.mult = mult(@, c.sourceMult),
                 !.target.mult = mult(@, c.targetMult)]
  <2>1. ASSUME HasId(m.rels, c.id) PROVE changed \in RelationshipType
    <3>1. existing \in RelationshipType
      BY <2>1, ByIdTyped DEF IsModel
    <3>2. Strip(c.name) \in NameType
      BY <1>10 DEF NoName, Name, NameType, Forms, IsCommand, Strip
    <3>3. c.sourceMult \in MultiplicityType /\ c.targetMult \in MultiplicityType
      BY <1>10 DEF IsCommand
    <3> HIDE DEF existing
    <3> QED
      BY <3>1, <3>2, <3>3 DEF RelationshipType, EndType
  <2>2. ASSUME HasId(m.rels, c.id) PROVE Updated(m.rels, c.id, changed) \in Seq(RelationshipType)
    <3> HIDE DEF changed
    <3> QED
      BY <2>1, <2>2, UpdatedIs DEF IsModel
  <2>3. IsModel(UpdateRelationship(m, c))
    BY <2>2 DEF UpdateRelationship, IsModel
  <2> QED
    BY <1>10, <2>3 DEF Handle
<1>11. CASE c.type = "SetGenerationProfile"
  BY <1>11 DEF SetGenerationProfile, IsModel, Handle
<1> QED
  BY <1>1, <1>2, <1>3, <1>4, <1>5, <1>6, <1>7, <1>8, <1>9, <1>10, <1>11
  DEF IsCommand, CommandTypes, Additions

(* Profiles of live elements, through one command.                         *)

LEMMA AttributeIdIs ==
  ASSUME NEW m, NEW x
  PROVE  x \in AttributeIds(m) <=>
           \E i \in DOMAIN m.classes : x \in IdsOf(m.classes[i].attrs)
BY DEF AttributeIds

(* The profiles are those of a model that has no class or attribute less.  *)
LEMMA ProfilesStay ==
  ASSUME NEW m, HasLiveProfiles(m), NEW m2, m2.meta = m.meta,
         \A x \in DOMAIN m.meta : HasId(m2.classes, x) <=> HasId(m.classes, x),
         AttributeIds(m) \subseteq AttributeIds(m2)
  PROVE  HasLiveProfiles(m2)
<1> SUFFICES ASSUME NEW id \in DOMAIN m.meta
             PROVE  /\ id \in LiveIds(m2)
                    /\ m2.meta[id] # NoProfile /\ ~ProfileIsMalformed(m2, id)
                    /\ "defaultSort" \in DOMAIN m2.meta[id] /\ HasId(m2.classes, id) =>
                         m2.meta[id].defaultSort.attribute \in AttributeIds(m2)
  BY DEF HasLiveProfiles
<1>1. /\ id \in LiveIds(m)
      /\ m.meta[id] # NoProfile /\ ~ProfileIsMalformed(m, id)
      /\ "defaultSort" \in DOMAIN m.meta[id] /\ HasId(m.classes, id) =>
           m.meta[id].defaultSort.attribute \in AttributeIds(m)
  BY DEF HasLiveProfiles
<1>2. HasId(m2.classes, id) <=> HasId(m.classes, id)
  OBVIOUS
<1>3. id \in LiveIds(m2)
  BY <1>1, <1>2 DEF LiveIds, HasId
<1>4. ~HasId(m.classes, id) => id \in AttributeIds(m)
  BY <1>1 DEF LiveIds, HasId
<1>5. ~ProfileIsMalformed(m2, id)
  BY <1>1, <1>2, <1>4 DEF ProfileIsMalformed
<1> QED
  BY <1>1, <1>2, <1>3, <1>5

LEMMA RestrictedIsWellFormed ==
  ASSUME NEW profile, NEW keys, WellFormedTableProfile(profile)
  PROVE  WellFormedTableProfile(Restrict(profile, DOMAIN profile \ keys))
<1> DEFINE part == Restrict(profile, DOMAIN profile \ keys)
<1>1. DOMAIN part = DOMAIN profile \ keys /\ \A key \in DOMAIN part : part[key] = profile[key]
  BY DEF Restrict
<1> HIDE DEF part
<1>2. KnownKeys(part, TableKeys)
  BY <1>1 DEF WellFormedTableProfile, KnownKeys
<1>3. Booleans(part, {"entity", "auditable", "readOnly"})
  BY <1>1 DEF WellFormedTableProfile, Booleans
<1>4. "crud" \in DOMAIN part => WellFormedCrud(part.crud)
  BY <1>1 DEF WellFormedTableProfile
<1>5. "defaultSort" \in DOMAIN part => WellFormedSort(part.defaultSort)
  BY <1>1 DEF WellFormedTableProfile
<1> QED
  BY <1>2, <1>3, <1>4, <1>5 DEF WellFormedTableProfile, part

(* The profiles of what was removed are gone, and so are the sorts by it.  *)
LEMMA ProfilesPruned ==
  ASSUME NEW m, HasLiveProfiles(m), NEW m2, NEW removed,
         m2.meta = PruneGenerationMetadata(m.meta, removed),
         \A x : x \notin removed => (HasId(m2.classes, x) <=> HasId(m.classes, x)),
         AttributeIds(m) \ removed \subseteq AttributeIds(m2)
  PROVE  HasLiveProfiles(m2) /\ DOMAIN m2.meta \subseteq DOMAIN m.meta
<1> DEFINE left(id) == WithoutDanglingDefaultSort(m.meta[id], removed)
<1>1. ASSUME NEW id \in DOMAIN m2.meta
      PROVE  /\ id \in DOMAIN m.meta /\ id \notin removed
             /\ m2.meta[id] = left(id) /\ DOMAIN m2.meta[id] # {}
  BY DEF PruneGenerationMetadata, Restrict
<1> SUFFICES ASSUME NEW id \in DOMAIN m2.meta
             PROVE  /\ id \in LiveIds(m2)
                    /\ m2.meta[id] # NoProfile /\ ~ProfileIsMalformed(m2, id)
                    /\ "defaultSort" \in DOMAIN m2.meta[id] /\ HasId(m2.classes, id) =>
                         m2.meta[id].defaultSort.attribute \in AttributeIds(m2)
  BY <1>1 DEF HasLiveProfiles
<1>2. /\ id \in DOMAIN m.meta /\ id \notin removed
      /\ m2.meta[id] = left(id) /\ DOMAIN m2.meta[id] # {}
  BY <1>1
<1>3. /\ id \in LiveIds(m)
      /\ m.meta[id] # NoProfile /\ ~ProfileIsMalformed(m, id)
      /\ "defaultSort" \in DOMAIN m.meta[id] /\ HasId(m.classes, id) =>
           m.meta[id].defaultSort.attribute \in AttributeIds(m)
  BY <1>2 DEF HasLiveProfiles
<1>4. HasId(m2.classes, id) <=> HasId(m.classes, id)
  BY <1>2
<1>5. id \in LiveIds(m2)
  BY <1>2, <1>3, <1>4 DEF LiveIds, HasId
<1>6. m2.meta[id] # NoProfile
  BY <1>2 DEF NoProfile
<1>7. ~HasId(m.classes, id) => id \in AttributeIds(m)
  BY <1>3 DEF LiveIds, HasId
<1>8. CASE m2.meta[id] = m.meta[id]
  <2>1. ~ProfileIsMalformed(m2, id)
    BY <1>3, <1>4, <1>7, <1>8 DEF ProfileIsMalformed
  <2>2. "defaultSort" \in DOMAIN m.meta[id] => m.meta[id].defaultSort.attribute \notin removed
    BY <1>2, <1>8 DEF WithoutDanglingDefaultSort, Restrict
  <2> QED
    BY <1>3, <1>4, <1>5, <1>6, <1>8, <2>1, <2>2
<1>9. CASE m2.meta[id] # m.meta[id]
  <2>1. /\ m2.meta[id] = Restrict(m.meta[id], DOMAIN m.meta[id] \ {"defaultSort"})
        /\ "defaultSort" \in DOMAIN m.meta[id]
    BY <1>2, <1>9 DEF WithoutDanglingDefaultSort
  <2>2. "defaultSort" \notin DOMAIN m2.meta[id]
    BY <2>1 DEF Restrict
  <2>3. HasId(m.classes, id)
    <3> SUFFICES ASSUME ~HasId(m.classes, id) PROVE FALSE
      OBVIOUS
    <3>1. WellFormedColumnProfile(m.meta[id])
      BY <1>3, <1>7 DEF ProfileIsMalformed
    <3> QED
      BY <2>1, <3>1 DEF WellFormedColumnProfile, KnownKeys, ColumnKeys
  <2>4. WellFormedTableProfile(m2.meta[id])
    BY <1>3, <2>1, <2>3, RestrictedIsWellFormed DEF ProfileIsMalformed
  <2>5. ~ProfileIsMalformed(m2, id)
    BY <1>4, <2>3, <2>4 DEF ProfileIsMalformed
  <2> QED
    BY <1>5, <1>6, <2>2, <2>5
<1> QED
  BY <1>8, <1>9

(* One class takes the place of the one with its id.                       *)
LEMMA UpdatedClass ==
  ASSUME NEW m, IsModel(m), DistinctClassIds(m), NEW id, HasId(m.classes, id),
         NEW class \in ClassType, class.id = id,
         NEW m2, m2.classes = Updated(m.classes, id, class)
  PROVE  /\ DistinctClassIds(m2) /\ IdsOf(m2.classes) = IdsOf(m.classes)
         /\ AttributeIds(m2) \subseteq AttributeIds(m) \cup IdsOf(class.attrs)
         /\ AttributeIds(m) \subseteq
              AttributeIds(m2) \cup (IdsOf(ClassById(m, id).attrs) \ IdsOf(class.attrs))
         /\ IdsOf(class.attrs) \subseteq AttributeIds(m2)
<1>1. /\ DOMAIN m2.classes = DOMAIN m.classes
      /\ \A i \in DOMAIN m.classes :
           m2.classes[i] = IF m.classes[i].id = id THEN class ELSE m.classes[i]
  BY DEF Updated
<1>2. \A i \in DOMAIN m.classes : m2.classes[i].id = m.classes[i].id
  BY <1>1
<1>3. DistinctClassIds(m2) /\ IdsOf(m2.classes) = IdsOf(m.classes)
  <2>1. DistinctClassIds(m2)
    BY <1>1, <1>2 DEF DistinctClassIds
  <2>2. IdsOf(m2.classes) = {m.classes[i].id : i \in DOMAIN m.classes}
    <3> HIDE DEF DistinctClassIds
    <3> QED
      BY <1>1, <1>2 DEF IdsOf
  <2> QED
    BY <2>1, <2>2 DEF IdsOf
<1>4. PICK k \in DOMAIN m.classes : ClassById(m, id) = m.classes[k] /\ m.classes[k].id = id
  BY ByIdIs DEF HasId, IsModel, ClassById
<1>5. \A i \in DOMAIN m.classes :
        /\ i = k => m2.classes[i] = class
        /\ i # k => m2.classes[i] = m.classes[i]
  BY <1>1, <1>4 DEF DistinctClassIds
<1>6. AttributeIds(m2) \subseteq AttributeIds(m) \cup IdsOf(class.attrs)
  BY <1>1, <1>5, AttributeIdIs
<1>7. IdsOf(class.attrs) \subseteq AttributeIds(m2)
  BY <1>1, <1>4, <1>5, AttributeIdIs
<1>8. AttributeIds(m) \subseteq
        AttributeIds(m2) \cup (IdsOf(ClassById(m, id).attrs) \ IdsOf(class.attrs))
  <2> SUFFICES ASSUME NEW x \in AttributeIds(m), x \notin AttributeIds(m2)
               PROVE  x \in IdsOf(ClassById(m, id).attrs) \ IdsOf(class.attrs)
    OBVIOUS
  <2>1. PICK i \in DOMAIN m.classes : x \in IdsOf(m.classes[i].attrs)
    BY AttributeIdIs
  <2>2. i = k
    BY <1>1, <1>5, <2>1, AttributeIdIs
  <2> QED
    BY <1>4, <1>7, <2>1, <2>2
<1> QED
  BY <1>3, <1>6, <1>7, <1>8

LEMMA SameFollows ==
  ASSUME NEW m, IsSound(m), NEW c
  PROVE  Follows(m, c, m)
BY DEF IsSound, Follows

(* Only the relationships change.                                          *)
LEMMA RelsFollow ==
  ASSUME NEW m, IsSound(m), NEW c, NEW m2, m2.classes = m.classes, m2.meta = m.meta
  PROVE  Follows(m, c, m2)
BY ProfilesStay DEF AttributeIds, LiveIds, IsSound, DistinctClassIds, Follows

LEMMA AddClassFollows ==
  ASSUME NEW m, IsSound(m), NEW c, IsCommand(c), c.type = "AddClass", c.id \notin LiveIds(m)
  PROVE  Follows(m, c, AddClass(m, c))
<1> DEFINE new == [id |-> c.id, name |-> c.name, attrs |-> <<>>, ops |-> <<>>]
           m2 == AddClass(m, c)
           n == Len(m.classes)
<1>1. m2.classes = Append(m.classes, new) /\ m2.meta = m.meta
  BY DEF AddClass, IsSound, IsModel
<1>2. n \in Nat /\ DOMAIN m.classes = 1..n
  BY DEF IsSound, IsModel
<1>3. /\ DOMAIN m2.classes = 1..(n+1) /\ m2.classes[n+1] = new
      /\ \A i \in 1..n : m2.classes[i] = m.classes[i]
  BY <1>1, AppendOf DEF IsSound, IsModel
<1> HIDE DEF m2
<1>4. \A i \in 1..n : m.classes[i].id # c.id
  BY <1>2 DEF LiveIds, IdsOf
<1>5. DistinctClassIds(m2)
  <2> SUFFICES ASSUME NEW i \in 1..(n+1), NEW j \in 1..(n+1),
                      m2.classes[i].id = m2.classes[j].id
               PROVE  i = j
    BY <1>3 DEF DistinctClassIds
  <2>1. new.id = c.id
    OBVIOUS
  <2>2. \A k \in 1..(n+1) : k \in 1..n \/ k = n + 1
    BY <1>2
  <2>3. \A k, l \in 1..n : m.classes[k].id = m.classes[l].id => k = l
    BY <1>2 DEF DistinctClassIds, IsSound
  <2> HIDE DEF new, n
  <2> QED
    BY <1>3, <1>4, <2>1, <2>2, <2>3
<1>6. \A x : x \in IdsOf(m2.classes) <=> x \in IdsOf(m.classes) \/ x = c.id
  <2>1. IdsOf(m2.classes) = {m2.classes[i].id : i \in 1..(n+1)}
    BY <1>3 DEF IdsOf
  <2>2. IdsOf(m.classes) = {m.classes[i].id : i \in 1..n}
    BY <1>2 DEF IdsOf
  <2>3. \A i \in 1..(n+1) : i \in 1..n \/ i = n + 1
    BY <1>2
  <2>4. n + 1 \in 1..(n+1) /\ \A i \in 1..n : i \in 1..(n+1)
    BY <1>2
  <2>5. new.id = c.id
    OBVIOUS
  <2> HIDE DEF new, n
  <2> QED
    BY <1>3, <2>1, <2>2, <2>3, <2>4, <2>5
<1>7. AttributeIds(m2) = AttributeIds(m)
  <2>1. IdsOf(new.attrs) = {}
    BY DEF IdsOf
  <2>2. \A i \in 1..(n+1) : i \in 1..n \/ i = n + 1
    BY <1>2
  <2>3. \A i \in 1..n : i \in 1..(n+1)
    BY <1>2
  <2> HIDE DEF new, n
  <2>4. \A x : x \in AttributeIds(m2) <=> x \in AttributeIds(m)
    BY <1>2, <1>3, <2>1, <2>2, <2>3, AttributeIdIs
  <2> QED
    BY <2>4
<1>8. \A x \in DOMAIN m.meta : HasId(m2.classes, x) <=> HasId(m.classes, x)
  BY <1>6 DEF IsSound, HasLiveProfiles, HasId
<1>9. HasLiveProfiles(m2)
  BY <1>1, <1>7, <1>8, ProfilesStay DEF IsSound
<1>10. LiveIds(m2) \subseteq LiveIds(m) \cup DrawnBy(c)
  BY <1>6, <1>7 DEF LiveIds, DrawnBy, Additions, DrawnId
<1> QED
  BY <1>5, <1>9, <1>10 DEF Follows, m2

LEMMA RemoveClassFollows ==
  ASSUME NEW m, IsSound(m), NEW c, HasId(m.classes, c.id)
  PROVE  Follows(m, c, RemoveClass(m, c))
<1> DEFINE m2 == RemoveClass(m, c)
           target == ClassById(m, c.id)
           removed == {c.id} \cup IdsOf(target.attrs)
<1>1. /\ m2.classes = Without(m.classes, c.id)
      /\ m2.meta = PruneGenerationMetadata(m.meta, removed)
  BY DEF RemoveClass, IsSound, IsModel
<1> HIDE DEF m2
<1>2. PICK k \in DOMAIN m.classes : target = m.classes[k] /\ m.classes[k].id = c.id
  BY ByIdIs DEF HasId, IsSound, IsModel, ClassById
<1>3. /\ ToSet(m2.classes) = {e \in ToSet(m.classes) : e.id # c.id}
      /\ \E at : Picks(m2.classes, m.classes, at)
      /\ m2.classes \in Seq(ClassType)
  BY <1>1, WithoutIs DEF IsSound, IsModel
<1>4. PICK at : Picks(m2.classes, m.classes, at)
  BY <1>3
<1>5. DOMAIN m2.classes = 1..Len(m2.classes) /\ Len(m2.classes) \in Nat
      /\ DOMAIN m.classes = 1..Len(m.classes) /\ Len(m.classes) \in Nat
  BY <1>3 DEF IsSound, IsModel
<1>6. DistinctClassIds(m2)
  <2> SUFFICES ASSUME NEW i \in DOMAIN m2.classes, NEW j \in DOMAIN m2.classes,
                      m2.classes[i].id = m2.classes[j].id
               PROVE  i = j
    BY DEF DistinctClassIds
  <2>1. at[i] \in DOMAIN m.classes /\ at[j] \in DOMAIN m.classes
    BY <1>4, <1>5 DEF Picks
  <2>2. m.classes[at[i]].id = m.classes[at[j]].id
    BY <1>4, <1>5 DEF Picks
  <2>3. at[i] = at[j]
    BY <2>1, <2>2 DEF IsSound, DistinctClassIds
  <2> QED
    BY <1>4, <1>5, <2>3, PicksApart
<1>7. \A x : x \in IdsOf(m2.classes) <=> x \in IdsOf(m.classes) /\ x # c.id
  BY <1>3 DEF IdsOf, ToSet
<1>8. AttributeIds(m2) \subseteq AttributeIds(m)
  <2> SUFFICES ASSUME NEW i \in DOMAIN m2.classes, NEW x \in IdsOf(m2.classes[i].attrs)
               PROVE  x \in AttributeIds(m)
    BY AttributeIdIs
  <2>1. m2.classes[i] = m.classes[at[i]] /\ at[i] \in DOMAIN m.classes
    BY <1>4, <1>5 DEF Picks
  <2> QED
    BY <2>1, AttributeIdIs
<1>9. AttributeIds(m) \ removed \subseteq AttributeIds(m2)
  <2> SUFFICES ASSUME NEW i \in DOMAIN m.classes, NEW x \in IdsOf(m.classes[i].attrs),
                      x \notin removed
               PROVE  x \in AttributeIds(m2)
    BY AttributeIdIs
  <2>1. i # k
    BY <1>2
  <2>2. m.classes[i].id # c.id
    BY <1>2, <2>1 DEF IsSound, DistinctClassIds
  <2>3. m.classes[i] \in ToSet(m2.classes)
    BY <1>3, <2>2 DEF ToSet
  <2>4. PICK j \in DOMAIN m2.classes : m2.classes[j] = m.classes[i]
    BY <2>3 DEF ToSet
  <2> QED
    BY <2>4, AttributeIdIs
<1>10. HasLiveProfiles(m2)
  <2>1. \A x : x \notin removed => (HasId(m2.classes, x) <=> HasId(m.classes, x))
    BY <1>7 DEF HasId
  <2>2. HasLiveProfiles(m)
    BY DEF IsSound
  <2> HIDE DEF removed
  <2> QED
    BY <1>1, <1>9, <2>1, <2>2, ProfilesPruned
<1>11. LiveIds(m2) \subseteq LiveIds(m)
  BY <1>7, <1>8 DEF LiveIds
<1> QED
  BY <1>6, <1>10, <1>11 DEF Follows, m2

(* A class is replaced by one with more attributes, or as many.            *)
LEMMA ReplacedFollows ==
  ASSUME NEW m, IsSound(m), NEW c, NEW id, HasId(m.classes, id),
         NEW class \in ClassType, class.id = id,
         NEW m2, m2.classes = Updated(m.classes, id, class), m2.meta = m.meta,
         IdsOf(ClassById(m, id).attrs) \subseteq IdsOf(class.attrs),
         IdsOf(class.attrs) \subseteq IdsOf(ClassById(m, id).attrs) \cup DrawnBy(c)
  PROVE  Follows(m, c, m2)
<1>1. /\ DistinctClassIds(m2) /\ IdsOf(m2.classes) = IdsOf(m.classes)
      /\ AttributeIds(m2) \subseteq AttributeIds(m) \cup IdsOf(class.attrs)
      /\ AttributeIds(m) \subseteq
           AttributeIds(m2) \cup (IdsOf(ClassById(m, id).attrs) \ IdsOf(class.attrs))
  BY UpdatedClass DEF IsSound
<1>2. AttributeIds(m) \subseteq AttributeIds(m2)
  BY <1>1
<1>3. IdsOf(ClassById(m, id).attrs) \subseteq AttributeIds(m)
  BY ByIdIs, AttributeIdIs DEF HasId, IsSound, IsModel, ClassById
<1>4. HasLiveProfiles(m2)
  BY <1>1, <1>2, ProfilesStay DEF HasId, IsSound
<1>5. LiveIds(m2) \subseteq LiveIds(m) \cup DrawnBy(c)
  BY <1>1, <1>3 DEF LiveIds
<1> QED
  BY <1>1, <1>4, <1>5 DEF Follows

LEMMA RemoveAttributeFollows ==
  ASSUME NEW m, IsSound(m), NEW c
  PROVE  Follows(m, c, RemoveAttribute(m, c))
<1> DEFINE m2 == RemoveAttribute(m, c)
           target == ClassById(m, c.cls)
           new == [target EXCEPT !.attrs = Without(@, c.id)]
<1>1. CASE ~HasId(m.classes, c.cls) \/ ~HasId(target.attrs, c.id)
  BY <1>1, SameFollows DEF RemoveAttribute
<1>2. CASE HasId(m.classes, c.cls) /\ HasId(target.attrs, c.id)
  <2>1. target \in ClassType /\ target.id = c.cls
    BY <1>2, ByIdIs DEF HasId, IsSound, IsModel, ClassById
  <2>2. /\ Without(target.attrs, c.id) \in Seq(AttributeType)
        /\ ToSet(Without(target.attrs, c.id)) = {e \in ToSet(target.attrs) : e.id # c.id}
    <3>1. target.attrs \in Seq(AttributeType)
      BY <2>1 DEF ClassType
    <3> HIDE DEF target
    <3> QED
      BY <3>1, WithoutIs
  <2>3. new \in ClassType /\ new.id = c.cls /\ new.attrs = Without(target.attrs, c.id)
    <3> HIDE DEF target
    <3> QED
      BY <2>1, <2>2 DEF ClassType
  <2>4. /\ m2.classes = Updated(m.classes, c.cls, new)
        /\ m2.meta = PruneGenerationMetadata(m.meta, {c.id})
    BY <1>2 DEF RemoveAttribute, IsSound, IsModel
  <2> HIDE DEF m2, new
  <2>5. \A x : x \in IdsOf(new.attrs) <=> x \in IdsOf(target.attrs) /\ x # c.id
    <3>1. IdsOf(new.attrs) = {e.id : e \in ToSet(new.attrs)}
      BY DEF IdsOf, ToSet
    <3>2. IdsOf(target.attrs) = {e.id : e \in ToSet(target.attrs)}
      BY DEF IdsOf, ToSet
    <3> HIDE DEF target
    <3> QED
      BY <2>2, <2>3, <3>1, <3>2
  <2>6. /\ DistinctClassIds(m2) /\ IdsOf(m2.classes) = IdsOf(m.classes)
        /\ AttributeIds(m2) \subseteq AttributeIds(m) \cup IdsOf(new.attrs)
        /\ AttributeIds(m) \subseteq AttributeIds(m2) \cup (IdsOf(target.attrs) \ IdsOf(new.attrs))
    BY <1>2, <2>3, <2>4, UpdatedClass DEF IsSound
  <2>7. IdsOf(target.attrs) \subseteq AttributeIds(m)
    BY <1>2, ByIdIs, AttributeIdIs DEF HasId, IsSound, IsModel, ClassById
  <2> HIDE DEF target
  <2>8. HasLiveProfiles(m2)
    BY <2>5, <2>6, <2>4, ProfilesPruned DEF HasId, IsSound
  <2>9. LiveIds(m2) \subseteq LiveIds(m)
    BY <2>5, <2>6, <2>7 DEF LiveIds
  <2> QED
    BY <2>6, <2>8, <2>9 DEF Follows, m2
<1> QED
  BY <1>1, <1>2

(* Commands that replace a class and prune nothing.                        *)
LEMMA RenameClassFollows ==
  ASSUME NEW m, IsSound(m), NEW c, c.name \in NameType
  PROVE  Follows(m, c, RenameClass(m, c))
<1> DEFINE target == ClassById(m, c.id)
           new == [target EXCEPT !.name = c.name]
<1>1. CASE ~HasId(m.classes, c.id)
  BY <1>1, SameFollows DEF RenameClass
<1>2. CASE HasId(m.classes, c.id)
  <2>1. target \in ClassType /\ target.id = c.id
    BY <1>2, ByIdIs DEF HasId, IsSound, IsModel, ClassById
  <2>2. new \in ClassType /\ new.id = c.id /\ new.attrs = target.attrs
    <3> HIDE DEF target
    <3> QED
      BY <2>1 DEF ClassType
  <2>3. /\ RenameClass(m, c).classes = Updated(m.classes, c.id, new)
        /\ RenameClass(m, c).meta = m.meta
    BY <1>2 DEF RenameClass, IsSound, IsModel
  <2> HIDE DEF new
  <2> QED
    BY <1>2, <2>2, <2>3, ReplacedFollows
<1> QED
  BY <1>1, <1>2

LEMMA AddAttributeFollows ==
  ASSUME NEW m, IsSound(m), NEW c, IsCommand(c), c.type = "AddAttribute"
  PROVE  Follows(m, c, AddAttribute(m, c))
<1> DEFINE target == ClassById(m, c.cls)
           new == [target EXCEPT !.attrs = Append(@, c.attr)]
<1>1. CASE ~HasId(m.classes, c.cls)
  BY <1>1, SameFollows DEF AddAttribute
<1>2. CASE HasId(m.classes, c.cls)
  <2>1. target \in ClassType /\ target.id = c.cls
    BY <1>2, ByIdIs DEF HasId, IsSound, IsModel, ClassById
  <2>2. c.attr \in AttributeType
    BY DEF IsCommand
  <2>3. target.attrs \in Seq(AttributeType)
    BY <2>1 DEF ClassType
  <2>4. /\ Append(target.attrs, c.attr) \in Seq(AttributeType)
        /\ ToSet(Append(target.attrs, c.attr)) = ToSet(target.attrs) \cup {c.attr}
    <3> HIDE DEF target
    <3>1. AttributeType \cup {c.attr} = AttributeType
      BY <2>2
    <3> QED
      BY <2>3, <3>1, AppendOf
  <2>5. new \in ClassType /\ new.id = c.cls /\ new.attrs = Append(target.attrs, c.attr)
    <3> HIDE DEF target
    <3> QED
      BY <2>1, <2>4 DEF ClassType
  <2>6. /\ AddAttribute(m, c).classes = Updated(m.classes, c.cls, new)
        /\ AddAttribute(m, c).meta = m.meta
    BY <1>2 DEF AddAttribute, IsSound, IsModel
  <2> HIDE DEF new
  <2>7. \A x : x \in IdsOf(new.attrs) <=> x \in IdsOf(target.attrs) \/ x = c.attr.id
    <3>1. IdsOf(new.attrs) = {e.id : e \in ToSet(new.attrs)}
      BY DEF IdsOf, ToSet
    <3>2. IdsOf(target.attrs) = {e.id : e \in ToSet(target.attrs)}
      BY DEF IdsOf, ToSet
    <3> HIDE DEF target
    <3> QED
      BY <2>4, <2>5, <3>1, <3>2
  <2>8. DrawnBy(c) = {c.attr.id}
    BY DEF DrawnBy, DrawnId, Additions
  <2>9. /\ IdsOf(target.attrs) \subseteq IdsOf(new.attrs)
        /\ IdsOf(new.attrs) \subseteq IdsOf(target.attrs) \cup DrawnBy(c)
    BY <2>7, <2>8
  <2> QED
    BY <1>2, <2>5, <2>6, <2>9, ReplacedFollows
<1> QED
  BY <1>1, <1>2

(* Only the operations of a class change.                                  *)
LEMMA OperationsFollow ==
  ASSUME NEW m, IsSound(m), NEW c, HasId(m.classes, c.cls), NEW ops \in Seq(OperationType),
         NEW m2, m2.classes = Updated(m.classes, c.cls, [ClassById(m, c.cls) EXCEPT !.ops = ops]),
         m2.meta = m.meta
  PROVE  Follows(m, c, m2)
<1> DEFINE target == ClassById(m, c.cls)
           new == [target EXCEPT !.ops = ops]
<1>1. target \in ClassType /\ target.id = c.cls
  BY ByIdIs DEF HasId, IsSound, IsModel, ClassById
<1>2. new \in ClassType /\ new.id = c.cls /\ new.attrs = target.attrs
  <2> HIDE DEF target
  <2> QED
    BY <1>1 DEF ClassType
<1>3. m2.classes = Updated(m.classes, c.cls, new)
  OBVIOUS
<1> HIDE DEF new
<1> QED
  BY <1>2, <1>3, ReplacedFollows

LEMMA AddOperationFollows ==
  ASSUME NEW m, IsSound(m), NEW c, c.op \in OperationType
  PROVE  Follows(m, c, AddOperation(m, c))
<1>1. CASE ~HasId(m.classes, c.cls)
  BY <1>1, SameFollows DEF AddOperation
<1>2. CASE HasId(m.classes, c.cls)
  <2> DEFINE target == ClassById(m, c.cls)
             ops == Append(target.ops, c.op)
  <2>1. target \in ClassType
    BY <1>2, ByIdTyped DEF IsSound, IsModel, ClassById
  <2>2. ops \in Seq(OperationType)
    BY <2>1 DEF ClassType
  <2>3. [target EXCEPT !.ops = Append(@, c.op)] = [target EXCEPT !.ops = ops]
    BY <2>1 DEF ClassType
  <2>4. /\ AddOperation(m, c).classes = Updated(m.classes, c.cls, [target EXCEPT !.ops = Append(@, c.op)])
        /\ AddOperation(m, c).meta = m.meta
    BY <1>2 DEF AddOperation, IsSound, IsModel
  <2>5. AddOperation(m, c).classes = Updated(m.classes, c.cls, [target EXCEPT !.ops = ops])
    BY <2>3, <2>4
  <2> HIDE DEF ops
  <2> QED
    BY <1>2, <2>2, <2>4, <2>5, OperationsFollow
<1> QED
  BY <1>1, <1>2

LEMMA RemoveOperationFollows ==
  ASSUME NEW m, IsSound(m), NEW c
  PROVE  Follows(m, c, RemoveOperation(m, c))
<1>1. CASE ~HasId(m.classes, c.cls)
  BY <1>1, SameFollows DEF RemoveOperation
<1>2. CASE HasId(m.classes, c.cls)
  <2> DEFINE target == ClassById(m, c.cls)
             ops == Without(target.ops, c.id)
  <2>1. target \in ClassType
    BY <1>2, ByIdTyped DEF IsSound, IsModel, ClassById
  <2>2. ops \in Seq(OperationType)
    <3>1. target.ops \in Seq(OperationType)
      BY <2>1 DEF ClassType
    <3> HIDE DEF target
    <3> QED
      BY <3>1, WithoutIs
  <2>3. [target EXCEPT !.ops = Without(@, c.id)] = [target EXCEPT !.ops = ops]
    BY <2>1 DEF ClassType
  <2>4. /\ RemoveOperation(m, c).classes = Updated(m.classes, c.cls, [target EXCEPT !.ops = Without(@, c.id)])
        /\ RemoveOperation(m, c).meta = m.meta
    BY <1>2 DEF RemoveOperation, IsSound, IsModel
  <2>5. RemoveOperation(m, c).classes = Updated(m.classes, c.cls, [target EXCEPT !.ops = ops])
    BY <2>3, <2>4
  <2> HIDE DEF ops
  <2> QED
    BY <1>2, <2>2, <2>4, <2>5, OperationsFollow
<1> QED
  BY <1>1, <1>2

(* A profile is stored when its gate has passed it.                        *)
LEMMA SetGenerationProfileFollows ==
  ASSUME NEW m, IsSound(m), NEW c, GenerationProfileGate(m, c) = "ok"
  PROVE  Follows(m, c, SetGenerationProfile(m, c))
<1> DEFINE m2 == SetGenerationProfile(m, c)
           others == DOMAIN m.meta \ {c.id}
<1>1. c.id \in LiveIds(m)
  BY DEF GenerationProfileGate, LiveIds, HasId
<1>2. /\ m2.classes = m.classes
      /\ m2.meta = IF DOMAIN c.profile = {} THEN Restrict(m.meta, others)
                   ELSE [id \in others \cup {c.id} |->
                           IF id = c.id THEN c.profile ELSE m.meta[id]]
  BY <1>1 DEF SetGenerationProfile, IsSound, IsModel, LiveIds
<1> HIDE DEF m2
<1>3. AttributeIds(m2) = AttributeIds(m) /\ LiveIds(m2) = LiveIds(m)
  BY <1>2 DEF AttributeIds, LiveIds
<1>4. DistinctClassIds(m2)
  BY <1>2 DEF IsSound, DistinctClassIds
<1>5. ASSUME DOMAIN c.profile # {}
      PROVE  /\ HasId(m.classes, c.id) => WellFormedTableProfile(c.profile)
             /\ ~HasId(m.classes, c.id) => WellFormedColumnProfile(c.profile)
             /\ HasId(m.classes, c.id) /\ "defaultSort" \in DOMAIN c.profile =>
                  DefaultSortGate(m, c) = "ok"
  BY <1>5 DEF GenerationProfileGate, Verdict
<1>6. ASSUME DefaultSortGate(m, c) = "ok", HasId(m.classes, c.id)
      PROVE  c.profile.defaultSort.attribute \in AttributeIds(m)
  <2> DEFINE heirs == IF IsInheritanceRoot(m, c.id) THEN DescendantClassIds(m, c.id) ELSE {}
             scope == {c.id} \cup heirs
  <2>1. heirs \subseteq IdsOf(m.classes)
    BY <1>6 DEF DefaultSortGate
  <2>2. c.profile.defaultSort.attribute \in UNION {IdsOf(ClassById(m, id).attrs) : id \in scope}
    BY <1>6 DEF DefaultSortGate, Verdict
  <2>3. scope \subseteq IdsOf(m.classes)
    BY <1>6, <2>1 DEF HasId
  <2> HIDE DEF scope
  <2>4. PICK id \in scope : c.profile.defaultSort.attribute \in IdsOf(ClassById(m, id).attrs)
    BY <2>2
  <2>5. PICK k \in DOMAIN m.classes : ClassById(m, id) = m.classes[k]
    BY <2>3, <2>4, ByIdIs DEF IsSound, IsModel, ClassById
  <2> QED
    BY <2>4, <2>5, AttributeIdIs
<1>7. HasLiveProfiles(m2)
  <2> SUFFICES ASSUME NEW id \in DOMAIN m2.meta
               PROVE  /\ id \in LiveIds(m2)
                      /\ m2.meta[id] # NoProfile /\ ~ProfileIsMalformed(m2, id)
                      /\ "defaultSort" \in DOMAIN m2.meta[id] /\ HasId(m2.classes, id) =>
                           m2.meta[id].defaultSort.attribute \in AttributeIds(m2)
    BY DEF HasLiveProfiles
  <2>1. CASE id \in others /\ m2.meta[id] = m.meta[id]
    BY <2>1, <1>2, <1>3 DEF IsSound, HasLiveProfiles, ProfileIsMalformed
  <2>2. CASE id = c.id /\ m2.meta[id] = c.profile /\ DOMAIN c.profile # {}
    BY <2>2, <1>2, <1>3, <1>5, <1>6, <1>1 DEF NoProfile, ProfileIsMalformed
  <2>3. \/ id \in others /\ m2.meta[id] = m.meta[id]
        \/ id = c.id /\ m2.meta[id] = c.profile /\ DOMAIN c.profile # {}
    BY <1>2 DEF Restrict
  <2> QED
    BY <2>1, <2>2, <2>3
<1> QED
  BY <1>3, <1>4, <1>7 DEF Follows, m2

LEMMA SameRelsKept ==
  ASSUME NEW m, DistinctRelIds(m), NEW c, NEW m2, m2.rels = m.rels
  PROVE  RelsKept(m, c, m2)
BY DEF RelsKept, DistinctRelIds, MultiplicitiesParse

LEMMA PickedRelsKept ==
  ASSUME NEW m, DistinctRelIds(m), m.rels \in Seq(RelationshipType), NEW c,
         NEW m2, m2.rels \in Seq(RelationshipType), NEW at, Picks(m2.rels, m.rels, at)
  PROVE  RelsKept(m, c, m2)
<1> DEFINE rels == m.rels
           kept == m2.rels
<1>1. /\ Len(rels) \in Nat /\ DOMAIN rels = 1..Len(rels)
      /\ Len(kept) \in Nat /\ DOMAIN kept = 1..Len(kept)
  OBVIOUS
<1>2. Picks(kept, rels, at) /\ \A i, j \in DOMAIN rels : rels[i].id = rels[j].id => i = j
  BY DEF DistinctRelIds
<1> HIDE DEF rels, kept
<1>3. \A i \in 1..Len(kept) : at[i] \in DOMAIN rels /\ kept[i] = rels[at[i]]
  BY <1>1, <1>2 DEF Picks
<1>4. \A i, j \in 1..Len(kept) : kept[i].id = kept[j].id => i = j
  <2> SUFFICES ASSUME NEW i \in 1..Len(kept), NEW j \in 1..Len(kept), kept[i].id = kept[j].id
               PROVE  i = j
    OBVIOUS
  <2>1. at[i] = at[j]
    BY <1>2, <1>3
  <2> QED
    BY <1>1, <1>2, <2>1, PicksApart
<1>5. IdsOf(kept) \subseteq IdsOf(rels)
  BY <1>1, <1>3 DEF IdsOf
<1>6. MultiplicitiesParse(m) => MultiplicitiesParse(m2)
  BY <1>1, <1>3 DEF MultiplicitiesParse, rels, kept
<1> QED
  BY <1>1, <1>4, <1>5, <1>6 DEF RelsKept, DistinctRelIds, rels, kept

LEMMA AddedRelKept ==
  ASSUME NEW m, IsModel(m), DistinctRelIds(m), NEW c, c.type = "AddRelationship",
         c.rel.id \notin IdsOf(m.rels)
  PROVE  RelsKept(m, c, AddRelationship(m, c))
<1> DEFINE rels == m.rels
           n == Len(rels)
           next == AddRelationship(m, c)
<1>1. next.rels = Append(rels, c.rel)
  BY DEF AddRelationship, IsModel
<1>2. rels \in Seq(RelationshipType) /\ n \in Nat /\ DOMAIN rels = 1..n
  BY DEF IsModel
<1>3. \A i, j \in 1..n : rels[i].id = rels[j].id => i = j
  BY <1>2 DEF DistinctRelIds
<1>4. \A i \in 1..n : rels[i].id # c.rel.id
  BY <1>2 DEF IdsOf
<1>5. DrawnBy(c) = {c.rel.id}
  BY DEF DrawnBy, DrawnId, Additions
<1>6. IdsOf(rels) = {rels[i].id : i \in 1..n}
  BY <1>2 DEF IdsOf
<1> DEFINE longer == next.rels
<1>7. /\ DOMAIN longer = 1..(n+1) /\ longer[n+1] = c.rel
      /\ \A i \in 1..n : longer[i] = rels[i]
  <2> HIDE DEF rels, next
  <2> QED
    BY <1>1, <1>2, AppendOf
<1> HIDE DEF rels, n, next, longer
<1>8. \A i \in 1..(n+1) : i \in 1..n \/ i = n + 1
  BY <1>2
<1>9. \A i, j \in DOMAIN longer : longer[i].id = longer[j].id => i = j
  BY <1>3, <1>4, <1>7, <1>8
<1>10. IdsOf(longer) = {longer[i].id : i \in 1..(n+1)}
  BY <1>7 DEF IdsOf
<1>11. IdsOf(longer) \subseteq IdsOf(rels) \cup {c.rel.id}
  BY <1>6, <1>7, <1>8, <1>10
<1>12. MultiplicitiesParse(m) /\ Decodes(c) => MultiplicitiesParse(next)
  <2>1. Decodes(c) => IsParsed(c.rel.source.mult) /\ IsParsed(c.rel.target.mult)
    BY DEF Decodes, IsParsed
  <2> QED
    BY <1>2, <1>7, <1>8, <2>1 DEF MultiplicitiesParse, rels, longer
<1> QED
  BY <1>5, <1>9, <1>11, <1>12 DEF RelsKept, DistinctRelIds, longer, next, rels

LEMMA UpdatedRelKept ==
  ASSUME NEW m, IsModel(m), DistinctRelIds(m), NEW c, c.type = "UpdateRelationship",
         HasId(m.rels, c.id)
  PROVE  RelsKept(m, c, UpdateRelationship(m, c))
<1> DEFINE rels == m.rels
           existing == ById(rels, c.id)
           mult(old, new) == IF existing.kind = "generalization" \/ new = NoMultiplicity
                               THEN old ELSE new
           changed == [existing EXCEPT
                         !.name = IF c.name = Unset THEN @ ELSE Strip(c.name),
                         !.source.mult = mult(@, c.sourceMult),
                         !.target.mult = mult(@, c.targetMult)]
           next == UpdateRelationship(m, c)
           updated == Updated(rels, c.id, changed)
<1>1. next.rels = updated
  BY DEF UpdateRelationship, IsModel
<1>2. rels \in Seq(RelationshipType)
  BY DEF IsModel
<1>3. existing \in RelationshipType /\ existing.id = c.id
  BY <1>2, ByIdIs DEF HasId
<1>4. changed.id = c.id
  <2> HIDE DEF existing
  <2> QED
    BY <1>3 DEF RelationshipType
<1>5. \A i, j \in DOMAIN rels : rels[i].id = rels[j].id => i = j
  BY DEF DistinctRelIds
<1> HIDE DEF rels, changed, next
<1>6. DOMAIN updated = DOMAIN rels
      /\ \A i \in DOMAIN rels : updated[i] = IF rels[i].id = c.id THEN changed ELSE rels[i]
  BY DEF Updated
<1> HIDE DEF updated
<1>7. \A i \in DOMAIN rels : updated[i].id = rels[i].id
  BY <1>4, <1>6
<1>8. \A i, j \in DOMAIN updated : updated[i].id = updated[j].id => i = j
  BY <1>5, <1>6, <1>7
<1>9. IdsOf(updated) = IdsOf(rels)
  BY <1>6, <1>7 DEF IdsOf
<1> DEFINE parses(r) == IsParsed(r.source.mult) /\ IsParsed(r.target.mult)
<1>10. ASSUME MultiplicitiesParse(m), Decodes(c) PROVE MultiplicitiesParse(next)
  <2>1. \A i \in DOMAIN rels : parses(rels[i])
    BY <1>10 DEF MultiplicitiesParse, rels
  <2>2. parses(existing)
    <3>1. PICK i \in DOMAIN rels : existing = rels[i]
      BY <1>2, ByIdIs DEF HasId, rels
    <3> QED
      BY <2>1, <3>1
  <2>3. \A new \in {c.sourceMult, c.targetMult} : new = NoMultiplicity \/ IsParsed(new)
    BY <1>10 DEF Decodes, IsParsed
  <2>4. parses(changed)
    <3>1. /\ changed.source.mult = mult(existing.source.mult, c.sourceMult)
          /\ changed.target.mult = mult(existing.target.mult, c.targetMult)
      <4> HIDE DEF existing, mult
      <4>1. existing \in RelationshipType
        BY <1>3
      <4> QED
        BY <4>1 DEF changed, RelationshipType, EndType
    <3> QED
      BY <2>2, <2>3, <3>1
  <2> HIDE DEF parses
  <2>5. \A i \in DOMAIN updated : parses(updated[i])
    BY <1>6, <2>1, <2>4
  <2> QED
    BY <1>1, <2>5 DEF MultiplicitiesParse, parses
<1> QED
  BY <1>1, <1>8, <1>9, <1>10 DEF RelsKept, DistinctRelIds, rels, next

LEMMA HandleRels ==
  ASSUME NEW m, IsModel(m), DistinctRelIds(m), NEW c, IsCommand(c),
         c.type = "AddRelationship" => c.rel.id \notin IdsOf(m.rels)
  PROVE  RelsKept(m, c, Handle(m, c))
<1>1. CASE c.type \in {"AddClass", "RenameClass", "AddAttribute", "RemoveAttribute",
                       "AddOperation", "RemoveOperation", "SetGenerationProfile"}
  <2>1. Handle(m, c) \in {AddClass(m, c), RenameClass(m, c), AddAttribute(m, c),
                          RemoveAttribute(m, c), AddOperation(m, c), RemoveOperation(m, c),
                          SetGenerationProfile(m, c)}
    BY <1>1 DEF Handle
  <2>2. /\ AddClass(m, c).rels = m.rels /\ RenameClass(m, c).rels = m.rels
        /\ AddAttribute(m, c).rels = m.rels /\ RemoveAttribute(m, c).rels = m.rels
    BY DEF IsModel, AddClass, RenameClass, AddAttribute, RemoveAttribute
  <2>3. /\ AddOperation(m, c).rels = m.rels /\ RemoveOperation(m, c).rels = m.rels
        /\ SetGenerationProfile(m, c).rels = m.rels
    BY DEF IsModel, AddOperation, RemoveOperation, SetGenerationProfile
  <2>4. Handle(m, c).rels = m.rels
    BY <2>1, <2>2, <2>3
  <2> QED
    BY <2>4, SameRelsKept
<1>2. CASE c.type = "RemoveClass"
  <2>1. Handle(m, c) = RemoveClass(m, c)
    BY <1>2 DEF Handle
  <2>2. CASE HasId(m.classes, c.id)
    <3> DEFINE kept == {r \in ToSet(m.rels) : c.id \notin {r.source.cls, r.target.cls}}
               next == RemoveClass(m, c)
    <3>1. next.rels = Only(m.rels, kept)
      BY <2>2 DEF RemoveClass, Filter, IsModel
    <3> HIDE DEF kept, next
    <3>2. m.rels \in Seq(RelationshipType)
      BY DEF IsModel
    <3>3. next.rels \in Seq(RelationshipType) /\ \E at : Picks(next.rels, m.rels, at)
      BY <3>1, <3>2, OnlyPicks
    <3> QED
      BY <2>1, <3>2, <3>3, PickedRelsKept DEF next
  <2>3. CASE ~HasId(m.classes, c.id)
    BY <2>3, <2>1, SameRelsKept DEF RemoveClass
  <2> QED
    BY <2>2, <2>3
<1>3. CASE c.type = "AddRelationship"
  BY <1>3, AddedRelKept DEF Handle
<1>4. CASE c.type = "RemoveRelationship"
  <2> DEFINE next == RemoveRelationship(m, c)
  <2>1. Handle(m, c) = next
    BY <1>4 DEF Handle
  <2>2. next.rels = Without(m.rels, c.id)
    BY DEF RemoveRelationship, IsModel
  <2>3. m.rels \in Seq(RelationshipType)
    BY DEF IsModel
  <2> HIDE DEF next
  <2>4. next.rels \in Seq(RelationshipType) /\ \E at : Picks(next.rels, m.rels, at)
    BY <2>2, <2>3, WithoutIs
  <2> QED
    BY <2>1, <2>3, <2>4, PickedRelsKept
<1>5. CASE c.type = "UpdateRelationship"
  BY <1>5, UpdatedRelKept, SameRelsKept DEF Handle, UpdateRelationship
<1> QED
  BY <1>1, <1>2, <1>3, <1>4, <1>5 DEF IsCommand, CommandTypes, Additions

LEMMA HandleFollows ==
  ASSUME NEW m, IsSound(m), NEW c, IsCommand(c),
         Gate(m, c) = "ok" \/ (c.type \in Additions /\ Decodes(c)),
         c.type = "AddClass" => c.id \notin LiveIds(m),
         c.type = "AddRelationship" => c.rel.id \notin IdsOf(m.rels)
  PROVE  /\ Follows(m, c, Handle(m, c)) /\ IsSound(Handle(m, c))
         /\ IdsOf(Handle(m, c).rels) \subseteq IdsOf(m.rels) \cup DrawnBy(c)
<1>1. Follows(m, c, Handle(m, c))
  <2>1. CASE c.type = "AddClass"
    BY <2>1, AddClassFollows DEF Handle
  <2>2. CASE c.type = "RemoveClass"
    BY <2>2, RemoveClassFollows, SameFollows DEF Handle, RemoveClass
  <2>3. CASE c.type = "RenameClass"
    BY <2>3, RenameClassFollows DEF Handle, IsCommand
  <2>4. CASE c.type = "AddAttribute"
    BY <2>4, AddAttributeFollows DEF Handle
  <2>5. CASE c.type = "RemoveAttribute"
    BY <2>5, RemoveAttributeFollows DEF Handle
  <2>6. CASE c.type = "AddOperation"
    BY <2>6, AddOperationFollows DEF Handle, IsCommand
  <2>7. CASE c.type = "RemoveOperation"
    BY <2>7, RemoveOperationFollows DEF Handle
  <2>8. CASE c.type = "AddRelationship"
    BY <2>8, RelsFollow DEF Handle, AddRelationship, IsSound, IsModel
  <2>9. CASE c.type = "RemoveRelationship"
    BY <2>9, RelsFollow DEF Handle, RemoveRelationship, IsSound, IsModel
  <2>10. CASE c.type = "UpdateRelationship"
    BY <2>10, RelsFollow DEF Handle, UpdateRelationship, IsSound, IsModel
  <2>11. CASE c.type = "SetGenerationProfile"
    BY <2>11, SetGenerationProfileFollows DEF Handle, Gate, Decodes, Additions
  <2> QED
    BY <2>1, <2>2, <2>3, <2>4, <2>5, <2>6, <2>7, <2>8, <2>9, <2>10, <2>11
    DEF IsCommand, CommandTypes, Additions
<1>2. RelsKept(m, c, Handle(m, c)) /\ Decodes(c)
  BY HandleRels DEF IsSound, Gate
<1> QED
  BY <1>1, <1>2, HandleTyped DEF IsSound, Follows, RelsKept

(* Commands applied one after the other: Play, and Batch while every       *)
(* command passes its gate.  c is the list of commands.                    *)

LEMMA FreshDraws ==
  ASSUME NEW m, NEW commands, DrawFreshIds(commands, m)
  PROVE  \A id \in LiveIds(m) \cup IdsOf(m.rels) : ~DrawsLater(commands, 0, id)
BY DEF LiveIds, DrawFreshIds, IdsInUse, DrawsLater

LEMMA SoundNext ==
  ASSUME NEW commands, AreCommands(commands), NEW model0, DrawFreshIds(commands, model0),
         NEW i \in 1..Len(commands), NEW m, SoundSoFar(commands, i - 1, m),
         \/ Gate(m, commands[i]) = "ok"
         \/ commands[i].type \in Additions /\ Decodes(commands[i])
  PROVE  SoundSoFar(commands, i, Handle(m, commands[i]))
<1> DEFINE c == commands[i]
           m2 == Handle(m, c)
<1>1. i \in DOMAIN commands /\ IsCommand(c) /\ IsSound(m) /\ i \in Nat
      /\ DOMAIN commands \subseteq Int
  BY DEF AreCommands, SoundSoFar
<1>2. c.type \in Additions => DrawnId(c) \notin LiveIds(m) \cup IdsOf(m.rels)
  BY <1>1 DEF SoundSoFar, DrawsLater
<1>3. /\ c.type = "AddClass" => c.id \notin LiveIds(m)
      /\ c.type = "AddRelationship" => c.rel.id \notin IdsOf(m.rels)
  BY <1>2 DEF DrawnId, Additions
<1>4. /\ Follows(m, c, m2) /\ IsSound(m2)
      /\ IdsOf(m2.rels) \subseteq IdsOf(m.rels) \cup DrawnBy(c)
  BY <1>1, <1>3, HandleFollows
<1>5. ASSUME NEW id \in LiveIds(m2) \cup IdsOf(m2.rels), DrawsLater(commands, i, id) PROVE FALSE
  <2>1. PICK j \in DOMAIN commands :
          j > i /\ commands[j].type \in Additions /\ DrawnId(commands[j]) = id
    BY <1>5 DEF DrawsLater
  <2>2. CASE id \in LiveIds(m) \cup IdsOf(m.rels)
    BY <1>1, <2>1, <2>2 DEF DrawsLater, SoundSoFar
  <2>3. CASE c.type \in Additions /\ id = DrawnId(c)
    BY <1>1, <2>1, <2>3 DEF DrawFreshIds
  <2> HIDE DEF c, m2
  <2> QED
    BY <1>4, <1>5, <2>2, <2>3 DEF Follows, DrawnBy
<1> QED
  BY <1>4, <1>5 DEF SoundSoFar

LEMMA EmptyIsSound ==
  IsSound(EmptyModel) /\ LiveIds(EmptyModel) \cup IdsOf(EmptyModel.rels) = {}
<1>1. IsModel(EmptyModel)
  BY DEF EmptyModel, IsModel
<1>2. /\ DistinctClassIds(EmptyModel) /\ DistinctRelIds(EmptyModel)
      /\ HasLiveProfiles(EmptyModel)
  BY DEF EmptyModel, DistinctClassIds, DistinctRelIds, HasLiveProfiles
<1>a. MultiplicitiesParse(EmptyModel)
  BY DEF EmptyModel, MultiplicitiesParse
<1>3. LiveIds(EmptyModel) \cup IdsOf(EmptyModel.rels) = {}
  BY DEF LiveIds, EmptyModel, IdsOf, AttributeIds
<1> QED
  BY <1>1, <1>2, <1>3, <1>a DEF IsSound

LEMMA PlaySound ==
  ASSUME NEW commands, AreCommands(commands), DrawFreshIds(commands, EmptyModel),
         \A i \in DOMAIN commands : commands[i].type \in Additions /\ Decodes(commands[i])
  PROVE  IsSound(Play(EmptyModel, commands))
<1> DEFINE n == Len(commands)
<1>1. n \in Nat /\ DOMAIN commands = 1..n
  BY DEF AreCommands
<1>2. SoundSoFar(commands, 0, EmptyModel)
  BY EmptyIsSound DEF SoundSoFar
<1>3. \A i \in 1..n : \A m : SoundSoFar(commands, i-1, m) =>
        SoundSoFar(commands, i, PlayNext(commands, m, commands[i]))
  <2> SUFFICES ASSUME NEW i \in 1..n, NEW m, SoundSoFar(commands, i-1, m)
               PROVE  SoundSoFar(commands, i, Handle(m, commands[i]))
    BY DEF PlayNext
  <2> QED
    BY <1>1, SoundNext
<1>4. Play(EmptyModel, commands) = Fold(FoldOf("Play", commands), EmptyModel, commands)
  BY DEF Play, Fold, FoldOf, Combine, Max,
         PlayNext, FoldLeft, MapThenFoldSet
<1> HIDE DEF n
<1>5. SoundSoFar(commands, n, Fold(FoldOf("Play", commands), EmptyModel, commands))
  <2> DEFINE fold == FoldOf("Play", commands)
  <2>1. \A a, e : Combine(fold, a, e) = PlayNext(commands, a, e)
    BY DEF Combine, FoldOf
  <2>2. \A k, a : Holds(fold, k, a) <=> SoundSoFar(commands, k, a)
    BY DEF Holds, FoldOf
  <2> HIDE DEF fold
  <2>3. Holds(fold, 0, EmptyModel) /\ \A i \in 1..n : \A a :
          Holds(fold, i-1, a) => Holds(fold, i, Combine(fold, a, commands[i]))
    BY <1>1, <1>2, <1>3, <2>1, <2>2
  <2>4. SoundSoFar(commands, n, Fold(fold, EmptyModel, commands))
    BY <1>1, <1>2, <1>3, <2>2, <2>3, FoldInduction
  <2> QED
    BY <2>4 DEF fold
<1> QED
  BY <1>4, <1>5 DEF SoundSoFar

LEMMA BatchSound ==
  ASSUME NEW m, IsSound(m), NEW commands, AreCommands(commands), DrawFreshIds(commands, m),
         Batch(m, commands).verdict = "ok"
  PROVE  IsSound(Batch(m, commands).model)
<1> DEFINE n == Len(commands)
           base == [verdict |-> "ok", model |-> m]
<1>1. n \in Nat /\ DOMAIN commands = 1..n
  BY DEF AreCommands
<1>2. BatchSoFar(commands, 0, base)
  BY FreshDraws DEF BatchSoFar, SoundSoFar
<1>3. \A i \in 1..n : \A done : BatchSoFar(commands, i-1, done) =>
        BatchSoFar(commands, i, BatchNext(commands, done, commands[i]))
  <2> SUFFICES ASSUME NEW i \in 1..n, NEW done, BatchSoFar(commands, i-1, done)
               PROVE  BatchSoFar(commands, i, BatchNext(commands, done, commands[i]))
    OBVIOUS
  <2>1. CASE done.verdict # "ok"
    BY <2>1 DEF BatchSoFar, BatchNext
  <2>2. CASE done.verdict = "ok"
    BY <2>2, <1>1, SoundNext DEF BatchSoFar, BatchNext
  <2> QED
    BY <2>1, <2>2
<1>4. Batch(m, commands) = Fold(FoldOf("Batch", commands), base, commands)
  BY DEF Batch, Fold, FoldOf, Combine, Max,
         BatchNext, FoldLeft, MapThenFoldSet
<1> HIDE DEF n, base
<1>5. BatchSoFar(commands, n, Fold(FoldOf("Batch", commands), base, commands))
  <2> DEFINE fold == FoldOf("Batch", commands)
  <2>1. \A a, e : Combine(fold, a, e) = BatchNext(commands, a, e)
    BY DEF Combine, FoldOf
  <2>2. \A k, a : Holds(fold, k, a) <=> BatchSoFar(commands, k, a)
    BY DEF Holds, FoldOf
  <2> HIDE DEF fold
  <2>3. Holds(fold, 0, base) /\ \A i \in 1..n : \A a :
          Holds(fold, i-1, a) => Holds(fold, i, Combine(fold, a, commands[i]))
    BY <1>1, <1>2, <1>3, <2>1, <2>2
  <2>4. BatchSoFar(commands, n, Fold(fold, base, commands))
    BY <1>1, <1>2, <1>3, <2>2, <2>3, FoldInduction
  <2> QED
    BY <2>4 DEF fold
<1> QED
  BY <1>4, <1>5 DEF BatchSoFar, SoundSoFar

LEMMA MemberIdIs ==
  ASSUME StringFacts, NEW owner \in STRING, NEW kind \in {"a", "o", "l"}, NEW i \in Nat
  PROVE  MemberId(owner, kind, i) \in STRING
BY Zenon DEF StringFacts, StringFactsFor

LEMMA LastSelectedIs ==
  ASSUME NEW S, NEW seq \in Seq(S), NEW I, I = {i \in 1..Len(seq) : i \in I},
         NEW at, at = IF I # {} THEN Max(I) ELSE 0
  PROVE  at \in Nat /\ (at = 0 \/ at \in I) /\ (at = 0 <=> I = {})
<1>1. I \in SUBSET (1..Len(seq)) /\ Len(seq) \in Nat
  OBVIOUS
<1>2. I # {} => Max(I) \in I
  BY <1>1, MaxOf
<1> QED
  BY <1>1, <1>2

(* What a file brings.                                                     *)
LEMMA ElementsRead ==
  ASSUME NEW file, IsFile(file)
  PROVE  /\ ReadableClasses(file) \in Seq(ElementType)
         /\ ClassesIn(file) \in Seq(ElementType) /\ EnumsIn(file) \in Seq(ElementType)
         /\ \A i, j \in DOMAIN ClassesIn(file) :
              ClassesIn(file)[i].xid = ClassesIn(file)[j].xid => i = j
<1>1. file.classes \in Seq(ElementType)
  BY DEF IsFile
<1>2. /\ ReadableClasses(file) \in Seq(ElementType)
      /\ \E at : Picks(ReadableClasses(file), file.classes, at)
  BY <1>1, OnlyPicks DEF ReadableClasses, Filter
<1>3. /\ ClassesIn(file) \in Seq(ElementType)
      /\ \E at : Picks(ClassesIn(file), ReadableClasses(file), at)
  BY <1>2, OnlyPicks DEF ClassesIn, Filter
<1>4. EnumsIn(file) \in Seq(ElementType)
  BY <1>2, OnlyPicks DEF EnumsIn, Filter
<1>5. PICK at : Picks(ReadableClasses(file), file.classes, at)
  BY <1>2
<1>6. PICK to : Picks(ClassesIn(file), ReadableClasses(file), to)
  BY <1>3
<1>7. \A i, j \in DOMAIN file.classes : file.classes[i].xid = file.classes[j].xid => i = j
  BY DEF IsFile, IsInjective
<1> DEFINE read == ReadableClasses(file)
           classes == ClassesIn(file)
<1>8. /\ DOMAIN file.classes = 1..Len(file.classes) /\ DOMAIN read = 1..Len(read)
      /\ DOMAIN classes = 1..Len(classes)
      /\ Len(read) \in Nat /\ Len(classes) \in Nat
  BY <1>1, <1>2, <1>3
<1> HIDE DEF read, classes
<1>9. \A i, j \in DOMAIN read : read[i].xid = read[j].xid => i = j
  <2> SUFFICES ASSUME NEW i \in 1..Len(read), NEW j \in 1..Len(read), read[i].xid = read[j].xid
               PROVE  i = j
    BY <1>8
  <2>1. /\ at[i] \in DOMAIN file.classes /\ read[i] = file.classes[at[i]]
        /\ at[j] \in DOMAIN file.classes /\ read[j] = file.classes[at[j]]
    BY <1>5, <1>8 DEF Picks, read
  <2>2. at[i] = at[j]
    BY <1>7, <2>1
  <2> QED
    BY <1>5, <1>8, <2>2, PicksApart DEF read
<1>10. \A i, j \in DOMAIN classes : classes[i].xid = classes[j].xid => i = j
  <2> SUFFICES ASSUME NEW i \in 1..Len(classes), NEW j \in 1..Len(classes),
                      classes[i].xid = classes[j].xid
               PROVE  i = j
    BY <1>8
  <2>1. to[i] = to[j]
    BY <1>6, <1>8, <1>9 DEF Picks, read, classes
  <2>2. to[i] \in 1..Len(read) /\ to[j] \in 1..Len(read) /\ i \in Nat /\ j \in Nat
    BY <1>6, <1>8 DEF Picks, read, classes
  <2> QED
    BY <1>6, <2>1, <2>2 DEF Picks, read, classes
<1> QED
  BY <1>2, <1>3, <1>4, <1>10 DEF classes

LEMMA ImportedIdIs ==
  ASSUME StringFacts, NEW elements \in Seq(ElementType), NEW kind \in {"xc", "xe"}, NEW xid
  PROVE  /\ ImportedId(elements, kind, xid) \in STRING
         /\ \E p \in Nat : /\ ImportedId(elements, kind, xid) = NewId(kind, p)
                           /\ xid \in XidsOf(elements) =>
                                p \in DOMAIN elements /\ elements[p].xid = xid
<1> DEFINE I == {i \in 1..Len(elements) : elements[i].xid = xid}
           p == IF I # {} THEN Min(I) ELSE 0
<1>1. ImportedId(elements, kind, xid) = NewId(kind, p)
  BY DEF ImportedId, SelectInSeq
<1>2. I = {i \in 1..Len(elements) : i \in I}
  OBVIOUS
<1>3. p \in Nat /\ (p = 0 \/ p \in I) /\ (p = 0 <=> I = {})
  <2> HIDE DEF I
  <2> QED
    BY <1>2, SelectedIs
<1>4. xid \in XidsOf(elements) => I # {}
  BY DEF XidsOf
<1>5. xid \in XidsOf(elements) => p \in DOMAIN elements /\ elements[p].xid = xid
  BY <1>3, <1>4
<1> HIDE DEF p
<1>6. NewId(kind, p) \in STRING
  BY <1>3 DEF StringFacts, StringFactsFor
<1> QED
  BY <1>1, <1>3, <1>5, <1>6

LEMMA ResolvedTypeIs ==
  ASSUME StringFacts, NEW file, IsFile(file), NEW feature, ResolveType(feature, file).tag # "none"
  PROVE  ResolveType(feature, file) \in [tag : PrimitiveTypes \cup {"ENUM"}, enum : STRING]
<1> DEFINE enums == EnumsIn(file)
           classes == ClassesIn(file)
           typed == IF feature.typeRef \in DOMAIN file.datatypes
                      THEN file.datatypes[feature.typeRef] ELSE feature.typeName
           I == {i \in 1..Len(enums) : enums[i].name = typed}
           last == IF I # {} THEN Max(I) ELSE 0
<1>1. enums \in Seq(ElementType)
  BY ElementsRead
<1>2. ImportedId(enums, "xe", feature.typeRef) \in STRING
  BY <1>1, ImportedIdIs
<1>3. NewId("xe", SelectLastInSeq(enums, LAMBDA e : e.name = typed)) = NewId("xe", last)
  BY DEF SelectLastInSeq
<1>4. last \in Nat
  <2>1. I = {i \in 1..Len(enums) : i \in I}
    OBVIOUS
  <2> HIDE DEF I, enums
  <2> QED
    BY <1>1, <2>1, LastSelectedIs
<1> HIDE DEF last
<1>5. NewId("xe", last) \in STRING
  BY <1>4 DEF StringFacts, StringFactsFor
<1>6. PrimitiveNamed(typed) \in PrimitiveTypes
  BY DEF PrimitiveNamed, PrimitiveTypes
<1>7. NoId \in STRING
  BY DEF NoId, StringFacts, StringFactsFor
<1> DEFINE toEnum == EnumRef(ImportedId(enums, "xe", feature.typeRef))
           byName == EnumRef(NewId("xe", SelectLastInSeq(enums, LAMBDA e : e.name = typed)))
           plain  == Primitive(PrimitiveNamed(typed))
<1>8. ResolveType(feature, file) \in {toEnum, byName, plain, Primitive("none")}
  BY DEF ResolveType
<1>9. toEnum \in [tag : PrimitiveTypes \cup {"ENUM"}, enum : STRING]
  BY <1>2 DEF EnumRef
<1>10. byName \in [tag : PrimitiveTypes \cup {"ENUM"}, enum : STRING]
  BY <1>3, <1>5 DEF EnumRef
<1>11. plain \in [tag : PrimitiveTypes \cup {"ENUM"}, enum : STRING]
  <2> HIDE DEF typed
  <2> QED
    BY <1>6, <1>7 DEF Primitive
<1>12. ResolveType(feature, file) # Primitive("none")
  BY DEF Primitive
<1> HIDE DEF toEnum, byName, plain
<1> QED
  BY <1>8, <1>9, <1>10, <1>11, <1>12

LEMMA ImportedClassIs ==
  ASSUME StringFacts, NEW file, IsFile(file), NEW c \in ElementType
  PROVE  /\ ImportClass(c, file) \in ClassType
         /\ ImportClass(c, file).id = ImportedId(ClassesIn(file), "xc", c.xid)
<1> DEFINE id == ImportedId(ClassesIn(file), "xc", c.xid)
           attrs == Filter(c.features, LAMBDA f :
                      f.kind = "Attribute" /\ ResolveType(f, file).tag # "none")
           ops == Filter(c.features, LAMBDA f : f.kind = "Operation")
<1>1. id \in STRING
  BY ElementsRead, ImportedIdIs
<1> HIDE DEF id
<1>2. c.features \in Seq(FeatureType) /\ c.name \in NameType
  BY DEF ElementType
<1>3. /\ attrs \in Seq(FeatureType)
      /\ ToSet(attrs) = ToSet(c.features) \cap
           {f \in ToSet(c.features) : f.kind = "Attribute" /\ ResolveType(f, file).tag # "none"}
  BY <1>2, OnlyPicks DEF Filter
<1>4. ops \in Seq(FeatureType)
  BY <1>2, OnlyPicks DEF Filter
<1> HIDE DEF attrs, ops
<1>5. ImportAttributes(c, id, file) \in Seq(AttributeType)
  <2>1. ImportAttributes(c, id, file) =
          [i \in DOMAIN attrs |->
             [id |-> MemberId(id, "a", i), name |-> attrs[i].name,
              type |-> ResolveType(attrs[i], file)]]
    BY DEF ImportAttributes, attrs
  <2>3. DOMAIN attrs = 1..Len(attrs) /\ Len(attrs) \in Nat
    BY <1>3
  <2>2. ASSUME NEW i \in 1..Len(attrs)
        PROVE  [id |-> MemberId(id, "a", i), name |-> attrs[i].name,
                type |-> ResolveType(attrs[i], file)] \in AttributeType
    <3>1. MemberId(id, "a", i) \in STRING
      BY <2>3, <1>1, MemberIdIs
    <3>2. attrs[i].name \in NameType
      <4>1. attrs[i] \in FeatureType
        BY <1>3, <2>3
      <4> QED
        BY <4>1 DEF FeatureType
    <3>3. ResolveType(attrs[i], file).tag # "none"
      BY <1>3, <2>3 DEF ToSet
    <3>4. ResolveType(attrs[i], file) \in [tag : PrimitiveTypes \cup {"ENUM"}, enum : STRING]
      BY <3>3, ResolvedTypeIs
    <3> QED
      BY <3>1, <3>2, <3>4 DEF AttributeType
  <2>4. ImportAttributes(c, id, file) \in [1..Len(attrs) -> AttributeType]
    BY <2>1, <2>2, <2>3
  <2> QED
    BY <2>3, <2>4, FunctionIsSeq
<1>6. ImportOperations(c, id) \in Seq(OperationType)
  <2>1. ImportOperations(c, id) =
          [i \in DOMAIN ops |-> [id |-> MemberId(id, "o", i), name |-> ops[i].name]]
    BY DEF ImportOperations, ops
  <2>3. DOMAIN ops = 1..Len(ops) /\ Len(ops) \in Nat
    BY <1>4
  <2>2. ASSUME NEW i \in 1..Len(ops)
        PROVE  [id |-> MemberId(id, "o", i), name |-> ops[i].name] \in OperationType
    <3>1. MemberId(id, "o", i) \in STRING
      BY <2>3, <1>1, MemberIdIs
    <3>2. ops[i].name \in NameType
      <4>1. ops[i] \in FeatureType
        BY <1>4, <2>3
      <4> QED
        BY <4>1 DEF FeatureType
    <3> QED
      BY <3>1, <3>2 DEF OperationType
  <2>4. ImportOperations(c, id) \in [1..Len(ops) -> OperationType]
    BY <2>1, <2>2, <2>3
  <2> QED
    BY <2>3, <2>4, FunctionIsSeq
<1>7. ImportClass(c, file) = [id |-> id, name |-> c.name, attrs |-> ImportAttributes(c, id, file),
                              ops |-> ImportOperations(c, id)]
  BY DEF ImportClass, id
<1>8. ImportClass(c, file) \in ClassType
  BY <1>1, <1>2, <1>5, <1>6, <1>7 DEF ClassType
<1> QED
  BY <1>7, <1>8 DEF id

LEMMA ImportedClassesAre ==
  ASSUME StringFacts, NEW file, IsFile(file)
  PROVE  /\ ImportedClasses(file) \in Seq(ClassType)
         /\ \A i, j \in DOMAIN ImportedClasses(file) :
              ImportedClasses(file)[i].id = ImportedClasses(file)[j].id => i = j
<1> DEFINE all == ClassesIn(file)
           kept == Filter(all, LAMBDA c : ~IsHidden(c, ImportClass(c, file), file))
           out == ImportedClasses(file)
<1>1. all \in Seq(ElementType) /\ \A i, j \in DOMAIN all : all[i].xid = all[j].xid => i = j
  BY ElementsRead
<1>2. kept \in Seq(ElementType) /\ \E at : Picks(kept, all, at)
  <2> HIDE DEF all
  <2> QED
    BY <1>1, OnlyPicks DEF Filter
<1>3. out = [i \in DOMAIN kept |-> ImportClass(kept[i], file)]
  BY DEF ImportedClasses
<1> HIDE DEF all, kept, out
<1>4. DOMAIN kept = 1..Len(kept) /\ Len(kept) \in Nat /\ DOMAIN all = 1..Len(all)
  BY <1>1, <1>2
<1>5. ASSUME NEW i \in 1..Len(kept)
      PROVE  kept[i] \in ElementType /\ ImportClass(kept[i], file) \in ClassType
  BY <1>2, <1>4, ImportedClassIs
<1>6. out \in [1..Len(kept) -> ClassType]
  BY <1>3, <1>4, <1>5
<1>7. out \in Seq(ClassType) /\ DOMAIN out = 1..Len(kept)
  BY <1>4, <1>6, FunctionIsSeq
<1>8. PICK at : Picks(kept, all, at)
  BY <1>2
<1>9. ASSUME NEW i \in 1..Len(kept), NEW j \in 1..Len(kept), out[i].id = out[j].id
      PROVE  i = j
  <2>1. /\ out[i].id = ImportedId(all, "xc", kept[i].xid)
        /\ out[j].id = ImportedId(all, "xc", kept[j].xid)
    BY <1>3, <1>4, <1>5, ImportedClassIs DEF all
  <2>2. /\ at[i] \in DOMAIN all /\ kept[i] = all[at[i]]
        /\ at[j] \in DOMAIN all /\ kept[j] = all[at[j]]
    BY <1>4, <1>8 DEF Picks
  <2>3. kept[i].xid \in XidsOf(all) /\ kept[j].xid \in XidsOf(all)
    BY <2>2 DEF XidsOf
  <2>4. PICK p \in Nat : out[i].id = NewId("xc", p) /\ p \in DOMAIN all /\ all[p].xid = kept[i].xid
    BY <1>1, <2>1, <2>3, ImportedIdIs
  <2>5. PICK q \in Nat : out[j].id = NewId("xc", q) /\ q \in DOMAIN all /\ all[q].xid = kept[j].xid
    BY <1>1, <2>1, <2>3, ImportedIdIs
  <2>6. p = q
    BY <1>9, <2>4, <2>5 DEF StringFacts, StringFactsFor
  <2>7. at[i] = at[j]
    BY <1>1, <2>2, <2>4, <2>5, <2>6
  <2>8. at[i] \in Nat /\ at[j] \in Nat /\ i \in Nat /\ j \in Nat
    BY <1>4, <2>2
  <2> QED
    BY <1>8, <2>7, <2>8 DEF Picks
<1> QED
  BY <1>7, <1>9 DEF out

LEMMA EndIs ==
  ASSUME NEW cls \in STRING, NEW mult \in MultiplicityType, NEW role \in NameType
  PROVE  End(cls, mult, role) \in EndType
BY DEF End, EndType

LEMMA ParsedMultiplicityIs ==
  ASSUME NEW text \in Seq(Int), Len(text) \in Nat \ {0}
  PROVE  ParseMultiplicity(text) \in MultiplicityType
BY DEF ParseMultiplicity, Multiplicity, MultiplicityType

LEMMA NamesAre ==
  NoName \in NameType /\ Unset \in NameType /\ Spaces \in NameType
BY DEF NoName, Unset, Spaces, Name, NameType, Forms

LEMMA ImportedMultiplicityIs ==
  /\ Multiplicity(1, 1) \in MultiplicityType /\ IsParsed(Multiplicity(1, 1))
  /\ \A text \in Seq(Int) : /\ ImportedMultiplicity(text) \in MultiplicityType
                            /\ IsParsed(ImportedMultiplicity(text))
<1>1. ASSUME NEW l \in Int, l # Unbounded, NEW u \in Int
      PROVE  Multiplicity(l, u) \in MultiplicityType /\ IsParsed(Multiplicity(l, u))
  BY <1>1 DEF Multiplicity, MultiplicityType, IsParsed, ParsesAsMultiplicity, FormatMultiplicity
<1>2. 1 # Unbounded /\ 0 # Unbounded /\ Unbounded \in Int
  BY DEF Unbounded
<1>3. ASSUME NEW text \in Seq(Int), ParsesAsMultiplicity(text)
      PROVE  text[1] \in Int /\ text[1] # Unbounded /\ text[Len(text)] \in Int
  BY <1>3 DEF ParsesAsMultiplicity
<1> QED
  BY <1>1, <1>2, <1>3 DEF ImportedMultiplicity, ParseMultiplicity

LEMMA ImportedLinkIs ==
  ASSUME StringFacts, NEW file, IsFile(file)
  PROVE  /\ \A g : ImportGeneralization(g, file) \in LinkType
         /\ \A a \in AssociationType : Len(a.ends) = 2 => ImportAssociation(a, file) \in LinkType
<1> DEFINE classes == ClassesIn(file)
<1>1. \A xid : ImportedId(classes, "xc", xid) \in STRING
  BY ElementsRead, ImportedIdIs
<1> HIDE DEF classes
<1>2. ASSUME NEW kind \in RelationshipKinds, NEW name \in NameType,
             NEW e \in EndType, NEW f \in EndType, IsParsed(e.mult), IsParsed(f.mult)
      PROVE  [kind |-> kind, source |-> e, target |-> f, name |-> name] \in LinkType
  BY <1>2 DEF LinkType
<1>3. ASSUME NEW g PROVE ImportGeneralization(g, file) \in LinkType
  <2>1. \A xid : LET e == End(ImportedId(classes, "xc", xid), Multiplicity(1, 1), NoName)
                 IN  e \in EndType /\ IsParsed(e.mult)
    BY <1>1, ImportedMultiplicityIs, EndIs, NamesAre DEF End
  <2> QED
    BY <1>2, <2>1, NamesAre DEF ImportGeneralization, RelationshipKinds, classes
<1>4. ASSUME NEW a \in AssociationType, Len(a.ends) = 2
      PROVE  ImportAssociation(a, file) \in LinkType
  <2> DEFINE end(i) == End(ImportedId(classes, "xc", a.ends[i].ref),
                           ImportedMultiplicity(a.ends[i].mult), a.ends[i].role)
             whole(i) == IsWhole(a.ends, i, file.dialect)
             first == IF whole(1) \/ ~whole(2) THEN 1 ELSE 2
             kind == IF whole(1) \/ whole(2) THEN RawKind(a.ends, first, file.dialect)
                     ELSE "association"
  <2>1. a.ends \in Seq(AssociationEndType) /\ a.name \in NameType
    BY DEF AssociationType
  <2>2. ASSUME NEW i \in {1, 2} PROVE end(i) \in EndType /\ IsParsed(end(i).mult)
    <3>1. a.ends[i] \in AssociationEndType
      BY <1>4, <2>1
    <3>2. a.ends[i].mult \in Seq(Int) /\ a.ends[i].role \in NameType
      BY <3>1 DEF AssociationEndType
    <3>3. LET mult == ImportedMultiplicity(a.ends[i].mult)
          IN  mult \in MultiplicityType /\ IsParsed(mult)
      BY <3>2, ImportedMultiplicityIs
    <3>4. end(i).mult = ImportedMultiplicity(a.ends[i].mult)
      BY DEF End
    <3> QED
      BY <1>1, <3>2, <3>3, <3>4, EndIs
  <2>3. first \in {1, 2} /\ 3 - first \in {1, 2}
    OBVIOUS
  <2>4. kind \in RelationshipKinds
    BY DEF RawKind, RelationshipKinds
  <2>5. ImportAssociation(a, file) =
          [kind |-> kind, source |-> end(first), target |-> end(3 - first), name |-> a.name]
    BY DEF ImportAssociation, classes
  <2> HIDE DEF end, kind, first
  <2> QED
    BY <1>2, <2>1, <2>2, <2>3, <2>4, <2>5
<1> QED
  BY <1>3, <1>4

LEMMA ImportedRelationshipsAre ==
  ASSUME StringFacts, NEW file, IsFile(file)
  PROVE  /\ ImportedRelationships(file) \in Seq(RelationshipType)
         /\ \A i, j \in DOMAIN ImportedRelationships(file) :
              ImportedRelationships(file)[i].id = ImportedRelationships(file)[j].id => i = j
         /\ \A i \in DOMAIN ImportedRelationships(file) :
              LET r == ImportedRelationships(file)[i]
              IN  IsParsed(r.source.mult) /\ IsParsed(r.target.mult)
<1> DEFINE xids  == XidsOf(ClassesIn(file))
           heirs == Filter(file.generalizations, LAMBDA g : {g.child, g.parent} \subseteq xids)
           isLink(a) == Len(a.ends) = 2 /\ {a.ends[1].ref, a.ends[2].ref} \subseteq xids
           links == Filter(file.associations, LAMBDA a :
                      Len(a.ends) = 2 /\ {a.ends[1].ref, a.ends[2].ref} \subseteq xids)
           fromHeirs == [i \in DOMAIN heirs |-> ImportGeneralization(heirs[i], file)]
           fromLinks == [i \in DOMAIN links |-> ImportAssociation(links[i], file)]
           all == fromHeirs \o fromLinks
           out == ImportedRelationships(file)
<1>1. out = [i \in DOMAIN all |->
               [id |-> NewId("xr", i), kind |-> all[i].kind, name |-> all[i].name,
                source |-> all[i].source, target |-> all[i].target]]
  BY DEF ImportedRelationships
<1>2. Len(heirs) \in Nat /\ DOMAIN heirs = 1..Len(heirs)
  <2>1. heirs \in Seq([child : Xid, parent : Xid])
    BY FilterIs DEF Filter, IsFile
  <2> HIDE DEF heirs
  <2> QED
    BY <2>1
<1>3. /\ Len(links) \in Nat /\ DOMAIN links = 1..Len(links)
      /\ \A i \in DOMAIN links : links[i] \in AssociationType /\ Len(links[i].ends) = 2
  <2>1. /\ links \in Seq(AssociationType)
        /\ ToSet(links) = ToSet(file.associations) \cap {a \in ToSet(file.associations) : isLink(a)}
    BY OnlyPicks DEF Filter, IsFile
  <2> HIDE DEF links
  <2>2. Len(links) \in Nat /\ DOMAIN links = 1..Len(links)
    BY <2>1
  <2>3. \A i \in DOMAIN links : links[i] \in ToSet(links)
    BY DEF ToSet
  <2>4. \A i \in DOMAIN links : links[i] \in AssociationType
    BY <2>1, <2>2
  <2> QED
    BY <2>1, <2>2, <2>3, <2>4
<1> HIDE DEF heirs, links, isLink
<1>4. fromHeirs \in Seq(LinkType)
  <2>1. fromHeirs \in [1..Len(heirs) -> LinkType]
    BY <1>2, ImportedLinkIs
  <2> HIDE DEF fromHeirs
  <2> QED
    BY <1>2, <2>1, FunctionIsSeq
<1>5. fromLinks \in Seq(LinkType)
  <2>1. fromLinks \in [1..Len(links) -> LinkType]
    BY <1>3, ImportedLinkIs
  <2> HIDE DEF fromLinks
  <2> QED
    BY <1>3, <2>1, FunctionIsSeq
<1> HIDE DEF fromHeirs, fromLinks
<1>6. all \in Seq(LinkType)
  BY <1>4, <1>5, ConcatOf
<1> HIDE DEF all
<1>7. Len(all) \in Nat /\ DOMAIN all = 1..Len(all) /\ \A i \in 1..Len(all) : all[i] \in LinkType
  BY <1>6
<1>8. ASSUME NEW i \in 1..Len(all)
      PROVE  [id |-> NewId("xr", i), kind |-> all[i].kind, name |-> all[i].name,
              source |-> all[i].source, target |-> all[i].target] \in RelationshipType
  <2>1. NewId("xr", i) \in STRING
    <3>1. i \in Nat
      BY <1>7
    <3> QED
      BY <3>1, Zenon DEF StringFacts, StringFactsFor
  <2> QED
    BY <1>7, <2>1 DEF LinkType, RelationshipType
<1> HIDE DEF out
<1>9. out \in [1..Len(all) -> RelationshipType]
  BY <1>1, <1>7, <1>8
<1>10. \A i \in DOMAIN out : i \in Nat /\ out[i].id = NewId("xr", i)
  BY <1>1, <1>7
<1>11. \A i, j \in Nat : NewId("xr", i) = NewId("xr", j) => i = j
  BY Zenon DEF StringFacts, StringFactsFor
<1>12. \A i, j \in DOMAIN out : out[i].id = out[j].id => i = j
  BY <1>10, <1>11
<1>13. \A i \in DOMAIN out : IsParsed(out[i].source.mult) /\ IsParsed(out[i].target.mult)
  BY <1>1, <1>7 DEF LinkType
<1> QED
  BY <1>7, <1>9, <1>12, <1>13, FunctionIsSeq DEF out

LEMMA ImportedEnumerationIs ==
  ASSUME StringFacts, NEW e \in ElementType, NEW n \in Nat
  PROVE  ImportEnumeration(e, n) \in EnumerationType
<1> DEFINE id == NewId("xe", n)
           literals == [k \in DOMAIN e.features |->
                          [id |-> MemberId(id, "l", k), name |-> e.features[k].name,
                           value |-> NoName]]
<1>1. id \in STRING
  BY Zenon DEF StringFacts, StringFactsFor
<1>2. ImportEnumeration(e, n) = [id |-> id, name |-> e.name, literals |-> literals]
  BY DEF ImportEnumeration
<1> HIDE DEF id
<1>3. e.features \in Seq(FeatureType) /\ e.name \in NameType
  BY DEF ElementType
<1>4. Len(e.features) \in Nat /\ DOMAIN e.features = 1..Len(e.features)
  BY <1>3
<1>5. ASSUME NEW k \in 1..Len(e.features)
      PROVE  [id |-> MemberId(id, "l", k), name |-> e.features[k].name, value |-> NoName]
               \in LiteralType
  <2>1. k \in Nat
    BY <1>4
  <2>2. MemberId(id, "l", k) \in STRING
    BY <1>1, <2>1, MemberIdIs
  <2>3. e.features[k] \in FeatureType
    BY <1>3, <1>4
  <2>4. e.features[k].name \in NameType
    BY <2>3 DEF FeatureType
  <2> QED
    BY <2>2, <2>4, NamesAre DEF LiteralType
<1>6. literals \in [1..Len(e.features) -> LiteralType]
  BY <1>4, <1>5
<1> HIDE DEF literals
<1>7. literals \in Seq(LiteralType)
  BY <1>4, <1>6, FunctionIsSeq
<1> QED
  BY <1>1, <1>2, <1>3, <1>7 DEF EnumerationType

LEMMA ImportSound ==
  ASSUME StringFacts, NEW file, IsFile(file), ImportXmi(file).error = "none"
  PROVE  IsSound(ImportXmi(file).model)
<1> DEFINE classes == ImportedClasses(file)
           enums == EnumsIn(file)
           rels == ImportedRelationships(file)
           read == [i \in DOMAIN enums |-> ImportEnumeration(enums[i], i)]
           m == [classes |-> classes, rels |-> rels, meta |-> <<>>, enums |-> read]
<1>1. ImportXmi(file).model = m
  BY DEF ImportXmi, Imported
<1>2. /\ classes \in Seq(ClassType)
      /\ \A i, j \in DOMAIN classes : classes[i].id = classes[j].id => i = j
  BY ImportedClassesAre
<1>3. /\ rels \in Seq(RelationshipType)
      /\ \A i, j \in DOMAIN rels : rels[i].id = rels[j].id => i = j
      /\ \A i \in DOMAIN rels : IsParsed(rels[i].source.mult) /\ IsParsed(rels[i].target.mult)
  BY ImportedRelationshipsAre
<1>4. enums \in Seq(ElementType)
  BY ElementsRead
<1> HIDE DEF classes, enums, rels
<1>5. Len(enums) \in Nat /\ DOMAIN enums = 1..Len(enums)
      /\ \A i \in 1..Len(enums) : enums[i] \in ElementType /\ i \in Nat
  BY <1>4
<1>6. read \in [1..Len(enums) -> EnumerationType]
  BY <1>5, ImportedEnumerationIs
<1> HIDE DEF read
<1>7. read \in Seq(EnumerationType)
  BY <1>5, <1>6, FunctionIsSeq
<1>8. IsModel(m)
  BY <1>2, <1>3, <1>7 DEF IsModel
<1>9. DistinctClassIds(m) /\ DistinctRelIds(m) /\ MultiplicitiesParse(m)
  BY <1>2, <1>3 DEF DistinctClassIds, DistinctRelIds, MultiplicitiesParse
<1>10. HasLiveProfiles(m)
  <2>1. DOMAIN m.meta = {}
    OBVIOUS
  <2> HIDE DEF m
  <2> QED
    BY <2>1 DEF HasLiveProfiles
<1> HIDE DEF m
<1> QED
  BY <1>1, <1>8, <1>9, <1>10 DEF IsSound

(* The translator.  c has the diagram, the calls and the ids that are      *)
(* drawn for them.                                                         *)

LEMMA RegistryNamesStrings ==
  ASSUME NEW m, IsModel(m)
  PROVE  /\ NamesStrings(Registry(m)) /\ DOMAIN Registry(m) = Keys(m.classes)
         /\ \A key \in Keys(m.classes) : HasId(m.classes, Registry(m)[key])
<1>1. DOMAIN Registry(m) = Keys(m.classes)
  BY DEF Registry
<1>2. ASSUME NEW key \in Keys(m.classes)
      PROVE  Registry(m)[key] \in STRING /\ HasId(m.classes, Registry(m)[key])
  <2> DEFINE I == {i \in 1..Len(m.classes) : Key(m.classes[i].name) = key}
             last == IF I # {} THEN Max(I) ELSE 0
  <2>1. Registry(m)[key] = m.classes[last].id
    BY DEF Registry, SelectLastInSeq
  <2>2. m.classes \in Seq(ClassType)
    BY DEF IsModel
  <2>3. I = {i \in 1..Len(m.classes) : i \in I}
    OBVIOUS
  <2>4. I # {}
    BY <2>2 DEF Keys
  <2>5. last \in I
    <3> HIDE DEF I
    <3> QED
      BY <2>2, <2>3, <2>4, LastSelectedIs
  <2>6. last \in DOMAIN m.classes /\ m.classes[last] \in ClassType
    <3>1. I \subseteq DOMAIN m.classes
      BY <2>2
    <3> HIDE DEF I, last
    <3> QED
      BY <2>2, <2>5, <3>1
  <2> HIDE DEF last
  <2> QED
    BY <2>1, <2>6 DEF ClassType, HasId, IdsOf
<1> QED
  BY <1>1, <1>2 DEF NamesStrings

LEMMA RegisteredNamesStrings ==
  ASSUME NEW registry, NamesStrings(registry), NEW call, NEW id \in STRING
  PROVE  NamesStrings(Registered(registry, call, id))
BY DEF NamesStrings, Registered

LEMMA ResolvedIs ==
  ASSUME StringFacts, NEW registry, NamesStrings(registry), NEW name
  PROVE  Resolve(registry, name) \in STRING
BY DEF NamesStrings, Resolve, NoId, StringFacts, StringFactsFor

LEMMA TextIs ==
  ASSUME NEW text \in Seq(Int), text = <<>> \/ ParsesAsMultiplicity(text)
  PROVE  /\ Given(text) \in MultiplicityType
         /\ \A default \in {<<0, 1>>, <<0, Unbounded>>} :
              ParseMultiplicity(OrElse(text, default)) \in MultiplicityType
<1>1. text # <<>> => ParseMultiplicity(text) \in MultiplicityType
  BY ParsedMultiplicityIs DEF ParsesAsMultiplicity
<1>2. NoMultiplicity \in MultiplicityType
  BY DEF NoMultiplicity, Multiplicity, MultiplicityType, Unbounded
<1>3. /\ ParseMultiplicity(<<0, 1>>) \in MultiplicityType
      /\ ParseMultiplicity(<<0, Unbounded>>) \in MultiplicityType
  BY DEF ParseMultiplicity, Multiplicity, MultiplicityType, Unbounded
<1> QED
  BY <1>1, <1>2, <1>3, Zenon DEF Given, OrElse

LEMMA TranslatedIsCommand ==
  ASSUME StringFacts, NEW m, NEW registry, NamesStrings(registry),
         NEW call, IsCall(call), DecodableCall(call), NEW id \in STRING
  PROVE  IsCommand(CommandOf(m, registry, call, id))
<1> DEFINE command == CommandOf(m, registry, call, id)
<1>1. CASE call.fn = "add_class"
  <2>1. command = [type |-> "AddClass", id |-> id, name |-> call.name]
    BY <1>1 DEF CommandOf
  <2>2. call.name \in NameType
    BY <1>1 DEF IsCall, Tools
  <2> HIDE DEF command
  <2> QED
    BY <2>1, <2>2 DEF IsCommand, CommandTypes, Additions, command
<1>2. CASE call.fn \in {"remove_class", "remove_attribute", "remove_operation",
                        "remove_relationship"}
  <2>1. command.type \in {"RemoveClass", "RemoveAttribute", "RemoveOperation",
                          "RemoveRelationship"}
    BY <1>2 DEF CommandOf
  <2> HIDE DEF command
  <2>2. IsCommand(command)
    BY <2>1 DEF IsCommand, CommandTypes, Additions
  <2> QED
    BY <2>2 DEF command
<1>3. CASE call.fn = "rename_class"
  <2>1. command = [type |-> "RenameClass", id |-> Resolve(registry, call.cls), name |-> call.name]
    BY <1>3 DEF CommandOf
  <2>2. call.name \in NameType
    BY <1>3 DEF IsCall, Tools
  <2> HIDE DEF command
  <2> QED
    BY <2>1, <2>2 DEF IsCommand, CommandTypes, Additions, command
<1>4. CASE call.fn = "add_attribute"
  <2> DEFINE attr == [id |-> id, name |-> call.name, type |-> Primitive(call.type)]
  <2>1. command = [type |-> "AddAttribute", cls |-> Resolve(registry, call.cls), attr |-> attr]
    BY <1>4 DEF CommandOf
  <2>2. call.name \in NameType /\ call.type \in PrimitiveTypes /\ NoId \in STRING
    BY <1>4 DEF IsCall, Tools, DecodableCall, NoId, StringFacts, StringFactsFor
  <2>3. attr \in AttributeType
    BY <2>2 DEF AttributeType, Primitive
  <2> HIDE DEF command, attr
  <2> QED
    BY <2>1, <2>3 DEF IsCommand, CommandTypes, Additions, command
<1>5. CASE call.fn = "add_operation"
  <2> DEFINE op == [id |-> id, name |-> call.name]
  <2>1. command = [type |-> "AddOperation", cls |-> Resolve(registry, call.cls), op |-> op]
    BY <1>5 DEF CommandOf
  <2>2. call.name \in NameType
    BY <1>5 DEF IsCall, Tools
  <2>3. op \in OperationType
    BY <2>2 DEF OperationType
  <2> HIDE DEF command, op
  <2> QED
    BY <2>1, <2>3 DEF IsCommand, CommandTypes, Additions, command
<1>6. CASE call.fn = "add_relationship"
  <2> DEFINE rel == RelationshipOf(call, registry, id)
  <2>1. command = [type |-> "AddRelationship", rel |-> rel]
    BY <1>6 DEF CommandOf
  <2>2. /\ call.name \in NameType /\ call.kind \in RelationshipKinds
        /\ call.sourceMult \in Seq(Int) /\ call.targetMult \in Seq(Int)
    BY <1>6 DEF IsCall, Tools, RelationshipTools
  <2>3. /\ call.sourceMult = <<>> \/ ParsesAsMultiplicity(call.sourceMult)
        /\ call.targetMult = <<>> \/ ParsesAsMultiplicity(call.targetMult)
    BY <1>6 DEF DecodableCall
  <2> DEFINE source == ParseMultiplicity(OrElse(call.sourceMult, <<0, 1>>))
             target == ParseMultiplicity(OrElse(call.targetMult, <<0, Unbounded>>))
  <2>4. source \in MultiplicityType /\ target \in MultiplicityType
    BY <2>2, <2>3, TextIs
  <2>5. rel = [id |-> id, kind |-> call.kind,
               name |-> IF call.name = Unset THEN NoName ELSE call.name,
               source |-> End(Resolve(registry, call.source), source, NoName),
               target |-> End(Resolve(registry, call.target), target, NoName)]
    BY DEF RelationshipOf
  <2> HIDE DEF source, target
  <2>6. /\ End(Resolve(registry, call.source), source, NoName) \in EndType
        /\ End(Resolve(registry, call.target), target, NoName) \in EndType
    BY <2>4, ResolvedIs, EndIs, NamesAre
  <2>7. rel \in RelationshipType
    BY <2>2, <2>5, <2>6, NamesAre DEF RelationshipType
  <2> HIDE DEF command, rel
  <2> QED
    BY <2>1, <2>7 DEF IsCommand, CommandTypes, Additions, command
<1>7. CASE call.fn = "update_relationship"
  <2> DEFINE rel == Matches(m, registry, call)[1].id
  <2>1. command = [type |-> "UpdateRelationship", id |-> rel, name |-> call.name,
                   sourceMult |-> Given(call.sourceMult), targetMult |-> Given(call.targetMult)]
    BY <1>7 DEF CommandOf
  <2>2. /\ call.name \in NameType
        /\ call.sourceMult \in Seq(Int) /\ call.targetMult \in Seq(Int)
    BY <1>7 DEF IsCall, Tools, RelationshipTools
  <2>3. /\ call.sourceMult = <<>> \/ ParsesAsMultiplicity(call.sourceMult)
        /\ call.targetMult = <<>> \/ ParsesAsMultiplicity(call.targetMult)
    BY <1>7 DEF DecodableCall
  <2>4. Given(call.sourceMult) \in MultiplicityType /\ Given(call.targetMult) \in MultiplicityType
    BY <2>2, <2>3, TextIs
  <2> HIDE DEF command, rel
  <2> QED
    BY <2>1, <2>2, <2>4 DEF IsCommand, CommandTypes, Additions, command
<1> QED
  BY <1>1, <1>2, <1>3, <1>4, <1>5, <1>6, <1>7 DEF IsCall, Tools, RelationshipTools

LEMMA TranslateIs ==
  ASSUME NEW m, IsModel(m), NEW calls, NEW n \in Nat, DOMAIN calls = 1..n,
         NEW ids, \A i \in 1..n : ids[i] \in STRING
  PROVE  IsTranslated([model |-> m, calls |-> calls, ids |-> ids], n, Translate(m, calls, ids))
<1> DEFINE c == [model |-> m, calls |-> calls, ids |-> ids]
           base == [registry |-> Registry(m), results |-> <<>>]
           seq == [i \in DOMAIN calls |-> i]
<1>1. Translate(c.model, c.calls, c.ids) =
        Fold(FoldOf("Translate", c), [registry |-> Registry(c.model), results |-> <<>>],
                           [i \in DOMAIN c.calls |-> i]).results
  <2> HIDE DEF c
  <2> QED
    BY DEF Translate, Fold, FoldOf, Combine, Max, TranslateNext, FoldLeft, MapThenFoldSet
<1>2. c.model = m /\ c.calls = calls /\ c.ids = ids
  OBVIOUS
<1> HIDE DEF c
<1>3. Translate(m, calls, ids) = Fold(FoldOf("Translate", c), base, seq).results
  BY <1>1, <1>2
<1>4. TranslatedSoFar(c, 0, base)
  BY RegistryNamesStrings DEF IsTranslated, TranslatedSoFar
<1>5. DOMAIN seq = 1..n /\ \A i \in 1..n : seq[i] = i
  OBVIOUS
<1>6. \A i \in 1..n : \A done : TranslatedSoFar(c, i-1, done) =>
        TranslatedSoFar(c, i, TranslateNext(c, done, seq[i]))
  <2> SUFFICES ASSUME NEW i \in 1..n, NEW done, TranslatedSoFar(c, i-1, done)
               PROVE  TranslatedSoFar(c, i, TranslateNext(c, done, i))
    BY <1>5
  <2> DEFINE error == CallError(m, done.registry, calls[i])
             result == [error |-> error,
                        command |-> IF error # "none" THEN [type |-> "none"]
                                    ELSE CommandOf(m, done.registry, calls[i], ids[i])]
  <2>1. TranslateNext(c, done, i) =
          [registry |-> Registered(done.registry, calls[i], ids[i]),
           results |-> Append(done.results, result)]
    BY <1>2 DEF TranslateNext
  <2>2. /\ result.error = error
        /\ error = "none" => result.command = CommandOf(m, done.registry, calls[i], ids[i])
    OBVIOUS
  <2> HIDE DEF error, result
  <2>3. NamesStrings(done.registry) /\ IsTranslated(c, i - 1, done.results)
    BY DEF TranslatedSoFar
  <2>4. NamesStrings(Registered(done.registry, calls[i], ids[i]))
    BY <2>3, RegisteredNamesStrings
  <2> DEFINE next == Append(done.results, result)
  <2>5. /\ done.results \in Seq(ToSet(done.results)) /\ Len(done.results) = i - 1
        /\ i - 1 \in Nat
    BY <2>3 DEF IsTranslated
  <2>6. /\ next \in Seq(ToSet(next)) /\ Len(next) = i /\ next[i] = result
        /\ \A j \in 1..(i-1) : next[j] = done.results[j]
    <3> DEFINE prev == done.results
               S == ToSet(prev)
    <3>1. prev \in Seq(S) /\ Len(prev) = i - 1 /\ next = Append(prev, result)
      BY <2>5
    <3> HIDE DEF next, prev, S
    <3>2. /\ Append(prev, result) \in Seq(S \cup {result})
          /\ Len(Append(prev, result)) = Len(prev) + 1
          /\ Append(prev, result)[Len(prev) + 1] = result
          /\ \A j \in DOMAIN prev : Append(prev, result)[j] = prev[j]
          /\ ToSet(Append(prev, result)) = ToSet(prev) \cup {result}
      BY <3>1, AppendOf
    <3>3. DOMAIN prev = 1..(i-1) /\ Len(prev) + 1 = i
      BY <2>5, <3>1
    <3> QED
      BY <3>1, <3>2, <3>3 DEF prev, S
  <2> HIDE DEF next
  <2>7. IsTranslated(c, i, next)
    <3> SUFFICES ASSUME NEW j \in 1..i, next[j].error = "none"
                 PROVE  \E registry :
                          /\ NamesStrings(registry)
                          /\ next[j].command = CommandOf(m, registry, calls[j], ids[j])
      BY <1>2, <2>6 DEF IsTranslated
    <3>1. CASE j = i
      BY <2>2, <2>3, <2>6, <3>1
    <3>2. CASE j # i
      <4>1. j \in 1..(i-1)
        BY <3>2
      <4> QED
        BY <1>2, <2>3, <2>6, <4>1 DEF IsTranslated
    <3> QED
      BY <3>1, <3>2
  <2> QED
    BY <2>1, <2>4, <2>7 DEF TranslatedSoFar, next
<1> HIDE DEF base, seq
<1>7. TranslatedSoFar(c, n, Fold(FoldOf("Translate", c), base, seq))
  <2> DEFINE fold == FoldOf("Translate", c)
  <2>1. \A a, e : Combine(fold, a, e) = TranslateNext(c, a, e)
    BY DEF Combine, FoldOf
  <2>2. \A k, a : Holds(fold, k, a) <=> TranslatedSoFar(c, k, a)
    BY DEF Holds, FoldOf
  <2> HIDE DEF fold
  <2>3. Holds(fold, 0, base) /\ \A i \in 1..n : \A a :
          Holds(fold, i-1, a) => Holds(fold, i, Combine(fold, a, seq[i]))
    BY <1>4, <1>5, <1>6, <2>1, <2>2
  <2>4. TranslatedSoFar(c, n, Fold(fold, base, seq))
    BY <1>4, <1>5, <1>6, <2>2, <2>3, FoldInduction
  <2> QED
    BY <2>4 DEF fold
<1> QED
  BY <1>3, <1>7, Zenon DEF TranslatedSoFar, c

(* What a plan submits.                                                    *)
LEMMA SubmittedAreCommands ==
  ASSUME StringFacts, NEW m, IsModel(m), NEW at \in Nat, NEW calls, AreCalls(calls),
         ErrorsOf(TranslatePlan(at, m, calls)) = {},
         \A call \in ToSet(calls) : DecodableCall(call)
  PROVE  AreCommands(CommandsOf(TranslatePlan(at, m, calls)))
<1> DEFINE n == Len(calls)
           ids == [i \in DOMAIN calls |-> NewIdAt(at, i)]
           results == TranslatePlan(at, m, calls)
           commands == CommandsOf(results)
<1>1. n \in Nat /\ DOMAIN calls = 1..n
  BY DEF AreCalls
<1>2. \A i \in 1..n : i \in Nat /\ ids[i] \in STRING
  <2>1. \A i \in 1..n : i \in Nat
    BY <1>1
  <2>2. \A i \in Nat : NewIdAt(at, i) \in STRING
    BY Zenon DEF StringFacts, StringFactsFor
  <2> QED
    BY <1>1, <2>1, <2>2
<1>3. results = Translate(m, calls, ids)
  BY DEF TranslatePlan
<1> HIDE DEF ids, results, n
<1>4. IsTranslated([model |-> m, calls |-> calls, ids |-> ids], n, results)
  BY <1>1, <1>2, <1>3, TranslateIs
<1>5. /\ Len(results) = n /\ results \in Seq(ToSet(results))
      /\ \A i \in 1..n : results[i].error = "none" =>
           \E registry : /\ NamesStrings(registry)
                         /\ results[i].command = CommandOf(m, registry, calls[i], ids[i])
  BY <1>4 DEF IsTranslated
<1>6. DOMAIN results = 1..n
  BY <1>1, <1>5
<1>7. \A i \in 1..n : results[i].error = "none"
  BY <1>6 DEF results, ErrorsOf
<1>8. \A i \in 1..n : IsCommand(results[i].command)
  <2> SUFFICES ASSUME NEW i \in 1..n PROVE IsCommand(results[i].command)
    OBVIOUS
  <2>1. PICK registry : /\ NamesStrings(registry)
                        /\ results[i].command = CommandOf(m, registry, calls[i], ids[i])
    BY <1>5, <1>7
  <2>2. calls[i] \in ToSet(calls)
    BY <1>1 DEF ToSet
  <2>3. IsCall(calls[i]) /\ DecodableCall(calls[i])
    BY <2>2 DEF AreCalls
  <2> QED
    BY <1>2, <2>1, <2>3, TranslatedIsCommand
<1>9. commands = [i \in 1..n |-> results[i].command]
  BY <1>6 DEF CommandsOf
<1> HIDE DEF commands
<1>10. commands \in [1..n -> ToSet(commands)]
  BY <1>9 DEF ToSet
<1>11. commands \in Seq(ToSet(commands)) /\ DOMAIN commands = 1..n
  BY <1>1, <1>10, FunctionIsSeq
<1> QED
  BY <1>8, <1>9, <1>11 DEF AreCommands, commands, results

(* Sequences of calls.                                                     *)
LEMMA NoCalls == AreCalls(<<>>)
BY DEF AreCalls, ToSet

LEMMA OneCall ==
  ASSUME NEW call, IsCall(call)
  PROVE  AreCalls(<<call>>)
BY DEF ToSet, AreCalls

LEMMA CallsAmong ==
  ASSUME NEW S, NEW calls \in Seq(S), \A call \in S : IsCall(call)
  PROVE  AreCalls(calls)
BY ToSetOf DEF AreCalls

LEMMA CallsOfFunction ==
  ASSUME NEW n \in Nat, NEW f, f = [i \in 1..n |-> f[i]], \A i \in 1..n : IsCall(f[i])
  PROVE  AreCalls(f)
<1> DEFINE S == {f[i] : i \in 1..n}
<1>1. f \in [1..n -> S]
  OBVIOUS
<1>2. \A call \in S : IsCall(call)
  OBVIOUS
<1> HIDE DEF S
<1>3. f \in Seq(S)
  BY <1>1, FunctionIsSeq
<1> QED
  BY <1>2, <1>3, CallsAmong

LEMMA CallsKept ==
  ASSUME NEW calls, AreCalls(calls), NEW kept
  PROVE  /\ AreCalls(Only(calls, kept))
         /\ \A i \in DOMAIN Only(calls, kept) :
              Only(calls, kept)[i] \in ToSet(calls) \cap kept
<1> DEFINE S == ToSet(calls)
           out == Only(calls, kept)
<1>1. calls \in Seq(S) /\ \A call \in S : IsCall(call)
  BY DEF AreCalls
<1>2. ToSet(out) = S \cap kept /\ out \in Seq(S)
  <2>1. calls \in Seq(S)
    BY <1>1
  <2>2. ToSet(calls) = S
    OBVIOUS
  <2> HIDE DEF S
  <2> QED
    BY <2>1, <2>2, OnlyPicks
<1>3. \A i \in DOMAIN out : out[i] \in ToSet(out)
  BY DEF ToSet
<1> HIDE DEF S, out
<1>4. AreCalls(out)
  BY <1>1, <1>2, CallsAmong
<1> QED
  BY <1>2, <1>3, <1>4 DEF S, out

LEMMA CallsJoined ==
  ASSUME NEW s, NEW t, AreCalls(s), AreCalls(t)
  PROVE  AreCalls(s \o t)
<1> DEFINE S == ToSet(s) \cup ToSet(t)
<1>1. s \in Seq(S) /\ t \in Seq(S) /\ \A call \in S : IsCall(call)
  BY DEF AreCalls
<1> HIDE DEF S
<1>2. s \o t \in Seq(S)
  BY <1>1
<1> QED
  BY <1>1, <1>2, CallsAmong

LEMMA CallsFlattened ==
  ASSUME NEW n \in Nat, NEW f, f = [i \in 1..n |-> f[i]], \A i \in 1..n : AreCalls(f[i])
  PROVE  AreCalls(FlattenSeq(f))
<1> DEFINE S == UNION {ToSet(f[i]) : i \in 1..n}
<1>1. \A call \in S : IsCall(call)
  BY DEF AreCalls
<1>2. ASSUME NEW i \in 1..n PROVE f[i] \in Seq(S)
  <2>1. ToSet(f[i]) \subseteq S /\ f[i] \in Seq(ToSet(f[i]))
    BY DEF AreCalls
  <2> HIDE DEF S
  <2> QED
    BY <2>1
<1> HIDE DEF S
<1>3. f \in [1..n -> Seq(S)]
  BY <1>2
<1>4. f \in Seq(Seq(S))
  BY <1>3, FunctionIsSeq
<1>5. FlattenSeq(f) \in Seq(S)
  BY <1>4, FlattenIs
<1> QED
  BY <1>1, <1>5, CallsAmong

(* The calls an image stands for.                                          *)
LEMMA MembersAreCalls ==
  ASSUME NEW fn \in Tools \ RelationshipTools, NEW class, NEW n \in Nat,
         NEW names, NEW types, \A k \in 1..n : names[k] \in NameType
  PROVE  AreCalls([k \in 1..n |-> MemberCall(fn, class, names[k], types[k])])
<1> DEFINE f == [k \in 1..n |-> MemberCall(fn, class, names[k], types[k])]
<1>1. ASSUME NEW k \in 1..n PROVE IsCall(f[k])
  <2>1. f[k] = [fn |-> fn, cls |-> class, name |-> names[k], type |-> types[k]]
    BY DEF MemberCall
  <2>2. names[k] \in NameType
    OBVIOUS
  <2> HIDE DEF f
  <2>3. f[k].fn = fn /\ f[k].name = names[k]
    BY <2>1
  <2> QED
    BY <2>2, <2>3 DEF IsCall, Tools, RelationshipTools
<1>2. f = [k \in 1..n |-> f[k]]
  OBVIOUS
<1> HIDE DEF f
<1>3. AreCalls(f)
  BY <1>1, <1>2, CallsOfFunction
<1> QED
  BY <1>3 DEF f

LEMMA MemberCallsAreCalls ==
  ASSUME NEW class \in DrawnClassType
  PROVE  AreCalls(MemberCalls(class))
<1> DEFINE attrs == class.attrs
           ops == class.ops
           name == class.name
           names == [k \in 1..Len(attrs) |-> attrs[k].name]
           types == [k \in 1..Len(attrs) |-> attrs[k].type]
           none == [k \in 1..Len(ops) |-> ""]
           added == [k \in DOMAIN attrs |->
                       MemberCall("add_attribute", name, attrs[k].name, attrs[k].type)]
           more == [k \in DOMAIN ops |-> MemberCall("add_operation", name, ops[k], "")]
<1>1. attrs \in Seq([name : NameType, type : STRING]) /\ ops \in Seq(NameType)
  BY DEF DrawnClassType
<1>2. MemberCalls(class) = added \o more
  BY DEF MemberCalls
<1> HIDE DEF attrs, ops, name
<1>3. /\ Len(attrs) \in Nat /\ DOMAIN attrs = 1..Len(attrs)
      /\ Len(ops) \in Nat /\ DOMAIN ops = 1..Len(ops)
  BY <1>1
<1>4. ASSUME NEW k \in 1..Len(attrs) PROVE names[k] \in NameType
  <2> DEFINE Entry == [name : NameType, type : STRING]
  <2>1. attrs[k] \in Entry
    <3>1. attrs \in Seq(Entry)
      BY <1>1
    <3> HIDE DEF Entry
    <3> QED
      BY <3>1, <1>3
  <2> QED
    BY <2>1
<1>5. ASSUME NEW k \in 1..Len(ops) PROVE ops[k] \in NameType
  BY <1>1, <1>3
<1>6. added = [k \in 1..Len(attrs) |-> MemberCall("add_attribute", name, names[k], types[k])]
  BY <1>3
<1>7. more = [k \in 1..Len(ops) |-> MemberCall("add_operation", name, ops[k], none[k])]
  BY <1>3
<1> HIDE DEF added, more, names, types, none
<1>f. {"add_attribute", "add_operation"} \subseteq Tools \ RelationshipTools
  BY DEF Tools, RelationshipTools
<1>8. AreCalls(added)
  <2> DEFINE n == Len(attrs)
  <2>1. n \in Nat /\ \A k \in 1..n : names[k] \in NameType
    BY <1>3, <1>4
  <2>2. added = [k \in 1..n |-> MemberCall("add_attribute", name, names[k], types[k])]
    BY <1>6
  <2> HIDE DEF n
  <2> QED
    BY <1>f, <2>1, <2>2, MembersAreCalls
<1>9. AreCalls(more)
  <2> DEFINE n == Len(ops)
  <2>1. n \in Nat /\ \A k \in 1..n : ops[k] \in NameType
    BY <1>3, <1>5
  <2>2. more = [k \in 1..n |-> MemberCall("add_operation", name, ops[k], none[k])]
    BY <1>7
  <2> HIDE DEF n
  <2> QED
    BY <1>f, <2>1, <2>2, MembersAreCalls
<1> QED
  BY <1>2, <1>8, <1>9, CallsJoined

LEMMA ExpandedAreCalls ==
  ASSUME NEW image \in ImageType
  PROVE  AreCalls(ExpandImageExtraction(image))
<1> DEFINE classes == image.classes
           rels == image.rels
           added == [i \in DOMAIN classes |-> ClassCall("add_class", classes[i].name)]
           members == [i \in DOMAIN classes |-> MemberCalls(classes[i])]
           linked == [i \in DOMAIN rels |->
                        LET r == rels[i]
                        IN  RelationshipCall("add_relationship", r.kind, r.source, r.target, r.name,
                              <<NormalizeImageMultiplicity(r.sourceMult),
                                NormalizeImageMultiplicity(r.targetMult)>>)]
<1>1. classes \in Seq(DrawnClassType) /\ rels \in Seq(DrawnLinkType)
  BY DEF ImageType
<1>2. ExpandImageExtraction(image) = (added \o FlattenSeq(members)) \o linked
  BY DEF ExpandImageExtraction
<1> HIDE DEF classes, rels
<1>3. /\ Len(classes) \in Nat /\ DOMAIN classes = 1..Len(classes)
      /\ Len(rels) \in Nat /\ DOMAIN rels = 1..Len(rels)
  BY <1>1
<1>4. AreCalls(added)
  <2>1. ASSUME NEW i \in 1..Len(classes) PROVE IsCall(added[i])
    <3>0. classes[i] \in DrawnClassType
      BY <1>1, <1>3
    <3>1. classes[i].name \in NameType
      BY <3>0 DEF DrawnClassType
    <3>2. added[i] = [fn |-> "add_class", cls |-> classes[i].name, name |-> classes[i].name]
      BY <1>3 DEF ClassCall
    <3> QED
      BY <3>1, <3>2 DEF IsCall, Tools, RelationshipTools
  <2>2. added = [i \in 1..Len(classes) |-> added[i]]
    BY <1>3
  <2> HIDE DEF added
  <2> QED
    BY <1>3, <2>1, <2>2, CallsOfFunction
<1>5. AreCalls(FlattenSeq(members))
  <2>1. ASSUME NEW i \in 1..Len(classes) PROVE AreCalls(members[i])
    <3>1. classes[i] \in DrawnClassType
      BY <1>1, <1>3
    <3>2. members[i] = MemberCalls(classes[i])
      BY <1>3
    <3> HIDE DEF members
    <3> QED
      BY <3>1, <3>2, MemberCallsAreCalls
  <2>2. members = [i \in 1..Len(classes) |-> members[i]]
    BY <1>3
  <2> HIDE DEF members
  <2> QED
    BY <1>3, <2>1, <2>2, CallsFlattened
<1>6. AreCalls(linked)
  <2>1. ASSUME NEW i \in 1..Len(rels) PROVE IsCall(linked[i])
    <3> DEFINE r == rels[i]
               sourceMult == NormalizeImageMultiplicity(r.sourceMult)
               targetMult == NormalizeImageMultiplicity(r.targetMult)
    <3>1. r \in DrawnLinkType
      BY <1>1, <1>3
    <3>2. linked[i] = [fn |-> "add_relationship", cls |-> r.source, kind |-> r.kind,
                       source |-> r.source, target |-> r.target, name |-> r.name,
                       sourceMult |-> sourceMult, targetMult |-> targetMult]
      BY <1>3 DEF RelationshipCall
    <3> HIDE DEF r
    <3>3. /\ r.kind \in RelationshipKinds /\ r.name \in NameType
          /\ r.sourceMult \in Seq(Int) /\ r.targetMult \in Seq(Int)
      BY <3>1 DEF DrawnLinkType
    <3>4. sourceMult \in Seq(Int) /\ targetMult \in Seq(Int)
      BY <3>3 DEF Unbounded, Letter, NormalizeImageMultiplicity
    <3> HIDE DEF sourceMult, targetMult, linked
    <3> QED
      BY <3>2, <3>3, <3>4 DEF IsCall, Tools, RelationshipTools
  <2>2. linked = [i \in 1..Len(rels) |-> linked[i]]
    BY <1>3
  <2> HIDE DEF linked
  <2> QED
    BY <1>3, <2>1, <2>2, CallsOfFunction
<1> HIDE DEF added, members, linked
<1>7. AreCalls(added \o FlattenSeq(members))
  BY <1>4, <1>5, CallsJoined
<1> QED
  BY <1>2, <1>6, <1>7, CallsJoined

LEMMA CallsAtAre ==
  ASSUME NEW calls, AreCalls(calls), NEW indices
  PROVE  AreCalls(At(calls, indices))
<1> DEFINE S == ToSet(calls)
           places == [i \in DOMAIN calls |-> i]
           kept == Filter(places, LAMBDA i : i \in indices)
           out == At(calls, indices)
<1>1. calls \in Seq(S) /\ \A call \in S : IsCall(call)
  BY DEF AreCalls
<1>2. out = [k \in DOMAIN kept |-> calls[kept[k]]]
  BY DEF At
<1>3. \A k \in DOMAIN calls : calls[k] \in S
  BY DEF ToSet
<1> HIDE DEF S
<1>4. Len(calls) \in Nat /\ DOMAIN calls = 1..Len(calls)
  BY <1>1
<1>5. places \in Seq(1..Len(calls))
  BY <1>4
<1>6. kept \in Seq(1..Len(calls))
  <2> HIDE DEF places
  <2> QED
    BY <1>5, FilterIs DEF Filter
<1> HIDE DEF kept, out, places
<1>7. Len(kept) \in Nat /\ DOMAIN kept = 1..Len(kept)
  BY <1>6
<1>8. ASSUME NEW k \in 1..Len(kept) PROVE out[k] \in S
  BY <1>4, <1>6, <1>7, <1>2, <1>3
<1>9. out = [k \in 1..Len(kept) |-> out[k]]
  BY <1>2, <1>7
<1> HIDE DEF AreCalls
<1>10. AreCalls(out)
  BY <1>1, <1>7, <1>8, <1>9, CallsOfFunction
<1> QED
  BY <1>10 DEF out

LEMMA SelectedCalls ==
  ASSUME NEW calls, AreCalls(calls), NEW fn, NEW key
  PROVE  /\ AreCalls(CallsOf(calls, fn)) /\ AreCalls(OfClass(calls, key))
         /\ \A i \in DOMAIN CallsOf(calls, fn) : CallsOf(calls, fn)[i].fn = fn
         /\ AreCalls(FirstOfEachKey(calls)) /\ AreCalls(LastOfEachKey(calls))
<1>1. AreCalls(CallsOf(calls, fn))
  BY CallsKept DEF CallsOf, Filter
<1>2. AreCalls(OfClass(calls, key))
  BY CallsKept DEF OfClass, Filter
<1>3. \A i \in DOMAIN CallsOf(calls, fn) : CallsOf(calls, fn)[i].fn = fn
  BY CallsKept DEF CallsOf, Filter
<1>4. AreCalls(FirstOfEachKey(calls)) /\ AreCalls(LastOfEachKey(calls))
  BY CallsAtAre DEF FirstOfEachKey, LastOfEachKey
<1> QED
  BY <1>1, <1>2, <1>3, <1>4

LEMMA ObsoleteMembersAreCalls ==
  ASSUME NEW class, NEW fn \in Tools \ RelationshipTools, NEW S, NEW members \in Seq(S),
         \A e \in S : e.name \in NameType, NEW wanted
  PROVE  AreCalls(ObsoleteMembers(class, fn, members, wanted))
<1> DEFINE gone == Filter(members, LAMBDA m :
                     ~\E w \in ToSet(wanted) : Key(w.name) = Key(m.name) /\ SameMember(m, w))
           names == [k \in 1..Len(gone) |-> gone[k].name]
           types == [k \in 1..Len(gone) |-> ""]
           out == ObsoleteMembers(class, fn, members, wanted)
<1>1. out = [i \in DOMAIN gone |-> MemberCall(fn, class.name, gone[i].name, "")]
  BY DEF ObsoleteMembers
<1>2. gone \in Seq(S)
  BY FilterIs DEF Filter
<1> HIDE DEF gone, out
<1>3. Len(gone) \in Nat /\ DOMAIN gone = 1..Len(gone)
  BY <1>2
<1>4. ASSUME NEW k \in 1..Len(gone) PROVE names[k] \in NameType
  BY <1>2, <1>3
<1>5. out = [k \in 1..Len(gone) |-> MemberCall(fn, class.name, names[k], types[k])]
  BY <1>1, <1>3
<1> HIDE DEF names, types
<1>6. AreCalls(out)
  BY <1>3, <1>4, <1>5, MembersAreCalls
<1> QED
  BY <1>6 DEF out

LEMMA MissingMembersAreCalls ==
  ASSUME NEW members, NEW wanted, AreCalls(wanted)
  PROVE  AreCalls(MissingMembers(members, wanted))
BY CallsKept DEF MissingMembers, Filter

LEMMA ChangeIsCall ==
  ASSUME NEW m, IsModel(m), NEW call, IsCall(call), call.fn = "add_relationship"
  PROVE  IsCall(RelationshipChange(m, call).call)
<1> DEFINE change == RelationshipChange(m, call)
           named == IF call.name = Unset THEN NoName ELSE call.name
           texts == <<OrElse(call.sourceMult, <<0, 1>>), OrElse(call.targetMult, <<0, Unbounded>>)>>
<1>1. CASE change.match = 0
  BY <1>1 DEF RelationshipChange
<1>2. CASE change.match # 0
  <2> DEFINE name == IF named = m.rels[change.match].name THEN Unset ELSE named
  <2>1. change.call = RelationshipCall("update_relationship", call.kind, call.source, call.target,
                                       name, texts)
    BY <1>2 DEF RelationshipChange
  <2>2. call.name \in NameType
    BY DEF IsCall, Tools, RelationshipTools
  <2>3. Unset \in NameType /\ NoName \in NameType
    BY DEF Unset, NoName, Name, NameType, Forms
  <2>4. name \in NameType
    BY <2>2, <2>3
  <2>5. {call.sourceMult, call.targetMult} \subseteq Seq(Int)
    BY DEF IsCall
  <2>6. texts[1] \in Seq(Int) /\ texts[2] \in Seq(Int)
    BY <2>5 DEF Unbounded, OrElse
  <2> HIDE DEF name, texts, change
  <2> DEFINE out == change.call
  <2>7. out.fn = "update_relationship" /\ out.name = name
        /\ out.sourceMult = texts[1] /\ out.targetMult = texts[2]
    BY <2>1 DEF RelationshipCall
  <2> HIDE DEF out
  <2>8. IsCall(out)
    BY <2>4, <2>6, <2>7 DEF IsCall, Tools, RelationshipTools
  <2> QED
    BY <2>8 DEF out, change
<1> QED
  BY <1>1, <1>2

LEMMA ReconciledAreCalls ==
  ASSUME NEW m, IsModel(m), NEW calls, AreCalls(calls)
  PROVE  AreCalls(ReconcileImageCalls(m, calls))
<1> DEFINE desired == FirstOfEachKey(CallsOf(calls, "add_class"))
           wanted(fn, key) == OfClass(CallsOf(calls, fn), key)
           existing(key) == ClassById(m, Registry(m)[key])
           isNew(c)  == Key(c.name) \notin Keys(m.classes)
           extra     == Filter(m.classes, LAMBDA c :
                          c = existing(Key(c.name)) /\ Key(c.name) \notin Keys(desired))
           obsolete(c) ==
             LET key == Key(c.name) IN
             ObsoleteMembers(existing(key), "remove_attribute", existing(key).attrs,
                             LastOfEachKey(wanted("add_attribute", key)))
               \o ObsoleteMembers(existing(key), "remove_operation", existing(key).ops,
                                  LastOfEachKey(wanted("add_operation", key)))
           missing(c) ==
             LET key == Key(c.name) IN
             IF isNew(c) THEN <<c>> \o wanted("add_attribute", key) \o wanted("add_operation", key)
             ELSE MissingMembers(existing(key).attrs, LastOfEachKey(wanted("add_attribute", key)))
                    \o MissingMembers(existing(key).ops, LastOfEachKey(wanted("add_operation", key)))
           links   == CallsOf(calls, "add_relationship")
           changes == [i \in DOMAIN links |-> RelationshipChange(m, links[i])]
           matched == {changes[i].match : i \in DOMAIN changes}
           stale   == Filter([i \in DOMAIN m.rels |-> i], LAMBDA i :
                        /\ i \notin matched
                        /\ {m.rels[i].source.cls, m.rels[i].target.cls} \subseteq IdsOf(m.classes))
           unlink(r) == RelationshipCall("remove_relationship", r.kind,
                          ClassById(m, r.source.cls).name, ClassById(m, r.target.cls).name,
                          Unset, <<<<>>, <<>>>>)
           kept == Filter(desired, LAMBDA c : ~isNew(c))
           removed == [i \in DOMAIN extra |-> ClassCall("remove_class", extra[i].name)]
           cleared == [i \in DOMAIN kept |-> obsolete(kept[i])]
           unlinked == [i \in DOMAIN stale |-> unlink(m.rels[stale[i]])]
           filled == [i \in DOMAIN desired |-> missing(desired[i])]
           changed == [i \in DOMAIN changes |-> changes[i].call]
<1>1. ReconcileImageCalls(m, calls) =
        removed \o FlattenSeq(cleared) \o unlinked \o FlattenSeq(filled) \o changed
  BY DEF ReconcileImageCalls
<1>2. \A fn, key : AreCalls(wanted(fn, key)) /\ AreCalls(LastOfEachKey(wanted(fn, key)))
  BY SelectedCalls
<1>3. AreCalls(desired) /\ AreCalls(links) /\ \A i \in DOMAIN links : links[i].fn = "add_relationship"
  BY SelectedCalls
<1>4. AreCalls(removed)
  <2> DEFINE n == Len(extra)
  <2>1. extra \in Seq(ClassType)
    BY FilterIs DEF Filter, IsModel
  <2> HIDE DEF extra
  <2>2. n \in Nat /\ DOMAIN extra = 1..n
    BY <2>1
  <2>3. \A i \in 1..n : IsCall(removed[i])
    BY <2>2 DEF IsCall, ClassCall, Tools, RelationshipTools
  <2>4. removed = [i \in 1..n |-> removed[i]]
    BY <2>2
  <2> HIDE DEF removed, n
  <2> QED
    BY <2>2, <2>3, <2>4, CallsOfFunction
<1>5. AreCalls(FlattenSeq(cleared))
  <2>1. ASSUME NEW i \in DOMAIN kept PROVE AreCalls(cleared[i])
    <3> DEFINE key == Key(kept[i].name)
               class == existing(key)
               attrs == LastOfEachKey(wanted("add_attribute", key))
               ops == LastOfEachKey(wanted("add_operation", key))
    <3>1. ~isNew(kept[i])
      BY <1>3, CallsKept DEF Filter
    <3>2. key \in Keys(m.classes)
      BY <3>1
    <3>3. HasId(m.classes, Registry(m)[key])
      BY <3>2, RegistryNamesStrings
    <3>4. class \in ClassType
      <4> HIDE DEF key
      <4> QED
        BY <3>3, ByIdTyped, Zenon DEF ClassById, IsModel
    <3>5. cleared[i] = ObsoleteMembers(class, "remove_attribute", class.attrs, attrs)
                         \o ObsoleteMembers(class, "remove_operation", class.ops, ops)
      BY Zenon
    <3> HIDE DEF class, attrs, ops, cleared
    <3>6. class.attrs \in Seq(AttributeType) /\ class.ops \in Seq(OperationType)
      BY <3>4 DEF ClassType
    <3>7. /\ \A e \in AttributeType : e.name \in NameType
          /\ \A e \in OperationType : e.name \in NameType
      BY DEF AttributeType, OperationType
    <3>8. {"remove_attribute", "remove_operation"} \subseteq Tools \ RelationshipTools
      BY DEF Tools, RelationshipTools
    <3>9. AreCalls(ObsoleteMembers(class, "remove_attribute", class.attrs, attrs))
      BY <3>6, <3>7, <3>8, ObsoleteMembersAreCalls
    <3>10. AreCalls(ObsoleteMembers(class, "remove_operation", class.ops, ops))
      BY <3>6, <3>7, <3>8, ObsoleteMembersAreCalls
    <3> QED
      BY <3>5, <3>9, <3>10, CallsJoined
  <2>2. AreCalls(kept)
    BY <1>3, CallsKept DEF Filter
  <2> HIDE DEF kept
  <2>3. Len(kept) \in Nat /\ DOMAIN kept = 1..Len(kept)
    BY <2>2 DEF AreCalls
  <2>4. cleared = [i \in 1..Len(kept) |-> cleared[i]]
    BY <2>3
  <2> HIDE DEF cleared
  <2> QED
    BY <2>1, <2>3, <2>4, CallsFlattened
<1>6. AreCalls(unlinked)
  <2> DEFINE n == Len(stale)
  <2>1. DOMAIN m.rels = 1..Len(m.rels) /\ Len(m.rels) \in Nat
    BY DEF IsModel
  <2>2. [i \in DOMAIN m.rels |-> i] \in Seq(1..Len(m.rels))
    BY <2>1
  <2>3. stale \in Seq(1..Len(m.rels))
    BY <2>2, FilterIs DEF Filter
  <2> HIDE DEF stale
  <2>4. n \in Nat /\ DOMAIN stale = 1..n
    <3> DEFINE positions == 1..Len(m.rels)
    <3>1. stale \in Seq(positions)
      BY <2>3
    <3> HIDE DEF positions
    <3> QED
      BY <3>1
  <2>5. \A i \in 1..n : IsCall(unlinked[i])
    BY <2>4, Zenon DEF IsCall, RelationshipCall, Tools, RelationshipTools
  <2>6. unlinked = [i \in 1..n |-> unlinked[i]]
    BY <2>4
  <2> HIDE DEF unlinked, n
  <2> QED
    BY <2>4, <2>5, <2>6, CallsOfFunction
<1>7. AreCalls(FlattenSeq(filled))
  <2>1. ASSUME NEW i \in DOMAIN desired PROVE AreCalls(filled[i])
    <3> DEFINE c == desired[i]
               key == Key(c.name)
               attrs == wanted("add_attribute", key)
               ops == wanted("add_operation", key)
    <3>1. IsCall(c)
      BY <1>3 DEF AreCalls, ToSet
    <3>2. CASE isNew(c)
      <4>1. filled[i] = (<<c>> \o attrs) \o ops
        BY <3>2
      <4>2. AreCalls(attrs) /\ AreCalls(ops)
        BY <1>2
      <4> HIDE DEF c, attrs, ops, filled
      <4>3. AreCalls(<<c>>)
        BY <3>1, OneCall
      <4> QED
        BY <4>1, <4>2, <4>3, CallsJoined
    <3>3. CASE ~isNew(c)
      <4> DEFINE s == MissingMembers(existing(key).attrs, LastOfEachKey(attrs))
                 t == MissingMembers(existing(key).ops, LastOfEachKey(ops))
      <4>1. filled[i] = s \o t
        BY <3>3
      <4>2. AreCalls(s) /\ AreCalls(t)
        BY <1>2, MissingMembersAreCalls
      <4> HIDE DEF s, t, filled
      <4> QED
        BY <4>1, <4>2, CallsJoined
    <3> QED
      BY <3>2, <3>3
  <2> HIDE DEF desired
  <2>3. Len(desired) \in Nat /\ DOMAIN desired = 1..Len(desired)
    BY <1>3 DEF AreCalls
  <2>4. filled = [i \in 1..Len(desired) |-> filled[i]]
    BY <2>3
  <2> HIDE DEF filled
  <2> QED
    BY <2>1, <2>3, <2>4, CallsFlattened
<1>8. AreCalls(changed)
  <2> HIDE DEF links
  <2>1. Len(links) \in Nat /\ DOMAIN links = 1..Len(links)
    BY <1>3 DEF AreCalls
  <2>2. ASSUME NEW i \in 1..Len(links) PROVE IsCall(changed[i])
    <3>1. IsCall(links[i])
      BY <1>3, <2>1 DEF AreCalls, ToSet
    <3>2. changed[i] = RelationshipChange(m, links[i]).call
      BY <2>1
    <3>3. links[i].fn = "add_relationship"
      BY <1>3, <2>1
    <3> HIDE DEF changed
    <3> QED
      BY <3>1, <3>2, <3>3, ChangeIsCall
  <2>3. changed = [i \in 1..Len(links) |-> changed[i]]
    BY <2>1
  <2> HIDE DEF changed
  <2> QED
    BY <2>1, <2>2, <2>3, CallsOfFunction
<1> HIDE DEF removed, cleared, unlinked, filled, changed
<1> QED
  BY <1>1, <1>4, <1>5, <1>6, <1>7, <1>8, CallsJoined

LEMMA InitPlanInv == Init => PlanInv
  BY DEF Init, PlanInv, PlanFollows, ConfirmsAsked, PlanFields, NoPlan, Idle

(* A write that is not a plan's raises the revision above every base.      *)
LEMMA WriteKeepsPlanInv ==
  ASSUME PlanInv, revision' = revision + 1, UNCHANGED <<plans, confirm>>
  PROVE  PlanInv'
<1>1. revision' \in Nat /\ DOMAIN plans' = Plans /\ DOMAIN confirm' = Confirmers
  BY DEF PlanInv
<1>2. ASSUME NEW p \in Plans PROVE PlanFollows(p)'
  BY <1>2 DEF PlanInv, PlanFollows
<1>3. ASSUME NEW u \in Confirmers PROVE ConfirmsAsked(u)'
  BY <1>3 DEF PlanInv, ConfirmsAsked
<1> QED
  BY <1>1, <1>2, <1>3 DEF PlanInv

(* A step of one plan that neither loses it nor touches its base, what it  *)
(* saw, or how often it was applied.                                       *)
LEMMA StageKeepsPlanInv ==
  ASSUME PlanInv, NEW p \in Plans, UNCHANGED <<model, revision>>,
         DOMAIN plans' = Plans, DOMAIN plans'[p] = PlanFields,
         \A q \in Plans \ {p} : plans'[q] = plans[q],
         plans[p].stage # "none", plans'[p].stage # "none",
         plans'[p].base = plans[p].base, plans'[p].seen = plans[p].seen,
         plans'[p].applied = plans[p].applied
  PROVE  /\ DOMAIN plans' = Plans
         /\ \A q \in Plans : PlanFollows(q)'
         /\ \A q \in Plans : plans[q].stage # "none" => plans'[q].stage # "none"
<1>1. ASSUME NEW q \in Plans PROVE PlanFollows(q)'
  <2>1. CASE q = p
    BY <2>1 DEF PlanInv, PlanFollows
  <2>2. CASE q # p
    BY <2>2 DEF PlanInv, PlanFollows
  <2> QED
    BY <2>1, <2>2
<1> QED
  BY <1>1

(* A confirmation that ends, or goes on with the plan it has.              *)
LEMMA ConfirmKeepsPlanInv ==
  ASSUME PlanInv, NEW u \in Confirmers,
         \A q \in Plans : plans[q].stage # "none" => plans'[q].stage # "none",
         DOMAIN confirm' = Confirmers,
         \A v \in Confirmers \ {u} : confirm'[v] = confirm[v],
         DOMAIN confirm'[u] = {"stage", "plan", "commands"},
         confirm'[u].stage # "idle" =>
           confirm'[u].plan \in Plans /\ plans[confirm'[u].plan].stage # "none"
  PROVE  \A v \in Confirmers : ConfirmsAsked(v)'
<1> SUFFICES ASSUME NEW v \in Confirmers PROVE ConfirmsAsked(v)'
  OBVIOUS
<1>1. CASE v = u
  BY <1>1 DEF ConfirmsAsked
<1>2. CASE v # u
  BY <1>2 DEF PlanInv, ConfirmsAsked
<1> QED
  BY <1>1, <1>2

LEMMA NextPlanInv == PlanInv /\ [Next]_vars => PlanInv'
<1> SUFFICES ASSUME PlanInv, [Next]_vars PROVE PlanInv'
  OBVIOUS
<1>1. ASSUME NEW c \in scenario.commands, SubmitCommand(c) PROVE PlanInv'
  BY <1>1, WriteKeepsPlanInv DEF SubmitCommand
<1>2. ASSUME NEW file \in scenario.files, ImportFile(file) PROVE PlanInv'
  BY <1>2, WriteKeepsPlanInv DEF ImportFile, ReplaceContent
<1>3. ASSUME NEW p \in Plans, NEW request \in scenario.requests, Ask(p, request)
      PROVE PlanInv'
  <2>1. /\ DOMAIN plans' = Plans
        /\ plans'[p] = [stage |-> "asked", request |-> request, seen |-> model,
                        base |-> revision, calls |-> <<>>, applied |-> 0]
        /\ \A q \in Plans \ {p} : plans'[q] = plans[q]
    BY <1>3 DEF Ask, PlanInv
  <2>2. ASSUME NEW q \in Plans PROVE PlanFollows(q)'
    <3>1. CASE q = p
      <4>1. /\ DOMAIN plans'[q] = PlanFields
            /\ plans'[q].base = revision /\ plans'[q].seen = model
            /\ plans'[q].applied = 0
        BY <2>1, <3>1 DEF PlanFields
      <4>2. revision \in Nat /\ UNCHANGED <<model, revision>>
        BY <1>3 DEF Ask, PlanInv
      <4> QED
        BY <4>1, <4>2 DEF PlanFollows
    <3>2. CASE q # p
      BY <1>3, <2>1, <3>2 DEF Ask, PlanInv, PlanFollows
    <3> QED
      BY <3>1, <3>2
  <2>3. ASSUME NEW u \in Confirmers PROVE ConfirmsAsked(u)'
    BY <1>3, <2>1, <2>3 DEF Ask, PlanInv, ConfirmsAsked
  <2> QED
    BY <1>3, <2>1, <2>2, <2>3 DEF Ask, PlanInv
<1>4. ASSUME NEW p \in Plans, Preview(p) \/ Expire(p) PROVE PlanInv'
  <2>1. /\ DOMAIN plans' = Plans /\ DOMAIN plans'[p] = PlanFields
        /\ \A q \in Plans \ {p} : plans'[q] = plans[q]
        /\ plans[p].stage # "none" /\ plans'[p].stage # "none"
        /\ plans'[p].base = plans[p].base /\ plans'[p].seen = plans[p].seen
        /\ plans'[p].applied = plans[p].applied
    BY <1>4 DEF Preview, Describe, Expire, PlanInv, PlanFollows, PlanFields
  <2>2. UNCHANGED <<model, revision, confirm>>
    BY <1>4 DEF Preview, Expire
  <2>3. /\ \A q \in Plans : PlanFollows(q)'
        /\ \A q \in Plans : plans[q].stage # "none" => plans'[q].stage # "none"
    BY <2>1, <2>2, StageKeepsPlanInv
  <2>4. ASSUME NEW u \in Confirmers PROVE ConfirmsAsked(u)'
    BY <2>2, <2>3, <2>4 DEF PlanInv, ConfirmsAsked
  <2> QED
    BY <2>1, <2>2, <2>3, <2>4 DEF PlanInv
<1>5. ASSUME NEW u \in Confirmers, NEW p \in Plans, GetPlan(u, p) PROVE PlanInv'
  <2>1. \A v \in Confirmers : ConfirmsAsked(v)'
    BY <1>5, ConfirmKeepsPlanInv DEF GetPlan, PlanInv, Idle
  <2> QED
    BY <1>5, <2>1 DEF GetPlan, PlanInv, PlanFollows
<1>6. ASSUME NEW u \in Confirmers, FindMoved(u) \/ RefusePlan(u) PROVE PlanInv'
  <2>1. \A v \in Confirmers : ConfirmsAsked(v)'
    BY <1>6, ConfirmKeepsPlanInv DEF FindMoved, RefusePlan, EndConfirm, PlanInv, Idle
  <2> QED
    BY <1>6, <2>1 DEF FindMoved, RefusePlan, EndConfirm, PlanInv, PlanFollows
<1>7. ASSUME NEW u \in Confirmers, TakePlan(u) PROVE PlanInv'
  <2> DEFINE p == confirm[u].plan
  <2>1. p \in Plans /\ plans[p].stage # "none"
    BY <1>7 DEF TakePlan, PlanInv, ConfirmsAsked
  <2>2. /\ DOMAIN plans' = Plans /\ DOMAIN plans'[p] = PlanFields
        /\ \A q \in Plans \ {p} : plans'[q] = plans[q]
        /\ plans'[p].stage # "none"
        /\ plans'[p].base = plans[p].base /\ plans'[p].seen = plans[p].seen
        /\ plans'[p].applied = plans[p].applied
    BY <1>7, <2>1 DEF TakePlan, PlanInv, PlanFollows, PlanFields
  <2>3. UNCHANGED <<model, revision>>
    BY <1>7 DEF TakePlan
  <2>4. /\ \A q \in Plans : PlanFollows(q)'
        /\ \A q \in Plans : plans[q].stage # "none" => plans'[q].stage # "none"
    BY <2>1, <2>2, <2>3, StageKeepsPlanInv
  <2>5. /\ DOMAIN confirm' = Confirmers
        /\ \A v \in Confirmers \ {u} : confirm'[v] = confirm[v]
        /\ DOMAIN confirm'[u] = {"stage", "plan", "commands"}
        /\ confirm'[u].stage # "idle" => confirm'[u].plan = p
    BY <1>7 DEF TakePlan, GoOnWith, EndConfirm, PlanInv, ConfirmsAsked, Idle
  <2>6. \A v \in Confirmers : ConfirmsAsked(v)'
    BY <2>1, <2>4, <2>5, ConfirmKeepsPlanInv
  <2> QED
    BY <2>2, <2>3, <2>4, <2>5, <2>6 DEF PlanInv
<1>8. ASSUME NEW u \in Confirmers, ApplyPlan(u) PROVE PlanInv'
  <2> DEFINE p == confirm[u].plan
  <2>1. /\ p \in Plans /\ plans[p].stage # "none"
        /\ revision' \in Nat /\ revision < revision'
    BY <1>8 DEF ApplyPlan, IsAccepted, PlanInv, ConfirmsAsked
  <2>2. /\ DOMAIN plans' = Plans /\ DOMAIN plans'[p] = PlanFields
        /\ \A q \in Plans \ {p} : plans'[q] = plans[q]
        /\ plans'[p].stage = plans[p].stage
        /\ plans'[p].base = plans[p].base
        /\ plans'[p].applied = plans[p].applied + 1
    BY <1>8, <2>1 DEF ApplyPlan, PlanInv, PlanFollows, PlanFields
  <2>3. ASSUME NEW q \in Plans PROVE PlanFollows(q)'
    <3>1. CASE q = p
      BY <2>1, <2>2, <3>1 DEF PlanInv, PlanFollows
    <3>2. CASE q # p
      BY <2>1, <2>2, <3>2 DEF PlanInv, PlanFollows
    <3> QED
      BY <3>1, <3>2
  <2>4. \A v \in Confirmers : ConfirmsAsked(v)'
    <3>1. \A q \in Plans : plans[q].stage # "none" => plans'[q].stage # "none"
      BY <2>2
    <3> QED
      BY <1>8, <3>1, ConfirmKeepsPlanInv DEF ApplyPlan, EndConfirm, PlanInv, Idle
  <2> QED
    BY <1>8, <2>1, <2>2, <2>3, <2>4 DEF ApplyPlan, EndConfirm, PlanInv
<1>9. CASE UNCHANGED vars
  BY <1>9 DEF vars, PlanInv, PlanFollows, ConfirmsAsked
<1> QED
  BY <1>1, <1>2, <1>3, <1>4, <1>5, <1>6, <1>7, <1>8, <1>9 DEF Next

(* The invariant of plans and confirmations.                               *)
THEOREM PlansStayBehind == Spec => []PlanInv
<1> QED
  BY InitPlanInv, NextPlanInv, PTL DEF Spec

(* However many plans are previewed and confirmed at once, each is applied *)
(* at most once and only to the model its preview described (service.py    *)
(* 186-306, submit_commands).                                              *)
THEOREM AppliedAsPreviewed == Spec => PlansApplyAsPreviewed
<1> DEFINE Applied == \A p \in Plans : plans'[p].applied # plans[p].applied =>
                        plans'[p].applied = 1 /\ model = plans[p].seen
<1>1. ASSUME PlanInv, Next PROVE Applied
  <2> SUFFICES ASSUME NEW p \in Plans, plans'[p].applied # plans[p].applied
               PROVE  plans'[p].applied = 1 /\ model = plans[p].seen
    OBVIOUS
  <2>1. CASE \E u \in Confirmers : ApplyPlan(u)
    <3>1. PICK u \in Confirmers : ApplyPlan(u)
      BY <2>1
    <3>2. confirm[u].plan = p /\ plans'[p].applied = plans[p].applied + 1
      BY <1>1, <3>1 DEF ApplyPlan, PlanInv, PlanFollows, PlanFields
    <3>3. plans[p].stage # "none" /\ plans[p].base = revision
      BY <1>1, <3>1, <3>2 DEF ApplyPlan, IsAccepted, ExpectedRevisionHolds, PlanInv, ConfirmsAsked
    <3> QED
      BY <1>1, <3>2, <3>3 DEF PlanInv, PlanFollows
  <2>2. CASE \E q \in Plans : Preview(q) \/ Expire(q)
                                \/ \E request \in scenario.requests : Ask(q, request)
    <3>1. PICK q \in Plans : \/ Preview(q) \/ Expire(q)
                             \/ \E request \in scenario.requests : Ask(q, request)
      BY <2>2
    <3>2. CASE Preview(q) \/ Expire(q)
      BY <1>1, <3>1, <3>2 DEF Preview, Describe, Expire, PlanInv, PlanFollows, PlanFields
    <3>3. CASE \E request \in scenario.requests : Ask(q, request)
      <4>1. PICK request \in scenario.requests : Ask(q, request)
        BY <3>3
      <4>2. /\ plans[q].stage = "none"
            /\ plans' = [plans EXCEPT ![q] =
                 [stage |-> "asked", request |-> request, seen |-> model,
                  base |-> revision, calls |-> <<>>, applied |-> 0]]
        BY <4>1 DEF Ask
      <4>3. plans[q].applied = 0
        BY <1>1, <4>2 DEF PlanInv, PlanFollows
      <4> QED
        BY <1>1, <4>2, <4>3 DEF PlanInv
    <3> QED
      BY <3>1, <3>2, <3>3
  <2>3. CASE \E u \in Confirmers : TakePlan(u)
    BY <1>1, <2>3 DEF TakePlan, PlanInv, PlanFollows, PlanFields
  <2> QED
    BY <1>1, <2>1, <2>2, <2>3 DEF Next, SubmitCommand, ImportFile, ReplaceContent, GetPlan,
                                  FindMoved, RefusePlan
<1>2. PlanInv /\ [Next]_vars => [Applied]_vars
  BY <1>1 DEF vars
<1> QED
  BY <1>2, PlansStayBehind, PTL DEF Spec, PlansApplyAsPreviewed

LEMMA InitDiagramInv == Init => DiagramInv
<1> SUFFICES ASSUME Init PROVE DiagramInv
  OBVIOUS
<1>1. PlanInv
  BY InitPlanInv
<1>2. scenario \in Scenarios
  BY DEF Init
<1>3. IsSound(model)
  <2> DEFINE seed == scenario.seed
  <2>1. /\ seed \in Seq(ToSet(seed)) /\ DrawFreshIds(seed, EmptyModel)
        /\ \A c \in ToSet(seed) : IsCommand(c) /\ c.type \in Additions /\ Decodes(c)
    BY <1>2, ScenarioAssumption
  <2>2. model = Play(EmptyModel, seed)
    BY DEF Init
  <2> HIDE DEF seed
  <2>3. AreCommands(seed) /\ \A i \in DOMAIN seed : seed[i].type \in Additions /\ Decodes(seed[i])
    BY <2>1 DEF AreCommands, ToSet
  <2> QED
    BY <2>1, <2>2, <2>3, PlaySound
<1>4. ASSUME NEW p \in Plans PROVE PlanIsTyped(p)
  <2>1. plans[p] = NoPlan
    BY DEF Init
  <2>2. Voice(<<>>).image \in ImageType
    BY DEF Voice, ImageType
  <2>3. IsModel(EmptyModel)
    BY EmptyIsSound DEF IsSound
  <2> QED
    BY <2>1, <2>2, <2>3, NoCalls DEF PlanIsTyped, NoPlan, Voice
<1>5. \A u \in Confirmers : ConfirmIsSound(u)
  BY DEF Init, Idle, ConfirmIsSound
<1> QED
  BY <1>1, <1>2, <1>3, <1>4, <1>5 DEF DiagramInv

(* A write that is not a plan's leaves every plan behind.                  *)
LEMMA WriteKeepsPlans ==
  ASSUME DiagramInv, PlanInv', IsSound(model'), revision' = revision + 1,
         UNCHANGED <<scenario, plans, confirm>>
  PROVE  DiagramInv'
<1>1. \A p \in Plans : PlanIsTyped(p)'
  BY DEF DiagramInv, PlanIsTyped
<1>2. ASSUME NEW u \in Confirmers PROVE ConfirmIsSound(u)'
  <2>1. CASE confirm[u].stage = "checked"
    <3>1. confirm[u].plan \in Plans
      BY <2>1 DEF DiagramInv, PlanInv, ConfirmsAsked
    <3>2. plans[confirm[u].plan].base <= revision /\ plans[confirm[u].plan].base \in Nat
          /\ revision \in Nat
      BY <3>1 DEF DiagramInv, PlanInv, PlanFollows
    <3>3. revision' # plans[confirm[u].plan].base
      BY <3>2
    <3>4. AreCommands(confirm[u].commands)
      BY <2>1 DEF DiagramInv, ConfirmIsSound
    <3> QED
      BY <3>3, <3>4 DEF ConfirmIsSound
  <2>2. CASE confirm[u].stage # "checked"
    BY <2>2 DEF ConfirmIsSound
  <2> QED
    BY <2>1, <2>2
<1> QED
  BY <1>1, <1>2 DEF DiagramInv

LEMMA SubmitKeepsDiagramInv ==
  ASSUME DiagramInv, PlanInv', NEW c \in scenario.commands, SubmitCommand(c)
  PROVE  DiagramInv'
<1>1. IsCommand(c)
  BY ScenarioAssumption DEF DiagramInv
<1>2. /\ c.type = "AddClass" => c.id \notin LiveIds(model)
      /\ c.type = "AddRelationship" => c.rel.id \notin IdsOf(model.rels)
  <2> SUFFICES ASSUME c.type \in {"AddClass", "AddRelationship"}
               PROVE  DrawnId(c) \notin LiveIds(model) \cup IdsOf(model.rels)
    BY DEF DrawnId
  <2>1. DrawFreshIds(<<c>>, model)
    BY DEF SubmitCommand
  <2>2. DrawnId(c) \notin IdsInUse(model)
    BY <2>1 DEF DrawFreshIds, Additions
  <2> QED
    BY <2>2 DEF LiveIds, IdsInUse
<1>3. IsSound(Handle(model, c))
  BY <1>1, <1>2, HandleFollows DEF DiagramInv, SubmitCommand
<1> QED
  BY <1>3, WriteKeepsPlans DEF SubmitCommand

LEMMA ImportKeepsDiagramInv ==
  ASSUME StringFacts, DiagramInv, PlanInv', NEW file \in scenario.files, ImportFile(file)
  PROVE  DiagramInv'
BY ScenarioAssumption, ImportSound, WriteKeepsPlans DEF DiagramInv, ImportFile, ReplaceContent

(* A step that writes nothing and moves no base.                           *)
LEMMA ReadKeepsDiagramInv ==
  ASSUME DiagramInv, PlanInv', UNCHANGED <<scenario, model, revision>>,
         \A p \in Plans : PlanIsTyped(p)',
         \A p \in Plans : plans[p].stage # "none" => plans'[p].base = plans[p].base,
         \A u \in Confirmers : confirm'[u].stage = "checked" =>
           \/ confirm'[u] = confirm[u]
           \/ AreCommands(confirm'[u].commands) /\ DrawFreshIds(confirm'[u].commands, model)
  PROVE  DiagramInv'
BY DEF DiagramInv, PlanInv, ConfirmsAsked, ConfirmIsSound

LEMMA AskKeepsDiagramInv ==
  ASSUME DiagramInv, PlanInv', NEW p \in Plans, NEW request \in scenario.requests, Ask(p, request)
  PROVE  DiagramInv'
<1>1. /\ plans'[p] = [stage |-> "asked", request |-> request, seen |-> model,
                      base |-> revision, calls |-> <<>>, applied |-> 0]
      /\ \A q \in Plans \ {p} : plans'[q] = plans[q]
      /\ plans[p].stage = "none" /\ UNCHANGED <<scenario, model, revision, confirm>>
  BY DEF Ask, DiagramInv, PlanInv
<1>2. AreCalls(request.calls) /\ request.image \in ImageType
  BY ScenarioAssumption DEF DiagramInv
<1>3. ASSUME NEW q \in Plans PROVE PlanIsTyped(q)'
  BY <1>1, <1>2, NoCalls DEF PlanIsTyped, DiagramInv, IsSound
<1>4. \A q \in Plans : plans[q].stage # "none" => plans'[q].base = plans[q].base
  BY <1>1
<1>5. UNCHANGED <<scenario, model, revision>> /\ \A u \in Confirmers : confirm'[u] = confirm[u]
  BY <1>1
<1> QED
  BY <1>3, <1>4, <1>5, ReadKeepsDiagramInv

LEMMA PreviewKeepsDiagramInv ==
  ASSUME DiagramInv, PlanInv', NEW p \in Plans, Preview(p) \/ Expire(p)
  PROVE  DiagramInv'
<1>1. AreCalls(CallsOfPlan(plans[p]))
  BY ExpandedAreCalls, ReconciledAreCalls DEF DiagramInv, PlanIsTyped, CallsOfPlan
<1>2. /\ plans'[p].request = plans[p].request /\ plans'[p].seen = plans[p].seen
      /\ plans'[p].base = plans[p].base
      /\ plans'[p].calls \in {plans[p].calls, CallsOfPlan(plans[p])}
      /\ \A q \in Plans \ {p} : plans'[q] = plans[q]
  BY DEF Preview, Describe, Expire, DiagramInv, PlanInv, PlanFollows, PlanFields
<1>3. ASSUME NEW q \in Plans PROVE PlanIsTyped(q)'
  BY <1>1, <1>2 DEF PlanIsTyped, DiagramInv
<1>4. \A q \in Plans : plans[q].stage # "none" => plans'[q].base = plans[q].base
  BY <1>2
<1>5. UNCHANGED <<scenario, model, revision>> /\ \A u \in Confirmers : confirm'[u] = confirm[u]
  BY DEF Preview, Expire
<1> QED
  BY <1>3, <1>4, <1>5, ReadKeepsDiagramInv

LEMMA ConfirmKeepsDiagramInv ==
  ASSUME DiagramInv, PlanInv', NEW u \in Confirmers,
         (\E p \in Plans : GetPlan(u, p)) \/ FindMoved(u) \/ RefusePlan(u)
  PROVE  DiagramInv'
<1>1. UNCHANGED <<scenario, model, revision, plans>>
  BY DEF GetPlan, FindMoved, RefusePlan
<1>2. \A v \in Confirmers : confirm'[v] = confirm[v] \/ confirm'[v].stage # "checked"
  <2>1. DOMAIN confirm = Confirmers
    BY DEF DiagramInv, PlanInv
  <2>2. CASE FindMoved(u) \/ RefusePlan(u)
    BY <2>1, <2>2 DEF FindMoved, RefusePlan, EndConfirm, Idle
  <2>3. ASSUME NEW p \in Plans, GetPlan(u, p)
        PROVE  confirm' = [confirm EXCEPT ![u] = [Idle EXCEPT !.stage = "got", !.plan = p]]
    BY <2>3 DEF GetPlan
  <2>4. CASE \E p \in Plans : GetPlan(u, p)
    BY <2>1, <2>3, <2>4 DEF Idle
  <2> QED
    BY <2>2, <2>4
<1>3. \A q \in Plans : PlanIsTyped(q)'
  BY <1>1 DEF PlanIsTyped, DiagramInv
<1>4. \A q \in Plans : plans[q].stage # "none" => plans'[q].base = plans[q].base
  BY <1>1
<1> QED
  BY <1>1, <1>2, <1>3, <1>4, ReadKeepsDiagramInv

LEMMA TakeKeepsDiagramInv ==
  ASSUME StringFacts, DiagramInv, PlanInv', NEW u \in Confirmers, TakePlan(u)
  PROVE  DiagramInv'
<1> DEFINE p == confirm[u].plan
           calls == plans[p].calls
           results == TranslatePlan(revision, model, calls)
<1>1. p \in Plans /\ revision \in Nat
  BY DEF TakePlan, DiagramInv, PlanInv, ConfirmsAsked
<1>2. UNCHANGED <<scenario, model, revision>>
  BY DEF TakePlan
<1>3. DrawFreshIds(CommandsOf(results), model) /\ GoOnWith(u, calls, results)
  BY DEF TakePlan
<1>4. \A q \in Plans : /\ plans'[q].request = plans[q].request /\ plans'[q].seen = plans[q].seen
                       /\ plans'[q].base = plans[q].base /\ plans'[q].calls = plans[q].calls
  BY <1>1 DEF TakePlan, DiagramInv, PlanInv, PlanFollows, PlanFields
<1>5. \A q \in Plans : PlanIsTyped(q)'
  BY <1>4 DEF PlanIsTyped, DiagramInv
<1>6. AreCalls(calls) /\ IsModel(model)
  BY <1>1 DEF DiagramInv, PlanIsTyped, IsSound
<1> HIDE DEF p, calls, results
<1>7. ASSUME NEW v \in Confirmers, confirm'[v].stage = "checked", confirm'[v] # confirm[v]
      PROVE  AreCommands(confirm'[v].commands) /\ DrawFreshIds(confirm'[v].commands, model)
  <2>1. DOMAIN confirm = Confirmers /\ DOMAIN confirm[u] = {"stage", "plan", "commands"}
    BY DEF DiagramInv, PlanInv, ConfirmsAsked
  <2>2. /\ v = u /\ confirm'[v].commands = CommandsOf(results)
        /\ ErrorsOf(results) = {} /\ \A call \in ToSet(calls) : DecodableCall(call)
    BY <1>3, <1>7, <2>1 DEF GoOnWith, EndConfirm, Idle
  <2>3. AreCommands(CommandsOf(results))
    BY <1>1, <1>6, <2>2, SubmittedAreCommands DEF results
  <2> QED
    BY <1>3, <2>2, <2>3
<1>8. \A q \in Plans : plans[q].stage # "none" => plans'[q].base = plans[q].base
  BY <1>4
<1> QED
  BY <1>2, <1>5, <1>7, <1>8, ReadKeepsDiagramInv

LEMMA ApplyKeepsDiagramInv ==
  ASSUME DiagramInv, PlanInv', NEW u \in Confirmers, ApplyPlan(u)
  PROVE  DiagramInv'
<1> DEFINE p == confirm[u].plan
           commands == confirm[u].commands
<1>1. /\ AreCommands(commands) /\ DrawFreshIds(commands, model)
      /\ Batch(model, commands).verdict = "ok" /\ model' = Batch(model, commands).model
  BY DEF ApplyPlan, IsAccepted, ExpectedRevisionHolds, DiagramInv, ConfirmIsSound
<1>2. IsSound(model')
  BY <1>1, BatchSound DEF DiagramInv
<1>3. revision \in Nat /\ revision < revision' /\ scenario' = scenario
  BY DEF ApplyPlan, IsAccepted, DiagramInv, PlanInv
<1>4. p \in Plans
  BY DEF ApplyPlan, DiagramInv, PlanInv, ConfirmsAsked
<1>5. \A q \in Plans : /\ plans'[q].request = plans[q].request /\ plans'[q].seen = plans[q].seen
                       /\ plans'[q].base = plans[q].base /\ plans'[q].calls = plans[q].calls
  BY <1>4 DEF ApplyPlan, DiagramInv, PlanInv, PlanFollows, PlanFields
<1>6. \A q \in Plans : PlanIsTyped(q)'
  BY <1>5 DEF PlanIsTyped, DiagramInv
<1>7. ASSUME NEW v \in Confirmers, confirm'[v].stage = "checked"
      PROVE  AreCommands(confirm'[v].commands) /\ revision' # plans'[confirm'[v].plan].base
  <2>1. confirm'[v] = confirm[v]
    BY <1>7 DEF ApplyPlan, EndConfirm, Idle, DiagramInv, PlanInv
  <2>2. confirm[v].plan \in Plans
    BY <1>7, <2>1 DEF DiagramInv, PlanInv, ConfirmsAsked
  <2>3. plans[confirm[v].plan].base \in Nat /\ plans[confirm[v].plan].base <= revision
    BY <2>2 DEF DiagramInv, PlanInv, PlanFollows
  <2>4. revision' \in Nat
    BY DEF PlanInv
  <2>5. plans'[confirm[v].plan].base # revision'
    BY <1>5, <2>2, <1>3, <2>3, <2>4
  <2> QED
    BY <1>7, <2>1, <2>5 DEF DiagramInv, ConfirmIsSound
<1>8. \A v \in Confirmers : ConfirmIsSound(v)'
  BY <1>7 DEF ConfirmIsSound
<1>9. scenario' \in Scenarios
  BY <1>3 DEF DiagramInv
<1> QED
  BY <1>2, <1>6, <1>8, <1>9 DEF DiagramInv

LEMMA NextDiagramInv == ASSUME StringFacts PROVE DiagramInv /\ [Next]_vars => DiagramInv'
<1> SUFFICES ASSUME DiagramInv, [Next]_vars PROVE DiagramInv'
  OBVIOUS
<1>1. PlanInv'
  BY NextPlanInv DEF DiagramInv
<1>2. CASE Next
  BY <1>1, <1>2, SubmitKeepsDiagramInv, ImportKeepsDiagramInv, AskKeepsDiagramInv,
     PreviewKeepsDiagramInv, ConfirmKeepsDiagramInv, TakeKeepsDiagramInv, ApplyKeepsDiagramInv
     DEF Next
<1>3. CASE UNCHANGED vars
  BY <1>3, <1>1, ReadKeepsDiagramInv DEF vars, DiagramInv, PlanIsTyped
<1> QED
  BY <1>2, <1>3

(* Whatever commands, files and plans come in any order, the diagram keeps *)
(* its types, its ids and its profiles (uml_commands/handlers, importer.py,*)
(* ai_assistant/service.py), and every plan and confirmation holds calls   *)
(* and commands of theirs.                                                 *)
THEOREM DiagramStaysSound == ASSUME StringFacts PROVE Spec => []DiagramInv
<1>1. Init => DiagramInv
  BY InitDiagramInv
<1>2. DiagramInv /\ [Next]_vars => DiagramInv'
  BY NextDiagramInv
<1> QED
  BY <1>1, <1>2, PTL DEF Spec

(* ProfilesOfLiveElements: no command, file or plan leaves a profile for an *)
(* element that is gone, or a default sort by an attribute that is gone.   *)
THEOREM ProfilesAreOfLiveElements == ASSUME StringFacts PROVE Spec => []ProfilesOfLiveElements
<1>1. DiagramInv => ProfilesOfLiveElements
  BY DEF DiagramInv, IsSound, HasLiveProfiles, LiveIds, ProfilesOfLiveElements
<1> QED
  BY <1>1, DiagramStaysSound, PTL

(* SchemaWellFormed: so does every diagram that commands, files and plans  *)
(* can produce have one.                                                   *)
THEOREM SchemasAreWellFormed == ASSUME StringFacts PROVE Spec => []SchemaWellFormed
<1>1. DiagramInv => SchemaWellFormed
  BY MappedSchemaIsWellFormed DEF DiagramInv, IsSound, SchemaWellFormed, Schema
<1> QED
  BY <1>1, DiagramStaysSound, PTL

(* CycleRuleExact: so are those of every diagram that commands, files and  *)
(* plans can produce.                                                      *)
THEOREM CyclesAreExact == ASSUME StringFacts PROVE Spec => []CycleRuleExact
<1>1. DiagramInv => CycleRuleExact
  <2> SUFFICES ASSUME DiagramInv PROVE CycleRuleExact
    OBVIOUS
  <2>1. IsModel(model)
    BY DEF DiagramInv, IsSound
  <2>2. /\ ReportedCycles(model) = {} <=> ~\E id \in Sources(model) : OnCycle(model, id)
        /\ \A cycle \in ReportedCycles(model) : IsCycle(model, cycle)
    BY <2>1, ReportedCyclesAreExact
  <2>3. Sources(model) = {r.source.cls : r \in ToSet(Generalizations(model))}
    BY DEF Sources
  <2> QED
    BY <2>2, <2>3, Zenon DEF CycleRuleExact, IsCycle
<1> QED
  BY <1>1, DiagramStaysSound, PTL

(* MapperAgreesWithValidation: on every diagram that commands, files and   *)
(* plans can produce, what the mapper refuses is what the rules report.    *)
THEOREM MapperAgrees == ASSUME StringFacts PROVE Spec => []MapperAgreesWithValidation
<1>1. ASSUME DiagramInv PROVE MapperAgreesWithValidation
  <2> DEFINE error == Schema.error
  <2>1. IsModel(model) /\ HasLiveProfiles(model)
    BY <1>1 DEF DiagramInv, IsSound
  <2>2. Codes = CodesOf(model)
    BY DEF Codes, CodesOf
  <2>3. IF HierarchyError(model) # "none" THEN error = HierarchyError(model)
        ELSE IsDue(model, error)
    <3> DEFINE blocked == HierarchyError(model)
               schema == MapToRelational(model)
    <3>1. IF blocked # "none" THEN schema = NoSchema(blocked) ELSE IsDue(model, schema.error)
      BY <2>1, MappedIs, Zenon
    <3>2. NoSchema(blocked).error = blocked
      BY DEF NoSchema
    <3> HIDE DEF blocked, schema
    <3>3. IF blocked # "none" THEN schema.error = blocked ELSE IsDue(model, schema.error)
      BY <3>1, <3>2
    <3> QED
      BY <3>3, Zenon DEF blocked, schema, Schema
  <2>4. /\ HierarchyError(model) \in {"none", "DanglingEndpoint", "MultipleParents", "GeneralizationCycle"}
        /\ HierarchyError(model) = "DanglingEndpoint" <=>
             "INVALID_RELATIONSHIP_ENDPOINT" \in Codes
        /\ HierarchyError(model) = "MultipleParents" => "MULTI_PARENT_GENERALIZATION" \in Codes
        /\ HierarchyError(model) = "GeneralizationCycle" => "GENERALIZATION_CYCLE" \in Codes
    BY <2>1, <2>2, HierarchyErrorIs, EndpointsReported
  <2>5. HierarchyError(model) = "none" =>
          /\ error \in {"none", "InvalidElementName", "UnknownEnumeration"}
          /\ error = "UnknownEnumeration" => "UNKNOWN_ATTRIBUTE_TYPE" \in Codes
          /\ error = "InvalidElementName" /\ "EMPTY_ELEMENT_NAME" \notin Codes => ~NamesHaveLetters
    BY <2>2, <2>3, StageErrorIs DEF NamesHaveLetters
  <2> HIDE DEF error
  <2> QED
    BY <2>3, <2>4, <2>5 DEF MapperAgreesWithValidation, error, AreConsistent
<1> QED
  BY <1>1, DiagramStaysSound, PTL

(* RelationshipsRealised: on every diagram that commands, files and plans  *)
(* can produce, each association, aggregation and composition is held by   *)
(* one table, whose keys say what the ends' multiplicities say.            *)
THEOREM RelationshipsAreRealised == ASSUME StringFacts PROVE Spec => []RelationshipsRealised
<1>1. ASSUME DiagramInv PROVE RelationshipsRealised
  <2> DEFINE schema == MapToRelational(model)
  <2>2. ASSUME schema.error = "none", NEW rel \in ToSet(model.rels), rel.kind # "generalization"
        PROVE  IsRealised(schema.tables, rel, TableNameOf(schema, rel.source.cls),
                          TableNameOf(schema, rel.target.cls))
    <3>1. IsDone(model, schema, rel)
      BY <2>2, <1>1, MappedRealises DEF DiagramInv, IsSound
    <3> HIDE DEF schema
    <3> QED
      BY <2>2, <3>1 DEF IsDone, NameIn, TableNameOf
  <2>3. Schema = schema
    BY DEF Schema
  <2> HIDE DEF schema
  <2> QED
    BY <2>2, <2>3 DEF RelationshipsRealised
<1> QED
  BY <1>1, DiagramStaysSound, PTL

(* ManifestMatchesProject: so do they for every diagram that commands,     *)
(* files and plans produce.                                                *)
THEOREM ManifestsMatchProjects == ASSUME StringFacts PROVE Spec => []ManifestMatchesProject
<1>1. DiagramInv => ManifestMatchesProject
  <2> SUFFICES ASSUME DiagramInv PROVE ManifestMatchesProject
    OBVIOUS
  <2>1. IsModel(model)
    BY DEF DiagramInv, IsSound
  <2>2. ASSUME NEW schema, schema = Schema, NEW project, project = Archive(model, schema),
               project.error = "none"
        PROVE  Agree(BuildManifest(schema.tables, schema.enumTypes), ToSet(project.files),
                     ToSet(schema.tables))
    BY <2>2, <2>1, ArchivedOf, ManifestAgrees DEF Schema
  <2> QED
    BY <2>2 DEF ManifestMatchesProject
<1> QED
  BY <1>1, DiagramStaysSound, PTL

(* GeneratedCodeResolves: so do those of every project that is generated   *)
(* of a diagram that commands, files and plans produce.                    *)
THEOREM GeneratedCodeFits == ASSUME StringFacts PROVE Spec => []GeneratedCodeResolves
<1>1. DiagramInv => GeneratedCodeResolves
  <2> SUFFICES ASSUME DiagramInv PROVE GeneratedCodeResolves
    OBVIOUS
  <2>1. IsModel(model)
    BY DEF DiagramInv, IsSound
  <2> DEFINE schema == MapToRelational(model)
             project == Archive(model, schema)
             tables == ToSet(schema.tables)
  <2>2. FitTogether(ToSet(project.files), tables)
    <3>1. CASE project.error = "none"
      <4>1. /\ project = GenerateProject(schema.tables, schema.enumTypes)
            /\ TablesAre(schema.tables, schema.enumTypes)
            /\ schema.enumTypes \in Seq(ToSet(schema.enumTypes))
        BY <2>1, <3>1, ArchivedOf
      <4> HIDE DEF schema, project
      <4> QED
        BY <3>1, <4>1, FilesFitTogether, ProjectGenerates
    <3>2. CASE project.error # "none"
      <4>1. project.files = <<>>
        BY <3>2, Zenon DEF Archive, NoProject, GenerateProject, Project
      <4>2. ToSet(<<>>) = {}
        BY DEF ToSet
      <4> HIDE DEF project, tables
      <4> QED
        BY <4>1, <4>2, Zenon DEF FitTogether
    <3> QED
      BY <3>1, <3>2
  <2> QED
    BY <2>2 DEF GeneratedCodeResolves, BuildProjectArchive, Schema
<1> QED
  BY <1>1, DiagramStaysSound, PTL

(* A comprehension of which the positions are known.                       *)

LEMMA OnlyAt ==
  ASSUME NEW S, NEW seq \in Seq(S), NEW kept, NEW n \in Nat, NEW at, KeptAt(seq, kept, n, at)
  PROVE  Only(seq, kept) = [i \in 1..n |-> seq[at[i]]]
<1> DEFINE found == CHOOSE found : Kept(seq, kept, Len(seq), found)
           first(m) == [i \in 1..m |-> seq[at[i]]]
           Split(m, k) == /\ \A i \in 1..m : at[i] <= k
                          /\ \A i \in 1..n : m < i => k < at[i]
           G == {k \in Nat : k <= Len(seq) => \A m \in 0..n : Split(m, k) => found[k] = first(m)}
<1>1. Only(seq, kept) = found[Len(seq)]
  BY DEF Only, Kept
<1>2. Kept(seq, kept, Len(seq), found)
  BY KeptExists
<1> HIDE DEF found
<1>a. /\ \A i \in 1..n : at[i] \in 1..Len(seq)
      /\ \A i, j \in 1..n : i < j => at[i] < at[j]
      /\ \A k \in 1..Len(seq) : seq[k] \in kept <=> \E i \in 1..n : at[i] = k
  BY DEF KeptAt
<1>3. 0 \in G
  <2> SUFFICES ASSUME NEW m \in 0..n, Split(m, 0) PROVE found[0] = first(m)
    OBVIOUS
  <2>1. m = 0
    <3> SUFFICES ASSUME m # 0 PROVE FALSE
      OBVIOUS
    <3>1. m \in 1..m /\ m \in 1..n
      OBVIOUS
    <3>2. at[m] <= 0 /\ at[m] \in 1..Len(seq)
      BY <1>a, <3>1
    <3> QED
      BY <3>2
  <2>2. found[0] = <<>>
    BY <1>2 DEF Kept
  <2> QED
    BY <2>1, <2>2
<1>4. ASSUME NEW k \in Nat, k \in G PROVE k + 1 \in G
  <2> SUFFICES ASSUME k + 1 <= Len(seq), NEW m \in 0..n, Split(m, k + 1)
               PROVE  found[k + 1] = first(m)
    OBVIOUS
  <2>1. found[k + 1] = IF seq[k + 1] \in kept THEN Append(found[k], seq[k + 1]) ELSE found[k]
    <3>1. (k + 1) - 1 = k /\ k + 1 \in 0..Len(seq) /\ k + 1 # 0
      OBVIOUS
    <3> QED
      BY <1>2, <3>1 DEF Kept
  <2>2. \A l \in 0..n : Split(l, k) => found[k] = first(l)
    BY <1>4
  <2>3. k + 1 \in 1..Len(seq)
    OBVIOUS
  <2>4. \A i \in 1..n : at[i] \in 1..Len(seq)
    BY <1>a
  <2>5. CASE seq[k + 1] \notin kept
    <3>1. \A i \in 1..n : at[i] # k + 1
      BY <1>a, <2>3, <2>5
    <3>2. Split(m, k)
      BY <3>1, <2>4
    <3> HIDE DEF Split, first
    <3> QED
      BY <2>1, <2>2, <2>5, <3>2
  <2>6. CASE seq[k + 1] \in kept
    <3>1. PICK l \in 1..n : at[l] = k + 1
      BY <1>a, <2>3, <2>6
    <3>2. l <= m
      BY <3>1, <2>4
    <3>3. l = m
      <4> SUFFICES ASSUME l < m PROVE FALSE
        BY <3>2
      <4>1. m \in 1..m /\ m \in 1..n /\ at[m] <= k + 1
        BY <3>1
      <4>2. at[l] < at[m]
        BY <1>a, <4>1
      <4> QED
        BY <2>4, <3>1, <4>1, <4>2
    <3>4. Split(m - 1, k)
      <4>1. \A i \in 1..(m - 1) : at[i] < at[m]
        BY <1>a, <3>3
      <4>2. \A i \in 1..n : m - 1 < i => i = m \/ m < i
        BY <3>3
      <4> QED
        BY <2>4, <3>1, <3>3, <4>1, <4>2
    <3>5. found[k] = first(m - 1)
      <4>1. m - 1 \in 0..n
        BY <3>3
      <4> HIDE DEF Split, first
      <4> QED
        BY <2>2, <3>4, <4>1
    <3>6. Append(first(m - 1), seq[k + 1]) = first(m)
      <4> DEFINE prev == first(m - 1)
                 next == first(m)
      <4>1. prev \in Seq(S) /\ Len(prev) = m - 1 /\ m \in Nat /\ m >= 1
        BY <3>3, <2>4
      <4>2. next \in Seq(S) /\ Len(next) = m
        BY <4>1, <2>4
      <4>3. \A i \in 1..(m - 1) : prev[i] = next[i]
        BY <4>1
      <4>4. next[m] = seq[k + 1]
        BY <3>1, <3>3, <4>1
      <4> HIDE DEF prev, next
      <4>5. Append(prev, seq[k + 1]) \in Seq(S) /\ Len(Append(prev, seq[k + 1])) = m
        BY <2>3, <4>1
      <4> DEFINE longer == Append(prev, seq[k + 1])
      <4>6. \A i \in 1..Len(longer) : longer[i] = next[i]
        BY <4>1, <4>3, <4>4, <4>5
      <4> HIDE DEF longer
      <4> QED
        <5>1. longer = next
          BY <4>2, <4>5, <4>6, SameSequence DEF longer
        <5> QED
          BY <5>1 DEF longer, prev, next
    <3> HIDE DEF first
    <3> QED
      BY <2>1, <2>6, <3>5, <3>6
  <2> QED
    BY <2>5, <2>6
<1>5. Split(n, Len(seq))
  BY <1>a
<1>6. Len(seq) \in G
  <2> HIDE DEF G
  <2> QED
    BY <1>3, <1>4, SetInduction
<1> QED
  <2> HIDE DEF Split
  <2> QED
    BY <1>1, <1>5, <1>6

LEMMA OnlyBetween ==
  ASSUME NEW S, NEW seq \in Seq(S), NEW kept, NEW a \in Nat, NEW n \in Nat,
         a + n <= Len(seq), KeptBetween(seq, kept, a, n)
  PROVE  Only(seq, kept) = [i \in 1..n |-> seq[a + i]]
<1> DEFINE at == [i \in 1..n |-> a + i]
<1>1. at \in [1..n -> 1..Len(seq)]
  OBVIOUS
<1>2. \A i, j \in 1..n : i < j => at[i] < at[j]
  OBVIOUS
<1>3. ASSUME NEW k \in 1..Len(seq)
      PROVE  seq[k] \in kept <=> \E i \in 1..n : at[i] = k
  <2>1. a < k /\ k <= a + n => k - a \in 1..n /\ at[k - a] = k
    OBVIOUS
  <2>2. \A i \in 1..n : at[i] = k => a < k /\ k <= a + n
    OBVIOUS
  <2> QED
    BY <2>1, <2>2 DEF KeptBetween
<1>4. \A i \in 1..n : at[i] = a + i
  OBVIOUS
<1> HIDE DEF at
<1>5. KeptAt(seq, kept, n, at)
  BY <1>1, <1>2, <1>3 DEF KeptAt
<1>6. Only(seq, kept) = [i \in 1..n |-> seq[at[i]]]
  BY <1>5, OnlyAt
<1> QED
  BY <1>4, <1>6

LEMMA OnlyFirst ==
  ASSUME NEW S, NEW seq \in Seq(S), NEW kept, NEW n \in Nat,
         n <= Len(seq), KeptBetween(seq, kept, 0, n)
  PROVE  Only(seq, kept) = [i \in 1..n |-> seq[i]]
<1> DEFINE zero == 0
<1>1. zero \in Nat /\ zero + n <= Len(seq) /\ KeptBetween(seq, kept, zero, n)
  OBVIOUS
<1>2. \A i \in 1..n : zero + i = i
  OBVIOUS
<1> HIDE DEF zero
<1>3. Only(seq, kept) = [i \in 1..n |-> seq[zero + i]]
  BY <1>1, OnlyBetween
<1> QED
  BY <1>2, <1>3

LEMMA OnlyAll ==
  ASSUME NEW S, NEW seq \in Seq(S), NEW kept, \A k \in 1..Len(seq) : seq[k] \in kept
  PROVE  Only(seq, kept) = seq
<1> DEFINE n == Len(seq)
           at == [i \in 1..n |-> i]
<1>1. KeptAt(seq, kept, n, at) /\ n \in Nat
  BY DEF KeptAt
<1> HIDE DEF at
<1>2. Only(seq, kept) = [i \in 1..n |-> seq[at[i]]]
  BY <1>1, OnlyAt
<1> QED
  BY <1>2 DEF at

(* The element of a new id.                                                *)
LEMMA SelectNewId ==
  ASSUME StringFacts, NEW kind \in {"xc", "xe"}, NEW n \in Nat, NEW seq, DOMAIN seq = 1..n,
         Len(seq) = n, \A i \in 1..n : seq[i].id = NewId(kind, i), NEW p \in 1..n
  PROVE  SelectInSeq(seq, LAMBDA e : e.id = NewId(kind, p)) = p
<1> DEFINE I == {i \in 1..Len(seq) : seq[i].id = NewId(kind, p)}
<1>1. SelectInSeq(seq, LAMBDA e : e.id = NewId(kind, p)) = IF I # {} THEN Min(I) ELSE 0
  BY DEF SelectInSeq
<1>2. \A i, j \in Nat : NewId(kind, i) = NewId(kind, j) => i = j
  BY Zenon DEF StringFacts, StringFactsFor
<1>3. I = {p}
  BY <1>2
<1>4. Min(I) \in I
  <2>1. I \in SUBSET (1..n) /\ I # {}
    BY <1>3
  <2> HIDE DEF I
  <2> QED
    BY <2>1, MinOf
<1> HIDE DEF I
<1> QED
  BY <1>1, <1>3, <1>4

(* What export_xmi writes: the names of the join classes are of a form of  *)
(* their own.                                                              *)
LEMMA JoinNamesAre ==
  ASSUME NEW S, NEW joins \in Seq(S), NEW m
  PROVE  \A i \in 1..Len(joins) : JoinNames(joins, m)[i].form = "joined"
<1> DEFINE n == Len(joins)
<1>1. JoinNames(joins, m) = Fold(FoldOf("JoinNames", m), <<>>, joins)
  BY DEF JoinNames, Fold, FoldOf, Combine, Max, FoldLeft, MapThenFoldSet
<1>2. n \in Nat /\ DOMAIN joins = 1..n
  OBVIOUS
<1>3. JoinNamesFollow(m, 0, <<>>)
  BY DEF JoinNamesFollow
<1>4. \A i \in 1..n : \A names : JoinNamesFollow(m, i-1, names) =>
        JoinNamesFollow(m, i, AddJoinName(m, names, joins[i]))
  <2> SUFFICES ASSUME NEW i \in 1..n, NEW names, JoinNamesFollow(m, i-1, names)
               PROVE  JoinNamesFollow(m, i, AddJoinName(m, names, joins[i]))
    OBVIOUS
  <2>1. \A words : Name("joined", words).form = "joined"
    BY DEF Name
  <2>2. PICK words : AddJoinName(m, names, joins[i]) = Append(names, Name("joined", words))
    BY Zenon DEF AddJoinName, JoinName
  <2> DEFINE e == Name("joined", words)
  <2> HIDE DEF e
  <2>3. IsLonger(Append(names, e), names, e)
    BY LongerIs, Zenon DEF JoinNamesFollow
  <2> DEFINE longer == Append(names, e)
  <2> HIDE DEF longer
  <2> QED
    BY <2>1, <2>2, <2>3 DEF IsLonger, JoinNamesFollow, longer, e
<1> HIDE DEF n
<1>5. JoinNamesFollow(m, n, Fold(FoldOf("JoinNames", m), <<>>, joins))
  <2> DEFINE fold == FoldOf("JoinNames", m)
  <2>1. \A a, e : Combine(fold, a, e) = AddJoinName(m, a, e)
    BY DEF Combine, FoldOf
  <2>2. \A k, a : Holds(fold, k, a) <=> JoinNamesFollow(m, k, a)
    BY DEF Holds, FoldOf
  <2> HIDE DEF fold
  <2>3. Holds(fold, 0, <<>>) /\ \A i \in 1..n : \A a :
          Holds(fold, i-1, a) => Holds(fold, i, Combine(fold, a, joins[i]))
    BY <1>2, <1>3, <1>4, <2>1, <2>2
  <2>4. JoinNamesFollow(m, n, Fold(fold, <<>>, joins))
    BY <1>2, <1>3, <1>4, <2>2, <2>3, FoldInduction
  <2> QED
    BY <2>4 DEF fold
<1> QED
  BY <1>1, <1>5 DEF JoinNamesFollow, n

LEMMA ConcatThree ==
  ASSUME NEW S, NEW s \in Seq(S), NEW t \in Seq(S), NEW u \in Seq(S)
  PROVE  IsConcat(s \o t \o u, s, t, u, S)
BY DEF IsConcat

LEMMA ConcatTwo ==
  ASSUME NEW S, NEW s \in Seq(S), NEW t \in Seq(S)
  PROVE  IsConcat(s \o t, s, t, <<>>, S)
BY DEF IsConcat

(* The elements of a file, as they are read: the classes, then the joins.  *)
LEMMA ExportedElements ==
  ASSUME NEW m, IsModel(m), NoRootName(m), NEW tables, NEW file, file = ExportWith(tables, m)
  PROVE  /\ EnumsIn(file) = [i \in 1..Len(m.enums) |-> WriteEnumeration(m.enums[i])]
         /\ ClassesIn(file) \in Seq(ToSet(ClassesIn(file)))
         /\ Len(m.classes) <= Len(ClassesIn(file))
         /\ \A i \in 1..Len(m.classes) : ClassesIn(file)[i] = WriteClass(m.classes[i], m)
         /\ \A i \in 1..Len(ClassesIn(file)) :
              Len(m.classes) < i => IsJoinElement(m, ClassesIn(file)[i])
<1> DEFINE joins == Filter(m.rels, IsJoinRelationship)
           names == JoinNames(joins, m)
           nc == Len(m.classes)
           ne == Len(m.enums)
           nj == Len(joins)
           cs == [i \in 1..nc |-> WriteClass(m.classes[i], m)]
           es == [i \in 1..ne |-> WriteEnumeration(m.enums[i])]
           js == [i \in 1..nj |-> WriteJoinClass(joins[i], names[i], tables)]
           X == {cs[i] : i \in 1..nc} \cup {es[i] : i \in 1..ne} \cup {js[i] : i \in 1..nj}
                  \cup {RootElement}
           all == cs \o es \o js
<1>1. /\ m.classes \in Seq(ClassType) /\ m.enums \in Seq(EnumerationType)
      /\ m.rels \in Seq(RelationshipType)
      /\ DOMAIN m.classes = 1..nc /\ DOMAIN m.enums = 1..ne
  BY DEF IsModel
<1>2. /\ joins \in Seq(RelationshipType)
      /\ \A i \in 1..nj : joins[i] \in ToSet(m.rels) /\ IsJoinRelationship(joins[i])
  <2>1. /\ joins \in Seq(RelationshipType)
        /\ ToSet(joins) = ToSet(m.rels) \cap {r \in ToSet(m.rels) : IsJoinRelationship(r)}
    BY <1>1, OnlyPicks DEF Filter
  <2> HIDE DEF joins
  <2>2. \A i \in 1..Len(joins) : joins[i] \in ToSet(joins)
    BY <2>1 DEF ToSet
  <2> QED
    BY <2>1, <2>2
<1> HIDE DEF joins
<1>3. nc \in Nat /\ ne \in Nat /\ nj \in Nat /\ DOMAIN joins = 1..nj
  BY <1>1, <1>2
<1>4. file.classes = <<RootElement>> \o all /\ file.dialect = "1.1"
  BY <1>1, <1>3 DEF ExportWith, joins
<1>5. \A i \in 1..nj : names[i].form = "joined"
  BY <1>2, JoinNamesAre
<1> HIDE DEF names
<1>6. /\ cs \in Seq(X) /\ Len(cs) = nc
      /\ es \in Seq(X) /\ Len(es) = ne
      /\ js \in Seq(X) /\ Len(js) = nj
  <2>1. cs \in [1..nc -> X] /\ es \in [1..ne -> X] /\ js \in [1..nj -> X]
    OBVIOUS
  <2> HIDE DEF X, cs, es, js
  <2> QED
    BY <1>3, <2>1, FunctionIsSeq
<1>7. /\ \A i \in 1..nc : cs[i] = WriteClass(m.classes[i], m) /\ cs[i].stype = "Class"
      /\ \A i \in 1..ne : es[i] = WriteEnumeration(m.enums[i]) /\ es[i].stype = "Enumeration"
      /\ \A i \in 1..nj : IsJoinElement(m, js[i])
  <2>1. ASSUME NEW i \in 1..nj PROVE IsJoinElement(m, WriteJoinClass(joins[i], names[i], tables))
    BY <1>2, <1>5 DEF WriteJoinClass, ClassElement, IsJoinElement
  <2>2. \A c : WriteClass(c, m).stype = "Class"
    BY DEF WriteClass, ClassElement
  <2>3. \A e : WriteEnumeration(e).stype = "Enumeration"
    BY DEF WriteEnumeration, ClassElement
  <2> QED
    BY <2>1, <2>2, <2>3
<1>8. /\ \A i \in 1..nc : ~IsPlumbing(cs[i])
      /\ \A i \in 1..ne : ~IsPlumbing(es[i])
      /\ \A i \in 1..nj : ~IsPlumbing(js[i])
  <2>1. ASSUME NEW i \in 1..nc PROVE ~IsPlumbing(WriteClass(m.classes[i], m))
    <3>1. m.classes[i].name # EARootClass
      BY <1>1 DEF NoRootName, NamesOf
    <3> QED
      BY <3>1 DEF IsPlumbing, WriteClass, ClassElement
  <2>2. ASSUME NEW i \in 1..ne PROVE ~IsPlumbing(WriteEnumeration(m.enums[i]))
    <3>1. m.enums[i].name # EARootClass
      BY <1>1 DEF NoRootName, NamesOf
    <3> QED
      BY <3>1 DEF IsPlumbing, WriteEnumeration, ClassElement
  <2>3. \A i \in 1..nj : ~IsPlumbing(js[i])
    BY <1>7 DEF IsPlumbing, IsJoinElement, EARootClass, Name
  <2> QED
    BY <1>7, <2>1, <2>2, <2>3
<1>r. RootElement \in X
  OBVIOUS
<1> HIDE DEF cs, es, js, X
<1>9. /\ all \in Seq(X) /\ Len(all) = nc + ne + nj
      /\ \A i \in 1..nc : all[i] = cs[i]
      /\ \A i \in 1..ne : all[nc + i] = es[i]
      /\ \A i \in 1..nj : all[nc + ne + i] = js[i]
  <2>1. IsConcat(all, cs, es, js, X)
    BY <1>6, ConcatThree
  <2> HIDE DEF all
  <2> QED
    BY <1>3, <1>6, <2>1 DEF IsConcat
<1> HIDE DEF all, nc, ne, nj
<1>10. ASSUME NEW k \in 1..(nc + ne + nj)
       PROVE  /\ all[k].stype = "Enumeration" <=> nc < k /\ k <= nc + ne
              /\ ~IsPlumbing(all[k])
  <2>1. CASE k <= nc
    BY <1>3, <1>7, <1>8, <1>9, <2>1
  <2>2. CASE nc < k /\ k <= nc + ne
    <3>1. k - nc \in 1..ne /\ k = nc + (k - nc)
      BY <1>3, <2>2
    <3>2. all[k] = es[k - nc]
      BY <1>9, <3>1
    <3> QED
      BY <1>7, <1>8, <2>2, <3>1, <3>2
  <2>3. CASE nc + ne < k
    <3>1. k - (nc + ne) \in 1..nj /\ k = nc + ne + (k - (nc + ne)) /\ ~(k <= nc + ne)
      BY <1>3, <2>3
    <3>2. all[k] = js[k - (nc + ne)]
      BY <1>9, <3>1
    <3> QED
      BY <1>7, <1>8, <3>1, <3>2 DEF IsJoinElement
  <2> QED
    BY <1>3, <2>1, <2>2, <2>3
<1>11. \A k \in 1..Len(all) : all[k] \in ToSet(all)
  BY <1>9 DEF ToSet
<1>12. ReadableClasses(file) = all
  <2> DEFINE raw == <<RootElement>> \o all
             n == Len(all)
             kept == {c \in ToSet(raw) : ~IsPlumbing(c)}
  <2>1. ReadableClasses(file) = Only(raw, kept)
    BY <1>4 DEF ReadableClasses, Filter
  <2>2. /\ raw \in Seq(X) /\ Len(raw) = 1 + n /\ raw[1] = RootElement /\ n \in Nat
        /\ \A i \in 1..n : raw[1 + i] = all[i]
    BY <1>r, <1>9
  <2> HIDE DEF raw, n
  <2>3. IsPlumbing(RootElement)
    BY DEF IsPlumbing, RootElement, ClassElement
  <2>4. \A k \in 1..n : ~IsPlumbing(all[k])
    BY <1>9, <1>10 DEF n
  <2>5. ASSUME NEW k \in 1..Len(raw) PROVE raw[k] \in kept <=> 1 < k /\ k <= 1 + n
    <3>1. raw[k] \in ToSet(raw)
      BY <2>2 DEF ToSet
    <3>2. CASE k = 1
      BY <2>2, <2>3, <3>2
    <3>3. CASE k # 1
      <4>1. k - 1 \in 1..n /\ 1 + (k - 1) = k
        BY <2>2, <3>3
      <4> QED
        BY <2>2, <2>4, <3>1, <4>1
    <3> QED
      BY <3>2, <3>3
  <2> HIDE DEF kept
  <2>6. KeptBetween(raw, kept, 1, n)
    BY <2>5 DEF KeptBetween
  <2>7. Only(raw, kept) = [i \in 1..n |-> raw[1 + i]]
    BY <2>2, <2>6, OnlyBetween
  <2>8. all = [i \in 1..n |-> all[i]]
    BY <1>9 DEF n
  <2> QED
    BY <2>1, <2>2, <2>7, <2>8
<1>13. EnumsIn(file) = [i \in 1..ne |-> WriteEnumeration(m.enums[i])]
  <2> DEFINE kept == {c \in ToSet(all) : IsEnumeration(c)}
  <2>1. EnumsIn(file) = Only(all, kept)
    BY <1>12 DEF EnumsIn, Filter
  <2>2. \A k \in 1..Len(all) : all[k] \in kept <=> nc < k /\ k <= nc + ne
    BY <1>9, <1>10, <1>11 DEF IsEnumeration
  <2> HIDE DEF kept
  <2>3. nc + ne <= Len(all) /\ KeptBetween(all, kept, nc, ne)
    BY <1>3, <1>9, <2>2 DEF KeptBetween
  <2>4. Only(all, kept) = [i \in 1..ne |-> all[nc + i]]
    BY <1>3, <1>9, <2>3, OnlyBetween
  <2> QED
    BY <1>7, <1>9, <2>1, <2>4
<1> DEFINE at == [i \in 1..(nc + nj) |-> IF i <= nc THEN i ELSE i + ne]
<1>14. ClassesIn(file) = [i \in 1..(nc + nj) |-> all[at[i]]]
  <2> DEFINE kept == {c \in ToSet(all) : ~IsEnumeration(c)}
  <2>1. ClassesIn(file) = Only(all, kept)
    BY <1>12 DEF ClassesIn, Filter
  <2>2. \A k \in 1..Len(all) : all[k] \in kept <=> ~(nc < k /\ k <= nc + ne)
    BY <1>9, <1>10, <1>11 DEF IsEnumeration
  <2> HIDE DEF kept
  <2>3. at \in [1..(nc + nj) -> 1..Len(all)] /\ nc + nj \in Nat
    BY <1>3, <1>9
  <2>4. \A i, j \in 1..(nc + nj) : i < j => at[i] < at[j]
    BY <1>3
  <2>5. ASSUME NEW k \in 1..Len(all)
        PROVE  all[k] \in kept <=> \E i \in 1..(nc + nj) : at[i] = k
    <3>1. k <= nc => k \in 1..(nc + nj) /\ at[k] = k
      BY <1>3
    <3>2. nc + ne < k => k - ne \in 1..(nc + nj) /\ at[k - ne] = k
      BY <1>3, <1>9
    <3>3. \A i \in 1..(nc + nj) : at[i] = k => k <= nc \/ nc + ne < k
      BY <1>3
    <3> HIDE DEF at
    <3> QED
      BY <1>3, <1>9, <2>2, <3>1, <3>2, <3>3
  <2> HIDE DEF at
  <2> QED
    <3>1. KeptAt(all, kept, nc + nj, at)
      BY <2>3, <2>4, <2>5 DEF KeptAt
    <3> QED
      BY <1>9, <2>1, <2>3, <3>1, OnlyAt
<1>15. ASSUME NEW i \in 1..(nc + nj)
       PROVE  /\ i <= nc => ClassesIn(file)[i] = WriteClass(m.classes[i], m)
              /\ nc < i => IsJoinElement(m, ClassesIn(file)[i])
  <2>1. CASE i <= nc
    BY <1>3, <1>7, <1>9, <1>14, <2>1
  <2>2. CASE nc < i
    <3>1. i - nc \in 1..nj /\ nc + ne + (i - nc) = i + ne
      BY <1>3, <2>2
    <3>2. ClassesIn(file)[i] = all[i + ne]
      BY <1>3, <1>14, <2>2
    <3>3. all[i + ne] = js[i - nc]
      BY <1>9, <3>1
    <3> QED
      BY <1>3, <1>7, <2>2, <3>1, <3>2, <3>3
  <2> QED
    BY <1>3, <2>1, <2>2
<1>16. ClassesIn(file) \in Seq(ToSet(ClassesIn(file))) /\ Len(ClassesIn(file)) = nc + nj
  <2> DEFINE seq == ClassesIn(file)
  <2>1. DOMAIN seq = 1..(nc + nj) /\ seq = [i \in 1..(nc + nj) |-> seq[i]]
    BY <1>14
  <2> HIDE DEF seq
  <2>2. seq \in [1..(nc + nj) -> ToSet(seq)] /\ nc + nj \in Nat
    BY <1>3, <2>1 DEF ToSet
  <2> QED
    BY <2>2, FunctionIsSeq DEF seq
<1> QED
  BY <1>3, <1>13, <1>15, <1>16 DEF nc, ne

LEMMA ExportIs ==
  ASSUME NEW m, IsModel(m), NoRootName(m), NEW tables
  PROVE  IsExportOf(m, ExportWith(tables, m))
<1> DEFINE file == ExportWith(tables, m)
<1>1. /\ file.dialect = "1.1"
      /\ file.associations =
           LET others == Filter(m.rels, LAMBDA r : r.kind # "generalization")
           IN  [i \in DOMAIN others |-> WriteAssociation(others[i])]
      /\ file.generalizations =
           LET heirs == Generalizations(m)
           IN  [i \in DOMAIN heirs |->
                  [child |-> <<heirs[i].source.cls>>, parent |-> <<heirs[i].target.cls>>]]
      /\ file.datatypes =
           [xid \in {DatatypeXid(tag) : tag \in PrimitiveTypes} |-> EaTypeName(xid[2])]
  BY DEF ExportWith
<1>2. file = ExportWith(tables, m)
  OBVIOUS
<1> HIDE DEF file
<1>3. /\ EnumsIn(file) = [i \in 1..Len(m.enums) |-> WriteEnumeration(m.enums[i])]
      /\ ClassesIn(file) \in Seq(ToSet(ClassesIn(file)))
      /\ Len(m.classes) <= Len(ClassesIn(file))
      /\ \A i \in 1..Len(m.classes) : ClassesIn(file)[i] = WriteClass(m.classes[i], m)
      /\ \A i \in 1..Len(ClassesIn(file)) :
           Len(m.classes) < i => IsJoinElement(m, ClassesIn(file)[i])
  BY <1>2, ExportedElements
<1> QED
  BY <1>1, <1>3 DEF IsExportOf, file

(* The references of the file: texts that stand for one element each.      *)

LEMMA ClassWritten ==
  \A m, c : /\ WriteClass(c, m).xid = <<c.id>> /\ WriteClass(c, m).name = c.name
            /\ ~WriteClass(c, m).synthetic
BY DEF WriteClass, ClassElement

LEMMA EnumerationWritten ==
  \A e : WriteEnumeration(e).xid = <<e.id>> /\ WriteEnumeration(e).name = e.name
BY DEF WriteEnumeration, ClassElement

LEMMA JoinWritten ==
  \A m, e : IsJoinElement(m, e) => Len(e.xid) = 2
BY DEF IsJoinElement, JoinXid

LEMMA ReferencesRead ==
  ASSUME NEW m, IsModel(m), NEW file, IsExportOf(m, file), NEW id
  PROVE  /\ ImportedId(EnumsIn(file), "xe", <<id>>)
              = NewId("xe", EnumIndex(m, id))
         /\ ImportedId(ClassesIn(file), "xc", <<id>>) = NewId("xc", ClassIndex(m, id))
         /\ <<id>> \in XidsOf(EnumsIn(file)) <=> HasId(m.enums, id)
         /\ HasId(m.classes, id) => <<id>> \in XidsOf(ClassesIn(file))
<1> DEFINE enums == EnumsIn(file)
           classes == ClassesIn(file)
           nc == Len(m.classes)
           ne == Len(m.enums)
<1>1. nc \in Nat /\ ne \in Nat /\ DOMAIN m.classes = 1..nc /\ DOMAIN m.enums = 1..ne
  BY DEF IsModel
<1>2. /\ Len(enums) = ne /\ DOMAIN enums = 1..ne
      /\ \A i \in 1..ne : enums[i].xid = <<m.enums[i].id>>
  <2>1. enums = [i \in 1..ne |-> WriteEnumeration(m.enums[i])]
    BY DEF IsExportOf
  <2> HIDE DEF enums, ne
  <2> QED
    BY <1>1, <2>1, EnumerationWritten
<1>3. /\ DOMAIN classes = 1..Len(classes) /\ Len(classes) \in Nat /\ nc <= Len(classes)
      /\ \A i \in 1..Len(classes) : IF i <= nc THEN classes[i].xid = <<m.classes[i].id>>
                                    ELSE Len(classes[i].xid) = 2
  <2>1. /\ classes \in Seq(ToSet(classes)) /\ nc <= Len(classes)
        /\ \A i \in 1..nc : classes[i] = WriteClass(m.classes[i], m)
        /\ \A i \in 1..Len(classes) : nc < i => IsJoinElement(m, classes[i])
    BY DEF IsExportOf
  <2> HIDE DEF classes, nc
  <2> QED
    BY <1>1, <2>1, ClassWritten, JoinWritten
<1>4. \A x : <<x>> = <<id>> <=> x = id
  OBVIOUS
<1>5. Len(<<id>>) # 2
  OBVIOUS
<1> HIDE DEF enums, classes, nc, ne
<1>6. {i \in 1..Len(enums) : enums[i].xid = <<id>>} = {i \in 1..ne : m.enums[i].id = id}
  BY <1>2, <1>4
<1>7. {i \in 1..Len(classes) : classes[i].xid = <<id>>} = {i \in 1..nc : m.classes[i].id = id}
  <2>1. ASSUME NEW i \in 1..Len(classes)
        PROVE  classes[i].xid = <<id>> <=> i <= nc /\ m.classes[i].id = id
    BY <1>3, <1>4, <1>5
  <2>2. \A i \in 1..Len(classes) : i <= nc <=> i \in 1..nc
    BY <1>1, <1>3
  <2>3. \A i \in 1..nc : i \in 1..Len(classes)
    BY <1>1, <1>3
  <2> QED
    BY <2>1, <2>2, <2>3
<1>8. ImportedId(enums, "xe", <<id>>) = NewId("xe", EnumIndex(m, id))
  BY <1>6 DEF ImportedId, EnumIndex, SelectInSeq, ne
<1>9. ImportedId(classes, "xc", <<id>>) = NewId("xc", ClassIndex(m, id))
  BY <1>7 DEF ImportedId, ClassIndex, SelectInSeq, nc
<1>10. <<id>> \in XidsOf(enums) <=> HasId(m.enums, id)
  BY <1>1, <1>2, <1>4 DEF XidsOf, HasId, IdsOf
<1>11. HasId(m.classes, id) => <<id>> \in XidsOf(classes)
  <2> SUFFICES ASSUME NEW i \in 1..nc, m.classes[i].id = id PROVE <<id>> \in XidsOf(classes)
    BY <1>1 DEF HasId, IdsOf
  <2>1. i \in 1..Len(classes) /\ classes[i].xid = <<id>>
    BY <1>1, <1>3
  <2> QED
    BY <1>3, <2>1 DEF XidsOf
<1> QED
  BY <1>8, <1>9, <1>10, <1>11 DEF enums, classes

(* Types.                                                                  *)

LEMMA EaTypes ==
  ASSUME NEW tag \in PrimitiveTypes
  PROVE  PrimitiveNamed(EaTypeName(tag)) = tag /\ EaTypeName(tag).form # "joined"
<1>1. CASE tag = "STRING"
  BY <1>1 DEF PrimitiveNamed, EaTypeName, Name
<1>2. CASE tag = "TEXT"
  BY <1>2 DEF PrimitiveNamed, EaTypeName, Name
<1>3. CASE tag = "INTEGER"
  BY <1>3 DEF PrimitiveNamed, EaTypeName, Name
<1>4. CASE tag = "LONG"
  BY <1>4 DEF PrimitiveNamed, EaTypeName, Name
<1>5. CASE tag = "DECIMAL"
  BY <1>5 DEF PrimitiveNamed, EaTypeName, Name
<1>6. CASE tag = "BOOLEAN"
  BY <1>6 DEF PrimitiveNamed, EaTypeName, Name
<1>7. CASE tag = "DATE"
  BY <1>7 DEF PrimitiveNamed, EaTypeName, Name
<1>8. CASE tag = "DATETIME"
  BY <1>8 DEF PrimitiveNamed, EaTypeName, Name
<1> QED
  BY <1>1, <1>2, <1>3, <1>4, <1>5, <1>6, <1>7, <1>8 DEF PrimitiveTypes

LEMMA TypesAreRead ==
  ASSUME NEW m, IsModel(m), NEW file, IsExportOf(m, file), NoTypeNames(m),
         NEW type \in [tag : PrimitiveTypes \cup {"ENUM"}, enum : STRING],
         type.tag = "ENUM" => HasId(m.enums, type.enum), NEW feature,
         feature.typeRef = TypeRefOf(type), feature.typeName = TypeNameOf(type, m)
  PROVE  ResolveType(feature, file) = TypeRead(m, type)
<1> DEFINE enums == EnumsIn(file)
           classes == ClassesIn(file)
           tag == type.tag
<1>1. CASE tag = "ENUM"
  <2>1. feature.typeRef = <<type.enum>>
    BY <1>1 DEF TypeRefOf
  <2>2. /\ ImportedId(enums, "xe", <<type.enum>>)
             = NewId("xe", EnumIndex(m, type.enum))
        /\ <<type.enum>> \in XidsOf(enums)
    BY <1>1, ReferencesRead
  <2>3. ResolveType(feature, file) = EnumRef(ImportedId(enums, "xe", feature.typeRef))
    BY <2>1, <2>2 DEF ResolveType
  <2> QED
    BY <1>1, <2>1, <2>2, <2>3 DEF TypeRead
<1>2. CASE tag # "ENUM"
  <2>1. tag \in PrimitiveTypes
    BY <1>2
  <2>2. feature.typeRef = DatatypeXid(tag) /\ feature.typeName = EaTypeName(tag)
    BY <1>2 DEF TypeRefOf, TypeNameOf
  <2>3. DatatypeXid(tag) \notin XidsOf(enums)
    <3> SUFFICES ASSUME NEW i \in DOMAIN enums, enums[i].xid = DatatypeXid(tag) PROVE FALSE
      BY DEF XidsOf
    <3>1. enums[i] = WriteEnumeration(m.enums[i])
      BY DEF IsExportOf
    <3> QED
      <4>1. enums[i].xid = <<m.enums[i].id>>
        BY <3>1, EnumerationWritten
      <4> QED
        BY <4>1 DEF DatatypeXid
  <2>4. /\ \A i \in 1..Len(m.classes) : classes[i] = WriteClass(m.classes[i], m)
        /\ \A i \in 1..Len(classes) : Len(m.classes) < i => IsJoinElement(m, classes[i])
        /\ DOMAIN classes = 1..Len(classes) /\ Len(classes) \in Nat /\ Len(m.classes) \in Nat
        /\ DOMAIN m.classes = 1..Len(m.classes) /\ DOMAIN m.enums = 1..Len(m.enums)
    BY DEF IsExportOf, IsModel
  <2>5. \A i \in DOMAIN classes :
          (i \in 1..Len(m.classes) /\ classes[i] = WriteClass(m.classes[i], m))
            \/ IsJoinElement(m, classes[i])
    <3> HIDE DEF classes
    <3> QED
      BY <2>4
  <2>6. DatatypeXid(tag) \notin XidsOf(classes)
    <3> SUFFICES ASSUME NEW i \in DOMAIN classes, classes[i].xid = DatatypeXid(tag) PROVE FALSE
      BY DEF XidsOf
    <3>1. CASE classes[i] = WriteClass(m.classes[i], m)
      BY <3>1, ClassWritten DEF DatatypeXid
    <3>2. CASE IsJoinElement(m, classes[i])
      BY <2>1, <3>2 DEF IsJoinElement, JoinXid, DatatypeXid, PrimitiveTypes
    <3> QED
      BY <2>5, <3>1, <3>2
  <2>7. \A n \in NamesOf(m.classes) \cup NamesOf(m.enums) : n # EaTypeName(tag)
    BY <2>1 DEF NoTypeNames
  <2>8. EaTypeName(tag) \notin NamesOf(classes)
    <3> SUFFICES ASSUME NEW i \in DOMAIN classes, classes[i].name = EaTypeName(tag) PROVE FALSE
      BY DEF NamesOf
    <3>1. CASE i \in 1..Len(m.classes) /\ classes[i] = WriteClass(m.classes[i], m)
      <4>1. classes[i].name = m.classes[i].name
        BY <3>1, ClassWritten
      <4>2. m.classes[i].name \in NamesOf(m.classes)
        BY <2>4, <3>1 DEF NamesOf
      <4> QED
        BY <2>7, <4>1, <4>2
    <3>2. CASE IsJoinElement(m, classes[i])
      BY <2>1, <3>2, EaTypes DEF IsJoinElement
    <3> QED
      BY <2>5, <3>1, <3>2
  <2>9. EaTypeName(tag) \notin NamesOf(enums)
    <3> SUFFICES ASSUME NEW i \in DOMAIN enums, enums[i].name = EaTypeName(tag) PROVE FALSE
      BY DEF NamesOf
    <3>1. i \in 1..Len(m.enums) /\ enums[i] = WriteEnumeration(m.enums[i])
      BY DEF IsExportOf
    <3>2. enums[i].name = m.enums[i].name
      BY <3>1, EnumerationWritten
    <3>3. m.enums[i].name \in NamesOf(m.enums)
      BY <2>4, <3>1 DEF NamesOf
    <3> QED
      BY <2>7, <3>2, <3>3
  <2>10. DatatypeXid(tag) \in DOMAIN file.datatypes
         /\ file.datatypes[DatatypeXid(tag)] = EaTypeName(tag)
    BY <2>1 DEF IsExportOf, DatatypeXid
  <2> HIDE DEF enums, classes, tag
  <2>11. ResolveType(feature, file) = Primitive(PrimitiveNamed(EaTypeName(tag)))
    BY <2>2, <2>3, <2>6, <2>8, <2>9, <2>10 DEF ResolveType, enums, classes
  <2> QED
    BY <1>2, <2>1, <2>11, EaTypes DEF TypeRead, tag
<1> QED
  BY <1>1, <1>2

(* Classes.                                                                *)

LEMMA FeaturesAreRead ==
  ASSUME NEW m, IsModel(m), NEW file, IsExportOf(m, file), NoTypeNames(m),
         NEW c \in ClassType, HasTypes(m, c), NEW id
  PROVE  /\ ImportAttributes(WriteClass(c, m), id, file) = AttributesRead(m, c, id)
         /\ ImportOperations(WriteClass(c, m), id) = OperationsRead(c, id)
<1> DEFINE na == Len(c.attrs)
           no == Len(c.ops)
           as == [i \in DOMAIN c.attrs |->
                    Feature("Attribute", c.attrs[i].name, TypeNameOf(c.attrs[i].type, m),
                            IF c.attrs[i].type.tag = "ENUM" THEN <<c.attrs[i].type.enum>>
                            ELSE DatatypeXid(c.attrs[i].type.tag))]
           os == [i \in DOMAIN c.ops |-> Feature("Operation", c.ops[i].name, NoName, NoXid)]
           X == {as[i] : i \in DOMAIN c.attrs} \cup {os[i] : i \in DOMAIN c.ops}
           all == as \o os
           attrs == Filter(all, LAMBDA f : f.kind = "Attribute" /\ ResolveType(f, file).tag # "none")
           ops == Filter(all, LAMBDA f : f.kind = "Operation")
<1>1. WriteClass(c, m).features = all
  BY Zenon DEF WriteClass, ClassElement
<1>2. /\ na \in Nat /\ DOMAIN c.attrs = 1..na /\ no \in Nat /\ DOMAIN c.ops = 1..no
      /\ \A i \in 1..na : c.attrs[i] \in AttributeType
  BY DEF ClassType
<1>3. as \in Seq(X) /\ Len(as) = na /\ os \in Seq(X) /\ Len(os) = no
  <2>1. as \in [1..na -> X] /\ os \in [1..no -> X]
    BY <1>2
  <2> HIDE DEF as, os, X
  <2> QED
    BY <1>2, <2>1, FunctionIsSeq
<1>4. \A i \in 1..na : /\ as[i].kind = "Attribute" /\ as[i].name = c.attrs[i].name
                       /\ as[i].typeRef = TypeRefOf(c.attrs[i].type)
                       /\ as[i].typeName = TypeNameOf(c.attrs[i].type, m)
  BY <1>2 DEF Feature, TypeRefOf
<1>5. \A i \in 1..no : os[i].kind = "Operation" /\ os[i].name = c.ops[i].name
  BY <1>2 DEF Feature
<1> HIDE DEF as, os, X
<1>6. /\ all \in Seq(X) /\ Len(all) = na + no
      /\ \A i \in 1..na : all[i] = as[i]
      /\ \A i \in 1..no : all[na + i] = os[i]
  <2>1. IsConcat(all, as, os, <<>>, X)
    BY <1>3, ConcatTwo
  <2> HIDE DEF all, na, no
  <2>2. /\ all \in Seq(X) /\ Len(all) = Len(as) + Len(os) + Len(<<>>)
        /\ \A i \in 1..Len(as) : all[i] = as[i]
        /\ \A i \in 1..Len(os) : all[Len(as) + i] = os[i]
    BY <2>1 DEF IsConcat
  <2>3. na + no + Len(<<>>) = na + no
    BY <1>2
  <2> QED
    BY <1>3, <2>2, <2>3
<1>7. ASSUME NEW i \in 1..na
      PROVE  /\ ResolveType(as[i], file) = TypeRead(m, c.attrs[i].type)
             /\ TypeRead(m, c.attrs[i].type).tag # "none"
  <2> DEFINE type == c.attrs[i].type
  <2>1. type \in [tag : PrimitiveTypes \cup {"ENUM"}, enum : STRING]
    BY <1>2 DEF AttributeType
  <2>2. type.tag = "ENUM" => HasId(m.enums, type.enum)
    BY <1>2 DEF HasTypes
  <2>3. as[i].typeRef = TypeRefOf(type) /\ as[i].typeName = TypeNameOf(type, m)
    BY <1>4
  <2> HIDE DEF type
  <2>4. ResolveType(as[i], file) = TypeRead(m, type)
    BY <2>1, <2>2, <2>3, TypesAreRead
  <2>5. TypeRead(m, type).tag # "none"
    BY <2>1 DEF TypeRead, EnumRef, Primitive, PrimitiveTypes
  <2> QED
    BY <2>4, <2>5 DEF type
<1> HIDE DEF all, na, no
<1>8. ASSUME NEW k \in 1..Len(all)
      PROVE  /\ all[k].kind = "Attribute" /\ ResolveType(all[k], file).tag # "none"
                  <=> 0 < k /\ k <= 0 + na
             /\ all[k].kind = "Operation" <=> na < k /\ k <= na + no
             /\ all[k] \in ToSet(all)
  <2>1. all[k] \in ToSet(all)
    BY <1>6 DEF ToSet
  <2>2. CASE k <= na
    <3>1. k \in 1..na /\ 0 < k /\ k <= 0 + na /\ ~(na < k)
      BY <1>2, <1>6, <2>2
    <3>2. all[k] = as[k] /\ as[k].kind = "Attribute" /\ ResolveType(as[k], file).tag # "none"
      BY <1>4, <1>6, <1>7, <3>1
    <3> QED
      BY <2>1, <3>1, <3>2
  <2>3. CASE na < k
    <3>1. k - na \in 1..no /\ na + (k - na) = k /\ k <= na + no /\ ~(k <= 0 + na)
      BY <1>2, <1>6, <2>3
    <3>2. all[k] = os[k - na] /\ os[k - na].kind = "Operation"
      BY <1>5, <1>6, <3>1
    <3> QED
      BY <2>1, <2>3, <3>1, <3>2
  <2> QED
    BY <1>2, <1>6, <2>2, <2>3
<1>9. attrs = [i \in 1..na |-> as[i]]
  <2> DEFINE kept == {f \in ToSet(all) : f.kind = "Attribute" /\ ResolveType(f, file).tag # "none"}
  <2>1. attrs = Only(all, kept)
    BY DEF Filter
  <2>2. KeptBetween(all, kept, 0, na)
    BY <1>8 DEF KeptBetween
  <2> HIDE DEF kept, attrs
  <2>3. na <= Len(all)
    BY <1>2, <1>6
  <2>4. Only(all, kept) = [i \in 1..na |-> all[i]]
    BY <1>2, <1>6, <2>2, <2>3, OnlyFirst
  <2> QED
    BY <1>6, <2>1, <2>4
<1>10. ops = [i \in 1..no |-> os[i]]
  <2> DEFINE kept == {f \in ToSet(all) : f.kind = "Operation"}
  <2>1. ops = Only(all, kept)
    BY DEF Filter
  <2>2. KeptBetween(all, kept, na, no)
    BY <1>8 DEF KeptBetween
  <2> HIDE DEF kept, ops
  <2>3. na + no <= Len(all)
    BY <1>2, <1>6
  <2>4. Only(all, kept) = [i \in 1..no |-> all[na + i]]
    BY <1>2, <1>6, <2>2, <2>3, OnlyBetween
  <2> QED
    BY <1>6, <2>1, <2>4
<1>11. ImportAttributes(WriteClass(c, m), id, file) = AttributesRead(m, c, id)
  <2>1. ImportAttributes(WriteClass(c, m), id, file) =
          [i \in DOMAIN attrs |->
             [id |-> MemberId(id, "a", i), name |-> attrs[i].name,
              type |-> ResolveType(attrs[i], file)]]
    BY <1>1 DEF ImportAttributes
  <2> HIDE DEF attrs
  <2>2. /\ DOMAIN attrs = 1..na /\ DOMAIN c.attrs = 1..na
        /\ \A i \in 1..na : /\ attrs[i].name = c.attrs[i].name
                           /\ ResolveType(attrs[i], file) = TypeRead(m, c.attrs[i].type)
    BY <1>2, <1>4, <1>7, <1>9
  <2> QED
    BY <2>1, <2>2 DEF AttributesRead
<1>12. ImportOperations(WriteClass(c, m), id) = OperationsRead(c, id)
  <2>1. ImportOperations(WriteClass(c, m), id) =
          [i \in DOMAIN ops |-> [id |-> MemberId(id, "o", i), name |-> ops[i].name]]
    BY <1>1 DEF ImportOperations
  <2> HIDE DEF ops
  <2> QED
    BY <1>2, <1>5, <1>10, <2>1 DEF OperationsRead
<1> QED
  BY <1>11, <1>12, Zenon

(* The place of a class of the diagram is where its id is found.           *)
LEMMA OwnIndex ==
  ASSUME NEW m, IsModel(m), DistinctClassIds(m), NEW i \in 1..Len(m.classes)
  PROVE  ClassIndex(m, m.classes[i].id) = i
<1> DEFINE I == {k \in 1..Len(m.classes) : m.classes[k].id = m.classes[i].id}
<1>1. ClassIndex(m, m.classes[i].id) = IF I # {} THEN Min(I) ELSE 0
  BY DEF ClassIndex, SelectInSeq
<1>2. Len(m.classes) \in Nat /\ DOMAIN m.classes = 1..Len(m.classes)
  BY DEF IsModel
<1>3. I = {i}
  BY <1>2 DEF DistinctClassIds
<1>4. I \in SUBSET (1..Len(m.classes))
  OBVIOUS
<1> HIDE DEF I
<1>5. Min(I) \in I
  BY <1>2, <1>3, <1>4, MinOf
<1> QED
  BY <1>1, <1>3, <1>5

LEMMA ClassesAreRead ==
  ASSUME NEW m, IsModel(m), DistinctClassIds(m), NEW file, IsExportOf(m, file), NoTypeNames(m),
         \A i \in DOMAIN m.classes : HasTypes(m, m.classes[i])
  PROVE  ImportedClasses(file) = [i \in 1..Len(m.classes) |-> ClassRead(m, i)]
<1> DEFINE n == Len(m.classes)
           all == ClassesIn(file)
           kept == {c \in ToSet(all) : ~IsHidden(c, ImportClass(c, file), file)}
           out == Only(all, kept)
<1>1. n \in Nat /\ DOMAIN m.classes = 1..n /\ \A i \in 1..n : m.classes[i] \in ClassType
  BY DEF IsModel
<1>2. ImportedClasses(file) = [i \in DOMAIN out |-> ImportClass(out[i], file)]
  BY DEF ImportedClasses, Filter
<1>3. /\ all \in Seq(ToSet(all)) /\ n <= Len(all)
      /\ \A i \in 1..n : all[i] = WriteClass(m.classes[i], m)
      /\ \A i \in 1..Len(all) : n < i => IsJoinElement(m, all[i])
  BY DEF IsExportOf
<1> DEFINE others == Filter(m.rels, LAMBDA r : r.kind # "generalization")
<1>4. file.dialect = "1.1" /\ file.associations = [i \in DOMAIN others |-> WriteAssociation(others[i])]
  BY DEF IsExportOf
<1>5. /\ DOMAIN others = 1..Len(others)
      /\ ToSet(others) = ToSet(m.rels) \cap {r \in ToSet(m.rels) : r.kind # "generalization"}
  <2>1. others \in Seq(RelationshipType)
        /\ ToSet(others) = ToSet(m.rels) \cap {r \in ToSet(m.rels) : r.kind # "generalization"}
    BY OnlyPicks DEF Filter, IsModel
  <2> HIDE DEF others
  <2> QED
    BY <2>1
<1> HIDE DEF all, kept, out, n, others
<1>6. ASSUME NEW i \in 1..n PROVE ~IsHidden(all[i], ImportClass(all[i], file), file)
  <2>1. all[i].xid = <<m.classes[i].id>> /\ ~all[i].synthetic
    BY <1>3, ClassWritten
  <2>2. ASSUME NEW a \in ToSet(file.associations), a.associationClass = all[i].xid PROVE FALSE
    <3>1. PICK k \in DOMAIN others : a = WriteAssociation(others[k])
      BY <1>4 DEF ToSet
    <3>2. Len(a.associationClass) # 1
      BY <3>1 DEF WriteAssociation, JoinXid, NoXid
    <3>3. Len(all[i].xid) = 1
      BY <2>1
    <3> QED
      BY <2>2, <3>2, <3>3
  <2> QED
    BY <2>2 DEF IsHidden
<1>7. ASSUME NEW i \in 1..Len(all), n < i PROVE IsHidden(all[i], ImportClass(all[i], file), file)
  <2>1. IsJoinElement(m, all[i])
    BY <1>3, <1>7
  <2>2. PICK rel \in ToSet(m.rels) : IsJoinRelationship(rel) /\ all[i].xid = JoinXid(rel)
    BY <2>1 DEF IsJoinElement
  <2>3. PICK k \in DOMAIN others : others[k] = rel
    <3>1. rel \in ToSet(others)
      BY <1>5, <2>2 DEF IsJoinRelationship
    <3> QED
      BY <3>1 DEF ToSet
  <2>4. WriteAssociation(rel).associationClass = all[i].xid
    BY <2>2 DEF WriteAssociation
  <2>5. WriteAssociation(rel) \in ToSet(file.associations)
    BY <1>4, <2>3 DEF ToSet
  <2> QED
    BY <1>4, <2>1, <2>4, <2>5 DEF IsHidden, IsJoinElement
<1>8. KeptBetween(all, kept, 0, n)
  <2>1. ASSUME NEW k \in 1..Len(all) PROVE all[k] \in kept <=> 0 < k /\ k <= 0 + n
    <3>1. all[k] \in ToSet(all)
      BY <1>3 DEF ToSet
    <3>2. all[k] \in kept <=> ~IsHidden(all[k], ImportClass(all[k], file), file)
      BY <3>1 DEF kept
    <3>3. k <= n => k \in 1..n
      BY <1>1
    <3>4. 0 < k /\ (k <= 0 + n <=> ~(n < k)) /\ (k <= 0 + n <=> k <= n)
      BY <1>1, <1>3
    <3> QED
      BY <1>6, <1>7, <3>2, <3>3, <3>4
  <2> QED
    BY <2>1 DEF KeptBetween
<1>9. out = [i \in 1..n |-> WriteClass(m.classes[i], m)]
  <2>1. n <= Len(all)
    BY <1>1, <1>3
  <2>2. Only(all, kept) = [i \in 1..n |-> all[i]]
    BY <1>1, <1>3, <1>8, <2>1, OnlyFirst
  <2> QED
    BY <1>1, <1>3, <2>2 DEF out
<1>10. ASSUME NEW i \in 1..n PROVE ImportClass(WriteClass(m.classes[i], m), file) = ClassRead(m, i)
  <2> DEFINE c == m.classes[i]
             e == WriteClass(c, m)
             id == ImportedId(ClassesIn(file), "xc", e.xid)
  <2>1. e.xid = <<c.id>> /\ e.name = c.name
    BY ClassWritten
  <2>2. id = NewId("xc", ClassIndex(m, c.id))
    BY <2>1, ReferencesRead
  <2>3. ClassIndex(m, c.id) = i
    BY <1>1, OwnIndex DEF n
  <2>4. c \in ClassType /\ HasTypes(m, c)
    BY <1>1
  <2>5. ImportClass(e, file) =
          [id |-> id, name |-> e.name, attrs |-> ImportAttributes(e, id, file),
           ops |-> ImportOperations(e, id)]
    BY DEF ImportClass
  <2> HIDE DEF c, e, id
  <2>6. /\ ImportAttributes(e, id, file) = AttributesRead(m, c, id)
        /\ ImportOperations(e, id) = OperationsRead(c, id)
    BY <2>4, FeaturesAreRead DEF e
  <2> QED
    BY <2>1, <2>2, <2>3, <2>5, <2>6 DEF ClassRead, c, e
<1> QED
  BY <1>2, <1>9, <1>10 DEF n

(* Relationships.                                                          *)

LEMMA MultiplicityIsRead ==
  ASSUME NEW mult \in MultiplicityType, IsParsed(mult)
  PROVE  ImportedMultiplicity(FormatMultiplicity(mult)) = mult
<1>1. ImportedMultiplicity(FormatMultiplicity(mult)) = ParseMultiplicity(FormatMultiplicity(mult))
  BY DEF IsParsed, ImportedMultiplicity
<1>2. CASE mult.lower = mult.upper
  BY <1>1, <1>2 DEF FormatMultiplicity, ParseMultiplicity, Multiplicity, MultiplicityType
<1>3. CASE mult.lower # mult.upper
  BY <1>1, <1>3 DEF FormatMultiplicity, ParseMultiplicity, Multiplicity, MultiplicityType
<1> QED
  BY <1>2, <1>3

LEMMA HeirIsRead ==
  ASSUME NEW m, IsModel(m), NEW file, IsExportOf(m, file), NEW r, NEW g,
         g = [child |-> <<r.source.cls>>, parent |-> <<r.target.cls>>]
  PROVE  ImportGeneralization(g, file) = HeirRead(m, r)
<1>1. /\ ImportedId(ClassesIn(file), "xc", <<r.source.cls>>) = NewId("xc", ClassIndex(m, r.source.cls))
      /\ ImportedId(ClassesIn(file), "xc", <<r.target.cls>>) = NewId("xc", ClassIndex(m, r.target.cls))
  BY ReferencesRead
<1>2. g.child = <<r.source.cls>> /\ g.parent = <<r.target.cls>>
  OBVIOUS
<1> QED
  BY <1>1, <1>2 DEF ImportGeneralization, HeirRead, EndRead

LEMMA LinkIsRead ==
  ASSUME NEW m, IsModel(m), NEW file, IsExportOf(m, file), NEW r \in RelationshipType,
         r.kind # "generalization", IsParsed(r.source.mult), IsParsed(r.target.mult)
  PROVE  ImportAssociation(WriteAssociation(r), file) = LinkRead(m, r)
<1> DEFINE a == WriteAssociation(r)
           end(i) == End(ImportedId(ClassesIn(file), "xc", a.ends[i].ref),
                         ImportedMultiplicity(a.ends[i].mult), a.ends[i].role)
           whole(i) == IsWhole(a.ends, i, file.dialect)
           first == IF whole(1) \/ ~whole(2) THEN 1 ELSE 2
           kind == IF whole(1) \/ whole(2) THEN RawKind(a.ends, first, file.dialect)
                   ELSE "association"
<1>1. /\ a.ends[1].ref = <<r.source.cls>> /\ a.ends[2].ref = <<r.target.cls>>
      /\ a.ends[1].mult = FormatMultiplicity(r.source.mult)
      /\ a.ends[2].mult = FormatMultiplicity(r.target.mult)
      /\ a.ends[1].role = r.source.role /\ a.ends[2].role = r.target.role
      /\ a.ends[1].aggregation = Aggregation(r.kind) /\ a.ends[2].aggregation = "none"
      /\ a.name = r.name
  BY DEF WriteAssociation, AssociationEnd
<1>2. ImportAssociation(a, file) =
        [kind |-> kind, source |-> end(first), target |-> end(3 - first), name |-> a.name]
  BY DEF ImportAssociation
<1>3. file.dialect = "1.1"
  BY DEF IsExportOf
<1> HIDE DEF a
<1>4. r.kind \in {"association", "aggregation", "composition"}
  BY DEF RelationshipType, RelationshipKinds
<1>5. (whole(1) <=> r.kind # "association") /\ ~whole(2)
  BY <1>1, <1>3, <1>4 DEF IsWhole, MarkedEnd, Aggregation
<1>6. first = 1
  BY <1>5
<1>7. kind = r.kind
  BY <1>1, <1>3, <1>4, <1>5, <1>6 DEF RawKind, MarkedEnd, Aggregation
<1>8. end(1) = EndRead(m, r.source, r.source.mult, r.source.role)
  <2>1. r.source.mult \in MultiplicityType
    BY DEF RelationshipType, EndType
  <2>2. ImportedMultiplicity(FormatMultiplicity(r.source.mult)) = r.source.mult
    BY <2>1, MultiplicityIsRead
  <2>3. ImportedId(ClassesIn(file), "xc", <<r.source.cls>>) = NewId("xc", ClassIndex(m, r.source.cls))
    BY ReferencesRead
  <2> QED
    BY <1>1, <2>2, <2>3 DEF EndRead
<1>9. end(2) = EndRead(m, r.target, r.target.mult, r.target.role)
  <2>1. r.target.mult \in MultiplicityType
    BY DEF RelationshipType, EndType
  <2>2. ImportedMultiplicity(FormatMultiplicity(r.target.mult)) = r.target.mult
    BY <2>1, MultiplicityIsRead
  <2>3. ImportedId(ClassesIn(file), "xc", <<r.target.cls>>) = NewId("xc", ClassIndex(m, r.target.cls))
    BY ReferencesRead
  <2> QED
    BY <1>1, <2>2, <2>3 DEF EndRead
<1> HIDE DEF end, kind, first
<1> QED
  BY <1>1, <1>2, <1>6, <1>7, <1>8, <1>9 DEF LinkRead, a

LEMMA RelationshipsSplit ==
  ASSUME NEW m, IsModel(m)
  PROVE  /\ Generalizations(m) \in Seq(RelationshipType) /\ Links(m) \in Seq(RelationshipType)
         /\ ToSet(Generalizations(m)) = {r \in ToSet(m.rels) : r.kind = "generalization"}
         /\ ToSet(Links(m)) = {r \in ToSet(m.rels) : r.kind # "generalization"}
<1>1. m.rels \in Seq(RelationshipType)
  BY DEF IsModel
<1>2. /\ Generalizations(m) \in Seq(RelationshipType)
      /\ ToSet(Generalizations(m))
           = ToSet(m.rels) \cap {r \in ToSet(m.rels) : r.kind = "generalization"}
  BY <1>1, OnlyPicks DEF Generalizations, Filter
<1>3. /\ Links(m) \in Seq(RelationshipType)
      /\ ToSet(Links(m)) = ToSet(m.rels) \cap {r \in ToSet(m.rels) : r.kind # "generalization"}
  BY <1>1, OnlyPicks DEF Links, Filter
<1> QED
  BY <1>2, <1>3

LEMMA RelationshipsAreRead ==
  ASSUME NEW m, IsModel(m), NEW file, IsExportOf(m, file), MultiplicitiesParse(m), EndsLive(m)
  PROVE  ImportedRelationships(file)
           = [i \in 1..(Len(Generalizations(m)) + Len(Links(m))) |-> RelRead(m, i)]
<1> DEFINE heirs == Generalizations(m)
           links == Links(m)
           nh == Len(heirs)
           nl == Len(links)
           xids == XidsOf(ClassesIn(file))
           gs == file.generalizations
           as == file.associations
<1>1. /\ gs = [i \in DOMAIN heirs |-> [child |-> <<heirs[i].source.cls>>,
                                       parent |-> <<heirs[i].target.cls>>]]
      /\ as = [i \in DOMAIN links |-> WriteAssociation(links[i])]
  BY DEF IsExportOf, Links
<1>2. /\ nh \in Nat /\ DOMAIN heirs = 1..nh /\ nl \in Nat /\ DOMAIN links = 1..nl
      /\ \A i \in 1..nh : heirs[i] \in ToSet(m.rels)
      /\ \A i \in 1..nl : /\ links[i] \in RelationshipType /\ links[i] \in ToSet(m.rels)
                          /\ links[i].kind # "generalization"
  <2>1. /\ heirs \in Seq(RelationshipType) /\ links \in Seq(RelationshipType)
        /\ ToSet(heirs) = {r \in ToSet(m.rels) : r.kind = "generalization"}
        /\ ToSet(links) = {r \in ToSet(m.rels) : r.kind # "generalization"}
    BY RelationshipsSplit
  <2> HIDE DEF heirs, links
  <2>2. nh \in Nat /\ DOMAIN heirs = 1..nh /\ nl \in Nat /\ DOMAIN links = 1..nl
    BY <2>1
  <2>3. (\A i \in 1..nh : heirs[i] \in ToSet(heirs)) /\ \A i \in 1..nl : links[i] \in ToSet(links)
    BY <2>2 DEF ToSet
  <2> QED
    BY <2>1, <2>2, <2>3
<1>3. ASSUME NEW r \in ToSet(m.rels)
      PROVE  /\ <<r.source.cls>> \in xids /\ <<r.target.cls>> \in xids
             /\ IsParsed(r.source.mult) /\ IsParsed(r.target.mult)
  <2>1. /\ HasId(m.classes, r.source.cls) /\ HasId(m.classes, r.target.cls)
        /\ IsParsed(r.source.mult) /\ IsParsed(r.target.mult)
    BY DEF EndsLive, MultiplicitiesParse, ToSet
  <2> QED
    BY <2>1, ReferencesRead
<1> HIDE DEF heirs, links, nh, nl, xids, gs, as
<1>4. Filter(gs, LAMBDA g : {g.child, g.parent} \subseteq xids) = gs
  <2> DEFINE kept == {g \in ToSet(gs) : {g.child, g.parent} \subseteq xids}
  <2>1. gs \in [1..nh -> ToSet(gs)]
    BY <1>1, <1>2 DEF ToSet
  <2>2. gs \in Seq(ToSet(gs)) /\ Len(gs) = nh
    BY <1>2, <2>1, FunctionIsSeq
  <2>3. ASSUME NEW k \in 1..Len(gs) PROVE gs[k] \in kept
    <3>1. gs[k] = [child |-> <<heirs[k].source.cls>>, parent |-> <<heirs[k].target.cls>>]
          /\ gs[k] \in ToSet(gs) /\ heirs[k] \in ToSet(m.rels)
      BY <1>1, <1>2, <2>2 DEF ToSet
    <3> QED
      BY <1>3, <3>1
  <2> HIDE DEF kept
  <2>4. Only(gs, kept) = gs
    BY <2>2, <2>3, OnlyAll
  <2> QED
    BY <2>4 DEF Filter, kept
<1>5. Filter(as, LAMBDA a : Len(a.ends) = 2 /\ {a.ends[1].ref, a.ends[2].ref} \subseteq xids) = as
  <2> DEFINE kept == {a \in ToSet(as) :
                        Len(a.ends) = 2 /\ {a.ends[1].ref, a.ends[2].ref} \subseteq xids}
  <2>1. as \in [1..nl -> ToSet(as)]
    BY <1>1, <1>2 DEF ToSet
  <2>2. as \in Seq(ToSet(as)) /\ Len(as) = nl
    BY <1>2, <2>1, FunctionIsSeq
  <2>3. ASSUME NEW k \in 1..Len(as) PROVE as[k] \in kept
    <3>1. as[k] = WriteAssociation(links[k]) /\ as[k] \in ToSet(as) /\ links[k] \in ToSet(m.rels)
      BY <1>1, <1>2, <2>2 DEF ToSet
    <3>2. /\ Len(as[k].ends) = 2 /\ as[k].ends[1].ref = <<links[k].source.cls>>
          /\ as[k].ends[2].ref = <<links[k].target.cls>>
      BY <3>1 DEF WriteAssociation, AssociationEnd
    <3> QED
      BY <1>3, <3>1, <3>2
  <2> HIDE DEF kept
  <2>4. Only(as, kept) = as
    BY <2>2, <2>3, OnlyAll
  <2> QED
    BY <2>4 DEF Filter, kept
<1> DEFINE hs == [i \in DOMAIN gs |-> ImportGeneralization(gs[i], file)]
           ls == [i \in DOMAIN as |-> ImportAssociation(as[i], file)]
           all == hs \o ls
           X == {hs[i] : i \in 1..nh} \cup {ls[i] : i \in 1..nl}
<1>6. ImportedRelationships(file) =
        [i \in DOMAIN all |-> [id |-> NewId("xr", i), kind |-> all[i].kind, name |-> all[i].name,
                               source |-> all[i].source, target |-> all[i].target]]
  BY <1>4, <1>5, Zenon DEF ImportedRelationships, gs, as, xids
<1>7. \A i \in 1..nh : hs[i] = HeirRead(m, heirs[i])
  BY <1>1, <1>2, HeirIsRead
<1>8. ASSUME NEW i \in 1..nl PROVE ls[i] = LinkRead(m, links[i])
  <2>1. ls[i] = ImportAssociation(WriteAssociation(links[i]), file)
    BY <1>1, <1>2
  <2>2. /\ links[i] \in RelationshipType /\ links[i].kind # "generalization"
        /\ IsParsed(links[i].source.mult) /\ IsParsed(links[i].target.mult)
    BY <1>2, <1>3
  <2> QED
    BY <2>1, <2>2, LinkIsRead
<1>9. hs \in Seq(X) /\ Len(hs) = nh /\ ls \in Seq(X) /\ Len(ls) = nl
  <2>1. hs \in [1..nh -> X] /\ ls \in [1..nl -> X]
    BY <1>1, <1>2
  <2> HIDE DEF hs, ls, X
  <2> QED
    BY <1>2, <2>1, FunctionIsSeq
<1> HIDE DEF hs, ls, X
<1>10. /\ all \in Seq(X) /\ Len(all) = nh + nl
       /\ \A i \in 1..nh : all[i] = hs[i]
       /\ \A i \in 1..nl : all[nh + i] = ls[i]
  <2>1. IsConcat(all, hs, ls, <<>>, X)
    BY <1>9, ConcatTwo
  <2> HIDE DEF all
  <2>2. /\ all \in Seq(X) /\ Len(all) = Len(hs) + Len(ls) + Len(<<>>)
        /\ \A i \in 1..Len(hs) : all[i] = hs[i]
        /\ \A i \in 1..Len(ls) : all[Len(hs) + i] = ls[i]
    BY <2>1 DEF IsConcat
  <2>3. nh + nl + Len(<<>>) = nh + nl
    BY <1>2
  <2> QED
    BY <1>9, <2>2, <2>3
<1> HIDE DEF all
<1>11. DOMAIN all = 1..(nh + nl)
  BY <1>10
<1>12. ASSUME NEW i \in 1..(nh + nl)
       PROVE  all[i] = IF i <= nh THEN HeirRead(m, heirs[i]) ELSE LinkRead(m, links[i - nh])
  <2>1. CASE i <= nh
    <3>1. i \in 1..nh
      BY <1>2, <2>1
    <3> QED
      BY <1>7, <1>10, <2>1, <3>1
  <2>2. CASE ~(i <= nh)
    <3>1. i - nh \in 1..nl /\ nh + (i - nh) = i
      BY <1>2, <2>2
    <3>2. all[i] = ls[i - nh] /\ ls[i - nh] = LinkRead(m, links[i - nh])
      BY <1>8, <1>10, <3>1
    <3> QED
      BY <2>2, <3>2
  <2> QED
    BY <2>1, <2>2
<1> QED
  BY <1>6, <1>11, <1>12 DEF RelRead, heirs, links, nh, nl

(* The diagram that is read back, and what is compared of it.              *)

LEMMA ExportReadBack ==
  ASSUME NEW m, IsExchangeable(m), m.classes # <<>>, NEW tables
  PROVE  ImportXmi(ExportWith(tables, m)) = [error |-> "none", model |-> ModelRead(m)]
<1> DEFINE file == ExportWith(tables, m)
           nc == Len(m.classes)
           ne == Len(m.enums)
<1>1. IsModel(m) /\ NoRootName(m) /\ nc \in Nat /\ nc # 0 /\ ne \in Nat
  BY DEF IsModel, IsExchangeable
<1>2. IsExportOf(m, file)
  BY <1>1, ExportIs
<1> HIDE DEF file
<1>3. ImportedClasses(file) = [i \in 1..Len(m.classes) |-> ClassRead(m, i)]
  BY <1>2, ClassesAreRead DEF IsExchangeable
<1>4. ImportedRelationships(file)
        = [i \in 1..(Len(Generalizations(m)) + Len(Links(m))) |-> RelRead(m, i)]
  BY <1>2, RelationshipsAreRead DEF IsExchangeable
<1>5. EnumsIn(file) = [i \in 1..Len(m.enums) |-> WriteEnumeration(m.enums[i])]
  BY <1>2 DEF IsExportOf
<1>6. ImportedClasses(file) # <<>>
  <2>1. 1 \in 1..nc
    BY <1>1
  <2> HIDE DEF nc
  <2>2. DOMAIN ImportedClasses(file) = 1..nc
    BY <1>3 DEF nc
  <2>3. 1..nc # {} /\ DOMAIN <<>> = {}
    BY <2>1
  <2> HIDE DEF file
  <2> QED
    BY <2>2, <2>3
<1> HIDE DEF nc
<1>7. [i \in DOMAIN EnumsIn(file) |-> ImportEnumeration(EnumsIn(file)[i], i)]
        = [i \in 1..ne |-> ImportEnumeration(WriteEnumeration(m.enums[i]), i)]
  <2> HIDE DEF ne
  <2> QED
    BY <1>5 DEF ne
<1>8. ImportXmi(file) = Imported(ImportedClasses(file), EnumsIn(file), ImportedRelationships(file))
  BY DEF ImportXmi
<1> QED
  BY <1>3, <1>4, <1>6, <1>7, <1>8 DEF Imported, ModelRead, file

(* An element found by its id is found by the id it is read with.          *)
LEMMA IndexIn ==
  ASSUME NEW S, NEW seq \in Seq(S), NEW id, HasId(seq, id)
  PROVE  SelectInSeq(seq, LAMBDA e : e.id = id) \in 1..Len(seq)
<1> DEFINE I == {i \in 1..Len(seq) : seq[i].id = id}
<1>1. SelectInSeq(seq, LAMBDA e : e.id = id) = IF I # {} THEN Min(I) ELSE 0
  BY DEF SelectInSeq
<1> DEFINE n == Len(seq)
<1>2. I # {} /\ I \in SUBSET (1..n) /\ n \in Nat
  BY DEF HasId, IdsOf
<1> HIDE DEF I, n
<1>3. Min(I) \in I
  BY <1>2, MinOf
<1> QED
  BY <1>1, <1>2, <1>3 DEF n

LEMMA IndicesRead ==
  ASSUME StringFacts, NEW m, IsModel(m), NEW id
  PROVE  /\ HasId(m.classes, id) =>
              ClassIndex(ModelRead(m), NewId("xc", ClassIndex(m, id))) = ClassIndex(m, id)
         /\ HasId(m.enums, id) =>
              EnumIndex(ModelRead(m), NewId("xe", EnumIndex(m, id))) = EnumIndex(m, id)
<1> DEFINE nc == Len(m.classes)
           ne == Len(m.enums)
           classes == ModelRead(m).classes
           enums == ModelRead(m).enums
<1>1. nc \in Nat /\ ne \in Nat /\ m.classes \in Seq(ClassType) /\ m.enums \in Seq(EnumerationType)
  BY DEF IsModel
<1>2. /\ classes = [i \in 1..nc |-> ClassRead(m, i)]
      /\ enums = [i \in 1..ne |-> ImportEnumeration(WriteEnumeration(m.enums[i]), i)]
  BY DEF ModelRead
<1> HIDE DEF classes, enums
<1>3. /\ \A i \in 1..nc : classes[i].id = NewId("xc", i)
      /\ \A i \in 1..ne : enums[i].id = NewId("xe", i)
  BY <1>2 DEF ClassRead, ImportEnumeration
<1>4. DOMAIN classes = 1..nc /\ Len(classes) = nc /\ DOMAIN enums = 1..ne /\ Len(enums) = ne
  <2> HIDE DEF nc, ne
  <2> QED
    BY <1>1, <1>2
<1>5. ASSUME HasId(m.classes, id)
      PROVE  ClassIndex(ModelRead(m), NewId("xc", ClassIndex(m, id))) = ClassIndex(m, id)
  <2> DEFINE p == ClassIndex(m, id)
  <2>1. p \in 1..nc
    BY <1>1, <1>5, IndexIn DEF ClassIndex, SelectInSeq
  <2> HIDE DEF p, nc
  <2>2. SelectInSeq(classes, LAMBDA e : e.id = NewId("xc", p)) = p
    BY <1>1, <1>3, <1>4, <2>1, SelectNewId DEF SelectInSeq
  <2> QED
    BY <2>2 DEF ClassIndex, SelectInSeq, p, classes
<1>6. ASSUME HasId(m.enums, id)
      PROVE  EnumIndex(ModelRead(m), NewId("xe", EnumIndex(m, id))) = EnumIndex(m, id)
  <2> DEFINE p == EnumIndex(m, id)
  <2>1. p \in 1..ne
    BY <1>1, <1>6, IndexIn DEF EnumIndex, SelectInSeq
  <2> HIDE DEF p, ne
  <2>2. SelectInSeq(enums, LAMBDA e : e.id = NewId("xe", p)) = p
    BY <1>1, <1>3, <1>4, <2>1, SelectNewId DEF SelectInSeq
  <2> QED
    BY <2>2 DEF EnumIndex, SelectInSeq, p, enums
<1> QED
  BY <1>5, <1>6

LEMMA ClassesLookAlike ==
  ASSUME StringFacts, NEW m, IsExchangeable(m), NEW i \in 1..Len(m.classes)
  PROVE  ClassView(ModelRead(m), ClassRead(m, i)) = ClassView(m, m.classes[i])
<1> DEFINE c == m.classes[i]
           d == ClassRead(m, i)
<1>1. IsModel(m) /\ c \in ClassType /\ HasTypes(m, c)
  BY DEF IsExchangeable, IsModel
<1>2. /\ d.name = c.name /\ d.ops = OperationsRead(c, NewId("xc", i))
      /\ d.attrs = AttributesRead(m, c, NewId("xc", i))
  BY DEF ClassRead
<1> HIDE DEF c, d
<1>3. [k \in DOMAIN d.ops |-> d.ops[k].name] = [k \in DOMAIN c.ops |-> c.ops[k].name]
  BY <1>2 DEF OperationsRead
<1>4. ASSUME NEW k \in DOMAIN c.attrs
      PROVE  TypeView(ModelRead(m), TypeRead(m, c.attrs[k].type)) = TypeView(m, c.attrs[k].type)
  <2> DEFINE type == c.attrs[k].type
  <2>1. type.tag = "ENUM" => HasId(m.enums, type.enum)
    BY <1>1, <1>4 DEF HasTypes
  <2>2. type.tag \in PrimitiveTypes \cup {"ENUM"}
    <3>1. c.attrs \in Seq(AttributeType)
      BY <1>1 DEF ClassType
    <3>2. c.attrs[k] \in AttributeType
      BY <1>4, <3>1
    <3> QED
      BY <3>2 DEF AttributeType
  <2> HIDE DEF type
  <2>3. CASE type.tag = "ENUM"
    <3>1. TypeRead(m, type).tag = "ENUM" /\ TypeRead(m, type).enum = NewId("xe", EnumIndex(m, type.enum))
      BY <2>3 DEF TypeRead, EnumRef
    <3>2. EnumIndex(ModelRead(m), NewId("xe", EnumIndex(m, type.enum))) = EnumIndex(m, type.enum)
      BY <1>1, <2>1, <2>3, IndicesRead
    <3>3. TypeView(ModelRead(m), TypeRead(m, type))
            = EnumIndex(ModelRead(m), NewId("xe", EnumIndex(m, type.enum)))
      BY <3>1 DEF TypeView, EnumIndex, SelectInSeq
    <3>4. TypeView(m, type) = EnumIndex(m, type.enum)
      BY <2>3 DEF TypeView, EnumIndex, SelectInSeq
    <3> QED
      BY <3>2, <3>3, <3>4 DEF type
  <2>4. CASE type.tag # "ENUM"
    BY <2>4 DEF TypeRead, TypeView, Primitive, type
  <2> QED
    BY <2>3, <2>4
<1>5. [k \in DOMAIN d.attrs |-> <<d.attrs[k].name, TypeView(ModelRead(m), d.attrs[k].type)>>]
        = [k \in DOMAIN c.attrs |-> <<c.attrs[k].name, TypeView(m, c.attrs[k].type)>>]
  BY <1>2, <1>4 DEF AttributesRead
<1> QED
  BY <1>2, <1>3, <1>5 DEF ClassView, c, d

LEMMA RelationshipLooksAlike ==
  ASSUME StringFacts, NEW m, IsModel(m), NEW r,
         HasId(m.classes, r.source.cls), HasId(m.classes, r.target.cls),
         NEW d, d.kind = r.kind, d.source.cls = NewId("xc", ClassIndex(m, r.source.cls)),
         d.target.cls = NewId("xc", ClassIndex(m, r.target.cls)),
         r.kind # "generalization" =>
           /\ d.name = r.name /\ d.source.mult = r.source.mult /\ d.source.role = r.source.role
           /\ d.target.mult = r.target.mult /\ d.target.role = r.target.role
  PROVE  RelationshipView(ModelRead(m), d) = RelationshipView(m, r)
<1>1. /\ ClassIndex(ModelRead(m), d.source.cls) = ClassIndex(m, r.source.cls)
      /\ ClassIndex(ModelRead(m), d.target.cls) = ClassIndex(m, r.target.cls)
  BY IndicesRead
<1> QED
  BY <1>1 DEF RelationshipView

LEMMA RelationshipsByKind ==
  ASSUME NEW m, IsModel(m), NEW read, read = ModelRead(m).rels
  PROVE  LET nh == Len(Generalizations(m))
             nl == Len(Links(m))
         IN  /\ OfKind(m.rels, "generalization") = Generalizations(m)
             /\ OfKind(m.rels, "other") = Links(m)
             /\ OfKind(read, "generalization") = [i \in 1..nh |-> RelRead(m, i)]
             /\ OfKind(read, "other") = [i \in 1..nl |-> RelRead(m, nh + i)]
<1> DEFINE nh == Len(Generalizations(m))
           nl == Len(Links(m))
           heirs == {r \in ToSet(read) : (r.kind = "generalization") = ("generalization" = "generalization")}
           links == {r \in ToSet(read) : (r.kind = "generalization") = ("other" = "generalization")}
<1>1. /\ OfKind(m.rels, "generalization") = Generalizations(m)
      /\ OfKind(m.rels, "other") = Links(m)
  <2>1. /\ {r \in ToSet(m.rels) : (r.kind = "generalization") = ("generalization" = "generalization")}
             = {r \in ToSet(m.rels) : r.kind = "generalization"}
        /\ {r \in ToSet(m.rels) : (r.kind = "generalization") = ("other" = "generalization")}
             = {r \in ToSet(m.rels) : r.kind # "generalization"}
    OBVIOUS
  <2> QED
    BY <2>1 DEF OfKind, Filter, Generalizations, Links
<1>2. /\ nh \in Nat /\ nl \in Nat
      /\ \A i \in 1..nl : Links(m)[i].kind # "generalization"
  <2>1. /\ Generalizations(m) \in Seq(RelationshipType) /\ Links(m) \in Seq(RelationshipType)
        /\ ToSet(Links(m)) = {r \in ToSet(m.rels) : r.kind # "generalization"}
    BY RelationshipsSplit
  <2>2. \A i \in DOMAIN Links(m) : Links(m)[i] \in ToSet(Links(m))
    BY DEF ToSet
  <2>3. DOMAIN Links(m) = 1..nl /\ nh \in Nat /\ nl \in Nat
    BY <2>1
  <2> QED
    BY <2>1, <2>2, <2>3
<1> DEFINE n == nh + nl
<1>3. read = [i \in 1..n |-> RelRead(m, i)]
  BY DEF ModelRead
<1>4. ASSUME NEW i \in 1..n PROVE RelRead(m, i).kind = "generalization" <=> i <= nh
  <2>1. CASE i <= nh
    BY <2>1 DEF RelRead, HeirRead
  <2>2. CASE ~(i <= nh)
    <3>1. i - nh \in 1..nl
      <4> HIDE DEF nh, nl
      <4> QED
        BY <1>2, <2>2
    <3>2. RelRead(m, i).kind = Links(m)[i - nh].kind
      BY <2>2 DEF RelRead, LinkRead
    <3> QED
      BY <1>2, <2>2, <3>1, <3>2
  <2> QED
    BY <2>1, <2>2
<1> HIDE DEF nh, nl
<1>5. read \in [1..n -> ToSet(read)] /\ n \in Nat
  BY <1>2, <1>3 DEF ToSet
<1>6. read \in Seq(ToSet(read)) /\ Len(read) = n
  <2> HIDE DEF n
  <2> QED
    BY <1>5, FunctionIsSeq
<1>7. ASSUME NEW i \in 1..n
      PROVE  /\ read[i] \in heirs <=> 0 < i /\ i <= 0 + nh
             /\ read[i] \in links <=> nh < i /\ i <= nh + nl
  <2>1. read[i] = RelRead(m, i) /\ read[i] \in ToSet(read)
    BY <1>3 DEF ToSet
  <2>2. read[i] \in heirs <=> i <= nh
    BY <1>4, <2>1
  <2>3. read[i] \in links <=> ~(i <= nh)
    BY <1>4, <2>1
  <2> QED
    BY <1>2, <2>2, <2>3
<1> HIDE DEF heirs, links
<1>8. KeptBetween(read, heirs, 0, nh) /\ KeptBetween(read, links, nh, nl)
  BY <1>6, <1>7 DEF KeptBetween
<1>9. 0 + nh <= Len(read) /\ nh + nl <= Len(read) /\ nh \in Nat /\ nl \in Nat
  BY <1>2, <1>6
<1>a. read \in Seq(ToSet(read))
  BY <1>6
<1>10. Only(read, heirs) = [i \in 1..nh |-> read[i]]
  <2>1. nh <= Len(read) /\ nh \in Nat /\ KeptBetween(read, heirs, 0, nh)
    BY <1>8, <1>9
  <2> QED
    BY <1>a, <2>1, OnlyFirst
<1>11. Only(read, links) = [i \in 1..nl |-> read[nh + i]]
  BY <1>8, <1>9, <1>a, OnlyBetween
<1>12. OfKind(read, "generalization") = [i \in 1..nh |-> RelRead(m, i)]
  <2>1. \A i \in 1..nh : read[i] = RelRead(m, i)
    BY <1>2, <1>3
  <2> QED
    BY <1>10, <2>1 DEF OfKind, Filter, heirs
<1>13. OfKind(read, "other") = [i \in 1..nl |-> RelRead(m, nh + i)]
  <2>1. \A i \in 1..nl : read[nh + i] = RelRead(m, nh + i)
    BY <1>2, <1>3
  <2> QED
    BY <1>11, <2>1 DEF OfKind, Filter, links
<1> QED
  BY <1>1, <1>12, <1>13 DEF nh, nl

LEMMA RelationshipsLookAlike ==
  ASSUME StringFacts, NEW m, IsExchangeable(m), NEW kind \in {"generalization", "other"}
  PROVE  RelationshipViews(ModelRead(m), kind) = RelationshipViews(m, kind)
<1> DEFINE heirs == Generalizations(m)
           links == Links(m)
           nh == Len(heirs)
           nl == Len(links)
           read == ModelRead(m).rels
<1>1. IsModel(m) /\ EndsLive(m)
  BY DEF IsExchangeable
<1>2. /\ nh \in Nat /\ DOMAIN heirs = 1..nh /\ nl \in Nat /\ DOMAIN links = 1..nl
      /\ \A i \in 1..nh : heirs[i] \in ToSet(m.rels) /\ heirs[i].kind = "generalization"
      /\ \A i \in 1..nl : links[i] \in ToSet(m.rels) /\ links[i].kind # "generalization"
  <2>1. /\ heirs \in Seq(RelationshipType) /\ links \in Seq(RelationshipType)
        /\ ToSet(heirs) = {r \in ToSet(m.rels) : r.kind = "generalization"}
        /\ ToSet(links) = {r \in ToSet(m.rels) : r.kind # "generalization"}
    BY <1>1, RelationshipsSplit
  <2> HIDE DEF heirs, links
  <2>2. nh \in Nat /\ DOMAIN heirs = 1..nh /\ nl \in Nat /\ DOMAIN links = 1..nl
    BY <2>1
  <2>3. (\A i \in 1..nh : heirs[i] \in ToSet(heirs)) /\ \A i \in 1..nl : links[i] \in ToSet(links)
    BY <2>2 DEF ToSet
  <2> QED
    BY <2>1, <2>2, <2>3
<1>3. \A r \in ToSet(m.rels) : HasId(m.classes, r.source.cls) /\ HasId(m.classes, r.target.cls)
  BY <1>1 DEF EndsLive, ToSet
<1>4. /\ OfKind(m.rels, "generalization") = heirs /\ OfKind(m.rels, "other") = links
      /\ OfKind(read, "generalization") = [i \in 1..nh |-> RelRead(m, i)]
      /\ OfKind(read, "other") = [i \in 1..nl |-> RelRead(m, nh + i)]
  BY <1>1, RelationshipsByKind
<1>5. ASSUME NEW i \in 1..nh
      PROVE  RelationshipView(ModelRead(m), RelRead(m, i)) = RelationshipView(m, heirs[i])
  <2> DEFINE d == RelRead(m, i)
  <2>1. i <= nh
    <3> HIDE DEF nh
    <3> QED
      BY <1>2
  <2>2. /\ d.kind = "generalization"
        /\ d.source.cls = NewId("xc", ClassIndex(m, heirs[i].source.cls))
        /\ d.target.cls = NewId("xc", ClassIndex(m, heirs[i].target.cls))
    BY <2>1 DEF RelRead, HeirRead, EndRead, End
  <2>3. heirs[i].kind = "generalization" /\ heirs[i] \in ToSet(m.rels)
    BY <1>2
  <2> HIDE DEF d, heirs, nh
  <2>4. HasId(m.classes, heirs[i].source.cls) /\ HasId(m.classes, heirs[i].target.cls)
    BY <1>3, <2>3
  <2>5. RelationshipView(ModelRead(m), d) = RelationshipView(m, heirs[i])
    BY <1>1, <2>2, <2>3, <2>4, RelationshipLooksAlike
  <2> QED
    BY <2>5 DEF d
<1>6. ASSUME NEW i \in 1..nl
      PROVE  RelationshipView(ModelRead(m), RelRead(m, nh + i)) = RelationshipView(m, links[i])
  <2> DEFINE k == nh + i
             d == RelRead(m, k)
  <2>1. ~(k <= nh) /\ k - nh = i
    <3> HIDE DEF nh, nl
    <3> QED
      BY <1>2
  <2> HIDE DEF k
  <2>2. d = [id |-> NewId("xr", k), kind |-> LinkRead(m, links[i]).kind,
             name |-> LinkRead(m, links[i]).name, source |-> LinkRead(m, links[i]).source,
             target |-> LinkRead(m, links[i]).target]
    BY <2>1, Zenon DEF RelRead
  <2>3. /\ d.kind = links[i].kind /\ d.name = links[i].name
        /\ d.source.cls = NewId("xc", ClassIndex(m, links[i].source.cls))
        /\ d.target.cls = NewId("xc", ClassIndex(m, links[i].target.cls))
        /\ d.source.mult = links[i].source.mult /\ d.source.role = links[i].source.role
        /\ d.target.mult = links[i].target.mult /\ d.target.role = links[i].target.role
    BY <2>2 DEF LinkRead, EndRead, End
  <2>4. links[i] \in ToSet(m.rels)
    BY <1>2
  <2> HIDE DEF d, links, nh, nl
  <2>5. HasId(m.classes, links[i].source.cls) /\ HasId(m.classes, links[i].target.cls)
    BY <1>3, <2>4
  <2>6. RelationshipView(ModelRead(m), d) = RelationshipView(m, links[i])
    BY <1>1, <2>3, <2>5, RelationshipLooksAlike
  <2> QED
    BY <2>6 DEF d, k
<1> HIDE DEF heirs, links, nh, nl
<1>7. CASE kind = "generalization"
  BY <1>2, <1>4, <1>5, <1>7 DEF RelationshipViews, read
<1>8. CASE kind = "other"
  BY <1>2, <1>4, <1>6, <1>8 DEF RelationshipViews, read
<1> QED
  BY <1>7, <1>8

LEMMA ModelsLookAlike ==
  ASSUME StringFacts, NEW m, IsExchangeable(m)
  PROVE  ModelView(ModelRead(m)) = ModelView(m)
<1> DEFINE back == ModelRead(m)
           nc == Len(m.classes)
           ne == Len(m.enums)
<1>1. DOMAIN m.classes = 1..nc /\ DOMAIN m.enums = 1..ne
  BY DEF IsExchangeable, IsModel
<1>2. back.classes = [i \in 1..nc |-> ClassRead(m, i)]
      /\ back.enums = [i \in 1..ne |-> ImportEnumeration(WriteEnumeration(m.enums[i]), i)]
  BY DEF ModelRead
<1>3. \A i \in 1..nc : ClassView(back, ClassRead(m, i)) = ClassView(m, m.classes[i])
  BY ClassesLookAlike
<1>4. \A kind \in {"generalization", "other"} :
        RelationshipViews(back, kind) = RelationshipViews(m, kind)
  BY RelationshipsLookAlike
<1> HIDE DEF back, nc, ne
<1>5. [i \in DOMAIN back.classes |-> ClassView(back, back.classes[i])]
        = [i \in DOMAIN m.classes |-> ClassView(m, m.classes[i])]
  BY <1>1, <1>2, <1>3
<1> DEFINE view(e) == <<e.name, [k \in DOMAIN e.literals |-> e.literals[k].name]>>
<1>6. [i \in DOMAIN back.enums |-> view(back.enums[i])] = [i \in DOMAIN m.enums |-> view(m.enums[i])]
  <2>1. ASSUME NEW e, NEW i PROVE view(ImportEnumeration(WriteEnumeration(e), i)) = view(e)
    <3>1. WriteEnumeration(e).features
            = [k \in DOMAIN e.literals |-> Feature("Attribute", e.literals[k].name, NoName, NoXid)]
      BY DEF WriteEnumeration, ClassElement
    <3>2. WriteEnumeration(e).name = e.name
      BY EnumerationWritten
    <3>3. \A k \in DOMAIN e.literals : WriteEnumeration(e).features[k].name = e.literals[k].name
      BY <3>1 DEF Feature
    <3> QED
      BY <3>1, <3>2, <3>3 DEF ImportEnumeration
  <2> HIDE DEF view
  <2> QED
    BY <1>1, <1>2, <2>1
<1> QED
  BY <1>4, <1>5, <1>6, Zenon DEF ModelView, RelationshipViews, OfKind, back

(* The round trip of XMI.                                                  *)
LEMMA SoundComesBack ==
  ASSUME StringFacts, DiagramInv
  PROVE  XmiRoundTrip
<1> SUFFICES ASSUME model.classes # <<>>, Exports(model), ~ShadowsAType, ~NamedLikeTheRoot
             PROVE  LET back == ImportXmi(ExportXmi(model))
                    IN  back.error = "none" /\ ModelView(back.model) = ModelView(model)
  BY DEF XmiRoundTrip
<1>1. IsModel(model) /\ DistinctClassIds(model) /\ MultiplicitiesParse(model)
  BY DEF DiagramInv, IsSound
<1>2. EndsLive(model)
  <2>1. \A i \in DOMAIN model.rels : model.rels[i] \in ToSet(model.rels)
    BY DEF ToSet
  <2> QED
    BY <2>1 DEF Exports, EndsLive, HasId
<1>3. \A i \in DOMAIN model.classes : HasTypes(model, model.classes[i])
  <2>1. \A i \in DOMAIN model.classes : model.classes[i] \in ToSet(model.classes)
    BY DEF ToSet
  <2>2. ASSUME NEW c \in ToSet(model.classes) PROVE HasTypes(model, c)
    <3>1. \A i \in DOMAIN c.attrs : c.attrs[i] \in ToSet(c.attrs)
      BY DEF ToSet
    <3> QED
      BY <3>1 DEF Exports, HasTypes
  <2> QED
    BY <2>1, <2>2
<1>4. NoTypeNames(model) /\ NoRootName(model)
  BY DEF ShadowsAType, NoTypeNames, NamedLikeTheRoot, NoRootName
<1>5. IsExchangeable(model)
  BY <1>1, <1>2, <1>3, <1>4 DEF IsExchangeable
<1>6. ImportXmi(ExportXmi(model)) = [error |-> "none", model |-> ModelRead(model)]
  BY <1>5, ExportReadBack DEF ExportXmi
<1> QED
  BY <1>5, <1>6, ModelsLookAlike

(* A diagram that can be exported, and in which nothing is named like a    *)
(* type of EA or like EA's own root class, comes back from its XMI file,   *)
(* whatever its other names, and although the file has that root class and *)
(* a join class for each many-to-many relationship (exporter.py,           *)
(* importer.py).                                                           *)
THEOREM DiagramsComeBack ==
  ASSUME StringFacts
  PROVE  Spec => []XmiRoundTrip
<1>1. DiagramInv => XmiRoundTrip
  BY SoundComesBack
<1>2. Spec => []DiagramInv
  BY DiagramStaysSound
<1> QED
  BY <1>1, <1>2, PTL
=============================================================================
