------------------------------ MODULE Assistant ------------------------------
(***************************************************************************)
(* From what the language model answers to commands on a diagram           *)
(* (ai_assistant/translator.py, service.py).  A call names classes and     *)
(* members as a speaker would; the translator resolves the names against   *)
(* the diagram and the classes that earlier calls of the batch create.     *)
(* Return types, visibilities and descriptions are left out.               *)
(*                                                                         *)
(* A multiplicity in a call is a text as in UmlModel, <<>> when absent; an *)
(* absent kind is "any", an absent name Unset.                             *)
(***************************************************************************)
EXTENDS UmlModel

Letter == 8     \* "n" as an upper bound

(* strip().casefold(): only one-word names fall together.                  *)
Key(name) ==
  IF IsBlank(name) \/ Len(name.words) = 1 THEN name.words ELSE <<name.form>> \o name.words
Keys(elements) == {Key(elements[i].name) : i \in DOMAIN elements}
FirstByKey(elements, key) == SelectInSeq(elements, LAMBDA e : Key(e.name) = key)

(* A call of a tool, whose parameters the schema of the tool fixes.         *)
RelationshipTools == {"add_relationship", "remove_relationship", "update_relationship"}
Tools ==
  RelationshipTools \cup {"add_class", "remove_class", "rename_class", "add_attribute",
                         "remove_attribute", "add_operation", "remove_operation"}

IsCall(call) ==
  /\ call.fn \in Tools
  /\ call.fn \in Tools \ {"remove_class", "remove_relationship"} => call.name \in NameType
  /\ call.fn = "add_relationship" => call.kind \in RelationshipKinds
  /\ call.fn \in {"add_relationship", "update_relationship"} =>
       {call.sourceMult, call.targetMult} \subseteq Seq(Int)
AreCalls(calls) ==
  calls \in Seq(ToSet(calls)) /\ \A call \in ToSet(calls) : IsCall(call)

(***************************************************************************)
(* Translator.                                                             *)
(***************************************************************************)
Registry(model) ==
  [key \in Keys(model.classes) |->
     model.classes[SelectLastInSeq(model.classes, LAMBDA c : Key(c.name) = key)].id]

Resolve(registry, name) ==
  IF Key(name) \in DOMAIN registry THEN registry[Key(name)] ELSE NoId

(* The classes a call refers to by name.                                   *)
References(call) ==
  CASE call.fn = "add_class" -> {}
    [] call.fn \in RelationshipTools ->
         {call.source, call.target}
    [] OTHER -> {call.cls}

(* _find_relationship looks in the diagram as it was before the batch.     *)
Matches(model, registry, call) ==
  Filter(model.rels, LAMBDA r :
    /\ r.source.cls = Resolve(registry, call.source)
    /\ r.target.cls = Resolve(registry, call.target)
    /\ call.kind \in {"any", r.kind})

MembersOf(call, class) == IF call.fn = "remove_attribute" THEN class.attrs ELSE class.ops

(* "translation" is an error the preview shows; a member removal from a    *)
(* class of the same batch reads an attribute of None, which it does not.  *)
CallError(model, registry, call) ==
  LET class == Resolve(registry, call.cls)
  IN  IF \E name \in References(call) : Resolve(registry, name) = NoId THEN "translation"
      ELSE IF call.fn \in {"remove_attribute", "remove_operation"} THEN
        IF ~HasId(model.classes, class) THEN "crash"
        ELSE IF FirstByKey(MembersOf(call, ClassById(model, class)), Key(call.name)) = 0
          THEN "translation" ELSE "none"
      ELSE IF /\ call.fn \in {"remove_relationship", "update_relationship"}
              /\ Len(Matches(model, registry, call)) # 1 THEN "translation"
      ELSE "none"

OrElse(text, default) == IF text = <<>> THEN default ELSE text
Given(text) == IF text = <<>> THEN NoMultiplicity ELSE ParseMultiplicity(text)

RelationshipOf(call, registry, id) ==
  [id |-> id, kind |-> call.kind, name |-> IF call.name = Unset THEN NoName ELSE call.name,
   source |-> End(Resolve(registry, call.source),
                  ParseMultiplicity(OrElse(call.sourceMult, <<0, 1>>)), NoName),
   target |-> End(Resolve(registry, call.target),
                  ParseMultiplicity(OrElse(call.targetMult, <<0, Unbounded>>)), NoName)]

(* The command of a call without error; id is what new_id() draws.         *)
CommandOf(model, registry, call, id) ==
  LET class  == Resolve(registry, call.cls)
      member == LET members == MembersOf(call, ClassById(model, class))
                IN  members[FirstByKey(members, Key(call.name))].id
      rel    == Matches(model, registry, call)[1].id
  IN  CASE call.fn = "add_class"    -> [type |-> "AddClass", id |-> id, name |-> call.name]
        [] call.fn = "remove_class" -> [type |-> "RemoveClass", id |-> class]
        [] call.fn = "rename_class" ->
             [type |-> "RenameClass", id |-> class, name |-> call.name]
        [] call.fn = "add_attribute" ->
             [type |-> "AddAttribute", cls |-> class,
              attr |-> [id |-> id, name |-> call.name, type |-> Primitive(call.type)]]
        [] call.fn = "remove_attribute" ->
             [type |-> "RemoveAttribute", cls |-> class, id |-> member]
        [] call.fn = "add_operation" ->
             [type |-> "AddOperation", cls |-> class, op |-> [id |-> id, name |-> call.name]]
        [] call.fn = "remove_operation" ->
             [type |-> "RemoveOperation", cls |-> class, id |-> member]
        [] call.fn = "add_relationship" ->
             [type |-> "AddRelationship", rel |-> RelationshipOf(call, registry, id)]
        [] call.fn = "remove_relationship" -> [type |-> "RemoveRelationship", id |-> rel]
        [] call.fn = "update_relationship" ->
             [type |-> "UpdateRelationship", id |-> rel, name |-> call.name,
              sourceMult |-> Given(call.sourceMult), targetMult |-> Given(call.targetMult)]

(* A new class is known to the calls that follow; a renamed one keeps its  *)
(* old name for them.                                                      *)
Registered(registry, call, id) ==
  IF call.fn # "add_class" THEN registry
  ELSE [key \in DOMAIN registry \cup {Key(call.name)} |->
          IF key = Key(call.name) THEN id ELSE registry[key]]

(* Every call of a batch in turn: its error and, without one, its command. *)
(* _describe_calls shows the errors, confirming stops at the first.        *)
Translate(model, calls, ids) ==
  LET step(done, i) ==
        LET error == CallError(model, done.registry, calls[i])
        IN  [registry |-> Registered(done.registry, calls[i], ids[i]),
             results  |-> Append(done.results,
               [error |-> error,
                command |-> IF error # "none" THEN [type |-> "none"]
                            ELSE CommandOf(model, done.registry, calls[i], ids[i])])]
  IN  FoldLeft(step, [registry |-> Registry(model), results |-> <<>>],
               [i \in DOMAIN calls |-> i]).results

ErrorsOf(results) == {results[i].error : i \in DOMAIN results} \ {"none"}
CommandsOf(results) == [i \in DOMAIN results |-> results[i].command]

(* command_from_payload on the translated calls, after all are translated. *)
DecodableCall(call) ==
  /\ call.fn = "add_attribute" => call.type \in PrimitiveTypes
  /\ call.fn \in {"add_relationship", "update_relationship"} =>
       \A text \in {call.sourceMult, call.targetMult} :
         text = <<>> \/ (ParsesAsMultiplicity(text) /\ ~Contains(text, Letter))

(***************************************************************************)
(* Images: the extraction as calls, and their difference to the diagram.   *)
(***************************************************************************)
DrawnClassType ==
  [name : NameType, attrs : Seq([name : NameType, type : STRING]), ops : Seq(NameType)]
DrawnLinkType ==
  [kind : RelationshipKinds, source : NameType, target : NameType, name : NameType,
   sourceMult : Seq(Int), targetMult : Seq(Int)]
ImageType == [classes : Seq(DrawnClassType), rels : Seq(DrawnLinkType)]

NormalizeImageMultiplicity(text) ==
  IF text \in {<<Unbounded>>, <<Letter>>} THEN <<0, Unbounded>>
  ELSE IF text \in {<<0, Letter>>, <<1, Letter>>} THEN <<text[1], Unbounded>>
  ELSE text

ClassCall(fn, name) == [fn |-> fn, cls |-> name, name |-> name]
MemberCall(fn, cls, name, type) == [fn |-> fn, cls |-> cls, name |-> name, type |-> type]
RelationshipCall(fn, kind, source, target, name, texts) ==
  [fn |-> fn, cls |-> source, kind |-> kind, source |-> source, target |-> target,
   name |-> name, sourceMult |-> texts[1], targetMult |-> texts[2]]

MemberCalls(class) ==
  [i \in DOMAIN class.attrs |->
     MemberCall("add_attribute", class.name, class.attrs[i].name, class.attrs[i].type)]
  \o [i \in DOMAIN class.ops |-> MemberCall("add_operation", class.name, class.ops[i], "")]

ExpandImageExtraction(image) ==
  [i \in DOMAIN image.classes |-> ClassCall("add_class", image.classes[i].name)]
    \o FlattenSeq([i \in DOMAIN image.classes |-> MemberCalls(image.classes[i])])
    \o [i \in DOMAIN image.rels |->
          LET r == image.rels[i]
          IN  RelationshipCall("add_relationship", r.kind, r.source, r.target, r.name,
                <<NormalizeImageMultiplicity(r.sourceMult),
                  NormalizeImageMultiplicity(r.targetMult)>>)]

CallsOf(calls, fn) == Filter(calls, LAMBDA c : c.fn = fn)
OfClass(calls, key) == Filter(calls, LAMBDA c : Key(c.cls) = key)
(* setdefault keeps the first item of a key, a dict comprehension the last. *)
At(calls, indices) ==
  LET kept == Filter([i \in DOMAIN calls |-> i], LAMBDA i : i \in indices)
  IN  [k \in DOMAIN kept |-> calls[kept[k]]]
FirstOfEachKey(calls) ==
  At(calls, {SelectInSeq(calls, LAMBDA c : Key(c.name) = key) : key \in Keys(calls)})
LastOfEachKey(calls) ==
  At(calls, {SelectLastInSeq(calls, LAMBDA c : Key(c.name) = key) : key \in Keys(calls)})
(* Mutant of SameType: types are not compared.                             *)
AnyType(attr, call) == TRUE
SameType(attr, call) == attr.type = Primitive(call.type)
SameMember(member, call) == call.fn = "add_attribute" => SameType(member, call)

(* Members of a class that is in both: what is gone or retyped, and what   *)
(* is new or retyped.                                                      *)
ObsoleteMembers(class, fn, members, wanted) ==
  LET gone == Filter(members, LAMBDA m :
                ~\E w \in ToSet(wanted) : Key(w.name) = Key(m.name) /\ SameMember(m, w))
  IN  [i \in DOMAIN gone |-> MemberCall(fn, class.name, gone[i].name, "")]

MissingMembers(members, wanted) ==
  Filter(wanted, LAMBDA w :
    LET previous == FirstByKey(members, Key(w.name))
    IN  previous = 0 \/ ~SameMember(members[previous], w))

(* str() of a stored multiplicity is never the text of one, so a matched   *)
(* relationship is always updated with both.                               *)
RelationshipChange(model, call) ==
  LET existing == Registry(model)
      current  == SelectInSeq(model.rels, LAMBDA r :
                    /\ r.kind = call.kind
                    /\ r.source.cls = Resolve(existing, call.source)
                    /\ r.target.cls = Resolve(existing, call.target))
      named    == IF call.name = Unset THEN NoName ELSE call.name
  IN  [match |-> current,
       call  |-> IF current = 0 THEN call
                 ELSE RelationshipCall("update_relationship", call.kind, call.source, call.target,
                        IF named = model.rels[current].name THEN Unset ELSE named,
                        <<OrElse(call.sourceMult, <<0, 1>>),
                          OrElse(call.targetMult, <<0, Unbounded>>)>>)]

ReconcileImageCalls(model, calls) ==
  LET desired == FirstOfEachKey(CallsOf(calls, "add_class"))
      wanted(fn, key) == OfClass(CallsOf(calls, fn), key)
      existing(key) == ClassById(model, Registry(model)[key])
      isNew(c)  == Key(c.name) \notin Keys(model.classes)
      extra     == Filter(model.classes, LAMBDA c :
                     c = existing(Key(c.name)) /\ Key(c.name) \notin Keys(desired))
      obsolete(c) ==
        LET key == Key(c.name) IN
        ObsoleteMembers(existing(key), "remove_attribute", existing(key).attrs,
                        LastOfEachKey(wanted("add_attribute", key)))
          \o ObsoleteMembers(existing(key), "remove_operation", existing(key).ops,
                             LastOfEachKey(wanted("add_operation", key)))
      missing(c) ==
        LET key == Key(c.name) IN
        IF isNew(c) THEN <<c>> \o wanted("add_attribute", key) \o wanted("add_operation", key)
        ELSE MissingMembers(existing(key).attrs, LastOfEachKey(wanted("add_attribute", key)))
               \o MissingMembers(existing(key).ops, LastOfEachKey(wanted("add_operation", key)))
      links   == CallsOf(calls, "add_relationship")
      changes == [i \in DOMAIN links |-> RelationshipChange(model, links[i])]
      matched == {changes[i].match : i \in DOMAIN changes}
      stale   == Filter([i \in DOMAIN model.rels |-> i], LAMBDA i :
                   /\ i \notin matched
                   /\ {model.rels[i].source.cls, model.rels[i].target.cls}
                        \subseteq IdsOf(model.classes))
      unlink(r) == RelationshipCall("remove_relationship", r.kind,
                     ClassById(model, r.source.cls).name, ClassById(model, r.target.cls).name,
                     Unset, <<<<>>, <<>>>>)
      kept == Filter(desired, LAMBDA c : ~isNew(c))
  IN  [i \in DOMAIN extra |-> ClassCall("remove_class", extra[i].name)]
        \o FlattenSeq([i \in DOMAIN kept |-> obsolete(kept[i])])
        \o [i \in DOMAIN stale |-> unlink(model.rels[stale[i]])]
        \o FlattenSeq([i \in DOMAIN desired |-> missing(desired[i])])
        \o [i \in DOMAIN changes |-> changes[i].call]
=============================================================================
