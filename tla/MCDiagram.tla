------------------------------ MODULE MCDiagram ------------------------------
(***************************************************************************)
(* Instances of Diagram: six small diagrams, each with the commands, files *)
(* or requests that bring its names, trees, links, profiles or plans       *)
(* together.                                                               *)
(***************************************************************************)
EXTENDS DiagramProperties

P(word) == Name("pascal", <<word>>)
S(word) == Name("snake", <<word>>)
Attr(id, name, tag) == [id |-> id, name |-> name, type |-> Primitive(tag)]
Opt == Multiplicity(0, 1)
One == Multiplicity(1, 1)
Many == Multiplicity(0, Unbounded)
Some == Multiplicity(1, Unbounded)

Class(id, name) == [type |-> "AddClass", id |-> id, name |-> name]
Drop(id) == [type |-> "RemoveClass", id |-> id]
Rename(id, name) == [type |-> "RenameClass", id |-> id, name |-> name]
WithAttr(cls, attr) == [type |-> "AddAttribute", cls |-> cls, attr |-> attr]
DropAttr(cls, id) == [type |-> "RemoveAttribute", cls |-> cls, id |-> id]
WithOp(cls, id, name) == [type |-> "AddOperation", cls |-> cls, op |-> [id |-> id, name |-> name]]
DropOp(cls, id) == [type |-> "RemoveOperation", cls |-> cls, id |-> id]
Link(id, kind, source, target) ==
  [type |-> "AddRelationship",
   rel |-> [id |-> id, kind |-> kind, source |-> source, target |-> target, name |-> NoName]]
Heir(id, child, parent) == Link(id, "generalization", End(child, One, NoName), End(parent, One, NoName))
Unlink(id) == [type |-> "RemoveRelationship", id |-> id]
Relink(id, name, sourceMult, targetMult) ==
  [type |-> "UpdateRelationship", id |-> id, name |-> name,
   sourceMult |-> sourceMult, targetMult |-> targetMult]
Profile(id, profile) == [type |-> "SetGenerationProfile", id |-> id, profile |-> profile]
Sort(id) == [defaultSort |-> [attribute |-> id, direction |-> "desc"]]

Scenario(seed, commands, files, requests, writes, asks) ==
  [seed |-> seed, commands |-> commands, files |-> files, requests |-> requests,
   writes |-> writes, asks |-> asks]

(* Trees, cycles, second parents and ends whose class is gone.             *)
Trees ==
  Scenario(<<Class("a", P("account")), WithAttr("a", Attr("a1", S("label"), "STRING")),
             Class("b", P("branch")), WithAttr("b", Attr("b1", S("label"), "TEXT")),
             Class("c", P("card")), Class("d", P("desk"))>>,
           {Heir("ab", "a", "b"), Heir("bc", "b", "c"), Heir("ca", "c", "a"), Heir("da", "d", "a"),
            Heir("dc", "d", "c"), Heir("bb", "b", "b"), Unlink("bc"), Drop("b")},
           {}, {}, 5, 0)

(* Names and roles that meet in the database, and every kind of link.      *)
Line == Name("pascal", <<"order", "line">>)
Names3 ==
  <<Class("o", P("order")), WithAttr("o", Attr("o1", S("total"), "DECIMAL")),
    Class("l", Line), WithAttr("l", Attr("l1", Name("snake", <<"order", "id">>), "LONG")),
    Class("m", Name("snake", <<"order", "line">>)), WithOp("m", "m1", S("print"))>>
Links ==
  Scenario(Names3,
           {Link("r1", "association", End("l", Many, NoName), End("o", One, NoName)),
            Link("r2", "aggregation", End("o", Opt, S("order")), End("l", Some, NoName)),
            Link("r3", "association", End("o", Many, NoName), End("l", Some, S("line"))),
            Link("r4", "association", End("o", Many, S("peer")), End("o", Many, S("peer"))),
            Link("r5", "composition", End("o", One, NoName), End("m", Many, NoName)),
            Link("r6", "association", End("m", Opt, Symbols), End("l", One, NoName)),
            Heir("mo", "m", "o"), Relink("r1", S("has"), Multiplicity(2, 1), NoMultiplicity),
            WithAttr("o", Attr("o2", S("total"), "STRING")), WithOp("m", "m2", S("print")),
            Rename("o", Name("pascal", <<"order", "order", "line">>)), Rename("l", Symbols)},
           {}, {}, 4, 0)

(* Generation profiles over a tree of two classes.                         *)
Profiles ==
  Scenario(<<Class("p", P("product")), WithAttr("p", Attr("p1", S("price"), "DECIMAL")),
             Class("s", P("service")), WithAttr("s", Attr("s1", S("hours"), "INTEGER")),
             Class("t", P("tool"))>>,
           {Profile("p", Sort("p1")), Profile("p", Sort("s1")), Profile("p", NoProfile),
            Profile("p", [crud |-> <<"create">>, readOnly |-> "true"]),
            Profile("p", [crud |-> <<"read", "read">>]),
            Profile("p1", [sortable |-> "true"]), Profile("s1", [sortable |-> "true", searchable |-> "true"]),
            Profile("p1", [searchable |-> "yes"]), Profile("p1", [searchable |-> "true"]),
            Heir("sp", "s", "p"), Heir("tp", "t", "p"), Unlink("sp"), Drop("s"),
            DropAttr("p", "p1"), Rename("t", Name("spaced", <<"tool", "set">>))},
           {}, {}, 6, 0)

(* Files of Enterprise Architect, and commands on what they bring.         *)
Box(xid, name, stype, features) == ClassElement(<<xid>>, name, stype, features, FALSE)
Typed(name, typeName) == Feature("Attribute", name, typeName, NoXid)
FileEnd(ref, mult, aggregation) ==
  [ref |-> <<ref>>, mult |-> mult, aggregation |-> aggregation, role |-> NoName]
Connector(ends, associationClass) ==
  [name |-> NoName, ends |-> ends, associationClass |-> associationClass]
File(dialect, classes, associations, generalizations) ==
  [dialect |-> dialect, classes |-> classes, associations |-> associations,
   generalizations |-> generalizations, datatypes |-> [x \in {<<"dt1">>} |-> S("double")]]
Literal(name) == Feature("Attribute", name, NoName, NoXid)

Uml2File ==
  File("2.1",
    <<Box("x1", P("order"), "Class",
          <<Feature("Attribute", S("status"), NoName, <<"x3">>), Feature("Attribute", S("total"), NoName, <<"dt1">>),
            Feature("Attribute", S("buyer"), NoName, <<"x2">>), Feature("Operation", S("pay"), NoName, NoXid)>>),
      Box("x2", P("customer"), "Class", <<Typed(S("name"), P("String"))>>),
      Box("x3", P("status"), "Enumeration",
          <<Literal(S("open")), Literal(S("closed"))>>),
      Box("x4", Name("pascal", <<"order", "customer">>), "Class", <<>>)>>,
    <<Connector(<<FileEnd("x1", <<0, Unbounded>>, "none"), FileEnd("x2", <<0, Unbounded>>, "composite")>>,
                <<"x4">>),
      Connector(<<FileEnd("x2", <<1>>, "none"), FileEnd("x1", <<Unbounded>>, "none")>>, NoXid)>>,
    <<>>)

Uml1File(units) ==
  File("1.1",
    <<[Box("y0", P("plumbing"), "Class", <<>>) EXCEPT !.isRoot = TRUE],
      Box("y1", P("shape"), "Class", <<Typed(S("color"), P("color")), Typed(S("area"), S("float"))>>),
      Box("y2", P("circle"), "Class", <<>>), Box("y3", P("canvas"), "EAStub", <<>>),
      Box("y4", P("color"), "Enumeration", <<Literal(Spaces)>>),
      Box("y5", P("unit"), "Enumeration", units),
      Box("y6", P("style"), "Class", <<>>)>>,
    <<Connector(<<FileEnd("y1", <<0, 1>>, "none"), FileEnd("y2", <<>>, "shared")>>, <<"y6">>),
      Connector(<<FileEnd("y1", <<1>>, "none"), FileEnd("y3", <<1>>, "none")>>, NoXid)>>,
    <<[child |-> <<"y2">>, parent |-> <<"y1">>], [child |-> <<"y2">>, parent |-> <<"y3">>]>>)

Files ==
  Scenario(<<>>,
           {Profile("xc1.a1", [searchable |-> "true"]), Profile("xc1.a2", [searchable |-> "true"]),
            Profile("xc1", [crud |-> <<"read">>, readOnly |-> "false"]), Drop("xc2"), DropAttr("xc1", "xc1.a2"),
            DropOp("xc1", "xc1.o1"), Rename("xc2", P("order")), Rename("xc2", P("color")),
            Rename("xc2", P("text")), Rename("xc2", NoName), Rename("xc2", EARootClass),
            WithAttr("xc1", [id |-> "n1", name |-> S("kind"), type |-> EnumRef("xe9")]),
            Link("n", "association", End("xc1", Many, NoName), End("xc2", Many, NoName))},
           {Uml1File(<<>>), Uml1File(<<Literal(S("cm")), Literal(S("cm"))>>),
            Uml1File(<<Literal(S("cm")), Literal(P("cm"))>>), Uml2File, File("1.1", <<>>, <<>>, <<>>)},
           {}, 5, 0)

(* Plans of the assistant, one that is spoken and one that is drawn.       *)
Rel(fn, kind, source, target, texts) == RelationshipCall(fn, kind, source, target, Unset, texts)
Spoken ==
  {Voice(<<ClassCall("add_class", P("desk")), MemberCall("add_attribute", S("desk"), S("number"), "INTEGER"),
           Rel("add_relationship", "association", S("desk"), P("account"), <<<<>>, <<1>>>>),
           Rel("remove_relationship", "any", P("account"), P("branch"), <<<<>>, <<>>>>)>>),
   Voice(<<[fn |-> "rename_class", cls |-> P("account"), name |-> P("ledger")],
           MemberCall("add_operation", P("account"), S("close"), ""),
           MemberCall("remove_attribute", P("account"), P("label"), ""),
           MemberCall("remove_operation", P("branch"), S("open"), "")>>),
   Voice(<<ClassCall("add_class", P("desk")), MemberCall("remove_attribute", P("desk"), S("number"), "")>>),
   Voice(<<ClassCall("remove_class", P("card"))>>),
   Voice(<<Rel("update_relationship", "association", P("account"), P("branch"), <<<<Unbounded>>, <<>>>>)>>),
   Voice(<<ClassCall("remove_class", P("branch")),
           Rel("update_relationship", "any", P("account"), P("branch"), <<<<1>>, <<>>>>)>>),
   Voice(<<>>)}

Drawn(name, attrs, ops) == [name |-> name, attrs |-> attrs, ops |-> ops]
Field3(name, type) == [name |-> name, type |-> type]
DrawnLink(kind, source, target, sourceMult, targetMult) ==
  [kind |-> kind, source |-> source, target |-> target, name |-> Unset,
   sourceMult |-> sourceMult, targetMult |-> targetMult]
Images ==
  {Image([classes |-> <<Drawn(P("account"), <<Field3(S("label"), "TEXT"), Field3(S("code"), "LONG")>>, <<>>),
                        Drawn(P("card"), <<Field3(S("pin"), "STRING")>>, <<S("lock")>>)>>,
          rels |-> <<DrawnLink("association", P("account"), P("card"), <<>>, <<Letter>>)>>]),
   Image([classes |-> <<Drawn(S("account"), <<Field3(P("label"), "STRING")>>, <<>>),
                        Drawn(P("branch"), <<>>, <<S("open"), S("close")>>)>>,
          rels |-> <<DrawnLink("association", P("account"), P("branch"), <<1, Letter>>, <<>>)>>]),
   Image([classes |-> <<Drawn(P("account"), <<>>, <<>>), Drawn(P("branch"), <<>>, <<>>)>>,
          rels |-> <<DrawnLink("generalization", P("branch"), P("account"), <<>>, <<>>)>>])}

Bank ==
  <<Class("a", P("account")), WithAttr("a", Attr("a1", S("label"), "STRING")), Class("b", P("branch")),
    WithOp("b", "b1", S("open")), Link("ab", "association", End("a", Many, NoName), End("b", One, NoName))>>
Speaking ==
  Scenario(Bank, {Drop("b"), Relink("ab", NoName, NoMultiplicity, Opt)},
           {}, Spoken, 1, 2)
Drawing ==
  Scenario(Bank, {Unlink("ab"), DropAttr("a", "a1"), Heir("ba", "b", "a")}, {}, Images, 1, 2)

Interchangeable == Permutations(Plans) \cup Permutations(Confirmers)
ASSUME StringFactsFor(0..20, {NewId(kind, 12) : kind \in {"xc", "xe"}})

AllScenarios == {Trees, Links, Profiles, Files, Speaking, Drawing}
=============================================================================
