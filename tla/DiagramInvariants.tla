-------------------------- MODULE DiagramInvariants --------------------------
(***************************************************************************)
(* What the proofs about Diagram carry from step to step: of the folds and *)
(* recursive functions of the model, what holds of the value they have     *)
(* reached after n elements (the cases of Holds, such as RootsFollow for   *)
(* Roots); of a file that is read, what each element of it becomes; of a   *)
(* state, DiagramInv, the inductive invariant, and its parts.              *)
(***************************************************************************)
EXTENDS DiagramProperties

(***************************************************************************)
(* Enumeration types: the fold of EnumTypes.                               *)
(***************************************************************************)
AddType(c, types, enum) == MapEnumeration(types, enum)
TypesFollow(enums, n, types) ==
  /\ types \in Seq(ToSet(types)) /\ DistinctNames(types) /\ NamesOf(types) \subseteq Seq(Word)
  /\ \A i \in 1..n : \E t \in ToSet(types) : t.source = enums[i].id

(* Elements that a comprehension keeps, one position after the other.      *)
Kept(seq, kept, n, found) ==
  found = [i \in 0..n |-> IF i = 0 THEN <<>>
                          ELSE IF seq[i] \in kept THEN Append(found[i-1], seq[i])
                          ELSE found[i-1]]

(* The positions in seq of the elements of part, which keeps their order.  *)
Picks(part, seq, at) ==
  /\ at \in [1..Len(part) -> 1..Len(seq)]
  /\ \A i \in 1..Len(part) : part[i] = seq[at[i]]
  /\ \A i, j \in 1..Len(part) : i < j => at[i] < at[j]

(* A sequence of sequences put end to end.                                 *)
Ends(seqs, n, flat) ==
  flat = [i \in 1..n |-> IF i = 1 THEN seqs[i] ELSE flat[i-1] \o seqs[i]]

(***************************************************************************)
(* Profiles of live elements, through one command.                         *)
(***************************************************************************)
DistinctClassIds(m) ==
  \A i, j \in DOMAIN m.classes : m.classes[i].id = m.classes[j].id => i = j

LiveIds(m) == IdsOf(m.classes) \cup AttributeIds(m)

(* ProfilesOfLiveElements of a model other than the document's.            *)
HasLiveProfiles(m) ==
  \A id \in DOMAIN m.meta :
    /\ id \in LiveIds(m)
    /\ m.meta[id] # NoProfile /\ ~ProfileIsMalformed(m, id)
    /\ "defaultSort" \in DOMAIN m.meta[id] /\ HasId(m.classes, id) =>
         m.meta[id].defaultSort.attribute \in AttributeIds(m)

DistinctRelIds(m) == \A i, j \in DOMAIN m.rels : m.rels[i].id = m.rels[j].id => i = j

IsParsed(mult) == ParsesAsMultiplicity(FormatMultiplicity(mult))
MultiplicitiesParse(m) ==
  \A i \in DOMAIN m.rels : IsParsed(m.rels[i].source.mult) /\ IsParsed(m.rels[i].target.mult)

(* A document whose classes and relationships have ids of their own, whose *)
(* profiles are those of live elements and whose multiplicities parse.     *)
IsSound(m) ==
  /\ IsModel(m) /\ DistinctClassIds(m) /\ DistinctRelIds(m) /\ HasLiveProfiles(m)
  /\ MultiplicitiesParse(m)

(* Nothing but the element a command adds can come alive.                  *)
DrawnBy(c) == IF c.type \in Additions THEN {DrawnId(c)} ELSE {}
Follows(m, c, m2) ==
  DistinctClassIds(m2) /\ HasLiveProfiles(m2) /\ LiveIds(m2) \subseteq LiveIds(m) \cup DrawnBy(c)

(* The relationships keep ids of their own.                                *)
RelsKept(m, c, m2) ==
  /\ DistinctRelIds(m2) /\ IdsOf(m2.rels) \subseteq IdsOf(m.rels) \cup DrawnBy(c)
  /\ MultiplicitiesParse(m) /\ Decodes(c) => MultiplicitiesParse(m2)

(***************************************************************************)
(* Commands applied one after the other: Play, and Batch while every       *)
(* command passes its gate.  c is the list of commands.                    *)
(***************************************************************************)
DrawsLater(commands, n, id) ==
  \E i \in DOMAIN commands : i > n /\ commands[i].type \in Additions /\ DrawnId(commands[i]) = id
SoundSoFar(commands, n, m) ==
  IsSound(m) /\ \A id \in LiveIds(m) \cup IdsOf(m.rels) : ~DrawsLater(commands, n, id)

PlayNext(c, m, command) == Handle(m, command)

BatchNext(c, done, command) ==
  IF done.verdict # "ok" THEN done
  ELSE [verdict |-> Gate(done.model, command), model |-> Handle(done.model, command)]
BatchSoFar(commands, n, done) == done.verdict = "ok" => SoundSoFar(commands, n, done.model)

AreCommands(commands) ==
  commands \in Seq(ToSet(commands)) /\ \A i \in DOMAIN commands : IsCommand(commands[i])

(* Strings, for all numbers and texts: a hypothesis of the theorems below. *)
StringFacts == StringFactsFor(Nat, STRING)

(* What a connector of a file is read as: its multiplicities parse.        *)
LinkType ==
  {r \in [kind : RelationshipKinds, source : EndType, target : EndType, name : NameType] :
     IsParsed(r.source.mult) /\ IsParsed(r.target.mult)}

(***************************************************************************)
(* The translator.  c has the diagram, the calls and the ids that are      *)
(* drawn for them.                                                         *)
(***************************************************************************)
NamesStrings(registry) == \A key \in DOMAIN registry : registry[key] \in STRING

TranslateNext(c, done, i) ==
  LET error == CallError(c.model, done.registry, c.calls[i])
  IN  [registry |-> Registered(done.registry, c.calls[i], c.ids[i]),
       results  |-> Append(done.results,
         [error |-> error,
          command |-> IF error # "none" THEN [type |-> "none"]
                      ELSE CommandOf(c.model, done.registry, c.calls[i], c.ids[i])])]

(* The command of a call that translates is made with names of classes.    *)
IsTranslated(c, n, results) ==
  /\ Len(results) = n /\ results \in Seq(ToSet(results))
  /\ \A i \in 1..n : results[i].error = "none" =>
       \E registry : /\ NamesStrings(registry)
                     /\ results[i].command = CommandOf(c.model, registry, c.calls[i], c.ids[i])
TranslatedSoFar(c, n, done) ==
  NamesStrings(done.registry) /\ IsTranslated(c, n, done.results)

PlanFields == {"stage", "request", "seen", "base", "calls", "applied"}

(* A plan's base revision is never ahead of the document; a plan whose     *)
(* base is the revision still was read from this very model; and an        *)
(* applied one has been overtaken by its own batch.                        *)
PlanFollows(p) ==
  /\ DOMAIN plans[p] = PlanFields
  /\ plans[p].base \in Nat
  /\ plans[p].applied \in Nat
  /\ plans[p].base <= revision
  /\ plans[p].stage # "none" /\ plans[p].base = revision => plans[p].seen = model
  /\ plans[p].applied # 0 => plans[p].base < revision /\ plans[p].stage # "none"

(* Who is about to confirm holds a plan that was asked for.                *)
ConfirmsAsked(u) ==
  /\ DOMAIN confirm[u] = {"stage", "plan", "commands"}
  /\ confirm[u].stage # "idle" =>
       confirm[u].plan \in Plans /\ plans[confirm[u].plan].stage # "none"

PlanInv ==
  /\ revision \in Nat
  /\ DOMAIN plans = Plans
  /\ DOMAIN confirm = Confirmers
  /\ \A p \in Plans : PlanFollows(p)
  /\ \A u \in Confirmers : ConfirmsAsked(u)

(* What a plan holds is typed, and what was checked may be applied to the  *)
(* document it was checked against.                                        *)
PlanIsTyped(p) ==
  /\ AreCalls(plans[p].calls)
  /\ AreCalls(plans[p].request.calls) /\ plans[p].request.image \in ImageType
  /\ IsModel(plans[p].seen)

ConfirmIsSound(u) ==
  confirm[u].stage = "checked" =>
    /\ AreCommands(confirm[u].commands)
    /\ revision = plans[confirm[u].plan].base => DrawFreshIds(confirm[u].commands, model)

DiagramInv ==
  /\ PlanInv
  /\ scenario \in Scenarios
  /\ IsSound(model)
  /\ \A p \in Plans : PlanIsTyped(p)
  /\ \A u \in Confirmers : ConfirmIsSound(u)

(***************************************************************************)
(* Sequences put together, as one fact each.                               *)
(***************************************************************************)
IsLonger(longer, prev, e) ==
  /\ longer \in Seq(ToSet(longer)) /\ Len(longer) = Len(prev) + 1
  /\ DOMAIN longer = 1..(Len(prev) + 1) /\ longer[Len(prev) + 1] = e
  /\ \A i \in 1..Len(prev) : longer[i] = prev[i]
  /\ ToSet(longer) = ToSet(prev) \cup {e}

IsJoin(whole, first, rest) ==
  /\ Len(whole) = Len(first) + Len(rest)
  /\ \A i \in 1..Len(first) : whole[i] = first[i]
  /\ \A i \in 1..Len(rest) : whole[Len(first) + i] = rest[i]

IsPart(part, prefix, table, columns) ==
  /\ Len(part) = Len(table) + 2 + Len(columns)
  /\ part[1] = prefix /\ part[Len(table) + 2] = ""
  /\ \A i \in 1..Len(table) : part[i + 1] = table[i]
  /\ \A i \in 1..Len(columns) : part[Len(table) + 2 + i] = columns[i]

(***************************************************************************)
(* Columns.                                                                *)
(***************************************************************************)
ColumnsAre(columns, types) ==
  /\ columns \in Seq(ToSet(columns)) /\ DistinctNames(columns)
  /\ ColumnNames(columns) \subseteq Seq(Word)
  /\ \A c \in ToSet(columns) :
       (IsEnum(c) => c.enum \in NamesOf(types)) /\ (c.name = Id => c.owner = NoOwner)

(***************************************************************************)
(* The classes of a root's table, the root among them.                     *)
(***************************************************************************)
Descend(m, tree, step) ==
  LET childrenOf(c) == Filter(m.classes, LAMBDA d : c.id \in ParentsOf(m, d.id))
      below(level) == FlattenSeq([i \in DOMAIN level |-> childrenOf(level[i])])
  IN  [all |-> tree.all \o below(tree.level), level |-> below(tree.level)]
TreeFollows(c, n, tree) ==
  /\ tree.all \in Seq(ToSet(c.model.classes)) /\ tree.level \in Seq(ToSet(c.model.classes))
  /\ c.root \in ToSet(tree.all)
TreeNext(c, tree, step) == Descend(c.model, tree, step)

(***************************************************************************)
(* The columns of attributes.                                              *)
(***************************************************************************)
HeldAttribute == [attr : AttributeType, cls : ClassType, nullable : BOOLEAN]
HeldIn(classes) == {a \in HeldAttribute : a.cls \in classes /\ a.attr \in ToSet(a.cls.attrs)}

(***************************************************************************)
(* What the stages after the hierarchy refuse: a name without letters, an  *)
(* attribute of a type that is gone.                                       *)
(***************************************************************************)
HasSnakeNames(m) ==
  /\ \A e \in NamedElements(m) : HasSnakeCase(e.name)
  /\ \A r \in ToSet(m.rels) : HasSnakeCase(r.source.role) /\ HasSnakeCase(r.target.role)

IsDue(m, error) ==
  \/ error = "none"
  \/ error = "InvalidElementName" /\ ~HasSnakeNames(m)
  \/ /\ error = "UnknownEnumeration"
     /\ \E c \in ToSet(m.classes) : \E a \in ToSet(c.attrs) : HasUnknownType(a, m)

(* The columns keep the names of the fixed ones, the key among them.       *)
DraftFollows(c, n, draft) ==
  /\ DOMAIN draft = {"columns", "error"}
  /\ IsDue(c.model, draft.error)
  /\ draft.error = "none" =>
       /\ ColumnsAre(draft.columns, EnumTypes(c.model))
       /\ {Id} \cup c.fixed \subseteq ColumnNames(draft.columns)
DraftNext(c, draft, a) == MapAttribute(c.model, draft, a)

Drafted(m, base, attributes) == FoldLeft(LAMBDA d, a : MapAttribute(m, d, a), base, attributes)

(***************************************************************************)
(* Tables.                                                                 *)
(***************************************************************************)
TableFields ==
  {"name", "columns", "fks", "uniques", "indexes", "classes", "discriminator", "profile"}

(* The columns a constraint may be named by: of a join table, which gets   *)
(* no further constraints, any.                                            *)
KeyColumns(t) == IF t.classes = <<>> THEN Seq(Word) ELSE ColumnNames(t.columns)

Parts(prefix, table, columns) == {Part(prefix, table, c) : c \in columns}
NamedBy(prefix, table, columns, names) ==
  names \in Seq(Parts(prefix, table, columns)) /\ IsInjective(names)

KeyNames(fks) == [i \in DOMAIN fks |-> fks[i].name]

TableIs(t, types) ==
  /\ DOMAIN t = TableFields
  /\ t.name \in Seq(Word)
  /\ ColumnsAre(t.columns, types)
  /\ t.fks \in Seq(ToSet(t.fks)) /\ t.classes \in Seq(ToSet(t.classes))
  /\ \A f \in ToSet(t.fks) : f.column \in ColumnNames(t.columns)
  /\ t.discriminator # <<>> =>
       /\ <<"class", "type">> \in ColumnNames(t.columns)
       /\ \A f \in ToSet(t.fks) : f.column # <<"class", "type">>
  /\ NamedBy("fk", t.name, KeyColumns(t), KeyNames(t.fks))
  /\ NamedBy("uq", t.name, KeyColumns(t), t.uniques)
  /\ NamedBy("ix", t.name, KeyColumns(t), t.indexes)

TablesAre(tables, types) ==
  /\ tables \in Seq(ToSet(tables)) /\ DistinctNames(tables)
  /\ \A t \in ToSet(tables) :
       TableIs(t, types) /\ \A f \in ToSet(t.fks) : f.table \in NamesOf(tables)

(***************************************************************************)
(* Stage 3: after n roots, each of them has a table.                       *)
(***************************************************************************)
Covers(m, n, tables) ==
  \A i \in 1..n : \E t \in ToSet(tables) : Contains(t.classes, Roots(m)[i].id)

AreKeyless(tables) == \A t \in ToSet(tables) : t.fks = <<>>

RootsFollow(m, n, s) ==
  /\ DOMAIN s = {"error", "tables", "enumTypes"} /\ IsDue(m, s.error)
  /\ s.error = "none" =>
       TablesAre(s.tables, EnumTypes(m)) /\ Covers(m, n, s.tables) /\ AreKeyless(s.tables)

(* The columns of a root's table.                                          *)
Drawn(m, root) ==
  LET tree  == Tree(m, root)
      fixed == IF Len(tree) = 1 THEN <<PlainColumn(Id, "UUID", FALSE)>>
               ELSE <<PlainColumn(Id, "UUID", FALSE),
                      PlainColumn(<<"class", "type">>, "VARCHAR", FALSE)>>
  IN  Drafted(m, [columns |-> fixed,
                  error |-> IF HasSnakeCase(root.name) THEN "none" ELSE "InvalidElementName"],
              AttributesOf(tree))

(***************************************************************************)
(* The root of a class, where the hierarchy is in order.                   *)
(***************************************************************************)
AncestorNext(m, at, step) == IF HasParent(m, at) THEN ParentOf(m, at) ELSE at
AncestorFollows(m, n, at) == at \in IdsOf(m.classes)

(***************************************************************************)
(* Stage 4: after each relationship the tables are in order.               *)
(***************************************************************************)
LinksFollow(m, n, s) ==
  /\ DOMAIN s = {"error", "tables", "enumTypes"} /\ IsDue(m, s.error)
  /\ s.error = "none" =>
       TablesAre(s.tables, EnumTypes(m)) /\ Covers(m, Len(Roots(m)), s.tables)

ConstraintParts(t) ==
  Parts("fk", t.name, Seq(Word)) \cup Parts("uq", t.name, Seq(Word)) \cup Parts("ix", t.name, Seq(Word))

(***************************************************************************)
(* The pipeline.                                                           *)
(***************************************************************************)
Linked(m, drawn) == FoldLeft(LAMBDA s, rel : MapRelationship(m, s, rel), drawn, m.rels)
Started(m) ==
  NoSchema(IF \A e \in ToSet(m.enums) : HasSnakeCase(e.name) THEN "none" ELSE "InvalidElementName")
TablesDrawn(m, started) ==
  FoldLeft(LAMBDA s, root : MapTableForRoot(m, s, root), started, Roots(m))

(***************************************************************************)
(* The hierarchy as a graph: from each class to its parents.               *)
(***************************************************************************)
Sources(m) == {r.source.cls : r \in ToSet(Generalizations(m))}
Targets(m) == {r.target.cls : r \in ToSet(Generalizations(m))}

(***************************************************************************)
(* Above: the classes that are reached step by step.                       *)
(***************************************************************************)
ParentsOfAll(m, ids) == UNION {ParentsOf(m, x) : x \in ids}

IsAbove(m, id, n, above) ==
  above = [k \in 0..n |-> LET ids == IF k = 0 THEN {id} ELSE above[k-1]
                          IN  ids \cup ParentsOfAll(m, ids)]

(* Everything that is reached from id in steps to parents is above it.     *)
IsClosed(m, ids) == ParentsOfAll(m, ids) \subseteq ids

(***************************************************************************)
(* One step of the depth-first search, its stack element by element.       *)
(***************************************************************************)
FrameType == [cls : STRING, left : Seq(STRING)]

SameSearch(d, e) == e.black = d.black /\ e.cycles = d.cycles

SkipsStart(d, e) ==
  /\ d.starts # <<>> /\ Head(d.starts) \in d.black
  /\ e.starts = Tail(d.starts) /\ e.stack = <<>> /\ SameSearch(d, e)

BeginsAt(m, d, e) ==
  /\ d.starts # <<>> /\ Head(d.starts) \notin d.black
  /\ e.starts = Tail(d.starts) /\ e.stack = <<Frame(m, Head(d.starts))>> /\ SameSearch(d, e)

FinishesTop(d, e) ==
  /\ d.stack[Len(d.stack)].left = <<>>
  /\ e.black = d.black \cup {d.stack[Len(d.stack)].cls}
  /\ e.stack \in Seq(FrameType) /\ Len(e.stack) = Len(d.stack) - 1
  /\ \A i \in 1..(Len(d.stack) - 1) : e.stack[i] = d.stack[i]
  /\ e.starts = d.starts /\ e.cycles = d.cycles

(* The top frame has looked at its first edge.                             *)
HasAdvanced(stack, next) ==
  /\ next \in Seq(FrameType) /\ Len(next) = Len(stack)
  /\ \A i \in 1..(Len(stack) - 1) : next[i] = stack[i]
  /\ next[Len(stack)].cls = stack[Len(stack)].cls
  /\ next[Len(stack)].left = Tail(stack[Len(stack)].left)

FollowsEdge(m, d, e, child) ==
  /\ d.stack[Len(d.stack)].left # <<>> /\ child = Head(d.stack[Len(d.stack)].left)
  /\ e.starts = d.starts /\ e.black = d.black
  /\ \E next :
       /\ HasAdvanced(d.stack, next)
       /\ \/ /\ child \in Grey(d.stack) /\ e.stack = next
             /\ e.cycles = d.cycles \cup {CycleMembers(d.stack, child)}
          \/ /\ child \notin Grey(d.stack) /\ child \in d.black
             /\ e.stack = next /\ e.cycles = d.cycles
          \/ /\ child \notin Grey(d.stack) /\ child \notin d.black
             /\ e.stack = Append(next, Frame(m, child)) /\ e.cycles = d.cycles

(***************************************************************************)
(* What holds throughout the search.  IsCycle is what CycleRuleExact says  *)
(* of a reported cycle; Loopless is what it denies where none is reported. *)
(***************************************************************************)
Nodes(m) == Sources(m) \cup Targets(m)

IsCycle(m, cycle) ==
  cycle # {} /\ \A id \in cycle : cycle \subseteq Above(m, id) /\ OnCycle(m, id)

Loopless(m, ids) ==
  \A part \in SUBSET ids : part # {} => \E x \in part : ParentsOf(m, x) \cap part = {}

(* Every class with a parent is finished, on the stack or to be started.   *)
Covered(m, d) ==
  /\ Sources(m) \subseteq d.black \cup Grey(d.stack) \cup ToSet(d.starts)
  /\ ToSet(d.starts) \subseteq Sources(m)

(* The stack is a path of the graph.                                       *)
Chained(m, stack, black) ==
  /\ \A i \in 1..Len(stack) :
       /\ stack[i].cls \in Nodes(m) \ black
       /\ ToSet(stack[i].left) \subseteq ParentsOf(m, stack[i].cls)
  /\ \A i, j \in 1..Len(stack) : stack[i].cls = stack[j].cls => i = j
  /\ \A i \in 1..(Len(stack) - 1) : stack[i + 1].cls \in ParentsOf(m, stack[i].cls)

(* A parent that is not left to be looked at is finished or comes next.    *)
HasLooked(m, stack, black) ==
  \A i \in 1..Len(stack) : \A p \in ParentsOf(m, stack[i].cls) :
    p \in ToSet(stack[i].left) \/ p \in black \/ (i < Len(stack) /\ p = stack[i + 1].cls)

IsFinished(m, black) == Loopless(m, black) /\ \A x \in black : ParentsOf(m, x) \subseteq black

SearchInv(m, d) ==
  /\ d \in Searches /\ Covered(m, d) /\ Chained(m, d.stack, d.black)
  /\ d.cycles = {} => HasLooked(m, d.stack, d.black) /\ IsFinished(m, d.black)
  /\ \A cycle \in d.cycles : IsCycle(m, cycle)

(* The same but for the edge the top frame has just turned to.             *)
HasLookedBut(m, stack, black, child) ==
  \A i \in 1..Len(stack) : \A p \in ParentsOf(m, stack[i].cls) :
    \/ p \in ToSet(stack[i].left) \/ p \in black
    \/ i < Len(stack) /\ p = stack[i + 1].cls
    \/ i = Len(stack) /\ p = child

CyclesAre(m, cycles) ==
  /\ cycles = {} => \E black : IsFinished(m, black) /\ Sources(m) \subseteq black
  /\ \A cycle \in cycles : IsCycle(m, cycle)

(***************************************************************************)
(* The search comes to an end: each step leaves fewer classes unseen, or   *)
(* as many and a shorter stack or list of starts, or fewer edges to follow *)
(* from the class on top.                                                  *)
(***************************************************************************)
Unseen(m, d) == Nodes(m) \ (d.black \cup Grey(d.stack))
Waiting(d) == Len(d.starts) + Len(d.stack)
LeftOnTop(d) == IF d.stack = <<>> THEN 0 ELSE Len(d.stack[Len(d.stack)].left)

Shrinks(m, d, e) ==
  \/ Cardinality(Unseen(m, e)) < Cardinality(Unseen(m, d))
  \/ /\ Cardinality(Unseen(m, e)) = Cardinality(Unseen(m, d))
     /\ Waiting(e) < Waiting(d) \/ (Waiting(e) = Waiting(d) /\ LeftOnTop(e) < LeftOnTop(d))

(***************************************************************************)
(* The recursive function of ReportedCycles exists: its value at d is what *)
(* a search that starts at d ends with, where it ends.                     *)
(***************************************************************************)
EndsIn(m, c, R) ==
  \A d \in Searches : IF IsOver(d) THEN d.cycles = c => d \in R
                      ELSE Explore(m, d) \in R => d \in R
Settles(m, d, c) == \A R \in SUBSET Searches : EndsIn(m, c, R) => d \in R

IsSearch(m, search) ==
  search = [d \in Searches |-> IF IsOver(d) THEN d.cycles ELSE search[Explore(m, d)]]

(***************************************************************************)
(* The mapper and the rules, which look for a cycle each in its own way:   *)
(* the mapper walks up from a class for as many steps as there are         *)
(* classes.  Where the hierarchy has no loop, a walk of n steps that has   *)
(* not ended has passed n + 1 classes.                                     *)
(***************************************************************************)
IsPassed(m, n, at, V) ==
  /\ V \subseteq IdsOf(m.classes) /\ at \in V
  /\ IsFiniteSet(V) /\ Cardinality(V) >= n + 1
  /\ \A x \in V : x # at => ParentsOf(m, x) \cap V # {}
WalkFollows(m, n, at) == HasParent(m, at) => \E V : IsPassed(m, n, at, V)

Connected(m) == \A r \in ToSet(m.rels) : ~Dangling(r, m)

(***************************************************************************)
(* Each error of the mapper is one of the rules'.                          *)
(***************************************************************************)
CodesOf(m) == {d[2] : d \in {e \in Validate(m) : e[1] = "error"}}

(***************************************************************************)
(* A relationship's keys, and what a later relationship leaves of them.    *)
(***************************************************************************)
(* The positions J up to k are the positions I up to n, and later ones.    *)
SelectsMore(n, k, I, J) ==
  /\ n \in Nat /\ k \in Nat /\ n <= k
  /\ I \in SUBSET (1..n) /\ J \in SUBSET (1..k)
  /\ \A i \in 1..n : i \in J <=> i \in I

(***************************************************************************)
(* A relationship's keys, and what a later relationship leaves of them.    *)
(***************************************************************************)
(* The table u is t with keys of the relationship id, or t itself.         *)
KeepsKeys(t, u, id) ==
  /\ u.name = t.name /\ u.classes = t.classes
  /\ ToSet(t.fks) \subseteq ToSet(u.fks)
  /\ \A f \in ToSet(u.fks) : f \in ToSet(t.fks) \/ f.rel = id
  /\ \A f \in ToSet(t.fks) :
       /\ ByName(u.columns, f.column) = ByName(t.columns, f.column)
       /\ IsUnique(u, f) <=> IsUnique(t, f)

(* The tables next are tables with keys and join tables of id.             *)
Grows(tables, next, id) ==
  /\ DOMAIN tables \subseteq DOMAIN next
  /\ \A k \in DOMAIN tables : KeepsKeys(tables[k], next[k], id)
  /\ \A k \in DOMAIN next \ DOMAIN tables :
       next[k].classes = <<>> /\ \A f \in ToSet(next[k].fks) : f.rel = id

(* The key that a table t has got for a relationship as u.                 *)
NewKey(t, u, key, rel, referenced, to) ==
  LET composed == rel.kind = "composition"
  IN  /\ ToSet(u.fks) = ToSet(t.fks) \cup {key}
      /\ key.rel = rel.id /\ key.table = to
      /\ key.onDelete = (IF composed THEN "CASCADE" ELSE "NO_ACTION")
      /\ ByName(u.columns, key.column).nullable =
           (IF composed THEN rel.source.cls = rel.target.cls ELSE referenced.mult.lower <= 0)
      /\ IsUnique(u, key) <=> ~IsMany(rel.source.mult) /\ ~IsMany(rel.target.mult)

(* The keys of a join table are those of its relationship, to both ends.   *)
JoinsEnds(t, rel, from, to) ==
  /\ t.classes = <<>> /\ \A f \in ToSet(t.fks) : f.rel = rel.id
  /\ Cardinality(KeysOf(t, rel)) # 1 /\ KeysOf(t, rel) # {}
  /\ {key.table : key \in KeysOf(t, rel)} = {from, to}

(* The table a class is in.                                                *)
NameIn(m, s, class) == s.tables[TableOfClass(m, s, class)].name

(* One more relationship is realised, and those before stay so.            *)
Realises(m, s, next, rel) ==
  /\ Grows(s.tables, next.tables, rel.id)
  /\ IsRealised(next.tables, rel, NameIn(m, next, rel.source.cls), NameIn(m, next, rel.target.cls))

(***************************************************************************)
(* The relationships so far are realised, and those to come have no key.   *)
(***************************************************************************)
IsDone(m, s, rel) ==
  rel.kind # "generalization" =>
    IsRealised(s.tables, rel, NameIn(m, s, rel.source.cls), NameIn(m, s, rel.target.cls))
HasNoKeys(s, rel) == \A t \in ToSet(s.tables) : KeysOf(t, rel) = {}
AreDone(m, n, s) ==
  \A j \in DOMAIN m.rels :
    /\ j <= n => IsDone(m, s, m.rels[j])
    /\ j > n => HasNoKeys(s, m.rels[j])
RealisedSoFar(m, n, s) == LinksFollow(m, n, s) /\ (s.error = "none" => AreDone(m, n, s))

(***************************************************************************)
(* The files generated of a schema.                                        *)
(***************************************************************************)
FilesOf(t) ==
  IF HasInheritance(t)
    THEN {InheritanceSource(t, k) : k \in DOMAIN t.classes} \cup {RepositorySource(t)}
    ELSE {EntitySource(t), RepositorySource(t), DtoSource(t, RequestDto(t.name), TRUE),
          DtoSource(t, ResponseDto(t.name), FALSE), ServiceSource(t), ControllerSource(t)}
           \cup {s \in {SpecificationSource(t)} : SearchFilters(t) # <<>>}

(* What a project is generated of, and its files.                          *)
Generates(tables, types, files) ==
  /\ TablesAre(tables, types)
  /\ \A t \in ToSet(tables) : TableRefusal(t) = "none"
  /\ \A e \in ToSet(types) : EnumRefusal(e) = "none"
  /\ files = (UNION {FilesOf(t) : t \in ToSet(tables)})
               \cup {EnumSource(e) : e \in ToSet(types)} \cup ToSet(FixedSources)

(***************************************************************************)
(* How the files of a project fit together: the types a file names, the    *)
(* members it calls and the types it imports.                              *)
(***************************************************************************)
IsDeclared(type, files) == type.pkg \in OwnPackages => \E g \in files : g.type = type
Answers(files, type, member) == \E g \in files : g.type = type /\ member \in ToSet(g.members)
Resolves(f, files) ==
  /\ \A type \in f.uses \cup f.imports : IsDeclared(type, files)
  /\ \A call \in f.calls : Answers(files, call[1], call[2])
  /\ Unimported(f) \subseteq (IF f.type.name # <<>> /\ Last(f.type.name) = "service"
                              THEN {BigDecimal} ELSE {})

(***************************************************************************)
(* A comprehension of which the positions are known.                       *)
(***************************************************************************)
KeptAt(seq, kept, n, at) ==
  /\ at \in [1..n -> 1..Len(seq)]
  /\ \A i, j \in 1..n : i < j => at[i] < at[j]
  /\ \A k \in 1..Len(seq) : seq[k] \in kept <=> \E i \in 1..n : at[i] = k

(* The elements from one position to another.                              *)
KeptBetween(seq, kept, a, n) ==
  \A k \in 1..Len(seq) : seq[k] \in kept <=> a < k /\ k <= a + n

(***************************************************************************)
(* What export_xmi writes: the names of the join classes are of a form of  *)
(* their own.                                                              *)
(***************************************************************************)
JoinNamesFollow(m, n, names) ==
  /\ names \in Seq(ToSet(names)) /\ Len(names) = n
  /\ \A i \in 1..n : names[i].form = "joined"

(* The element written for a many-to-many relationship.                    *)
IsJoinElement(m, e) ==
  /\ e.stype = "Class" /\ e.synthetic /\ e.name.form = "joined" /\ ~e.isRoot
  /\ \E rel \in ToSet(m.rels) : IsJoinRelationship(rel) /\ e.xid = JoinXid(rel)

IsConcat(all, s, t, u, S) ==
  /\ all \in Seq(S) /\ Len(all) = Len(s) + Len(t) + Len(u)
  /\ \A i \in 1..Len(s) : all[i] = s[i]
  /\ \A i \in 1..Len(t) : all[Len(s) + i] = t[i]
  /\ \A i \in 1..Len(u) : all[Len(s) + Len(t) + i] = u[i]

(* What import_xmi finds in a file that export_xmi wrote of m.             *)
IsExportOf(m, file) ==
  /\ file.dialect = "1.1"
  /\ EnumsIn(file) = [i \in 1..Len(m.enums) |-> WriteEnumeration(m.enums[i])]
  /\ ClassesIn(file) \in Seq(ToSet(ClassesIn(file)))
  /\ Len(m.classes) <= Len(ClassesIn(file))
  /\ \A i \in 1..Len(m.classes) : ClassesIn(file)[i] = WriteClass(m.classes[i], m)
  /\ \A i \in 1..Len(ClassesIn(file)) :
       Len(m.classes) < i => IsJoinElement(m, ClassesIn(file)[i])
  /\ file.associations =
       LET others == Filter(m.rels, LAMBDA r : r.kind # "generalization")
       IN  [i \in DOMAIN others |-> WriteAssociation(others[i])]
  /\ file.generalizations =
       LET heirs == Generalizations(m)
       IN  [i \in DOMAIN heirs |->
              [child |-> <<heirs[i].source.cls>>, parent |-> <<heirs[i].target.cls>>]]
  /\ file.datatypes = [xid \in {DatatypeXid(tag) : tag \in PrimitiveTypes} |-> EaTypeName(xid[2])]

(***************************************************************************)
(* The references of the file: texts that stand for one element each.      *)
(***************************************************************************)
EnumIndex(m, id) == SelectInSeq(m.enums, LAMBDA e : e.id = id)

(***************************************************************************)
(* Types.                                                                  *)
(***************************************************************************)
NoRootName(m) == EARootClass \notin NamesOf(m.classes) \cup NamesOf(m.enums)

NoTypeNames(m) ==
  {n.words : n \in NamesOf(m.classes) \cup NamesOf(m.enums)}
    \cap {EaTypeName(tag).words : tag \in PrimitiveTypes} = {}

TypeRefOf(type) == IF type.tag = "ENUM" THEN <<type.enum>> ELSE DatatypeXid(type.tag)
TypeRead(m, type) ==
  IF type.tag = "ENUM" THEN EnumRef(NewId("xe", EnumIndex(m, type.enum)))
  ELSE Primitive(type.tag)

(***************************************************************************)
(* Classes.                                                                *)
(***************************************************************************)
HasTypes(m, c) ==
  \A i \in DOMAIN c.attrs :
    c.attrs[i].type.tag = "ENUM" => HasId(m.enums, c.attrs[i].type.enum)

AttributesRead(m, c, id) ==
  [i \in DOMAIN c.attrs |->
     [id |-> MemberId(id, "a", i), name |-> c.attrs[i].name,
      type |-> TypeRead(m, c.attrs[i].type)]]
OperationsRead(c, id) ==
  [i \in DOMAIN c.ops |-> [id |-> MemberId(id, "o", i), name |-> c.ops[i].name]]

(* The classes of the diagram come back, without the join classes.         *)
ClassRead(m, i) ==
  [id |-> NewId("xc", i), name |-> m.classes[i].name,
   attrs |-> AttributesRead(m, m.classes[i], NewId("xc", i)),
   ops |-> OperationsRead(m.classes[i], NewId("xc", i))]

(***************************************************************************)
(* Relationships.                                                          *)
(***************************************************************************)
EndsLive(m) ==
  \A i \in DOMAIN m.rels :
    HasId(m.classes, m.rels[i].source.cls) /\ HasId(m.classes, m.rels[i].target.cls)

EndRead(m, e, mult, role) == End(NewId("xc", ClassIndex(m, e.cls)), mult, role)
HeirRead(m, r) ==
  [kind |-> "generalization", source |-> EndRead(m, r.source, Multiplicity(1, 1), NoName),
   target |-> EndRead(m, r.target, Multiplicity(1, 1), NoName), name |-> NoName]
LinkRead(m, r) ==
  [kind |-> r.kind, source |-> EndRead(m, r.source, r.source.mult, r.source.role),
   target |-> EndRead(m, r.target, r.target.mult, r.target.role), name |-> r.name]

(* The relationships of the diagram come back, the generalizations first.  *)
Links(m) == Filter(m.rels, LAMBDA r : r.kind # "generalization")
RelRead(m, i) ==
  LET n == Len(Generalizations(m))
      read == IF i <= n THEN HeirRead(m, Generalizations(m)[i]) ELSE LinkRead(m, Links(m)[i - n])
  IN  [id |-> NewId("xr", i), kind |-> read.kind, name |-> read.name,
       source |-> read.source, target |-> read.target]

(***************************************************************************)
(* The diagram that is read back, and what is compared of it.              *)
(***************************************************************************)
ModelRead(m) ==
  [classes |-> [i \in 1..Len(m.classes) |-> ClassRead(m, i)],
   rels |-> [i \in 1..(Len(Generalizations(m)) + Len(Links(m))) |-> RelRead(m, i)],
   meta |-> <<>>,
   enums |-> [i \in 1..Len(m.enums) |-> ImportEnumeration(WriteEnumeration(m.enums[i]), i)]]

(* What a model has to satisfy to come back.                               *)
IsExchangeable(m) ==
  /\ IsModel(m) /\ DistinctClassIds(m) /\ NoTypeNames(m) /\ NoRootName(m)
  /\ MultiplicitiesParse(m) /\ EndsLive(m)
  /\ \A i \in DOMAIN m.classes : HasTypes(m, m.classes[i])

(* The relationships of a kind, as ModelView selects them.                 *)
OfKind(rels, kind) ==
  Filter(rels, LAMBDA r : (r.kind = "generalization") = (kind = "generalization"))

RelationshipViews(m, kind) ==
  [i \in DOMAIN OfKind(m.rels, kind) |-> RelationshipView(m, OfKind(m.rels, kind)[i])]

(***************************************************************************)
(* Folds.  The provers cannot instantiate an operator in a theorem, so the *)
(* folds of the model are cases of one operator, Combine, and what holds   *)
(* of their values, of one predicate, Holds.  A context c names the fold   *)
(* and has what it depends on; a is the value after n elements, and e the  *)
(* next one.                                                               *)
(***************************************************************************)
FoldOf(fold, of) == [fold |-> fold, of |-> of]

Combine(c, a, e) ==
  CASE c.fold = "EnumTypes" -> AddType(c.of, a, e)
    [] c.fold = "Play"      -> PlayNext(c.of, a, e)
    [] c.fold = "Batch"     -> BatchNext(c.of, a, e)
    [] c.fold = "Translate" -> TranslateNext(c.of, a, e)
    [] c.fold = "Tree"      -> TreeNext(c.of, a, e)
    [] c.fold = "Drafted"   -> DraftNext(c.of, a, e)
    [] c.fold = "Roots"     -> MapTableForRoot(c.of, a, e)
    [] c.fold = "Ancestor"  -> AncestorNext(c.of, a, e)
    [] c.fold = "Linked"    -> MapRelationship(c.of, a, e)
    [] c.fold = "Walk"      -> AncestorNext(c.of, a, e)
    [] c.fold = "Realised"  -> MapRelationship(c.of, a, e)
    [] c.fold = "JoinNames" -> AddJoinName(c.of, a, e)

Holds(c, n, a) ==
  CASE c.fold = "EnumTypes" -> TypesFollow(c.of, n, a)
    [] c.fold = "Play"      -> SoundSoFar(c.of, n, a)
    [] c.fold = "Batch"     -> BatchSoFar(c.of, n, a)
    [] c.fold = "Translate" -> TranslatedSoFar(c.of, n, a)
    [] c.fold = "Tree"      -> TreeFollows(c.of, n, a)
    [] c.fold = "Drafted"   -> DraftFollows(c.of, n, a)
    [] c.fold = "Roots"     -> RootsFollow(c.of, n, a)
    [] c.fold = "Ancestor"  -> AncestorFollows(c.of, n, a)
    [] c.fold = "Linked"    -> LinksFollow(c.of, n, a)
    [] c.fold = "Walk"      -> WalkFollows(c.of, n, a)
    [] c.fold = "Realised"  -> RealisedSoFar(c.of, n, a)
    [] c.fold = "JoinNames" -> JoinNamesFollow(c.of, n, a)

Fold(c, base, seq) == FoldLeft(LAMBDA a, e : Combine(c, a, e), base, seq)

(* FoldLeft is a function on the sets of positions, defined by recursion   *)
(* on their largest member.  There is such a function.                     *)
Step(c, base, seq, g, t) ==
  IF t = {} THEN base ELSE Combine(c, g[t \ {Max(t)}], seq[Max(t)])

IsIter(c, base, seq, n, g) ==
  g = [t \in SUBSET (1..n) |-> Step(c, base, seq, g, t)]

(* A fold runs along its sequence: f[i] is its value after i elements.     *)
IsRun(c, base, seq, n, f) ==
  /\ f[0] = base
  /\ \A i \in 1..n : f[i] = Combine(c, f[i-1], seq[i])
  /\ Fold(c, base, seq) = f[n]
=============================================================================
