------------------------------ MODULE MCEngine ------------------------------
(***************************************************************************)
(* Instances of the components of the engine around the version store, for *)
(* model checking.  Each part is one instance of one component; "part" is  *)
(* fixed by the initial state, so the state graph is the disjoint union of *)
(* those of the parts a .cfg names in PartNames.  x1..x13 hold the         *)
(* variables of the part.                                                  *)
(***************************************************************************)
EXTENDS Integers, Sequences, FiniteSets, TLC

CONSTANT PartNames

VARIABLES part, x1, x2, x3, x4, x5, x6, x7, x8, x9, x10, x11, x12, x13

-----------------------------------------------------------------------------
(* Schemas: two labels and a relationship type with one property, types i  *)
(* and s, and statements of one or two entries.                            *)
NoName == <<"none">>
A == <<"node", "A">>
B == <<"node", "B">>
R == <<"rel", "R">>
NodeOf(target, implied, properties, keys) ==
    [target |-> target, definition |-> [implied |-> implied, props |-> properties], keys |-> keys]
RelOf(source, to, properties) ==
    [target |-> R, definition |-> [source |-> source, to |-> to, props |-> properties], keys |-> <<>>]
KeyOfP == [props |-> <<"p">>, kind |-> <<"key">>]
Def(target, kind) == [target |-> target, props |-> <<"p">>, kind |-> kind]
ConstraintOf(n, d) ==
    [target |-> <<"constraint">>, name |-> <<"given", n>>,
     definition |-> [target |-> d.target, props |-> d.props, kind |-> d.kind, origin |-> NoName]]

APlain == NodeOf(A, {}, "p" :> "i", <<>>)
AOther == NodeOf(A, {"B"}, "p" :> "s", <<>>)
AKeyed == NodeOf(A, {}, "p" :> "i", <<KeyOfP>>)
ABare  == NodeOf(A, {}, <<>>, <<>>)
AUntyped == NodeOf(A, {"B"}, <<>>, <<>>)
BImplying == NodeOf(B, {"C"}, <<>>, <<>>)
RFromA == RelOf(<<"A", TRUE>>, NoName, <<>>)
RTyped == RelOf(NoName, <<"B", FALSE>>, "p" :> "i")
RBare  == RelOf(NoName, NoName, <<>>)
Named(n) == [target |-> <<"name">>, name |-> <<"given", n>>, definition |-> NoName]

AllStatements ==
    {[op |-> "set", entries |-> e] : e \in {<<>>, <<AKeyed, RFromA>>, <<RFromA>>}}
    \cup {[op |-> "add", entries |-> <<e>>] :
            e \in {APlain, AKeyed, AOther, BImplying, RFromA, RTyped, ABare,
                   ConstraintOf("x", Def(A, <<"unique">>))}}
    \cup {[op |-> "alter", entries |-> <<e>>] : e \in {APlain, AOther, AKeyed, AUntyped, RTyped}}
    \cup {[op |-> "alter", entries |-> <<AOther, APlain>>]}
    \cup {[op |-> "drop", entries |-> <<e>>] :
            e \in {ABare, APlain, RBare, Named("x"), ConstraintOf("y", Def(A, <<"key">>))}}
    \cup {[op |-> "drop", entries |-> <<RBare, ABare>>]}
AllDefinitions == {Def(A, <<"key">>), Def(A, <<"unique">>), Def(A, <<"type", "s">>), Def(B, <<"notnull">>)}
IndexOf(kind, target) == [kind |-> kind, target |-> target, props |-> <<"p">>]
SomeIndexes == {IndexOf("range", A), IndexOf("text", A)}

(* For merges: fewer commands, chosen so that branches meet.               *)
KeyedStatements ==
    {[op |-> "add", entries |-> <<AKeyed>>], [op |-> "alter", entries |-> <<AOther>>],
     [op |-> "drop", entries |-> <<ABare>>]}
KeyedDefinitions == {Def(A, <<"key">>), Def(B, <<"notnull">>)}

(* Property type expressions of up to two terms, dynamic unions nested     *)
(* once, and ANY only at the top.                                          *)
ScalarTerms == {<<"scalar", x, n>> : x \in {1, 3}, n \in BOOLEAN}
ListTerms == {<<"list", 1, n>> : n \in BOOLEAN}
AnyTerms == {<<"any", n>> : n \in BOOLEAN}
UpToTwo(terms) == {<<t>> : t \in terms} \cup {<<t, u>> : t \in terms, u \in terms}
WrittenTypes == UpToTwo(ScalarTerms \cup ListTerms \cup AnyTerms \cup {<<"dynamic", e>> : e \in UpToTwo(ScalarTerms)})

(* A node, and a property it owns; index is the one index a Schema may     *)
(* define.                                                                 *)
NoConstraint == [o \in {} |-> {}]
OneNode == "node" :> {}
NodeWithProperty == ("node" :> {}) @@ ("property" :> {"node"})
IndexConforms == "index" :> [{"node"} -> {"some", "none"}]
NodeNumber == "node" :> 1
NodeKey == "node" :> 0
BothNumber == ("node" :> 1) @@ ("property" :> 1)
BothKey == ("node" :> 0) @@ ("property" :> 1)

-----------------------------------------------------------------------------
Commands == INSTANCE SchemaCommands WITH heads <- x1, base <- x2, commands <- x3, merges <- x4,
    Statements <- AllStatements, Definitions <- AllDefinitions, IndexShapes <- SomeIndexes,
    Names <- {"x", "y"}, Branches <- {"main"}, MaxCommands <- 7, MaxMerges <- 0

Merged == INSTANCE SchemaCommands WITH heads <- x1, base <- x2, commands <- x3, merges <- x4,
    Statements <- KeyedStatements, Definitions <- KeyedDefinitions, IndexShapes <- SomeIndexes,
    Names <- {"x", "y"}, Branches <- {"main", "dev"}, MaxCommands <- 4, MaxMerges <- 2

Types == INSTANCE PropertyTypes WITH
    stage <- x1, expression <- x2, surface <- x3, rule <- x4, text <- x5,
    Scalars <- {1, 3}, Written <- WrittenTypes, Other <- 9

(* One row of the history and the graph is damaged; one row of an index    *)
(* generation; one row of a history with a tag and a session.              *)
Damaged == INSTANCE Integrity WITH db <- x1, indexes <- x2, tables <- x3, damage <- x4,
    Slot <- {"node", "property"}, Value <- {"some"}, Owners <- NodeWithProperty, Absent <- "none",
    Keep <- "keep", Branch <- {"main"}, Main <- "main", Tag <- {}, Session <- {},
    SchemaObject <- {}, Conforms <- NoConstraint, Stamp <- {1}, RootStamp <- 1,
    MaxCommits <- 2, MaxRewritten <- 2, MaxRevision <- 1, MaxSidecars <- 1,
    Number <- BothNumber, Key <- BothKey, MaxDamage <- 1

DamagedIndex == INSTANCE Integrity WITH db <- x1, indexes <- x2, tables <- x3, damage <- x4,
    Slot <- {"node"}, Value <- {"some"}, Owners <- OneNode, Absent <- "none",
    Keep <- "keep", Branch <- {"main"}, Main <- "main", Tag <- {}, Session <- {},
    SchemaObject <- {"index"}, Conforms <- IndexConforms, Stamp <- {1}, RootStamp <- 1,
    MaxCommits <- 2, MaxRewritten <- 2, MaxRevision <- 1, MaxSidecars <- 1,
    Number <- NodeNumber, Key <- NodeKey, MaxDamage <- 1

DamagedRefs == INSTANCE Integrity WITH db <- x1, indexes <- x2, tables <- x3, damage <- x4,
    Slot <- {"node"}, Value <- {"some"}, Owners <- OneNode, Absent <- "none",
    Keep <- "keep", Branch <- {"main"}, Main <- "main", Tag <- {"t1"}, Session <- {"s1"},
    SchemaObject <- {}, Conforms <- NoConstraint, Stamp <- {1}, RootStamp <- 1,
    MaxCommits <- 2, MaxRewritten <- 2, MaxRevision <- 1, MaxSidecars <- 1,
    Number <- NodeNumber, Key <- NodeKey, MaxDamage <- 1

-----------------------------------------------------------------------------
(* Vectors on a line: more of them than connections, on one level; on two  *)
(* levels; and with one connection each, where only the ring connects.     *)
Flat == INSTANCE Hnsw WITH point <- x1, level <- x2, graph <- x3, top <- x4, answer <- x5,
    Owners <- 1..5, Points <- {0, 3}, Levels <- {0}, MaxConnections <- 2, EfConstruction <- 2,
    Limits <- {1, 3, 5}

Layered == INSTANCE Hnsw WITH point <- x1, level <- x2, graph <- x3, top <- x4, answer <- x5,
    Owners <- 1..4, Points <- {0, 1}, Levels <- {0, 1}, MaxConnections <- 2, EfConstruction <- 2,
    Limits <- {2, 4}

Ring == INSTANCE Hnsw WITH point <- x1, level <- x2, graph <- x3, top <- x4, answer <- x5,
    Owners <- 1..4, Points <- {0, 3}, Levels <- {0}, MaxConnections <- 1, EfConstruction <- 2,
    Limits <- {1, 2, 4}

SemanticSnapshots == {<<2, 1, 2, 0, 3>>, <<1, 3, 3, 2, 3>>, <<2, 2, 2, 2, 2>>, <<0, 0, 0, 0, 0>>}
Semantic == INSTANCE SemanticQuery WITH caches <- x1, work <- x2, runtime <- x3, calls <- x4,
    job <- x5, asked <- x6, outcome <- x7,
    Owners <- 1..5, Texts <- 1..3, QueryText <- 1, Snapshots <- SemanticSnapshots,
    Runtimes <- {"r1", "r2"}, Views <- {1..5, {1, 2, 4}, {3}, {}},
    Windows <- {<<0, 1>>, <<1, 1>>, <<0, 3>>, <<2, 4>>, <<0, 0>>},
    BatchOwners <- 2, BatchTexts <- 2, HitCapacity <- 1, MaxCalls <- 2

(* Five Relationships of two types between three Nodes, one of them a self *)
(* loop, over a checkpoint; the third Layer restores what the first took   *)
(* away.                                                                   *)
FiveRels == (1 :> [src |-> 1, type |-> 1, tgt |-> 2]) @@ (2 :> [src |-> 1, type |-> 2, tgt |-> 1])
       @@ (3 :> [src |-> 2, type |-> 1, tgt |-> 1]) @@ (4 :> [src |-> 1, type |-> 1, tgt |-> 1])
       @@ (5 :> [src |-> 1, type |-> 1, tgt |-> 3])
ThreeLayers ==
    {(1 :> "remove" @@ 4 :> "add"), (2 :> "remove" @@ 3 :> "add"), (1 :> "add" @@ 5 :> "remove")}
Snapshot == INSTANCE SnapshotRead WITH base <- x1, heap <- x2, owner <- x3, cache <- x4,
    applied <- x5, scan <- x6,
    Rels <- FiveRels, Bases <- {{1, 2, 3, 5}}, Layers <- ThreeLayers, Limits <- {1, 2},
    OwnerPages <- {{1, 2, 4}, {3, 5}}, MaxLayers <- 3

-----------------------------------------------------------------------------
(* Two base graphs of up to three Nodes, the second with a hidden Node     *)
(* that a visible one is connected to, and all short programs of a menu    *)
(* of clauses.                                                             *)
Here == <<1>>
Nothing == <<>>
N(i) == <<"node", i>>
P(kind, i) == <<"prop", kind, i>>
TwoGraphs == {
  (N(1) :> Here) @@ (N(2) :> Here) @@ (<<"label", 1, "A">> :> Here) @@ (<<"label", 2, "A">> :> Here)
    @@ (<<"rel", 1>> :> <<1, 2>>) @@ (<<"rel", 2>> :> <<1, 1>>) @@ (P("node", 1) :> <<1>>) @@ (P("rel", 1) :> <<1>>),
  (N(1) :> Here) @@ (N(2) :> Here) @@ (<<"label", 1, "A">> :> Here) @@ (<<"label", 2, "H">> :> Here)
    @@ (<<"rel", 1>> :> <<1, 2>>) @@ (P("node", 2) :> <<2>>)}
TwoViews == {[required |-> {}, excluded |-> {}], [required |-> {"A"}, excluded |-> {"H"}]}
Allowed == [create |-> TRUE, delete |-> TRUE, labels |-> TRUE, props |-> TRUE]
FivePolicies == {Allowed} \cup {[Allowed EXCEPT ![p] = FALSE] : p \in DOMAIN Allowed}

SpecOf(v, ls, p) == [var |-> v, labels |-> ls, prop |-> p]
Bare(v) == SpecOf(v, <<>>, Nothing)
Node(v, ls, p) == [from |-> SpecOf(v, ls, p), to |-> Nothing, rel |-> "r"]
Path(a, b) == [from |-> a, to |-> b, rel |-> "r"]
Edge(b) == [Path(Bare("n"), b) EXCEPT !.rel = "q"]
MatchOf(p) == [kind |-> "match", part |-> p, optional |-> FALSE]
CreateOf(p, e) == [kind |-> "create", part |-> p, each |-> e]
SetOf(items, e) == [kind |-> "set", items |-> items, each |-> e]
MergeOf(p, m, c) == [kind |-> "merge", part |-> p, onMatch |-> m, onCreate |-> c, each |-> FALSE]
DeleteOf(vs, d) == [kind |-> "delete", vars |-> vs, detach |-> d, each |-> FALSE]
Item(op, v) == [op |-> op, var |-> v, value |-> <<"lit", <<2>>>>, replace |-> TRUE, labels |-> <<"A">>]

Reads == {MatchOf(Node("n", <<>>, Nothing)), MatchOf(Path(Bare("n"), Bare("m"))),
          [MatchOf(Node("n", <<"X">>, Nothing)) EXCEPT !.optional = TRUE]}
Updates == {
  CreateOf(Node("x", <<"A">>, <<1>>), FALSE), CreateOf(Node("x", <<"A">>, Nothing), TRUE),
  CreateOf(Edge(SpecOf("y", <<"H">>, Nothing)), FALSE), CreateOf(Edge(Bare("n")), FALSE),
  SetOf(<<Item("prop", "n"), [Item("prop", "n") EXCEPT !.value = <<"var", "m">>]>>, FALSE),
  SetOf(<<Item("unlabel", "n"), Item("labels", "n")>>, FALSE), SetOf(<<Item("unlabel", "n")>>, TRUE),
  SetOf(<<Item("remove", "n")>>, FALSE),
  SetOf(<<[Item("map", "n") EXCEPT !.value = <<"lit", Nothing>>]>>, FALSE),
  MergeOf(Node("z", <<"A">>, <<1>>), <<>>, <<>>), MergeOf(Node("z", <<"A">>, <<3>>), <<>>, <<>>),
  MergeOf(Node("z", <<"A">>, <<3>>), <<Item("prop", "z")>>, <<Item("prop", "z")>>),
  MergeOf(Edge(Bare("n")), <<>>, <<>>), DeleteOf(<<"n">>, FALSE), DeleteOf(<<"n">>, TRUE)}
WithRels == {DeleteOf(<<"n", "r">>, FALSE), DeleteOf(<<"r">>, FALSE), SetOf(<<Item("prop", "r")>>, FALSE)}
ShortPrograms ==
  {<<r, u, v>> : r \in Reads, u \in Updates, v \in Updates}
    \cup {<<MatchOf(Path(Bare("n"), Bare("m"))), u, v>> : u \in WithRels, v \in Updates}

Updating == INSTANCE Mutation WITH base <- x1, view <- x2, policy <- x3, program <- x4, clause <- x5,
    input <- x6, staged <- x7, delta <- x8, touched <- x9, todo <- x10, rows <- x11, outcome <- x12,
    Bases <- TwoGraphs, Programs <- ShortPrograms, Views <- TwoViews, Policies <- FivePolicies,
    MaxNode <- 7, MaxRel <- 6

(* Three rows in batches of two, the forms of the clause that write and    *)
(* retry, and two commits of the other connection.                         *)
ClauseForms == [error : {"fail", "continue", "break"}, retry : BOOLEAN, mutates : BOOLEAN,
                policy : {"immediate", "deferred", "outerWrite"}]
Retried == {s \in ClauseForms : s.retry /\ s.mutates}

Retrying == INSTANCE InTransactions WITH spec <- x1, rows <- x2, bad <- x3, branch <- x4, phase <- x5,
    taken <- x6, batch <- x7, base <- x8, attempt <- x9, expired <- x10, output <- x11,
    MaxRows <- 3, BatchSize <- 2, MaxOther <- 2, Specs <- Retried

(* Fields that hold the special characters.                                *)
SomeFields == {<<>>, <<"x">>, <<"cr", "quote", "cr", "lf", "comma">>}
Csv == INSTANCE CsvRows WITH table <- x1, file <- x2, reader <- x3, line <- x4, record <- x5,
    headers <- x6, values <- x7, status <- x8,
    Fields <- SomeFields, Endings <- {<<"lf">>, <<"cr", "lf">>}, MaxWidth <- 2, MaxHeight <- 2

Loading == INSTANCE CsvBatches WITH input <- x1, next <- x2, pending <- x3, executed <- x4,
    output <- x5, broken <- x6, status <- x7, MaxRecords <- 2, MaxPerRecord <- 3, BatchSize <- 2

(* Two key values ordered descending first, rows that are equal as values  *)
(* but not as keys, one large row, and limits that let every row, some     *)
(* rows or whole runs be held at once.                                     *)
RowOf(first, second, value, bytes) == [keys |-> <<first, second>>, value |-> value, bytes |-> bytes]
ShapeOf(distinct, ordered, skip, max) ==
    [distinct |-> distinct, ordered |-> ordered, directions |-> <<TRUE, FALSE>>, skip |-> skip, limit |-> max]
SortShapes == {ShapeOf(FALSE, TRUE, 0, 9), ShapeOf(TRUE, TRUE, 0, 9),
               ShapeOf(FALSE, TRUE, 1, 2), ShapeOf(TRUE, FALSE, 1, 9), ShapeOf(FALSE, TRUE, 0, 0)}
Sorting == INSTANCE SortSpill WITH input <- x1, shape <- x2, limit <- x3, phase <- x4, next <- x5,
    working <- x6, sort <- x7, seen <- x8, merge <- x9, output <- x10, chosen <- x11,
    batches <- x12, cause <- x13,
    Kinds <- {RowOf(1, 1, "a", 1), RowOf(1, 2, "a", 2), RowOf(2, 1, "b", 2)}, Shapes <- SortShapes,
    MaxRows <- 4, Limits <- {10, 18, 21, 60}, RunRows <- 2, BatchRows <- 2, SlotBytes <- 1,
    Factor <- 2, Base <- 1

Memory == INSTANCE Leases WITH used <- x1, peak <- x2, leases <- x3, step <- x4,
    Workers <- {"w1", "w2"}, Executions <- {"e1"}, Limit <- 3, Width <- 5, Amounts <- {1, 2},
    MaxLeases <- 3

Client == INSTANCE ProviderClient WITH texts <- x1, phase <- x2, attempt <- x3, out <- x4,
    failure <- x5, cancelled <- x6, requests <- x7, batch <- x8, error <- x9, result <- x10,
    Texts <- {"a", "b"}, MaxTexts <- 3, BatchSize <- 2, MaxRetries <- 2

(* Two configurations with vectors of different size and budgets that do   *)
(* not hold both.                                                          *)
Vectors == INSTANCE ProviderCache WITH schema <- x1, entries <- x2, used <- x3, nextEntry <- x4,
    calls <- x5, started <- x6, damages <- x7,
    Procs <- 1..3, Texts <- {"a", "b"}, Space <- <<"small", "small", "large">>, MaxBytes <- <<1, 2, 2>>,
    Payload <- <<1, 1, 2>>, MaxTexts <- 2, MaxCalls <- 2, MaxDamage <- 1

-----------------------------------------------------------------------------
(* The variables a part of n variables does not use.                       *)
Idle12 == x13 = 0
Idle11 == x12 = 0 /\ Idle12
Idle10 == x11 = 0 /\ Idle11
Idle8 == x9 = 0 /\ x10 = 0 /\ Idle10
Idle7 == x8 = 0 /\ Idle8
Idle6 == x7 = 0 /\ Idle7
Idle5 == x6 = 0 /\ Idle6
Idle4 == x5 = 0 /\ Idle5

rest12 == <<part, x13>>
rest11 == <<x12, rest12>>
rest10 == <<x11, rest11>>
rest8 == <<x9, x10, rest10>>
rest7 == <<x8, rest8>>
rest6 == <<x7, rest7>>
rest5 == <<x6, rest6>>
rest4 == <<x5, rest5>>

vars == <<x1, x2, x3, x4, rest4>>

Init ==
    /\ part \in PartNames
    /\ \/ part = "commands" /\ Commands!Init /\ Idle4
       \/ part = "merged" /\ Merged!Init /\ Idle4
       \/ part = "types" /\ Types!Init /\ Idle5
       \/ part = "damaged" /\ Damaged!IntInit /\ Idle4
       \/ part = "damagedIndex" /\ DamagedIndex!IntInit /\ Idle4
       \/ part = "damagedRefs" /\ DamagedRefs!IntInit /\ Idle4
       \/ part = "flat" /\ Flat!Init /\ Idle5
       \/ part = "layered" /\ Layered!Init /\ Idle5
       \/ part = "ring" /\ Ring!Init /\ Idle5
       \/ part = "semantic" /\ Semantic!Init /\ Idle7
       \/ part = "snapshot" /\ Snapshot!Init /\ Idle6
       \/ part = "updating" /\ Updating!Init /\ Idle12
       \/ part = "retrying" /\ Retrying!Init /\ Idle11
       \/ part = "csv" /\ Csv!Init /\ Idle8
       \/ part = "loading" /\ Loading!Init /\ Idle7
       \/ part = "sorting" /\ Sorting!Init
       \/ part = "memory" /\ Memory!Init /\ Idle4
       \/ part = "client" /\ Client!Init /\ Idle10
       \/ part = "vectors" /\ Vectors!Init /\ Idle7

(* The steps that the code's scheduling makes fair.                        *)
SemanticStep == part = "semantic" /\ Semantic!Progress /\ UNCHANGED rest7
BatchStep == part = "retrying" /\ Retrying!Advance /\ UNCHANGED rest11
TimeStep == part = "retrying" /\ Retrying!Expire /\ UNCHANGED rest11
SortStep == part = "sorting" /\ Sorting!Step /\ UNCHANGED part
ClientStep == part = "client" /\ Client!Client /\ UNCHANGED rest10
NetworkStep == part = "client" /\ Client!Network /\ UNCHANGED rest10

Next ==
    \/ part = "commands" /\ Commands!Next /\ UNCHANGED rest4
    \/ part = "merged" /\ Merged!Next /\ UNCHANGED rest4
    \/ part = "types" /\ Types!Next /\ UNCHANGED rest5
    \/ part = "damaged" /\ Damaged!IntNext /\ UNCHANGED rest4
    \/ part = "damagedIndex" /\ DamagedIndex!IntNext /\ UNCHANGED rest4
    \/ part = "damagedRefs" /\ DamagedRefs!IntNext /\ UNCHANGED rest4
    \/ part = "flat" /\ Flat!Next /\ UNCHANGED rest5
    \/ part = "layered" /\ Layered!Next /\ UNCHANGED rest5
    \/ part = "ring" /\ Ring!Next /\ UNCHANGED rest5
    \/ part = "semantic" /\ Semantic!Next /\ UNCHANGED rest7
    \/ part = "snapshot" /\ Snapshot!Next /\ UNCHANGED rest6
    \/ part = "updating" /\ Updating!Next /\ UNCHANGED rest12
    \/ part = "retrying" /\ Retrying!Next /\ UNCHANGED rest11
    \/ part = "csv" /\ Csv!Next /\ UNCHANGED rest8
    \/ part = "loading" /\ Loading!Next /\ UNCHANGED rest7
    \/ part = "sorting" /\ Sorting!Next /\ UNCHANGED part
    \/ part = "memory" /\ Memory!Next /\ UNCHANGED rest4
    \/ part = "client" /\ Client!Next /\ UNCHANGED rest10
    \/ part = "vectors" /\ Vectors!Next /\ UNCHANGED rest7

Spec ==
    /\ Init /\ [][Next]_vars
    /\ WF_vars(SemanticStep)
    /\ WF_vars(BatchStep) /\ WF_vars(TimeStep)
    /\ WF_vars(SortStep)
    /\ WF_vars(ClientStep) /\ WF_vars(NetworkStep)

-----------------------------------------------------------------------------
(* Properties of schemas, initialization and the integrity check.          *)

(* The declared properties of a graph element and the type constraints     *)
(* that have it as origin say the same after any SET, ADD, ALTER and DROP. *)
GraphTypeIsEnforced == part = "commands" => Commands!GraphTypeIsEnforced

(* A KEY or UNIQUE constraint and its backing index outlive the ALTER and  *)
(* the DROP of the graph element that brought them, also after merges.     *)
KeysOutliveElements ==
    (part = "commands" => Commands!KeysOutliveElements) /\ (part = "merged" => Merged!KeysOutliveElements)

(* CREATE CONSTRAINT ... IF NOT EXISTS redefines nothing, leaves what it   *)
(* was asked for, and can be repeated.                                     *)
IfNotExistsKeepsWhatExists ==
    /\ part = "commands" => Commands!IfNotExistsKeepsWhatExists
    /\ part = "merged" => Merged!IfNotExistsKeepsWhatExists

(* What SHOW CURRENT GRAPH TYPE prints can be given to SET again.          *)
ShownCanBeSet == part = "commands" => Commands!ShownCanBeSet

(* A normalised property type accepts the values that the expression means. *)
RuleMeansTheExpression == part = "types" => Types!RuleMeansTheExpression

(* Two expressions with the same meaning are stored as the same rule.      *)
OneRulePerMeaning == part = "types" => Types!OneRulePerMeaning

(* The integrity check finds nothing wrong with a database nobody damaged. *)
NoFalseAlarm ==
    (part = "damaged" => Damaged!NoFalseAlarm) /\ (part = "damagedIndex" => DamagedIndex!NoFalseAlarm)

(* After damage that a check does not report, every reference finds its    *)
(* commit and every commit its Snapshot and Schema.                        *)
CleanMeansIntact ==
    (part = "damaged" => Damaged!CleanMeansIntact) /\ (part = "damagedRefs" => DamagedRefs!CleanMeansIntact)

(* The check reports a cycle exactly when the parents have one.            *)
CyclesFound == part = "damaged" => Damaged!CyclesFound

(* A clean check means that every index generation is complete and belongs *)
(* to a commit whose Schema defines it.                                    *)
CleanMeansAnchored == part = "damagedIndex" => DamagedIndex!CleanMeansAnchored

-----------------------------------------------------------------------------
(* Properties of semantic search and of reading snapshots.                 *)

(* The neighbours of a vector are bounded, distinct and on its level.      *)
LinksAreValid == (part = "flat" => Flat!LinksAreValid) /\ (part = "layered" => Layered!LinksAreValid)

(* A search answers with as many visible vectors as there are or were      *)
(* asked for, in order of distance.                                        *)
AnswerIsComplete ==
    /\ part = "flat" => Flat!AnswerIsComplete
    /\ part = "layered" => Layered!AnswerIsComplete
    /\ part = "ring" => Ring!AnswerIsComplete

(* A semantic cache with its meta row holds every owner of its snapshot.   *)
CompleteMeansWhole == part = "semantic" => Semantic!CompleteMeansWhole

(* A semantic query answers with the visible owners of its window.         *)
SemanticAnswerIsRight == part = "semantic" => Semantic!AnswerIsRight

(* The provider sees the query text and the texts of visible owners only.  *)
HiddenTextsStay == part = "semantic" => Semantic!HiddenTextsStay

(* One execution asks for a text once, over all its batches.               *)
AskedOnce == part = "semantic" => Semantic!AskedOnce

(* No call leaves work or stage rows behind, however it ends.              *)
NoRowsLeft == part = "semantic" => Semantic!NoRowsLeft

(* A rebuild that reports success has left a whole, readable cache.        *)
RebuildBuilds == [][part = "semantic" => Semantic!RebuildLeavesCache]_vars

(* Every call on a semantic index comes to an end.                         *)
CallsEnd == (part = "semantic" /\ Semantic!Running) ~> (part = "semantic" /\ ~ Semantic!Running)

(* A scan gives the visible relationships of its snapshot, although Layers *)
(* are applied to the snapshot it was cloned from.                         *)
SnapshotScanIsExact == part = "snapshot" => Snapshot!ScanIsExact

(* A scan gives them in ascending order, each once.                        *)
ScanIsOrdered == part = "snapshot" => Snapshot!ScanIsOrdered

(* Prefetched point reads agree with the snapshot.                         *)
PointReadsAgree == part = "snapshot" => Snapshot!PointReadsAgree

(* A page never holds more than was asked for.                             *)
PagesBounded == part = "snapshot" => Snapshot!PagesBounded

-----------------------------------------------------------------------------
(* Properties of writing queries, of memory and of the provider.           *)

(* The Layer of a query is the net difference it made.                     *)
LayerIsNet == part = "updating" => Updating!LayerIsNet

(* No clause leaves a relationship without an end or a property without    *)
(* its owner.                                                              *)
StagedIsWhole == part = "updating" => Updating!StagedIsWhole

(* A query under a Graph View changes nothing that the view hides.         *)
ViewIsKept == part = "updating" => Updating!ViewIsKept

(* A committed query did nothing that its access policy forbids.           *)
PolicyIsKept == part = "updating" => Updating!PolicyIsKept

(* The counters of a result count what the Layer did.                      *)
CountersAreTrue == part = "updating" => Updating!CountersAreTrue

(* MERGE creates a pattern only when no row before it has.                 *)
MergeCreatesOnce == part = "updating" => Updating!MergeCreatesOnce

(* DELETE removes what it names and what DETACH adds, and nothing else.    *)
DeleteIsExact == part = "updating" => Updating!DeleteIsExact

(* No other commit comes between the head a batch saw and its own commit.  *)
BatchesSeeTheHead == [][part = "retrying" => Retrying!CommitsOnItsBase]_vars

(* The query ends although the branch keeps moving.                        *)
QueryEnds == part = "retrying" ~> part = "retrying" /\ Retrying!Over

(* A well-formed CSV file is read as the table it was written from.        *)
ReadsWhatWasWritten == part = "csv" => Csv!ReadsWhatWasWritten

(* A malformed one fails, after the records before the fault.              *)
FailsWhenMalformed == part = "csv" => Csv!FailsWhenMalformed

(* Streaming LOAD CSV into batches cuts them where slicing the whole file  *)
(* would.                                                                  *)
SameAsSliced == part = "loading" => Loading!SameAsSliced

(* Not more than a batch and a record's rows wait.                         *)
PendingIsBounded == part = "loading" => Loading!PendingIsBounded

(* Every row is reported at most once, in order.                           *)
ReportedOnce == part = "loading" => Loading!ReportedOnce

(* Where the whole input must be known first, nothing is written when a    *)
(* record fails.                                                           *)
GlobalIsAllOrNothing == part = "loading" => Loading!GlobalIsAllOrNothing

(* ORDER BY, DISTINCT, SKIP and LIMIT answer as a stable sort in memory    *)
(* would, whatever was spilled.                                            *)
AnswerIsStableOrder == part = "sorting" => Sorting!AnswerIsStableOrder

(* A sort holds no more memory than the execution may.                     *)
WithinLimit == part = "sorting" => Sorting!WithinLimit

(* A sort under pressure spills before it fails.                           *)
PressureIsRelieved == part = "sorting" => Sorting!PressureIsRelieved

(* A row that was spilled does not keep its producer from the next.        *)
ProducerIsNotStarved == part = "sorting" => Sorting!ProducerIsNotStarved

(* Every sort ends.                                                        *)
BarrierEnds == part = "sorting" ~> part = "sorting" /\ Sorting!Ended

(* The counter of an execution is what its live leases hold and what its   *)
(* workers are about to add or give back.                                  *)
UsedIsHeld == part = "memory" => Memory!UsedIsHeld

(* The leases of an execution keep its limit together, on all threads.     *)
LimitIsShared == part = "memory" => Memory!LimitIsShared

(* A call that succeeds returns every vector at its place.                 *)
OutputInOrder == part = "client" => Client!OutputInOrder

(* The endpoint is asked at most MaxRetries + 1 times per batch.           *)
RequestsBounded == part = "client" => Client!RequestsBounded

(* After the call the host holds no allocation of the provider.            *)
NothingLeaks == part = "client" => Client!NothingLeaks

(* Every call ends.                                                        *)
CallEnds == part = "client" ~> part = "client" /\ Client!Returned

(* A cancelled call ends without the vectors.                              *)
CancelIsSeen == (part = "client" /\ x6) ~> (part = "client" /\ Client!Failed)

(* The payload counter of the vector cache is what its entries hold.       *)
UsedIsStored == part = "vectors" => Vectors!UsedIsStored

(* Cached or fetched, a text is answered with its own vector.              *)
OutputIsRight == part = "vectors" => Vectors!OutputIsRight

(* A call fails only because of a fault, never because of the others.      *)
FailsOnlyOnFault == part = "vectors" => Vectors!FailsOnlyOnFault

(* A call that adds to the cache leaves it within the call's own budget.   *)
FillsWithinBudget == [][part = "vectors" => Vectors!FillsOwnBudget]_vars

-----------------------------------------------------------------------------
(* What the runs check: the promises of each part, by the code that keeps  *)
(* them.                                                                   *)

(* The schema that commands and merges leave means what the statements     *)
(* said: graph types are enforced, keys outlive their elements, IF NOT     *)
(* EXISTS redefines nothing, what SHOW prints can be set again, and a      *)
(* property type is stored as one rule with the meaning of its expression. *)
SchemaIsEnforced ==
    /\ GraphTypeIsEnforced
    /\ KeysOutliveElements
    /\ IfNotExistsKeepsWhatExists
    /\ ShownCanBeSet
    /\ RuleMeansTheExpression
    /\ OneRulePerMeaning

(* The integrity check is silent about a sound database, and silent only   *)
(* about one whose references, Snapshots, cycles and index generations are *)
(* in order.                                                               *)
CheckIsExact ==
    /\ NoFalseAlarm
    /\ CleanMeansIntact
    /\ CyclesFound
    /\ CleanMeansAnchored

(* Scans of a snapshot are complete, ordered and within the page asked     *)
(* for, and prefetched point reads agree with them.                        *)
SnapshotReadsAgree ==
    /\ SnapshotScanIsExact
    /\ ScanIsOrdered
    /\ PointReadsAgree
    /\ PagesBounded

(* A semantic search answers with the visible owners of its window over    *)
(* well-formed links, shows the provider no hidden text and no text twice, *)
(* leaves no rows behind, calls complete only what is whole, and ends.     *)
SemanticSearchIsRight ==
    /\ [](LinksAreValid /\ AnswerIsComplete)
    /\ [](CompleteMeansWhole /\ SemanticAnswerIsRight /\ HiddenTextsStay /\ AskedOnce /\ NoRowsLeft)
    /\ RebuildBuilds
    /\ CallsEnd

(* A writing query stages the net difference of its clauses, a whole       *)
(* graph, nothing that its view hides or its policy forbids, with true     *)
(* counters; MERGE creates once and DELETE removes what it names.          *)
MutationIsExact ==
    /\ LayerIsNet
    /\ StagedIsWhole
    /\ ViewIsKept
    /\ PolicyIsKept
    /\ CountersAreTrue
    /\ MergeCreatesOnce
    /\ DeleteIsExact

(* LOAD CSV reads the table a file was written from, fails at a malformed  *)
(* record, and streams it into the batches, reports and waits that slicing *)
(* the whole file would give.                                              *)
CsvIsReadExactly ==
    /\ ReadsWhatWasWritten
    /\ FailsWhenMalformed
    /\ SameAsSliced
    /\ PendingIsBounded
    /\ ReportedOnce
    /\ GlobalIsAllOrNothing

(* A sort answers as a stable sort in memory would, spills before it fails *)
(* and keeps the limit of its execution; the leases of all its threads     *)
(* together keep it too.                                                   *)
MemoryIsKept ==
    /\ AnswerIsStableOrder
    /\ WithinLimit
    /\ PressureIsRelieved
    /\ ProducerIsNotStarved
    /\ UsedIsHeld
    /\ LimitIsShared

(* Fetched, retried or cached, a text gets its own vector at its own       *)
(* place; requests and cache bytes stay within their bounds, nothing       *)
(* leaks, and only a fault makes a call fail.                              *)
EmbeddingsAreRight ==
    /\ OutputInOrder
    /\ RequestsBounded
    /\ NothingLeaks
    /\ UsedIsStored
    /\ OutputIsRight
    /\ FailsOnlyOnFault

(* Batches commit on the head they saw and the query ends although the     *)
(* branch moves; sorts and provider calls end, a cancelled one without     *)
(* vectors; a call fills the cache within its own budget.                  *)
WritesEnd ==
    /\ BatchesSeeTheHead
    /\ QueryEnds
    /\ BarrierEnds
    /\ CallEnds
    /\ CancelIsSeen
    /\ FillsWithinBudget

=============================================================================
