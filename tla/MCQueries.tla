----------------------------- MODULE MCQueries -----------------------------
(***************************************************************************)
(* Instances of the components that read and evaluate queries, for model   *)
(* checking.  Each part is one instance; "part" is fixed by the initial    *)
(* state, so the state graph is the disjoint union of those of the parts a *)
(* .cfg names in PartNames.  x1..x6 hold the variables of the part.        *)
(*                                                                         *)
(* The questions to PathMatching, which has no state of its own, are asked *)
(* here: graphs of three nodes and three relationships, two of them of one *)
(* type, with loops, parallel relationships and cycles, and a set of       *)
(* clauses for each question.                                              *)
(***************************************************************************)
EXTENDS PathMatching

CONSTANT PartNames

VARIABLES part, x1, x2, x3, x4, x5, x6

Nodes == 1 .. 3

Rels == 1 .. 3

Graphs ==
    {[labels |-> <<{1}, {1, 2}, {2}>>, types |-> <<1, 1, 2>>, ends |-> <<e, f, h>>, visible |-> v] :
        e \in {<<1, 1>>, <<1, 2>>, <<2, 1>>, <<2, 2>>, <<1, 3>>, <<3, 2>>},
        f \in {<<1, 2>>, <<2, 2>>, <<3, 1>>}, h \in {<<1, 2>>, <<3, 1>>}, v \in {Nodes, {1, 2}}}

N(var, label) == [var |-> var, label |-> label, where |-> <<>>]

R(var, type, dir) == [var |-> var, type |-> type, dir |-> dir, where |-> <<>>]

One(rel, end) == [rel |-> rel, end |-> end, bounds |-> <<1, 1>>, grouped |-> FALSE]

Many(rel, bounds, end) == [rel |-> rel, end |-> end, bounds |-> bounds, grouped |-> TRUE]

Simple(start, chains) == [kind |-> "simple", start |-> start, chains |-> chains]

Group(fragments, bounds) ==
    [kind |-> "group", fragments |-> fragments, bounds |-> bounds, where |-> <<>>]

P(path, mode, selector, fragments) ==
    [path |-> path, mode |-> mode, selector |-> selector, fragments |-> fragments]

All == <<"all", 0>>

Different(parts) == [mode |-> "different", parts |-> parts]

Repeatable(parts) == [mode |-> "repeatable", parts |-> parts]

Bounds == {<<0, 1>>, <<1, 2>>, <<2, 2>>, <<0, Unbounded>>, <<2, Unbounded>>}

Directions == {"out", "in", "both"}

-----------------------------------------------------------------------------
(* (a)-[r:type]->{m,n}(b) and the same as a group.                         *)

Repeat(mode, type, dir, bounds, end) ==
    P("p", mode, All, <<Simple(N("a", 0), <<Many(R("r", type, dir), bounds, N("b", end))>>)>>)

RepeatGroup(mode, type, dir, bounds, end) ==
    P("p", mode, All,
      <<Simple(N("a", 0), <<>>),
        Group(<<Simple(N("x", 0), <<One(R("r", type, dir), N("y", 0))>>)>>, bounds),
        Simple(N("b", end), <<>>)>>)

WalkQuestions ==
    {<<"walk", Different(<<Repeat(mode, type, dir, b, end)>>), Different(<<RepeatGroup(mode, type, dir, b, end)>>)>> :
        mode \in {"walk", "acyclic"}, type \in {0, 1}, dir \in Directions, b \in Bounds, end \in {0, 2}}
    \cup
    {<<"walk", Repeatable(<<Repeat("walk", 0, dir, b, 0)>>), Repeatable(<<RepeatGroup("walk", 0, dir, b, 0)>>)>> :
        dir \in Directions, b \in {<<0, 1>>, <<1, 2>>, <<3, 3>>}}

-----------------------------------------------------------------------------
(* Two parts that share nodes, a relationship or nothing.                  *)

Hop(path, a, r, type, dir, b) == P(path, "walk", All, <<Simple(N(a, 0), <<One(R(r, type, dir), N(b, 0))>>)>>)

PartPairs ==
    {<<Hop("p", "a", "r", 0, "out", "b"), Hop("q", c, s, 1, dir, "d")>> :
        c \in {"a", "b", "c"}, s \in {"s", "r"}, dir \in Directions}
    \cup
    {<<Repeat("walk", 1, dir, <<0, 2>>, 0), Hop("q", c, "s", 0, "both", d)>> :
        dir \in {"out", "both"}, c \in {"a", "b"}, d \in {"a", "d"}}
    \cup
    {<<P("p", "walk", All, <<Simple(N("a", 1), <<>>)>>), Hop("q", "c", "s", 0, "in", "a")>>}

PartQuestions ==
    {<<"parts", Different(pair), Different(<<pair[2], pair[1]>>)>> : pair \in PartPairs}
    \cup {<<"parts", Repeatable(pair), Repeatable(<<pair[2], pair[1]>>)>> :
             pair \in {pp \in PartPairs : ~ pp[1].fragments[1].chains = <<>>}}

-----------------------------------------------------------------------------
(* Variables that are bound before.                                        *)

TwoHops(r, s) ==
    P("p", "walk", All, <<Simple(N("a", 0), <<One(R(r, 0, "both"), N("b", 0)), One(R(s, 0, "out"), N("c", 0))>>)>>)

BoundQuestions ==
    {<<"bound", Different(<<pattern>>), bound>> :
        pattern \in {TwoHops("r", "s"), Repeat("walk", 0, "both", <<0, 2>>, 0)},
        bound \in {[a |-> <<"node", 2>>], [b |-> <<"node", 2>>], [a |-> <<"node", 3>>, b |-> <<"node", 2>>],
                   [a |-> <<"node", 1>>, b |-> <<"node", 1>>], [a |-> Null], [b |-> Null]}}
    \cup {<<"bound", Different(<<TwoHops("r", "s")>>), bound>> :
        bound \in {[s |-> <<"rel", 1>>], [r |-> <<"rel", 3>>, c |-> <<"node", 2>>], [r |-> Null]}}
    \cup {<<"bound", Different(<<Repeat("walk", 0, "both", <<0, 2>>, 0)>>), bound>> :
        bound \in {[r |-> <<"list", <<>>>>], [r |-> <<"list", <<<<"rel", 1>>>>>>],
                   [r |-> <<"list", <<<<"rel", 1>>, <<"rel", 2>>>>>>], [r |-> Null]}}

-----------------------------------------------------------------------------
(* Selectors.                                                              *)

Selectors == {<<"any", 1>>, <<"any", 2>>, <<"any shortest", 1>>, <<"all shortest", 1>>,
              <<"shortest paths", 2>>, <<"shortest groups", 1>>, <<"shortest groups", 2>>}

SelectQuestions ==
    {<<"select", [pattern EXCEPT !.selector = s], pattern>> :
        s \in Selectors,
        pattern \in {Repeat("walk", 0, "both", <<0, 3>>, 0), Repeat("acyclic", 0, "out", <<1, Unbounded>>, 0),
                  TwoHops("", "")}}

-----------------------------------------------------------------------------
(* MERGE patterns.                                                         *)

MergePart(a, r, dir, b, s, dir2, c) ==
    P("p", "walk", All, <<Simple(N(a, 1), <<One(R(r, 1, dir), N(b, 0)), One(R(s, 1, dir2), N(c, 0))>>)>>)

MergeQuestions ==
    {<<"merge", MergePart("a", "r", dir, b, s, dir2, c), row>> :
        dir \in {"out", "both"}, dir2 \in {"in", "both"}, b \in {"a", "b", ""}, c \in {"a", "c"},
        s \in {"s", ""}, row \in {<<>>, [a |-> <<"node", 2>>], [c |-> <<"node", 1>>], [r |-> <<"rel", 2>>]}}

-----------------------------------------------------------------------------
(* Inline WHERE, with the pairs of list positions it compares.             *)

WhereHops(dir) ==
    P("p", "walk", All,
      <<Simple(N("a", 0), <<One(R("r", 0, dir), [N("b", 0) EXCEPT !.where = <<"a", "b">>]),
                            One([R("s", 0, "both") EXCEPT !.where = <<"r", "s">>], N("c", 0))>>)>>)

WhereGroup(mode, dir, bounds) ==
    P("p", mode, All,
      <<Simple(N("a", 0), <<>>),
        [Group(<<Simple(N("x", 0), <<One(R("r", 0, dir), N("y", 0))>>)>>, bounds) EXCEPT !.where = <<"x", "y">>],
        Simple(N("b", 0), <<>>)>>)

NoWhere(pattern) ==
    [pattern EXCEPT !.fragments = [i \in DOMAIN @ |->
        IF @[i].kind = "group" THEN [@[i] EXCEPT !.where = <<>>]
        ELSE [@[i] EXCEPT !.chains = [j \in DOMAIN @ |-> [@[j] EXCEPT !.rel.where = <<>>, !.end.where = <<>>]]]]]

WhereQuestions ==
    {<<"where", pattern, NoWhere(pattern)>> :
        pattern \in {WhereHops(dir) : dir \in Directions}
                   \cup {WhereGroup(mode, dir, b) : mode \in {"walk", "acyclic"}, dir \in Directions,
                                                    b \in {<<0, 2>>, <<1, Unbounded>>}}}

-----------------------------------------------------------------------------
Questions ==
    WhereQuestions \cup WalkQuestions \cup PartQuestions \cup BoundQuestions \cup SelectQuestions
        \cup MergeQuestions

-----------------------------------------------------------------------------
Cursors == INSTANCE MatchCursor WITH query <- x1, clauses <- x2, out <- x3, ended <- x4, Batch <- 2

Routing == INSTANCE ReadRouting WITH query <- x1, route <- x2, step <- x3

Streams == INSTANCE ProgramStream WITH
    query <- x1, expected <- x2, source <- x3, delivered <- x4, status <- x5,
    Nodes <- <<<<"int", 1>>, <<"int", 2>>>>, MaxBatch <- 3

Seeks == INSTANCE IndexSeek WITH
    query <- x1, seek <- x2, binding <- x3, cursor <- x4, rows <- x5, status <- x6,
    IntMax <- 3, JsSafe <- 2, PageSize <- 2, Generations <- {1, 2}, LastChar <- 2

Encoded == INSTANCE CanonicalValues WITH
    bytes <- x1, current <- x2, retained <- x3, status <- x4, value <- x5,
    Base <- 16, MaxLength <- 300, Chunk <- 3

Json == INSTANCE JsonValues WITH value <- x1, depth <- x2, allowed <- x3,
    JsSafe <- 1, Names <- {"a", "$type"}, MaxDepth <- 2

Evaluated == INSTANCE Expressions WITH form <- x1, item <- x2, depth <- x3,
    IntMax <- 3, JsSafe <- 2, MaxDepth <- 2, MaxLength <- 3

Dates == INSTANCE Calendar WITH day <- x1, civil <- x2, weekday <- x3, ahead <- x4, left <- x5,
    Years <- {1902, 2002}, Eras <- {0, 5}, Days <- 790

-----------------------------------------------------------------------------
(* Pairs and triples of values, picked one after the other.                *)
TopInteger == 2
V == INSTANCE CypherValues WITH IntMax <- TopInteger, JsSafe <- 1

Integer(n) == <<"integer", n>>
ListOf(s) == <<"list", s>>
MapOf(keys, values) == <<"map", keys, values>>

Numbers ==
    {Integer(n) : n \in {V!IntMin, 0, 1, TopInteger}}
        \cup {V!Float(h) : h \in {2 * V!IntMin - 1} \cup (-1 .. 2) \cup (2 * TopInteger .. 2 * TopInteger + 2)}
        \cup {V!Nan, V!Infinity, V!NegInfinity, V!NegZero}

Lists ==
    {ListOf(<<>>), ListOf(<<V!Null>>), ListOf(<<V!Nan>>), ListOf(<<Integer(0)>>), ListOf(<<V!NegZero>>),
     ListOf(<<<<"string", 1>>>>), ListOf(<<Integer(0), V!Null>>), ListOf(<<V!Null, Integer(0)>>),
     ListOf(<<ListOf(<<V!Null>>)>>), ListOf(<<ListOf(<<>>), V!Float(0)>>),
     ListOf(<<<<"node", 1>>, <<"rel", 1>>, <<"node", 2>>>>), ListOf(<<<<"node", 1>>>>)}

Maps ==
    {MapOf(<<>>, <<>>), MapOf(<<1>>, <<Integer(0)>>), MapOf(<<1>>, <<V!Float(0)>>),
     MapOf(<<2>>, <<Integer(0)>>), MapOf(<<1, 2>>, <<Integer(0), V!Null>>),
     MapOf(<<1, 2>>, <<V!Null, V!Float(1)>>)}

Elements ==
    {<<"node", 1>>, <<"rel", 1>>, <<"path", <<1>>, <<>>>>,
     <<"path", <<1, 2>>, <<1>>>>, <<"path", <<1, 1>>, <<1>>>>, <<"path", <<1, 2>>, <<2>>>>}

Others ==
    {V!Null, <<"boolean", 0>>, <<"boolean", 1>>, <<"string", 1>>,
     <<"date", 0>>, <<"time", 0, 0>>, <<"time", 0, 1>>, <<"time", 1, 0>>,
     <<"zoned", 0, 0, 1>>, <<"zoned", 0, 0, 2>>,
     <<"duration", 1, 0>>, <<"duration", 0, 30>>, <<"duration", 0, 31>>, <<"duration", 1600, 0>>,
     <<"duration", 0, 48699>>,
     <<"point", 7, <<V!Float(0), V!Float(1)>>>>, <<"point", 7, <<V!NegZero, V!Float(1)>>>>,
     <<"point", 9, <<V!Float(0), V!Float(1)>>>>,
     <<"vector", 0, <<Integer(TopInteger)>>>>, <<"vector", 0, <<Integer(TopInteger - 1)>>>>,
     <<"vector", 0, <<Integer(0), Integer(1)>>>>, <<"vector", 1, <<V!Float(0)>>>>,
     <<"vector", 1, <<V!NegZero>>>>}

Values == Numbers \cup Lists \cup Maps \cup Elements \cup Others

Pick(v) == Len(x1) < 3 /\ x1' = Append(x1, v)

Two == part = "relations" /\ Len(x1) = 2
Three == part = "relations" /\ Len(x1) = 3
first == x1[1]
second == x1[2]
third == x1[3]

(* A path equals the list of its elements although they are of two         *)
(* families.                                                               *)
AcrossFamilies == {first[1], second[1]} = {"path", "list"}

-----------------------------------------------------------------------------
(* The variables a part of n variables does not use.                       *)
Idle5 == x6 = 0
Idle4 == x5 = 0 /\ Idle5
Idle3 == x4 = 0 /\ Idle4
Idle2 == x3 = 0 /\ Idle3
Idle1 == x2 = 0 /\ Idle2

rest5 == <<part, x6>>
rest4 == <<x5, rest5>>
rest3 == <<x4, rest4>>
rest2 == <<x3, rest3>>
rest1 == <<x2, rest2>>

vars == <<x1, rest1>>

(* A graph, and the question asked of it.                                  *)
graph == x1
question == x2
Ask(q) == question = <<"none">> /\ x2' = q /\ UNCHANGED x1

Init ==
    /\ part \in PartNames
    /\ \/ part = "paths" /\ x1 \in Graphs /\ x2 = <<"none">> /\ Idle2
       \/ part = "cursors" /\ Cursors!Init /\ Idle4
       \/ part = "routing" /\ Routing!Init /\ Idle3
       \/ part = "streams" /\ Streams!Init /\ Idle5
       \/ part = "seeks" /\ Seeks!Init
       \/ part = "relations" /\ x1 = <<>> /\ Idle1
       \/ part = "encoded" /\ Encoded!Init /\ Idle5
       \/ part = "json" /\ Json!Init /\ Idle3
       \/ part = "evaluated" /\ Evaluated!Init /\ Idle3
       \/ part = "dates" /\ Dates!Init /\ Idle5

Next ==
    \/ part = "paths" /\ (\E q \in Questions : Ask(q)) /\ UNCHANGED rest2
    \/ part = "cursors" /\ Cursors!Next /\ UNCHANGED rest4
    \/ part = "routing" /\ Routing!Next /\ UNCHANGED rest3
    \/ part = "streams" /\ Streams!Next /\ UNCHANGED rest5
    \/ part = "seeks" /\ Seeks!Next /\ UNCHANGED part
    \/ part = "relations" /\ (\E v \in Values : Pick(v)) /\ UNCHANGED rest1
    \/ part = "encoded" /\ Encoded!MCNext /\ UNCHANGED rest5
    \/ part = "json" /\ Json!Next /\ UNCHANGED rest3
    \/ part = "evaluated" /\ Evaluated!Next /\ UNCHANGED rest3
    \/ part = "dates" /\ Dates!Next /\ UNCHANGED rest5

Spec == Init /\ [][Next]_vars

-----------------------------------------------------------------------------
(* Properties of path matching.                                            *)

Asks(kind) == part = "paths" /\ question[1] = kind

Rows(s) == [row \in {s[i] : i \in DOMAIN s} |-> Cardinality({i \in DOMAIN s : s[i] = row})]

Found(clause) == Match(graph, clause, <<>>)

\* The relationships from node m to node n in a direction.
Joins(r, dir, m, n) ==
    \/ dir \in {"out", "both"} /\ graph.ends[r] = <<m, n>>
    \/ dir \in {"in", "both"} /\ graph.ends[r] = <<n, m>>

Injective(s) == \A i, j \in DOMAIN s : s[i] = s[j] => i = j

\* The paths of (a)-[r:type]->{m,n}(b), from the definition of a path.
Paths(clause) ==
    LET pattern == clause.parts[1]
        chain == pattern.fragments[1].chains[1]
        longest == Min({chain.bounds[2], 3})
    IN UNION {{p \in [nodes : [1 .. k + 1 -> graph.visible], rels : [1 .. k -> Rels]] :
                 /\ \A i \in 1 .. k : /\ Joins(p.rels[i], chain.rel.dir, p.nodes[i], p.nodes[i + 1])
                                      /\ chain.rel.type # 0 => graph.types[p.rels[i]] = chain.rel.type
                 /\ chain.end.label # 0 => chain.end.label \in graph.labels[p.nodes[k + 1]]
                 /\ clause.mode = "different" => Injective(p.rels)
                 /\ pattern.mode = "acyclic" => Injective(p.nodes)}
             : k \in chain.bounds[1] .. longest}

PathRow(p) ==
    [a |-> <<"node", p.nodes[1]>>, b |-> <<"node", p.nodes[Len(p.nodes)]>>,
     r |-> <<"list", [i \in DOMAIN p.rels |-> <<"rel", p.rels[i]>>]>>, p |-> <<"path", p.nodes, p.rels>>]

\* A repeated relationship finds every path within its bounds, once, and
\* nothing else (quantified-paths.md): no walk is lost by the step-by-step
\* frontier, the early end of an empty frontier or the self-loops of an
\* undirected step.
WalksAreThePaths ==
    Asks("walk") =>
        \E found \in {Found(question[2])}, paths \in {Paths(question[2])} :
            /\ Len(found) = Cardinality(paths)
            /\ {found[i] : i \in DOMAIN found} = {PathRow(p) : p \in paths}

\* -[r]->{m,n} means the same as ((x)-[r]->(y)){m,n}: the relationship
\* list, the ends and the path agree.
GroupsAgree ==
    Asks("walk") =>
        \E found \in {Found(question[3])} :
            Rows([i \in DOMAIN found |-> Without(found[i], {"x", "y"})]) = Rows(Found(question[2]))

\* The order of the comma separated parts of a MATCH is no pattern of its
\* meaning: both orders find the same rows equally often, also when the
\* parts compete for relationships.
PartsCommute ==
    Asks("parts") => Rows(Found(question[2])) = Rows(Found(question[3]))

\* path-selection.md: in DIFFERENT RELATIONSHIPS, no two of a row's comma
\* separated paths use one relationship.
NothingReused ==
    Asks("parts") /\ question[2].mode = "different" =>
        \A row \in DOMAIN Rows(Found(question[2])) : Injective(row["p"][3] \o row["q"][3])

\* What is bound before the MATCH selects among what it finds without: a
\* bound node, relationship or relationship list is compared, never lost,
\* and null finds nothing.
BoundIsFiltered ==
    Asks("bound") =>
        LET Fits(row) == \A v \in DOMAIN question[3] : row[v] = question[3][v]
        IN \E found \in {Found(question[2])} :
              Rows(Match(graph, question[2], question[3])) = Rows(SelectSeq(found, Fits))

\* An inline WHERE only filters: what it finds early is what a WHERE after
\* the MATCH would keep, for a group in each of its repetitions.
InlineWhereFilters ==
    Asks("where") =>
        LET Below(row, v, w) == row[v][2] < row[w][2]
            Passes(row) ==
                IF "x" \in DOMAIN row
                THEN \A i \in DOMAIN row["x"][2] : row["x"][2][i][2] < row["y"][2][i][2]
                ELSE Below(row, "a", "b") /\ Below(row, "r", "s")
        IN \E found \in {Found(Different(<<question[3]>>))} :
              Rows(Found(Different(<<question[2]>>))) = Rows(SelectSeq(found, Passes))

\* path-selection.md: a selector keeps, for each pair of ends, the number
\* of paths or of lengths it names, the shortest first.
SelectorsKeepTheShortest ==
    Asks("select") =>
        \E all \in {Rows(Found(Different(<<question[3]>>)))}, kept \in {Rows(Found(Different(<<question[2]>>)))} :
            LET s == question[2].selector
                Length(row) == Len(row["p"][3])
                Twins(row) == {o \in DOMAIN all : /\ o["p"][2][1] = row["p"][2][1]
                                                  /\ o["p"][2][Len(o["p"][2])] = row["p"][2][Len(row["p"][2])]}
                Count(rows, f) == FoldSet(LAMBDA row, n : n + f[row], 0, rows)
            IN /\ \A row \in DOMAIN kept : row \in DOMAIN all /\ kept[row] <= all[row]
               /\ \A row \in DOMAIN all :
                    LET shorter == {Length(o) : o \in {t \in Twins(row) : Length(t) < Length(row)}}
                        group == Twins(row) \cap DOMAIN kept
                    IN CASE s[1] \in {"any", "shortest paths", "any shortest"} ->
                              /\ Count(group, kept) = Min({s[2], Count(Twins(row), all)})
                              /\ row \in DOMAIN kept \/ \A o \in group : Length(o) <= Length(row)
                         [] s[1] = "all shortest" ->
                              IF shorter = {} THEN row \in group /\ kept[row] = all[row] ELSE row \notin group
                         [] s[1] = "shortest groups" ->
                              IF Cardinality(shorter) < s[2] THEN row \in group /\ kept[row] = all[row]
                              ELSE row \notin group

\* MERGE finds what MATCH finds: what MERGE does not find it creates, so a
\* pattern that only MATCH finds would be created a second time.
MergeFindsTheMatches ==
    Asks("merge") =>
        Rows(MergeMatch(graph, question[2], question[3])) = Rows(Match(graph, Different(<<question[2]>>), question[3]))

-----------------------------------------------------------------------------
(* Properties of the read pipelines.                                       *)

(* The pipeline of MATCH clauses returns the rows the general executor     *)
(* finds, as often, for any page size.                                     *)
SameRowsAsTheExecutor == part = "cursors" => Cursors!SameRowsAsTheExecutor

(* What is lowered to a match step means exactly what the pattern says.    *)
NothingDropped == part = "routing" => Routing!NothingDropped

(* A read that is not sent to the program executor can be lowered.         *)
NoReadIsRefused == part = "routing" => Routing!NoReadIsRefused

(* Whatever the batch sizes, a stream gives the rows of the executor.      *)
StreamGivesTheRows == part = "streams" => Streams!StreamGivesTheRows

(* A streamed LIMIT evaluates no row that it does not need.                *)
LimitIsLazy == part = "streams" => Streams!LimitIsLazy

(* A query that reads an index gives the rows it would give without one,   *)
(* unless its generation changes between two pages of a numeric range.     *)
SameResult == part = "seeks" => Seeks!SameResult

-----------------------------------------------------------------------------
(* Properties of values and expressions.                                   *)

(* The order of ORDER BY is total: opposite when the arguments are         *)
(* exchanged, and transitive, so that sorts and merges of sorted runs have *)
(* an answer (value_order.rs, "Total value ordering").                     *)
OrderIsTotal ==
    /\ Two => /\ V!OrderCompare(first, second) = V!Reverse(V!OrderCompare(second, first))
               /\ V!OrderCompare(first, first) = "equal"
    /\ (/\ Three
        /\ V!OrderCompare(first, second) \in {"less", "equal"}
        /\ V!OrderCompare(second, third) \in {"less", "equal"})
        => /\ V!OrderCompare(first, third) \in {"less", "equal"}
           /\ V!OrderCompare(first, third) = "equal" => V!OrderCompare(first, second) = "equal"

(* Equality is symmetric and transitive, integers and floats beyond the    *)
(* precision of each other included.                                       *)
EqualityIsTransitive ==
    /\ Two => V!Equals(first, second) = V!Equals(second, first)
    /\ Three /\ V!Equals(first, second) = "true" /\ V!Equals(second, third) = "true"
        => V!Equals(first, third) = "true"

(* Rows that = calls equal are one row to DISTINCT and stay together when  *)
(* sorted.                                                                 *)
EqualRowsAreOneRow ==
    Two /\ V!Equals(first, second) = "true" /\ ~ AcrossFamilies =>
        /\ V!DistinctKey(first) = V!DistinctKey(second)
        /\ V!OrderCompare(first, second) = "equal"

(* DISTINCT merges exactly the values that ORDER BY cannot tell apart;     *)
(* only durations of the same average length are sorted together and kept. *)
DistinctIsTheOrder ==
    Two => (V!DistinctKey(first) = V!DistinctKey(second))
            = (V!OrderCompare(first, second) = "equal"
               /\ (first[1] = "duration" => first = second))

(* Where < and = both have an answer they agree: neither less nor greater  *)
(* means equal.  Only a NaN or a null inside a container is looked over by *)
(* the one and not by the other.                                           *)
ComparisonAgreesWithEquality ==
    Two /\ (first[1] = second[1] \/ {first[1], second[1]} = {"integer", "float"})
         /\ first[1] \notin {"list", "map"}
         /\ V!Compare(first, second) \in {"less", "equal", "greater"} =>
            (V!Compare(first, second) = "equal") = (V!Equals(first, second) = "true")

(* The relations the executor uses, with their own loops over containers,  *)
(* paths and vectors, answer what the plain ones answer.                   *)
ControlledAgrees ==
    Two => /\ V!EqualsControlled(first, second) = V!Equals(first, second)
            /\ V!CompareControlled(first, second) = V!Compare(first, second)
            /\ V!OrderControlled(first, second) = V!OrderCompare(first, second)

(* No value has two canonical encodings, no encoding two values.           *)
OneEncodingPerValue == part = "encoded" => Encoded!OneEncodingPerValue

(* The columns of a property give its value back.                          *)
ColumnsRoundTrip == part = "encoded" => Encoded!ColumnsRoundTrip

(* Texts are read as if there were no chunks.                              *)
ChunksAreInvisible == part = "encoded" => Encoded!ChunksAreInvisible

(* The sizing walk counts what the decoded value retains.                  *)
PreflightIsExact == part = "encoded" => Encoded!PreflightIsExact

(* A value encoded as JSON is decoded as itself.                           *)
JsonRoundTrip == part = "json" => Json!JsonRoundTrip

(* A result shows the allowed properties and no other, at every depth.     *)
ResultShowsTheAllowed == part = "json" => Json!ResultShowsTheAllowed

(* Parameters take every value except one that holds a graph element.      *)
ParametersHoldNoElements == part = "json" => Json!ParametersHoldNoElements

(* A spilled row comes back as it was.                                     *)
SpillRoundTrip == part = "json" => Json!SpillRoundTrip

(* A denied property shows in the value of no expression.                  *)
DeniedIsInvisible == part = "evaluated" => Evaluated!DeniedIsInvisible

(* Answering subqueries first gives what evaluating in place gives.        *)
AnsweredFirstAgrees == part = "evaluated" => Evaluated!AnsweredFirstAgrees

(* An alias hides the row's variable of its name from every form.          *)
AliasesShadow == part = "evaluated" => Evaluated!AliasesShadow

(* Simple CASE is the searched CASE with =.                                *)
CaseTakesTheFirst == part = "evaluated" => Evaluated!CaseTakesTheFirst

(* allReduce is all() over the values reduce() goes through.               *)
AllReduceIsAll == part = "evaluated" => Evaluated!AllReduceIsAll

(* A quantifier is unknown exactly when the unknown truths decide it.      *)
QuantifiersAreExact == part = "evaluated" => Evaluated!QuantifiersAreExact

(* L[..k] and L[k..] cut a list in two for every k.                        *)
SlicesPartition == part = "evaluated" => Evaluated!SlicesPartition

(* A chain of comparisons is the conjunction of its pairs.                 *)
ChainIsPairs == part = "evaluated" => Evaluated!ChainIsPairs

(* Signs before an integer give the number they denote, or an error.       *)
SignsAreExact == part = "evaluated" => Evaluated!SignsAreExact

(* Day numbers and civil dates agree with the calendar counted by day.     *)
CalendarAgrees == part = "dates" => Dates!CalendarAgrees

(* The components of a date name it.                                       *)
ComponentsNameTheDate == part = "dates" => Dates!ComponentsNameTheDate

(* Truncating a date gives the last start of a unit not after it.          *)
TruncatesToTheStart == part = "dates" => Dates!TruncatesToTheStart

(* A field given to truncate is what the result has.                       *)
FieldsAreSet == part = "dates" => Dates!FieldsAreSet

(* Months are added within the calendar and clamped to the month.          *)
MonthsAreClamped == part = "dates" => Dates!MonthsAreClamped

-----------------------------------------------------------------------------
(* What the run checks: the promises of each part, by the code that keeps  *)
(* them.                                                                   *)

(* Matching finds the paths that the pattern describes and no other:       *)
(* repetitions, groups, comma separated parts, bound variables, inline     *)
(* WHERE, selectors, and MERGE as MATCH.                                   *)
PathsAreExact ==
    /\ WalksAreThePaths
    /\ GroupsAgree
    /\ PartsCommute
    /\ NothingReused
    /\ BoundIsFiltered
    /\ InlineWhereFilters
    /\ SelectorsKeepTheShortest
    /\ MergeFindsTheMatches

(* Every faster way to run a read gives the rows of the general executor:  *)
(* the pipeline of MATCH steps, the lowering that chooses it, streamed     *)
(* programs with a lazy LIMIT, and index seeks.                            *)
PipelinesAgree ==
    /\ SameRowsAsTheExecutor
    /\ NothingDropped
    /\ NoReadIsRefused
    /\ StreamGivesTheRows
    /\ LimitIsLazy
    /\ SameResult

(* The relations on values agree (order, equality, DISTINCT, comparison,   *)
(* and the executor's own loops), and every encoding (canonical bytes,     *)
(* columns, chunks, JSON, spilled rows) gives back the value, or the       *)
(* allowed part of it.                                                     *)
ValuesAreFaithful ==
    /\ OrderIsTotal
    /\ EqualityIsTransitive
    /\ EqualRowsAreOneRow
    /\ DistinctIsTheOrder
    /\ ComparisonAgreesWithEquality
    /\ ControlledAgrees
    /\ OneEncodingPerValue
    /\ ColumnsRoundTrip
    /\ ChunksAreInvisible
    /\ PreflightIsExact
    /\ JsonRoundTrip
    /\ ResultShowsTheAllowed
    /\ ParametersHoldNoElements
    /\ SpillRoundTrip

(* An expression means what its general form means (CASE, quantifiers,     *)
(* allReduce, slices, chains, signs, scopes, subqueries answered first,    *)
(* denied properties), and date functions agree with a calendar counted    *)
(* day by day.                                                             *)
ExpressionsAreExact ==
    /\ DeniedIsInvisible
    /\ AnsweredFirstAgrees
    /\ AliasesShadow
    /\ CaseTakesTheFirst
    /\ AllReduceIsAll
    /\ QuantifiersAreExact
    /\ SlicesPartition
    /\ ChainIsPairs
    /\ SignsAreExact
    /\ CalendarAgrees
    /\ ComponentsNameTheDate
    /\ TruncatesToTheStart
    /\ FieldsAreSet
    /\ MonthsAreClamped

=============================================================================
