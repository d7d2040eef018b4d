---------------------------- MODULE ProgramStream ----------------------------
(***************************************************************************)
(* The two ways to run a read program.                                     *)
(*                                                                         *)
(* The materialising executor runs the clauses one after the other over    *)
(* whole tables of rows (ReadExecutor); RunQuery is what it returns.  A    *)
(* row is a function from the variables bound to their values; a table     *)
(* also has columns, kept as a set (their order is presentation).  Values  *)
(* are tagged: <<"int", n>>, <<"bool", b>>, <<"list", s>> and <<"null">>.  *)
(* The expressions are the few that tell rows apart, find an error or are  *)
(* null.  MATCH is what it gives for one row (PathMatching and MatchCursor *)
(* say how), here the nodes a free variable may take.  The context of      *)
(* LOAD CSV travels with the row, beside its variables (Csv).              *)
(*                                                                         *)
(* The pull pipeline: build_program_stream turns the clauses into a tree   *)
(* of sources, and every row a client asks for is pulled through it        *)
(* (stream/program.rs, stream/program/builder.rs).  A program the builder  *)
(* cannot stream runs in the executor and is read back from its spill.     *)
(* Clauses carry `batch` when they hold a graph expression or a subquery   *)
(* the row evaluator does not know.  A source is a record: what it pulls   *)
(* from and what it keeps between two calls.  The client asks for batches  *)
(* of any size up to MaxBatch, and may interrupt; the rows of a batch that *)
(* fails are lost with it.                                                 *)
(***************************************************************************)
EXTENDS Integers, Sequences, FiniteSets

LOCAL INSTANCE SequencesExt

CONSTANTS
    Nodes,         \* the matching nodes, a sequence of values
    MaxBatch       \* the rows a client asks for at once

Null == <<"null">>
Failure == <<"failure">>
Num(n) == <<"int", n>>
NoLimit == 99

Csv == "LOAD CSV"

EmptyRow == [n \in {} |-> Null]

Bind(row, name, value) ==
    [n \in DOMAIN row \cup {name} |-> IF n = name THEN value ELSE row[n]]

\* The named variables and the context.
Only(row, names) ==
    [n \in names \cup (DOMAIN row \cap {Csv}) |-> IF n \in DOMAIN row THEN row[n] ELSE Null]

Visible(row) == [n \in DOMAIN row \ {Csv} |-> row[n]]

\* Aliases first, as evaluate_with_aliases does.
Over(row, aliases) ==
    [n \in DOMAIN row \cup DOMAIN aliases |->
        IF n \in DOMAIN aliases THEN aliases[n] ELSE row[n]]

Eval(e, row) ==
    CASE e[1] = "lit" -> e[2]
      [] e[1] = "var" -> row[e[2]]
      [] e[1] = "line" -> IF Csv \in DOMAIN row THEN row[Csv] ELSE Null
      [] e[1] = "pair" -> <<"list", <<row[e[2]], Num(1)>>>>
      [] e[1] = "is" -> IF row[e[2]] = Null THEN Null
                        ELSE <<"bool", row[e[2]] = e[3]>>
      [] e[1] = "inverse" -> IF row[e[2]] = Num(0) THEN Failure
                             ELSE IF row[e[2]] = Null THEN Null ELSE Num(1)

True == <<"bool", TRUE>>

\* Ascending: numbers, then null.
Before(v, w) == v # w /\ (w = Null \/ (v # Null /\ v[2] < w[2]))

\* What one row or one table of rows gives: rows, or an error.
Some(rows) == [ok |-> TRUE, rows |-> rows]
Fail == [ok |-> FALSE, rows |-> <<>>]

Table(cols, rows) == [ok |-> TRUE, why |-> "", cols |-> cols, rows |-> rows]
Failed(why) == [ok |-> FALSE, why |-> why, cols |-> {}, rows |-> <<>>]
AsTable(cols, given) == IF given.ok THEN Table(cols, given.rows) ELSE Failed("error")

\* An error ends what depends on it: of rows, and of a table.
OnRows(given, Go(_)) == IF given.ok THEN Go(given.rows) ELSE Fail
OnTable(table, Go(_)) == IF table.ok THEN Go(table) ELSE table

\* The rows of all inputs, in order, unless one of them fails.
EachRow(F(_), rows) ==
    FoldLeft(LAMBDA all, row :
                IF ~all.ok THEN all ELSE OnRows(F(row), LAMBDA given : Some(all.rows \o given)),
             Some(<<>>), rows)

FilterRow(e, row) ==
    LET v == Eval(e, row) IN
    IF v = Failure THEN Fail ELSE Some(IF v = True THEN <<row>> ELSE <<>>)

\* Every binding of a LET is evaluated on the row the clause was given.
LetRow(bindings, row) ==
    LET values == [i \in DOMAIN bindings |-> Eval(bindings[i][2], row)] IN
    IF \E i \in DOMAIN values : values[i] = Failure THEN Fail
    ELSE Some(<<FoldLeft(LAMBDA r, i : Bind(r, bindings[i][1], values[i]), row,
                         [i \in DOMAIN bindings |-> i])>>)

UnwindRow(name, e, row) ==
    LET v == Eval(e, row)
        values == IF v = Null THEN <<>> ELSE IF v[1] = "list" THEN v[2] ELSE <<v>>
    IN  IF v = Failure THEN Fail
        ELSE Some([i \in DOMAIN values |-> Bind(row, name, values[i])])

\* LOAD CSV: its records with their line numbers.
LoadRow(c, row) ==
    Some([i \in DOMAIN c.records |-> Bind(Bind(row, c.name, c.records[i]), Csv, Num(i))])

MatchCandidates(c, row) ==
    IF c.name \notin DOMAIN row THEN [i \in DOMAIN Nodes |-> Bind(row, c.name, Nodes[i])]
    ELSE IF \E i \in DOMAIN Nodes : Nodes[i] = row[c.name] THEN <<row>> ELSE <<>>

NullExtended(c, row) == Over([n \in {c.name} |-> Null], row)

MatchRow(c, row) ==
    OnRows(EachRow(LAMBDA r : FilterRow(c.where, r), MatchCandidates(c, row)),
           LAMBDA matched : Some(IF c.optional /\ matched = <<>> THEN <<NullExtended(c, row)>> ELSE matched))

-----------------------------------------------------------------------------
(* Projections. *)

Aggregates(c) == \E i \in DOMAIN c.items : c.items[i][2][1] = "count"
ItemNames(c) == {c.items[i][1] : i \in DOMAIN c.items}

\* projection_output_columns
ProjectionColumns(c, cols) == (IF c.star THEN cols ELSE {}) \cup ItemNames(c)

\* scalar_projection: the row projected, with the row it comes from.
ProjectRow(c, row) ==
    OnRows(LetRow(c.items, row),
           LAMBDA out : Some(<<[out |-> IF c.star THEN out[1] ELSE Only(out[1], ItemNames(c)),
                                src |-> row]>>))

\* Group keys: the items that are no aggregate.
KeyItems(c) == SelectSeq(c.items, LAMBDA item : item[2][1] # "count")

DistinctBy(K(_), seq) ==
    FoldLeft(LAMBDA kept, r :
                IF \E i \in DOMAIN kept : K(kept[i]) = K(r) THEN kept ELSE Append(kept, r),
             <<>>, seq)

\* Groups are kept in a map ordered by the text of their keys.
KeyBefore(v, w) == w # Null /\ (v = Null \/ v[2] < w[2])

\* A stable sort.
SortBy(Less(_, _), seq) ==
    LET Place(i) == Len(SelectSeq([j \in DOMAIN seq |-> j],
                        LAMBDA j : Less(seq[j], seq[i]) \/ (j <= i /\ ~Less(seq[i], seq[j]))))
    IN  [p \in DOMAIN seq |-> seq[CHOOSE i \in DOMAIN seq : Place(i) = p]]

\* The order of two groups by the text of their keys.
GroupBefore(keys, g, h) ==
    \E i \in DOMAIN keys :
        /\ \A j \in 1 .. (i - 1) : g.out[keys[j][1]] = h.out[keys[j][1]]
        /\ KeyBefore(g.out[keys[i][1]], h.out[keys[i][1]])

\* The record of group g, whose members are given; a context they share stays.
Counted(c, g, members) ==
    LET contexts == {r.out[Csv] : r \in {r \in Range(members) : Csv \in DOMAIN r.out}}
    IN  [g EXCEPT !.out = [m \in ItemNames(c) \cup (IF Cardinality(contexts) = 1 THEN {Csv} ELSE {}) |->
                              IF m \in DOMAIN g.out THEN g.out[m] ELSE Num(Len(members))]]

\* Without keys an empty input still gives the one group.
Grouped(c, keys, keyed) ==
    LET groups == IF keyed = <<>> /\ keys = <<>> THEN <<[out |-> EmptyRow, src |-> EmptyRow]>>
                  ELSE SortBy(LAMBDA g, h : GroupBefore(keys, g, h),
                              DistinctBy(LAMBDA r : Visible(r.out), keyed))
    IN  [i \in DOMAIN groups |->
            Counted(c, groups[i], SelectSeq(keyed, LAMBDA r : Visible(r.out) = Visible(groups[i].out)))]

\* aggregate_projection: one record per key.
AggregateRows(c, rows) ==
    OnRows(EachRow(LAMBDA row : ProjectRow([c EXCEPT !.items = KeyItems(c)], row), rows),
           LAMBDA keyed : Some(Grouped(c, KeyItems(c), keyed)))

SortKeys(order, r) == [i \in DOMAIN order |-> Eval(order[i][1], Over(r.src, r.out))]

KeysBefore(order, k, l) ==
    \E i \in DOMAIN order :
        /\ \A j \in 1 .. (i - 1) : k[j] = l[j]
        /\ IF order[i][2] THEN Before(l[i], k[i]) ELSE Before(k[i], l[i])

\* The merge sort of sort_projected is stable.
Sorted(order, rows) ==
    SortBy(LAMBDA r, q : KeysBefore(order, SortKeys(order, r), SortKeys(order, q)), rows)

\* apply_projection_modifiers: DISTINCT, ORDER BY, SKIP, LIMIT.
Page(c, rows) ==
    SubSeq(rows, c.skip + 1, IF c.skip + c.limit < Len(rows) THEN c.skip + c.limit ELSE Len(rows))

Ordered(c, rows) == IF c.order = <<>> THEN rows ELSE Sorted(c.order, rows)

Modified(c, rows) ==
    Page(c, Ordered(c, IF c.distinct THEN DistinctBy(LAMBDA r : Visible(r.out), rows) ELSE rows))

\* apply_projection_where, after the modifiers; only WITH has one.
WhereRows(c, rows) ==
    IF c.where = <<>> THEN Some(rows)
    ELSE EachRow(LAMBDA r : OnRows(FilterRow(c.where, Over(r.src, r.out)),
                                   LAMBDA kept : Some([i \in DOMAIN kept |-> r])), rows)

Project(c, table) ==
    AsTable(ProjectionColumns(c, table.cols),
            OnRows(OnRows(IF Aggregates(c) THEN AggregateRows(c, table.rows)
                          ELSE EachRow(LAMBDA row : ProjectRow(c, row), table.rows),
                          LAMBDA projected : WhereRows(c, Modified(c, projected))),
                   LAMBDA kept : Some([i \in DOMAIN kept |-> kept[i].out])))

\* Inside a scoped CALL, WITH brings the imported variables back.
RestoreGlobals(given, globals) ==
    OnTable(given, LAMBDA table :
        Table(table.cols \cup DOMAIN globals,
              [i \in DOMAIN table.rows |-> Over(table.rows[i], Visible(globals))]))

-----------------------------------------------------------------------------
(* Clauses, CALL and composition. *)

LastClause(clauses) == clauses[Len(clauses)]
ReturnsColumns(clauses) == LastClause(clauses).k = "return"
EndsWithCall(clauses) == LastClause(clauses).k = "call"
Seed == Table({}, <<EmptyRow>>)

\* rows_for_next
RowsForNext(previous, result) ==
    IF ~result.ok \/ ReturnsColumns(previous) THEN result
    ELSE IF EndsWithCall(previous)
         THEN Table({}, [i \in DOMAIN result.rows |-> EmptyRow])
         ELSE Seed

\* union_rows
UnionRows(left, right, distinct) ==
    CASE ~left.ok -> left
      [] left.ok /\ ~right.ok -> right
      [] left.ok /\ right.ok /\ left.cols # right.cols -> Failed("columns")
      [] OTHER -> Table(left.cols,
                    IF distinct THEN DistinctBy(Visible, left.rows \o right.rows)
                    ELSE left.rows \o right.rows)

\* importing_with_columns: the variables a leading WITH refers to.
ImportingWith(clauses, outer) ==
    IF clauses[1].k # "with" THEN {}
    ELSE IF clauses[1].star THEN DOMAIN Visible(outer)
    ELSE {clauses[1].items[i][2][2] : i \in {j \in DOMAIN clauses[1].items :
                clauses[1].items[j][2][1] \in {"var", "pair", "is", "inverse"}}} \cap DOMAIN outer

\* A query: its first operand and the connectors with theirs.  The input of
\* an operand is the table of its segment, or what its own leading WITH
\* imports from the outer row (execute_call_composed, up to the first NEXT).
RECURSIVE RunClauses(_, _, _)

Given(t) == <<"table", t>>
ImportedFrom(outer) == <<"outer", outer>>

OperandInput(input, clauses) ==
    IF input[1] = "table" THEN input[2]
    ELSE LET names == ImportingWith(clauses, input[2]) IN Table(names, <<Only(input[2], names)>>)

\* A step of the composition, from the result of the operands before.
Connect(connector, before, result) ==
    IF connector \in {"FIRST", "NEXT"} THEN result ELSE UnionRows(before, result, connector = "UNION")

RunQuery(q, input, globals) ==
    FoldLeft(LAMBDA s, part :
                LET from == IF part[1] = "NEXT" THEN Given(RowsForNext(s.previous, s.result)) ELSE s.input
                IN  [input |-> from, previous |-> part[2],
                     result |-> Connect(part[1], s.result,
                                        RunClauses(part[2], OperandInput(from, part[2]), globals))],
             [input |-> input, previous |-> q.first, result |-> Seed],
             <<<<"FIRST", q.first>>>> \o q.rest).result

\* execute_call_for_outer: with a scope clause the imports are the input and
\* the globals of the body.
CallForOuter(c, outer, globals) ==
    RunQuery(c.body,
             IF c.scoped THEN Given(Table(c.imports, <<Only(outer, c.imports)>>)) ELSE ImportedFrom(outer),
             IF c.scoped THEN Only(outer, c.imports) ELSE globals)

LastOperand(q) == IF q.rest = <<>> THEN q.first ELSE q.rest[Len(q.rest)][2]
Public(q) == ReturnsColumns(LastOperand(q))

CallRow(c, outer, globals) ==
    OnTable(CallForOuter(c, outer, globals), LAMBDA inner :
        Table(inner.cols,
              IF ~Public(c.body) THEN <<outer>>
              ELSE [i \in DOMAIN inner.rows |-> Over(outer, Only(inner.rows[i], inner.cols))]))

\* execute_call_subquery learns the columns of the body from its results.
Call(c, table, globals) ==
    FoldLeft(LAMBDA all, row :
                IF ~all.ok THEN all
                ELSE OnTable(CallRow(c, row, globals), LAMBDA given :
                         Table(all.cols \cup given.cols, all.rows \o given.rows)),
             Table(table.cols, <<>>), table.rows)

RunClause(c, table, globals) ==
    CASE c.k = "match" ->
            AsTable(table.cols \cup {c.name}, EachRow(LAMBDA r : MatchRow(c, r), table.rows))
      [] c.k = "filter" ->
            AsTable(table.cols, EachRow(LAMBDA r : FilterRow(c.where, r), table.rows))
      [] c.k = "let" ->
            AsTable(table.cols \cup ItemNames(c),
                    EachRow(LAMBDA r : LetRow(c.items, r), table.rows))
      [] c.k = "unwind" ->
            AsTable(table.cols \cup {c.name},
                    EachRow(LAMBDA r : UnwindRow(c.name, c.list, r), table.rows))
      [] c.k = "load" ->
            AsTable(table.cols \cup {c.name}, EachRow(LAMBDA r : LoadRow(c, r), table.rows))
      [] c.k = "call" -> Call(c, table, globals)
      [] c.k = "with" -> RestoreGlobals(Project(c, table), globals)
      [] c.k = "return" -> Project(c, table)
      [] c.k = "finish" -> Table({}, <<>>)

RunClauses(clauses, table, globals) ==
    FoldLeft(LAMBDA t, c : IF t.ok THEN RunClause(c, t, globals) ELSE t, table, clauses)

-----------------------------------------------------------------------------
(* Columns as they are prepared, before anything runs. *)

RECURSIVE InferClauses(_, _)
RECURSIVE HasReturn(_)

\* The whole body is searched for a RETURN, nested subqueries included.
HasReturn(q) ==
    \E clauses \in {q.first} \cup {q.rest[i][2] : i \in DOMAIN q.rest} :
        \E i \in DOMAIN clauses :
            clauses[i].k = "return" \/ (clauses[i].k = "call" /\ HasReturn(clauses[i].body))

InferQuery(q, cols) ==
    FoldLeft(LAMBDA s, part :
                IF part[1] = "NEXT"
                THEN [previous |-> part[2],
                      cols |-> InferClauses(part[2],
                                  IF ReturnsColumns(s.previous) THEN s.cols ELSE {})]
                ELSE [s EXCEPT !.previous = part[2]],
             [previous |-> q.first, cols |-> InferClauses(q.first, cols)], q.rest).cols

InferClause(c, cols) ==
    CASE c.k \in {"match", "unwind", "load"} -> cols \cup {c.name}
      [] c.k = "filter" -> cols
      [] c.k = "let" -> cols \cup ItemNames(c)
      [] c.k \in {"with", "return"} -> ProjectionColumns(c, cols)
      [] c.k = "call" -> IF HasReturn(c.body) THEN cols \cup InferQuery(c.body, cols) ELSE cols
      [] c.k = "finish" -> {}

InferClauses(clauses, cols) == FoldLeft(LAMBDA s, c : InferClause(c, s), cols, clauses)

\* materialize_rows
Shown(row, cols) == [n \in cols |-> IF n \in DOMAIN row THEN row[n] ELSE Null]

\* execute_read_snapshot_with_version_summary
Execute(q) ==
    OnTable(RunQuery(q, Given(Seed), EmptyRow), LAMBDA result :
        IF ~Public(q) THEN Table({}, <<>>)
        ELSE IF result.cols # InferQuery(q, {}) THEN Failed("columns")
        ELSE [result EXCEPT !.rows = [i \in DOMAIN @ |-> Shown(@[i], result.cols)]])

-----------------------------------------------------------------------------
(* The pipeline.                                                           *)

VARIABLES query,       \* the prepared program
          expected,    \* what the executor gives for it
          source,      \* the tree of sources, or the spilled rows left
          delivered,   \* the rows the client has
          status       \* new, stream, spill, done, failed or interrupted

vars == <<query, expected, source, delivered, status>>

None == [k |-> "none"]
Spilled(rows) == [k |-> "spill", rows |-> rows]

Row(s, row) == [src |-> s, got |-> "row", row |-> row]
End(s) == [src |-> s, got |-> "end", row |-> EmptyRow]
Error(s) == [src |-> s, got |-> "error", row |-> EmptyRow]

-----------------------------------------------------------------------------
(* One pull from each kind of source. *)

RECURSIVE Pull(_)
RECURSIVE PullAll(_, _)

\* A barrier reads its whole input.
PullAll(s, rows) ==
    \* the rows pulled, and whether the input ended without an error
    LET p == Pull(s) IN
    IF p.got = "row" THEN PullAll(p.src, Append(rows, p.row))
    ELSE [src |-> p.src, rows |-> rows, ok |-> p.got = "end"]

PullSeed(s) == IF s.emitted THEN End(s) ELSE Row([s EXCEPT !.emitted = TRUE], EmptyRow)

\* A row of the input goes on as Go gives it, with the source it leaves; an
\* end or an error of the input is the source's own.
FromUp(s, Go(_, _)) ==
    LET p == Pull(s.up)
        t == [s EXCEPT !.up = p.src]
    IN  IF p.got = "row" THEN Go(t, p.row) ELSE [p EXCEPT !.src = t]

\* What a row gives, or its error.
Gives(t, given, Go(_)) == IF given.ok THEN Go(given.rows) ELSE Error(t)

PullFilter(s) ==
    FromUp(s, LAMBDA t, row :
        Gives(t, FilterRow(s.clause.where, row), LAMBDA kept : IF kept = <<>> THEN Pull(t) ELSE Row(t, row)))

PullLet(s) ==
    FromUp(s, LAMBDA t, row : Gives(t, LetRow(s.clause.items, row), LAMBDA out : Row(t, out[1])))

\* The rows that one input row gave, first.
FromBuffer(s, otherwise) ==
    IF s.buffer # <<>> THEN Row([s EXCEPT !.buffer = Tail(@)], Head(s.buffer)) ELSE otherwise

PullUnwind(s) ==
    FromBuffer(s, FromUp(s, LAMBDA t, row :
        Gives(t, UnwindRow(s.clause.name, s.clause.list, row), LAMBDA values : Pull([t EXCEPT !.buffer = values]))))

PullLoad(s) ==
    FromBuffer(s, FromUp(s, LAMBDA t, row : Pull([t EXCEPT !.buffer = LoadRow(s.clause, row).rows])))

\* The cursor of one input row: the candidates left, and whether one matched.
PullMatch(s) ==
    IF s.cursor = <<>>
    THEN FromUp(s, LAMBDA t, row :
             Pull([t EXCEPT !.cursor = <<row>>, !.matched = FALSE,
                            !.buffer = MatchCandidates(s.clause, row)]))
    ELSE IF s.buffer = <<>>
    THEN LET t == [s EXCEPT !.cursor = <<>>] IN
         IF s.clause.optional /\ ~s.matched
         THEN Row(t, NullExtended(s.clause, s.cursor[1])) ELSE Pull(t)
    ELSE LET t == [s EXCEPT !.buffer = Tail(@)] IN
         Gives(t, FilterRow(s.clause.where, Head(s.buffer)), LAMBDA kept :
             IF kept = <<>> THEN Pull(t) ELSE Row([t EXCEPT !.matched = TRUE], Head(s.buffer)))

\* The limit is looked at before the input is.
PullProjection(s) ==
    IF s.emitted >= s.clause.limit THEN End(s)
    ELSE FromUp(s, LAMBDA t, row :
             Gives(t, ProjectRow(s.clause, row), LAMBDA out :
                 IF s.seen < s.clause.skip THEN Pull([t EXCEPT !.seen = @ + 1])
                 ELSE Row([t EXCEPT !.seen = @ + 1, !.emitted = @ + 1], out[1].out)))

\* build_distinct and build_sorted read everything first; what comes back
\* from the spill are the columns (projected_binding).
BuildBarrier(s, all) ==
    LET t == [s EXCEPT !.up = all.src, !.state = "ready"]
        unpaged == [s.clause EXCEPT !.skip = 0, !.limit = NoLimit]
    IN  IF ~all.ok THEN Error(t)
        ELSE Gives(t, EachRow(LAMBDA row : ProjectRow(s.clause, row), all.rows),
                   LAMBDA projected : Pull([t EXCEPT !.buffer = Modified(unpaged, projected)]))

PullBarrier(s) ==
    CASE s.state = "pending" -> BuildBarrier(s, PullAll(s.up, <<>>))
      [] s.state = "done" -> End(s)
      [] s.state = "ready" /\ (s.emitted >= s.clause.limit \/ s.buffer = <<>>) ->
            End([s EXCEPT !.state = "done"])
      [] OTHER ->
            LET t == [s EXCEPT !.buffer = Tail(@)] IN
            IF s.skipped < s.clause.skip THEN Pull([t EXCEPT !.skipped = @ + 1])
            ELSE Row([t EXCEPT !.emitted = @ + 1], Visible(Head(s.buffer).out))

\* One input row at a time through the executor.
PullBatch(s) ==
    LET Refill(t, result) ==
            IF result.ok /\ result.cols = s.output THEN Pull([t EXCEPT !.buffer = result.rows]) ELSE Error(t)
        Ended(p) == IF p.got = "end" THEN [p EXCEPT !.src.done = TRUE] ELSE p
    IN  FromBuffer(s,
            IF s.done THEN End(s)
            ELSE Ended(FromUp(s, LAMBDA t, row :
                           Refill(t, RunClause(s.clause, Table(s.input, <<row>>), EmptyRow)))))

PullConcat(s) ==
    IF s.leftDone
    THEN LET p == Pull(s.right) IN [p EXCEPT !.src = [s EXCEPT !.right = p.src]]
    ELSE LET p == Pull(s.left)
             t == [s EXCEPT !.left = p.src]
         IN  IF p.got = "end" THEN Pull([t EXCEPT !.leftDone = TRUE]) ELSE [p EXCEPT !.src = t]

BuildDistinct(s, all) ==
    LET t == [s EXCEPT !.up = all.src, !.state = "ready",
                       !.buffer = DistinctBy(LAMBDA r : r, [i \in DOMAIN all.rows |-> Visible(all.rows[i])])]
    IN  IF all.ok THEN Pull(t) ELSE Error(t)

PullDistinct(s) ==
    CASE s.state = "pending" -> BuildDistinct(s, PullAll(s.up, <<>>))
      [] s.state = "ready" /\ s.buffer # <<>> ->
            Row([s EXCEPT !.buffer = Tail(@)], Head(s.buffer))
      [] OTHER -> End([s EXCEPT !.state = "done"])

PullUnit(s) ==
    LET p == Pull(s.up) IN [p EXCEPT !.src = [s EXCEPT !.up = p.src], !.row = EmptyRow]

Pull(s) ==
    CASE s.k = "seed" -> PullSeed(s)
      [] s.k = "filter" -> PullFilter(s)
      [] s.k = "let" -> PullLet(s)
      [] s.k = "unwind" -> PullUnwind(s)
      [] s.k = "load" -> PullLoad(s)
      [] s.k = "match" -> PullMatch(s)
      [] s.k = "projection" -> PullProjection(s)
      [] s.k = "barrier" -> PullBarrier(s)
      [] s.k = "batch" -> PullBatch(s)
      [] s.k = "concat" -> PullConcat(s)
      [] s.k = "distinct" -> PullDistinct(s)
      [] s.k = "unit" -> PullUnit(s)

-----------------------------------------------------------------------------
(* The builder. *)

SeedSource == [k |-> "seed", emitted |-> FALSE]
ClauseSource(c, up) == [k |-> c.k, up |-> up, clause |-> c, buffer |-> <<>>, cursor |-> <<>>,
                        matched |-> FALSE]
BatchSource(c, up, cols, next) ==
    [k |-> "batch", up |-> up, clause |-> c, input |-> cols, output |-> next,
     buffer |-> <<>>, done |-> FALSE]
ProjectionSource(c, up) == [k |-> "projection", up |-> up, clause |-> c, seen |-> 0, emitted |-> 0]
BarrierSource(c, up) ==
    [k |-> "barrier", up |-> up, clause |-> c, state |-> "pending", buffer |-> <<>>,
     skipped |-> 0, emitted |-> 0]

GlobalModifier(c) == c.order # <<>> \/ c.distinct \/ c.skip # 0 \/ c.limit # NoLimit

\* projection_source
BuildProjection(c, up, cols, next) ==
    CASE (c.batch \/ c.star) /\ GlobalModifier(c) -> None
      [] c.where # <<>> /\ GlobalModifier(c) -> None
      [] ~GlobalModifier(c) /\ (c.where # <<>> \/ c.batch \/ c.star) ->
            BatchSource(c, up, cols, next)
      [] OTHER -> IF c.order = <<>> /\ ~c.distinct THEN ProjectionSource(c, up)
                  ELSE BarrierSource(c, up)

BuildSource(c, up, cols, next) ==
    CASE c.k = "call" -> BatchSource(c, up, cols, next)
      [] c.k \in {"with", "return"} -> BuildProjection(c, up, cols, next)
      [] c.k = "load" -> ClauseSource(c, up)
      [] c.k \in {"filter", "let", "unwind", "match"} ->
            IF c.batch THEN BatchSource(c, up, cols, next) ELSE ClauseSource(c, up)
      [] c.k = "finish" -> None

\* build_clause_stream
BuildClauses(clauses, up, cols) ==
    FoldLeft(LAMBDA s, c :
                IF s.src = None THEN s
                ELSE LET next == InferClause(c, s.cols) IN
                     [src |-> BuildSource(c, s.src, s.cols, next), cols |-> next],
             [src |-> up, cols |-> cols], clauses)

\* A NEXT takes the rows of a RETURN, and one empty row for each row of a
\* unit CALL; after anything else the program is not streamed.
BuildNext(q) ==
    FoldLeft(LAMBDA s, part :
                LET input == IF ReturnsColumns(s.previous) THEN s.stream.src
                             ELSE [k |-> "unit", up |-> s.stream.src]
                    cols == IF ReturnsColumns(s.previous) THEN s.stream.cols ELSE {}
                IN  IF s.stream.src = None THEN s
                    ELSE [previous |-> part[2],
                          stream |-> IF ReturnsColumns(s.previous) \/ EndsWithCall(s.previous)
                                     THEN BuildClauses(part[2], input, cols)
                                     ELSE [src |-> None, cols |-> {}]],
             [previous |-> q.first, stream |-> BuildClauses(q.first, SeedSource, {})],
             q.rest).stream

\* Every UNION that is not UNION ALL makes all the rows so far distinct.
BuildUnion(q) ==
    FoldLeft(LAMBDA s, part :
                LET right == BuildClauses(part[2], SeedSource, {})
                    both == [k |-> "concat", left |-> s.src, right |-> right.src,
                             leftDone |-> FALSE]
                IN  IF s.src = None \/ right.src = None THEN [s EXCEPT !.src = None]
                    ELSE [s EXCEPT !.src = IF part[1] = "UNION ALL" THEN both
                                           ELSE [k |-> "distinct", up |-> both,
                                                 state |-> "pending", buffer |-> <<>>]],
             BuildClauses(q.first, SeedSource, {}), q.rest)

Connectors(q) == {q.rest[i][1] : i \in DOMAIN q.rest}
AggregatesAnywhere(q) ==
    \E clauses \in {q.first} \cup {q.rest[i][2] : i \in DOMAIN q.rest} :
        \E i \in DOMAIN clauses : clauses[i].k \in {"with", "return"} /\ Aggregates(clauses[i])

\* build_program_stream
BuildStream(q) ==
    CASE ~Public(q) \/ AggregatesAnywhere(q) -> None
      [] Public(q) /\ ~AggregatesAnywhere(q) /\ "NEXT" \in Connectors(q) ->
            IF Connectors(q) = {"NEXT"} THEN BuildNext(q).src ELSE None
      [] OTHER -> BuildUnion(q).src

-----------------------------------------------------------------------------
(* Programs for ProgramStream: a first clause that gives rows, up to two   *)
(* clauses between, a last projection; UNION and NEXT of short programs.   *)

Lit(v) == <<"lit", v>>
Var(n) == <<"var", n>>
List(s) == Lit(<<"list", s>>)

Unwind(name, list) == [k |-> "unwind", name |-> name, list |-> list, batch |-> FALSE]
Match(where, optional, batch) ==
    [k |-> "match", name |-> "n", where |-> where, optional |-> optional, batch |-> batch]
Filter(e, batch) == [k |-> "filter", where |-> e, batch |-> batch]
Let(items) == [k |-> "let", items |-> items, batch |-> FALSE]
Load == [k |-> "load", name |-> "x", records |-> <<Num(1), Num(0), Num(1)>>, batch |-> FALSE]
Finish == [k |-> "finish", batch |-> FALSE]
Query(clauses) == [first |-> clauses, rest |-> <<>>]
SubqueryCall(scoped, imports, q) ==
    [k |-> "call", scoped |-> scoped, imports |-> imports, body |-> q, batch |-> TRUE]

Plain(k, items) ==
    [k |-> k, items |-> items, star |-> FALSE, distinct |-> FALSE, order |-> <<>>,
     skip |-> 0, limit |-> NoLimit, where |-> <<>>, batch |-> FALSE]
Return(items) == Plain("return", items)
With(items) == Plain("with", items)
ReturnAll == [Return(<<>>) EXCEPT !.star = TRUE]
X == <<"x", Var("x")>>

Sources ==
    {Unwind("x", List(<<Num(0), Num(1), Num(1), Null>>)), Unwind("x", List(<<Num(1), Num(1), Num(0)>>)),
     Unwind("x", Lit(Null)), Load}

Middles ==
    {Filter(<<"is", "x", Num(1)>>, FALSE), Filter(<<"is", "x", Num(1)>>, TRUE),
     Let(<<<<"y", <<"inverse", "x">>>>>>),
     Unwind("y", <<"pair", "x">>),
     Match(<<"is", "n", Num(2)>>, FALSE, FALSE), Match(<<"is", "n", Num(3)>>, TRUE, FALSE),
     Match(<<"inverse", "x">>, TRUE, TRUE),
     SubqueryCall(TRUE, {"x"}, Query(<<With(<<<<"y", Lit(Num(2))>>>>), Return(<<<<"z", Var("x")>>>>)>>)),
     SubqueryCall(FALSE, {}, [first |-> <<With(<<X>>), Return(<<<<"z", Var("x")>>>>)>>,
                      rest |-> <<<<"UNION", <<Return(<<<<"z", Lit(Num(1))>>>>)>>>>>>]),
     SubqueryCall(FALSE, {}, Query(<<Finish>>)),
     [With(<<X>>) EXCEPT !.where = <<"is", "x", Num(1)>>],
     [With(<<X>>) EXCEPT !.where = <<"is", "x", Num(1)>>, !.limit = 2],
     [With(<<X>>) EXCEPT !.distinct = TRUE],
     [With(<<X>>) EXCEPT !.limit = 1], [With(<<X>>) EXCEPT !.skip = 1]}

Lasts ==
    {ReturnAll, [ReturnAll EXCEPT !.order = <<<<Var("x"), FALSE>>>>],
     Return(<<<<"i", <<"inverse", "x">>>>>>),
     [Return(<<<<"i", <<"inverse", "x">>>>>>) EXCEPT !.limit = 2],
     [Return(<<<<"i", <<"inverse", "x">>>>>>) EXCEPT !.order = <<<<Var("x"), TRUE>>>>, !.limit = 1],
     [Return(<<X>>) EXCEPT !.distinct = TRUE, !.order = <<<<Var("x"), TRUE>>>>, !.skip = 1],
     [Return(<<X>>) EXCEPT !.skip = 1, !.limit = 1],
     Return(<<X, <<"c", <<"count">>>>>>), Return(<<<<"c", <<"count">>>>>>)}

\* A row bound again is refused by the front end.
Rebinds(a, b) == a.k \in {"unwind", "let", "match", "call"} /\ a.k = b.k

Chains ==
    {Query(<<s, l>>) : s \in Sources, l \in Lasts}
        \cup {Query(<<s, m, l>>) : s \in Sources, m \in Middles, l \in Lasts}
        \cup {Query(<<s, p[1], p[2], l>>) :
                s \in Sources, l \in {ReturnAll} \cup {r \in Lasts : r.limit # NoLimit},
                p \in {q \in Middles \X Middles : ~Rebinds(q[1], q[2])}}

Operands ==
    {<<Unwind("x", List(<<Num(0), Num(1)>>)), Return(<<X>>)>>,
     <<Unwind("x", List(<<Num(1), Num(1)>>)), Return(<<<<"x", <<"inverse", "x">>>>>>)>>,
     <<Unwind("x", List(<<Num(1), Num(0)>>)), Return(<<<<"x", <<"inverse", "x">>>>>>)>>,
     <<[Return(<<<<"x", Lit(Num(1))>>>>) EXCEPT !.limit = 0]>>}

Unions ==
    {[first |-> a, rest |-> <<<<c, b>>>>] :
        a \in Operands, b \in Operands, c \in {"UNION", "UNION ALL"}}
    \cup {[first |-> a, rest |-> <<<<c, b>>, <<d, a>>>>] :
        a \in Operands, b \in Operands, c \in {"UNION", "UNION ALL"}, d \in {"UNION", "UNION ALL"}}

Followers == {<<ReturnAll>>, <<Unwind("y", List(<<Num(0), Num(1)>>)), Return(<<<<"i", <<"inverse", "y">>>>>>)>>,
              <<[Return(<<<<"l", Lit(Num(1))>>>>) EXCEPT !.limit = 1]>>}

Nexts ==
    {[first |-> a, rest |-> <<<<"NEXT", b>>>>] :
        a \in Operands \cup {<<Unwind("x", List(<<Num(0), Num(1)>>)), SubqueryCall(FALSE, {}, Query(<<Finish>>))>>,
                             <<Unwind("x", List(<<Num(0), Num(1)>>)), Finish>>},
        b \in Followers}
    \cup {[first |-> a, rest |-> <<<<c, a>>, <<"NEXT", b>>>>] :
        a \in Operands, b \in Followers, c \in {"UNION", "UNION ALL"}}

\* No star over a CALL that may not run.
Queries ==
    {q \in Chains : ~(LastClause(q.first).star /\ \E i \in DOMAIN q.first : q.first[i].k = "call")}
        \cup Unions \cup Nexts
        \cup {Query(<<Unwind("x", List(<<Num(0), Num(1)>>)), c, ReturnAll>>) :
                c \in {m \in Middles : m.k = "call"}}

-----------------------------------------------------------------------------

Init ==
    /\ query \in Queries
    /\ \E e \in {Execute(query)} : expected = e
    /\ source = None
    /\ delivered = <<>>
    /\ status = "new"

\* ensure_program_stream, or materialize_program_fallback: it runs at once.
Open ==
    /\ status = "new"
    /\ \E s \in {BuildStream(query)} :
         IF s # None
         THEN source' = s /\ status' = "stream"
         ELSE /\ source' = Spilled(expected.rows)
              /\ status' = IF expected.ok THEN "spill" ELSE "failed"
    /\ UNCHANGED <<query, expected, delivered>>

RECURSIVE PullUpTo(_, _, _)

\* The rows of one batch: it stops at its size, the end or an error.
PullUpTo(n, s, rows) ==
    \* ProgramStream::next shows the columns of a row
    IF Len(rows) = n THEN [src |-> s, rows |-> rows, got |-> "row"]
    ELSE LET p == Pull(s) IN
         IF p.got = "row" THEN PullUpTo(n, p.src, Append(rows, Shown(p.row, InferQuery(query, {}))))
         ELSE [src |-> p.src, rows |-> rows, got |-> p.got]

\* next_program_stream
NextStreamed(n) ==
    /\ status = "stream"
    /\ \E b \in {PullUpTo(n, source, <<>>)} :
         /\ delivered' = IF b.got = "error" THEN delivered ELSE delivered \o b.rows
         /\ status' = CASE b.got = "error" -> "failed"
                        [] b.got = "end" -> "done"
                        [] OTHER -> status
         /\ source' = IF b.got = "row" THEN b.src ELSE None
    /\ UNCHANGED <<query, expected>>

\* next_spilled: the batch that takes the last row is also the last batch.
NextSpilled(n) ==
    /\ status = "spill"
    /\ LET rows == source.rows
           count == IF n < Len(rows) THEN n ELSE Len(rows)
       IN  /\ delivered' = delivered \o SubSeq(rows, 1, count)
           /\ source' = Spilled(SubSeq(rows, count + 1, Len(rows)))
           /\ status' = IF count = Len(rows) THEN "done" ELSE status
    /\ UNCHANGED <<query, expected>>

Interrupt ==
    /\ status \in {"new", "stream", "spill"}
    /\ status' = "interrupted"
    /\ source' = None
    /\ UNCHANGED <<query, expected, delivered>>

NextBatch == Open \/ (\E n \in 1 .. MaxBatch : NextStreamed(n) \/ NextSpilled(n))

Next == NextBatch \/ Interrupt

Spec == Init /\ [][Next]_vars

-----------------------------------------------------------------------------
HasLimit(q) ==
    \E clauses \in {q.first} \cup {q.rest[i][2] : i \in DOMAIN q.rest} :
        \E i \in DOMAIN clauses :
            clauses[i].k \in {"with", "return"} /\ clauses[i].limit # NoLimit

\* Whatever the batch sizes, a client that reads to the end has the rows of
\* the executor in their order; before that, the first of them.  A stream
\* fails only where the executor does, and it ends well where the executor
\* fails only if a LIMIT kept it from the failing row.
StreamGivesTheRows ==
    /\ expected.ok => /\ IsPrefix(delivered, expected.rows)
                      /\ status = "done" => delivered = expected.rows
                      /\ status # "failed"
    /\ (~expected.ok /\ status = "done") => HasLimit(query)

\* A streamed LIMIT is lazy: when the rows it needs are computed without an
\* error, no later row is evaluated and no batch fails.
LimitIsLazy ==
    LET last == LastClause(query.first)
        Needed(rows) == SubSeq(rows, 1, IF last.skip + last.limit < Len(rows)
                                        THEN last.skip + last.limit ELSE Len(rows))
    IN  ( /\ status = "failed" /\ query.rest = <<>>
          /\ last.k = "return" /\ BuildStream(query) # None
          /\ last.order = <<>> /\ ~last.distinct )
        => ~ OnTable(RunClauses(SubSeq(query.first, 1, Len(query.first) - 1), Seed, EmptyRow),
                     LAMBDA before : Project(last, [before EXCEPT !.rows = Needed(@)])).ok

=============================================================================
