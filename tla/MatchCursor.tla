------------------------------ MODULE MatchCursor ------------------------------
(***************************************************************************)
(* The streamed pipeline of MATCH clauses (query/stream/match_pipeline.rs):*)
(* a stack of clauses, each with a stack of cursors over its comma         *)
(* separated parts.  A cursor reads pages of start nodes, of relationships *)
(* of the current start or of index entries and yields one row at a time;  *)
(* the next part, or the next clause, starts over for each row.            *)
(*                                                                         *)
(* A part is a node or one relationship between two nodes, and a clause's  *)
(* WHERE is left to the end: `where' is a variable whose element must be   *)
(* in hot, as for a property comparison, or "".  With `seek' the start or  *)
(* the relationship is read from the index on that property.               *)
(***************************************************************************)
EXTENDS PathMatching

CONSTANT Batch     \* PIPELINE_BATCH

VARIABLES
    query,    \* [graph, steps]: what is executed
    clauses,  \* the stack of clause cursors
    out,      \* the rows returned
    ended     \* the pipeline has returned no row

vars == <<query, clauses, out, ended>>

graph == query.graph

steps == query.steps

-----------------------------------------------------------------------------
(* Cursors.                                                                *)

NewPart(part, row, used) ==
    [part |-> part, base |-> row, used |-> used,
     starts |-> <<>>, startAfter |-> 0, startsRead |-> FALSE, given |-> FALSE, start |-> 0,
     rels |-> <<>>, relAfter |-> 0, relsRead |-> FALSE,
     ids |-> <<>>, idAfter |-> 0, idsRead |-> FALSE, rows |-> <<>>]

NewClause(step, row) ==
    [step |-> step, base |-> row, parts |-> <<NewPart(step.parts[1], row, {})>>,
     matched |-> FALSE, nullEmitted |-> FALSE]

IsHop(c) == c.part.rel # <<>>

Rel(c) == c.part.rel[1]

End(c) == c.part.end[1]

\* The page of ids after an id, and whether it was the last.
Page(ids, after) ==
    LET rest == InOrder({id \in ids : id > after})
        page == SubSeq(rest, 1, Min({Batch, Len(rest)}))
    IN [items |-> page, last |-> Len(rest) <= Batch,
        next |-> IF Len(rest) <= Batch THEN after ELSE page[Len(page)]]

\* node_matches
NodeMatches(spec, id) ==
    id \in graph.visible /\ (spec.label # 0 => spec.label \in graph.labels[id])

\* What a start is scanned from: an index on the property, or the label.
StartDomain(part) ==
    {id \in DOMAIN graph.labels :
        /\ part.start.label # 0 => part.start.label \in graph.labels[id]
        /\ part.startSeek => <<"node", id>> \in graph.hot}

RelDomain(c) ==
    {r \in Incident(graph, c.start, Rel(c).dir) : Rel(c).type # 0 => graph.types[r] = Rel(c).type}

IndexDomain(c) ==
    {r \in DOMAIN graph.ends : /\ Rel(c).type # 0 => graph.types[r] = Rel(c).type
                               /\ <<"rel", r>> \in graph.hot}

\* relationship_already_bound
AlreadyBound(c, r) ==
    Rel(c).var \in DOMAIN c.base /\ c.base[Rel(c).var] = <<"rel", r>>

\* bind_relationship_row: no row, or one with its used relationships.
HopRow(c, start, end, r) ==
    LET first == With(c.base, c.part.start.var, <<"node", start>>)
        second == With(first, Rel(c).var, <<"rel", r>>)
    IN IF /\ r \in c.used => AlreadyBound(c, r)
          /\ BindsTo(c.base, c.part.start.var, <<"node", start>>)
          /\ BindsTo(first, Rel(c).var, <<"rel", r>>)
          /\ BindsTo(second, End(c).var, <<"node", end>>)
       THEN <<[row |-> With(With(second, End(c).var, <<"node", end>>),
                            c.part.path, <<"path", <<start, end>>, <<r>>>>),
               used |-> c.used \cup {r}]>>
       ELSE <<>>

\* match_relationship
MatchRelationship(c, r) ==
    LET end == OtherEnd(graph, r, c.start, Rel(c).dir)
    IN IF Visible(graph, r) /\ NodeMatches(End(c), end) THEN HopRow(c, c.start, end, r) ELSE <<>>

\* The orientations of a relationship found in an index, as they are tried.
Orientations(r, dir) ==
    LET source == graph.ends[r][1]
        target == graph.ends[r][2]
    IN CASE dir = "out" -> <<<<source, target>>>>
         [] dir = "in" -> <<<<target, source>>>>
         [] dir = "both" -> IF source = target THEN <<<<source, target>>>>
                            ELSE <<<<target, source>>, <<source, target>>>>

\* match_indexed_relationship_orientation for each of them.
MatchIndexed(c, r) ==
    LET pairs == Orientations(r, Rel(c).dir)
        Row(e) == IF /\ Visible(graph, r)
                     /\ NodeMatches(c.part.start, e[1]) /\ NodeMatches(End(c), e[2])
                  THEN HopRow(c, e[1], e[2], r) ELSE <<>>
    IN Flatten([i \in DOMAIN pairs |-> Row(pairs[i])])

-----------------------------------------------------------------------------
(* What happens to a row.                                                  *)

Top == clauses[Len(clauses)]

Cursor == Top.parts[Len(Top.parts)]

\* The clause cursors with the top one, or its top part, replaced.
WithTop(clause) == [clauses EXCEPT ![Len(clauses)] = clause]

WithCursor(c) == WithTop([Top EXCEPT !.parts[Len(Top.parts)] = c])

Passes(step, row) ==
    step.where # "" => step.where \in DOMAIN row /\ row[step.where] \in graph.hot

\* A row of a clause goes to the next clause or out.
Yield(stack, row) ==
    IF Len(stack) = Len(steps)
    THEN clauses' = stack /\ out' = Append(out, row)
    ELSE clauses' = Append(stack, NewClause(steps[Len(stack) + 1], row)) /\ UNCHANGED out

\* A row of a part goes to the next part or to the WHERE.
Found(c, row, used) ==
    IF Len(Top.parts) < Len(Top.step.parts)
    THEN /\ clauses' = WithTop([Top EXCEPT !.parts = Append([@ EXCEPT ![Len(@)] = c],
                                    NewPart(Top.step.parts[Len(@) + 1], row, used))])
         /\ UNCHANGED out
    ELSE IF Passes(Top.step, row)
    THEN Yield(WithTop([Top EXCEPT !.parts[Len(Top.parts)] = c, !.matched = TRUE]), row)
    ELSE clauses' = WithCursor(c) /\ UNCHANGED out

Continue(c) == clauses' = WithCursor(c) /\ UNCHANGED out

Exhausted ==
    /\ clauses' = WithTop([Top EXCEPT !.parts = SubSeq(@, 1, Len(@) - 1)])
    /\ UNCHANGED out

Reading == clauses # <<>> /\ Top.parts # <<>> /\ ~ ended

-----------------------------------------------------------------------------
(* One iteration of the loops of PartCursor::next_row.                     *)

TryRelationship ==
    /\ Reading /\ IsHop(Cursor) /\ ~ Cursor.part.relSeek
    /\ Cursor.rels # <<>>
    /\ LET c == [Cursor EXCEPT !.rels = Tail(@)]
           found == MatchRelationship(c, Head(Cursor.rels))
       IN IF found = <<>> THEN Continue(c) ELSE Found(c, found[1].row, found[1].used)
    /\ UNCHANGED <<query, ended>>

LoadRelationships ==
    /\ Reading /\ IsHop(Cursor) /\ ~ Cursor.part.relSeek
    /\ Cursor.rels = <<>> /\ Cursor.start # 0 /\ ~ Cursor.relsRead
    /\ LET page == Page(RelDomain(Cursor), Cursor.relAfter)
       IN Continue([Cursor EXCEPT !.rels = page.items, !.relAfter = page.next, !.relsRead = page.last])
    /\ UNCHANGED <<query, ended>>

\* next_relationship_row and next_row want a start.
WantsStart ==
    /\ Reading /\ (IsHop(Cursor) => ~ Cursor.part.relSeek)
    /\ Cursor.rels = <<>> /\ (Cursor.start # 0 => Cursor.relsRead)

\* A change of UseStart that SameRowsAsTheExecutor notices.
UseStartKeeps(c, id) ==
    LET row == With(c.base, c.part.start.var, <<"node", id>>) IN
    IF IsHop(c)
    THEN Continue([c EXCEPT !.start = id, !.relsRead = FALSE])
    ELSE IF BindsTo(c.base, c.part.start.var, <<"node", id>>)
    THEN Found(c, With(row, c.part.path, <<"path", <<id>>, <<>>>>), c.used)
    ELSE Exhausted

UseStart(c, id) ==
    LET row == With(c.base, c.part.start.var, <<"node", id>>) IN
    IF IsHop(c)
    THEN Continue([c EXCEPT !.start = id, !.relAfter = 0, !.relsRead = FALSE])
    ELSE IF BindsTo(c.base, c.part.start.var, <<"node", id>>)
    THEN Found(c, With(row, c.part.path, <<"path", <<id>>, <<>>>>), c.used)
    ELSE Exhausted

Given(c) == c.part.start.var \in DOMAIN c.base

GivenStart ==
    /\ WantsStart /\ Given(Cursor)
    /\ LET value == Cursor.base[Cursor.part.start.var]
       IN IF ~ Cursor.given /\ value[1] = "node" /\ NodeMatches(Cursor.part.start, value[2])
          THEN UseStart([Cursor EXCEPT !.given = TRUE], value[2])
          ELSE Exhausted
    /\ UNCHANGED <<query, ended>>

ScanStart ==
    /\ WantsStart /\ ~ Given(Cursor)
    /\ Cursor.starts # <<>>
    /\ LET c == [Cursor EXCEPT !.starts = Tail(@)]
           id == Head(Cursor.starts)
       IN IF NodeMatches(c.part.start, id) THEN UseStart(c, id) ELSE Continue(c)
    /\ UNCHANGED <<query, ended>>

LoadStarts ==
    /\ WantsStart /\ ~ Given(Cursor)
    /\ Cursor.starts = <<>> /\ ~ Cursor.startsRead
    /\ LET page == Page(StartDomain(Cursor.part), Cursor.startAfter)
       IN Continue([Cursor EXCEPT !.starts = page.items, !.startAfter = page.next, !.startsRead = page.last])
    /\ UNCHANGED <<query, ended>>

NoMoreStarts ==
    /\ WantsStart /\ ~ Given(Cursor)
    /\ Cursor.starts = <<>> /\ Cursor.startsRead
    /\ Exhausted
    /\ UNCHANGED <<query, ended>>

\* next_indexed_relationship_row: the last orientation comes first.
Indexed == Reading /\ IsHop(Cursor) /\ Cursor.part.relSeek

PopIndexed ==
    /\ Indexed /\ Cursor.rows # <<>>
    /\ LET k == Len(Cursor.rows)
       IN Found([Cursor EXCEPT !.rows = SubSeq(@, 1, k - 1)], Cursor.rows[k].row, Cursor.rows[k].used)
    /\ UNCHANGED <<query, ended>>

TryIndexed ==
    /\ Indexed /\ Cursor.rows = <<>> /\ Cursor.ids # <<>>
    /\ Continue([Cursor EXCEPT !.ids = Tail(@), !.rows = MatchIndexed(Cursor, Head(Cursor.ids))])
    /\ UNCHANGED <<query, ended>>

LoadIndexed ==
    /\ Indexed /\ Cursor.rows = <<>> /\ Cursor.ids = <<>>
    /\ IF Cursor.idsRead THEN Exhausted
       ELSE LET page == Page(IndexDomain(Cursor), Cursor.idAfter)
            IN Continue([Cursor EXCEPT !.ids = page.items, !.idAfter = page.next, !.idsRead = page.last])
    /\ UNCHANGED <<query, ended>>

-----------------------------------------------------------------------------
(* The clauses.                                                            *)

PartVariables(part) ==
    ({part.path, part.start.var}
        \cup IF part.rel = <<>> THEN {} ELSE {part.rel[1].var, part.end[1].var}) \ {""}

\* optional_or_done
NullRow(clause) ==
    LET vs == UNION {PartVariables(clause.step.parts[i]) : i \in DOMAIN clause.step.parts}
    IN clause.base @@ [v \in vs |-> Null]

ClauseDone ==
    /\ clauses # <<>> /\ Top.parts = <<>>
    /\ IF Top.step.optional /\ ~ Top.matched /\ ~ Top.nullEmitted
       THEN Yield(WithTop([Top EXCEPT !.nullEmitted = TRUE]), NullRow(Top))
       ELSE clauses' = SubSeq(clauses, 1, Len(clauses) - 1) /\ UNCHANGED out
    /\ UNCHANGED <<query, ended>>

\* A query without MATCH starts from one empty row.
EmptySeed ==
    /\ steps = <<>> /\ out = <<>>
    /\ out' = <<<<>>>>
    /\ UNCHANGED <<query, clauses, ended>>

EndOfRows ==
    /\ ~ ended /\ clauses = <<>> /\ (steps = <<>> => out # <<>>)
    /\ ended' = TRUE
    /\ UNCHANGED <<query, clauses, out>>

Next ==
    \/ TryRelationship \/ LoadRelationships
    \/ GivenStart \/ ScanStart \/ LoadStarts \/ NoMoreStarts
    \/ PopIndexed \/ TryIndexed \/ LoadIndexed
    \/ ClauseDone \/ EmptySeed \/ EndOfRows

Start0(q) == IF q.steps = <<>> THEN <<>> ELSE <<NewClause(q.steps[1], <<>>)>>

-----------------------------------------------------------------------------
(* MatchCursor for graphs of three nodes and three relationships and for   *)
(* queries of up to two clauses of up to two parts, with and without       *)
(* bound starts, OPTIONAL, WHERE and indexes.                              *)

Nodes == 1 .. 3

Graphs ==
    {[labels |-> <<{1}, {1, 2}, {2}>>, types |-> <<1, 1, 2>>, ends |-> e, visible |-> v,
      hot |-> {<<"node", 1>>, <<"node", 2>>, <<"rel", 2>>, <<"rel", 3>>}] :
        e \in {<<<<1, 1>>, <<1, 2>>, <<2, 3>>>>, <<<<2, 1>>, <<1, 2>>, <<1, 3>>>>}, v \in {Nodes, {1, 2}}}

N(var, label) == [var |-> var, label |-> label, where |-> <<>>]

R(var, type, dir) == [var |-> var, type |-> type, dir |-> dir, where |-> <<>>]

Lone(a, label, seek) ==
    [path |-> "", start |-> N(a, label), rel |-> <<>>, end |-> <<>>, startSeek |-> seek, relSeek |-> FALSE]

Hop(path, start, rel, end) ==
    [path |-> path, start |-> start, rel |-> <<rel>>, end |-> <<end>>, startSeek |-> FALSE, relSeek |-> FALSE]

Step(optional, parts, where) == [optional |-> optional, parts |-> parts, where |-> where]

Directions == {"out", "in", "both"}

\* One clause, read from an index or not.
OneClause ==
    {<<Step(o, <<[Hop("p", N("a", 0), R("r", type, dir), N(b, 0)) EXCEPT !.relSeek = seek]>>, "r")>> :
        o \in BOOLEAN, type \in {0, 1}, dir \in Directions, b \in {"a", "b"}, seek \in BOOLEAN}
    \cup
    {<<Step(o, <<[Hop("", N("a", 1), R("r", 0, dir), N("b", 2)) EXCEPT !.startSeek = seek]>>, "a")>> :
        o \in BOOLEAN, dir \in Directions, seek \in BOOLEAN}

\* Two parts that share a node, an end or nothing.
SecondParts ==
    {Hop("q", N(c, 0), R("s", 0, dir), N("d", 0)) : c \in {"a", "b", "c"}, dir \in Directions}

IndexedPart == [Hop("q", N("c", 0), R("s", 2, "both"), N("b", 0)) EXCEPT !.relSeek = TRUE]

TwoParts ==
    {<<Step(o, <<Hop("p", N("a", 0), R("r", 1, "out"), N("b", 0)), second>>, where)>> :
        o \in BOOLEAN, where \in {"", "s"}, second \in SecondParts}
    \cup {<<Step(o, <<Hop("p", N("a", 0), R("r", 0, "out"), N("b", 0)), IndexedPart>>, "s")>> : o \in BOOLEAN}

\* A clause after another: bound starts, ends and relationships, and nulls.
TwoClauses ==
    {<<Step(o, <<Hop("", N("a", 1), R("r", type, "out"), N("b", 0))>>, ""), Step(o2, parts, where)>> :
        o \in BOOLEAN, o2 \in BOOLEAN, type \in {1}, where \in {"", "a"},
        parts \in {<<Hop("p", N(c, 0), R(s, 0, "both"), N("d", 0))>> : c \in {"a", "b", "c"}, s \in {"s", "r"}}
                     \cup {<<Lone("b", 2, FALSE)>>, <<Lone("c", 1, FALSE), Lone("a", 0, FALSE)>>}}

Queries ==
    OneClause \cup TwoParts \cup TwoClauses \cup {<<>>, <<Step(FALSE, <<Lone("a", 1, TRUE)>>, "a")>>}

Init ==
    \E g \in Graphs, s \in Queries :
        /\ query = [graph |-> g, steps |-> s]
        /\ clauses = Start0(query) /\ out = <<>> /\ ended = FALSE

Spec == Init /\ [][Next]_vars

-----------------------------------------------------------------------------
Rows(s) == [row \in {s[i] : i \in DOMAIN s} |-> Cardinality({i \in DOMAIN s : s[i] = row})]

\* The clause for the general executor.
AsPart(part) ==
    [path |-> part.path, mode |-> "walk", selector |-> <<"all", 0>>,
     fragments |-> <<[kind |-> "simple", start |-> part.start,
                      chains |-> IF part.rel = <<>> THEN <<>>
                                 ELSE <<[rel |-> part.rel[1], end |-> part.end[1],
                                         bounds |-> <<1, 1>>, grouped |-> FALSE]>>]>>]

\* The rows of a clause for one row, from the meaning of MATCH.
Meaning(step, row) ==
    LET found == SelectSeq(Match(graph, [mode |-> "different", parts |-> [i \in DOMAIN step.parts |-> AsPart(step.parts[i])]],
                                 row),
                           LAMBDA r : Passes(step, r))
        vs == UNION {PartVariables(step.parts[i]) : i \in DOMAIN step.parts}
    IN IF found = <<>> /\ step.optional THEN <<row @@ [v \in vs |-> Null]>> ELSE found

Answer ==
    LET Rows0[k \in 0 .. Len(steps)] ==
            IF k = 0 THEN <<<<>>>>
            ELSE LET rows == Rows0[k - 1] IN Flatten([i \in DOMAIN rows |-> Meaning(steps[k], rows[i])])
    IN Rows0[Len(steps)]

\* The pipeline returns the rows the general executor finds, as often, for
\* any page size: no page, start, orientation or bound start is skipped or
\* read twice, indexes change nothing and OPTIONAL adds its row of nulls
\* exactly when nothing passed the WHERE.
SameRowsAsTheExecutor == ended => Rows(out) = Rows(Answer)

=============================================================================
