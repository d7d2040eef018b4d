----------------------------- MODULE ReadRouting -----------------------------
(***************************************************************************)
(* Which executor answers a read.  `prepare` sends a query either to the   *)
(* program executor (`requires_program`) or to the fixed-path reader,      *)
(* which lowers every MATCH to a MatchStep and the RETURN to a             *)
(* ProjectionPlan and refuses what it cannot lower.  When a program is     *)
(* streamed the same lowering decides between the stream's own MATCH, a    *)
(* clause executed per row, and giving the whole program to the            *)
(* materialising executor.  The tests that choose and the lowering that is *)
(* chosen were written apart; the properties say that no read falls        *)
(* between them and that no part of a pattern is dropped on the way.       *)
(***************************************************************************)
EXTENDS Naturals, FiniteSets

\* Names the patterns speak of.
Names == {"A", "B"}

VARIABLES query, route, step

vars == <<query, route, step>>

\* A query: composite says that another clause (WITH, UNWIND, CALL ...) forces
\* a program; part is its only pattern part; last is its final clause and
\* limit the form of that clause's LIMIT.
\* An element: names is the form of its label/type expression, map its
\* property map, where an inline predicate, varlen a `*` range.

Advanced(element) ==
    \/ element.where
    \/ element.map = "entries"
    \/ element.names \in {"dynamic", "wildcard", "not", "or", "and"}

HasAdvancedPattern(q) ==
    \/ q.matchMode
    \/ q.part.hops > 1
    \/ Advanced(q.part.node)
    \/ q.part.hops > 0 /\ Advanced(q.part.rel)

RequiresProgram(q) ==
    \/ q.composite
    \/ q.part.selector
    \/ q.part.hops > 0 /\ q.part.rel.varlen
    \/ HasAdvancedPattern(q)

\* What a label/type expression accepts: the sets of names that satisfy it.
Accepts(names) ==
    CASE names = "none" -> SUBSET Names
      [] names = "one" -> {s \in SUBSET Names : "A" \in s}
      [] names \in {"colons", "and"} -> {Names}
      [] names = "or" -> SUBSET Names \ {{}}
      [] names = "not" -> {s \in SUBSET Names : "A" \notin s}
      [] names = "wildcard" -> SUBSET Names \ {{}}
      [] names = "dynamic" -> {s \in SUBSET Names : "B" \in s}

\* Every LabelName below the element, whatever operator joins them.
NamesBelow(names) ==
    CASE names \in {"one", "not"} -> {"A"}
      [] names \in {"colons", "and", "or"} -> Names
      [] OTHER -> {}

\* reject_unsupported_pattern_predicates: any Map expression, entries or not.
PredicatesRejected(element) == element.where \/ element.map # "none"

NamesRejected(element, ofNode) ==
    \/ element.names \in {"not", "dynamic", "wildcard", "or"}
    \/ element.names = "and" /\ ~ofNode

Rejected == "rejected"

LowerNode(element) ==
    IF PredicatesRejected(element) \/ NamesRejected(element, TRUE) THEN Rejected
    ELSE "lowered"

LowerRelationship(element) ==
    IF \/ PredicatesRejected(element)
       \/ NamesRejected(element, FALSE)
       \/ element.varlen
       \/ Cardinality(NamesBelow(element.names)) > 1
    THEN Rejected ELSE "lowered"

LowerPart(part) ==
    IF \/ part.selector
       \/ part.hops > 1
       \/ LowerNode(part.node) = Rejected
       \/ part.hops = 1 /\ LowerRelationship(part.rel) = Rejected
    THEN Rejected ELSE "lowered"

LowerMatch(q) ==
    IF q.matchMode \/ LowerPart(q.part) = Rejected THEN Rejected ELSE "lowered"

\* constant_usize takes a literal or a parameter, not any other expression.
LowerProjection(q) == IF q.limit = "expression" THEN Rejected ELSE "lowered"

\* lower_clauses executes MATCH and one RETURN, and no other clause.
LowerRead(q) ==
    IF LowerMatch(q) = Rejected \/ q.last # "RETURN" \/ LowerProjection(q) = Rejected
    THEN Rejected ELSE "lowered"

\* match_requires_complex_executor
RequiresComplex(q) ==
    \/ q.matchMode
    \/ q.part.selector
    \/ q.part.hops > 0 /\ q.part.rel.varlen

(* Queries of one pattern part: every form of a node with a plain hop, and *)
(* every form of a hop between plain nodes, under each option of the query. *)
Element(names, map, where, varlen) ==
    [names |-> names, map |-> map, where |-> where, varlen |-> varlen]

Maps == {"none", "empty", "entries"}
Plain == Element("none", "none", FALSE, FALSE)

NodeForms ==
    {Element(n, m, w, FALSE) :
        n \in {"none", "one", "colons", "and", "or", "not", "dynamic", "wildcard"},
        m \in Maps, w \in BOOLEAN}
RelForms ==
    {Element(n, m, w, v) :
        n \in {"none", "one", "and", "or", "not", "dynamic", "wildcard"},
        m \in Maps, w \in BOOLEAN, v \in BOOLEAN}

Parts ==
    {[selector |-> s, hops |-> h, node |-> n, rel |-> Plain] :
        s \in BOOLEAN, h \in 0 .. 2, n \in NodeForms}
    \cup {[selector |-> s, hops |-> h, node |-> Plain, rel |-> r] :
        s \in BOOLEAN, h \in 1 .. 2, r \in RelForms}

Queries ==
    {[composite |-> c, matchMode |-> mm, part |-> p, last |-> l, limit |-> k] :
        c \in BOOLEAN, mm \in BOOLEAN, p \in Parts, l \in {"RETURN", "FINISH"},
        k \in {"none", "literal", "parameter", "expression"}}

Init ==
    /\ query \in Queries
    /\ route = "none"
    /\ step = "none"

\* prepare_inner: the program executor takes what requires it ...
PrepareProgram ==
    /\ route = "none"
    /\ RequiresProgram(query)
    /\ route' = "program"
    /\ UNCHANGED <<query, step>>

\* ... and the reader lowers the rest, or refuses the query.
PrepareRead ==
    /\ route = "none"
    /\ ~RequiresProgram(query)
    /\ route' = IF LowerRead(query) = Rejected THEN "refused" ELSE "reader"
    /\ step' = IF LowerRead(query) = Rejected THEN "none" ELSE "step"
    /\ UNCHANGED query

\* build_program_stream looks at the program's MATCH.  FINISH and a LIMIT that
\* is no literal leave the whole program to the materialising executor.
ChooseSource ==
    /\ route = "program"
    /\ step = "none"
    /\ step' = CASE query.last # "RETURN" -> "materialised"
                 [] query.last = "RETURN" /\ RequiresComplex(query) ->
                        IF LowerProjection(query) = Rejected THEN "materialised" ELSE "batch"
                 [] OTHER ->
                        IF LowerMatch(query) = Rejected \/ LowerProjection(query) = Rejected
                        THEN "materialised" ELSE "step"
    /\ UNCHANGED <<query, route>>

Next == PrepareProgram \/ PrepareRead \/ ChooseSource

Spec == Init /\ [][Next]_vars

-----------------------------------------------------------------------------
\* A MatchStep keeps the first hop, the labels of a node (all of them) and at
\* most one relationship type, and nothing else of the pattern: whatever is
\* lowered, in the reader or in a stream, must mean exactly that.  The lowering
\* gathers names from anywhere below the element, so a form that slipped past
\* the tests would silently change meaning.
NothingDropped ==
    step = "step" =>
        LET part == query.part
            elements == {part.node} \cup (IF part.hops = 0 THEN {} ELSE {part.rel})
        IN  /\ ~query.matchMode /\ ~part.selector /\ part.hops <= 1
            /\ \A element \in elements :
                 /\ ~element.where
                 /\ element.map # "entries"
                 /\ ~element.varlen
                 /\ Accepts(element.names) =
                        {s \in SUBSET Names : NamesBelow(element.names) \subseteq s}

\* What is documented but refused: FINISH, LIMIT expressions and empty maps.
Documented(q) ==
    /\ q.last = "RETURN"
    /\ q.limit # "expression"
    /\ q.part.node.map # "empty"
    /\ q.part.hops > 0 => q.part.rel.map # "empty"

\* Nothing falls between the two executors: a read that is not sent to the
\* program executor can be lowered by the reader.
NoReadIsRefused == Documented(query) => route # "refused"

=============================================================================
