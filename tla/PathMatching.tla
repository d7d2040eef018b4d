------------------------------ MODULE PathMatching ------------------------------
(***************************************************************************)
(* How the general executor matches a MATCH clause (query/completeness/    *)
(* path.rs with path/parsing.rs and path/selector.rs), and how MERGE       *)
(* matches its pattern (query/mutation/execute/matcher.rs).                *)
(*                                                                         *)
(* A graph has the labels of its nodes, the ends and the type of its       *)
(* relationships and the nodes the Graph View shows.  A row is a function  *)
(* from variables to <<"node", id>>, <<"rel", id>>, <<"list", bindings>>,  *)
(* <<"path", nodes, relationships>> or <<"null">>; "" stands for no        *)
(* variable, and type and label 0 for any.  A condition stands for an      *)
(* inline WHERE or a property map: <<v, w>> holds when the element bound   *)
(* to v has a smaller identity than the one bound to w.                    *)
(*                                                                         *)
(* The results are sequences: a row that is found twice counts twice.      *)
(***************************************************************************)
EXTENDS Integers, Sequences, FiniteSets, FiniteSetsExt, TLC

Seqs == INSTANCE SequencesExt

Unbounded == 99

Null == <<"null">>

Flatten(sequences) == Seqs!FlattenSeq(sequences)

\* The results of Op for the elements of a sequence, one after another.
FlatMap(Op(_), s) == Flatten([i \in DOMAIN s |-> Op(s[i])])

Map(Op(_), s) == [i \in DOMAIN s |-> Op(s[i])]

\* The identities of a set in their order.
InOrder(ids) ==
    [k \in 1 .. Cardinality(ids) |-> CHOOSE i \in ids : Cardinality({j \in ids : j < i}) = k - 1]

Visible(g, rel) == {g.ends[rel][1], g.ends[rel][2]} \subseteq g.visible

-----------------------------------------------------------------------------
(* Rows.                                                                   *)

\* bind_node and bind_relationship: null is no element.
BindsTo(row, var, value) == var \in DOMAIN row => row[var] = value

With(row, var, value) == IF var = "" THEN row ELSE (var :> value) @@ row

Without(row, vars) == [v \in DOMAIN row \ vars |-> row[v]]

\* predicate(): what is unknown does not hold.
Holds(row, condition) ==
    condition # <<>> =>
        LET v == condition[1]
            w == condition[2]
        IN /\ {v, w} \subseteq DOMAIN row
           /\ row[v][1] = row[w][1] /\ row[v][1] \in {"node", "rel"}
           /\ row[v][2] < row[w][2]

-----------------------------------------------------------------------------
(* One node and one relationship.  A state of the search has the row, the  *)
(* relationships the clause has used, the node reached (0 for none) and    *)
(* the path of this pattern part.                                          *)

\* The states from matching node id: none or one.
MatchNode(g, spec, st, id) ==
    LET row == With(st.row, spec.var, <<"node", id>>) IN
    IF /\ id \in g.visible
       /\ BindsTo(st.row, spec.var, <<"node", id>>)
       /\ spec.label # 0 => spec.label \in g.labels[id]
       /\ Holds(row, spec.where)
       /\ st.current \in {0, id}
    THEN <<[st EXCEPT !.row = row, !.current = id,
                      !.nodes = IF st.current = 0 THEN Append(@, id) ELSE @]>>
    ELSE <<>>

\* candidate_start_nodes: the nodes of a view in their order.
Candidates(g, spec) ==
    InOrder({id \in g.visible : spec.label # 0 => spec.label \in g.labels[id]})

\* match_start_node
Start(g, spec, st) ==
    CASE st.current # 0 -> MatchNode(g, spec, st, st.current)
      [] st.current = 0 /\ spec.var \in DOMAIN st.row ->
            IF st.row[spec.var][1] = "node" THEN MatchNode(g, spec, st, st.row[spec.var][2]) ELSE <<>>
      [] OTHER -> FlatMap(LAMBDA id : MatchNode(g, spec, st, id), Candidates(g, spec))

Incident(g, node, dir) ==
    CASE dir = "out" -> {r \in DOMAIN g.ends : g.ends[r][1] = node}
      [] dir = "in" -> {r \in DOMAIN g.ends : g.ends[r][2] = node}
      [] dir = "both" -> {r \in DOMAIN g.ends : node \in {g.ends[r][1], g.ends[r][2]}}

\* A change of OtherEnd that WalksAreThePaths notices.
OtherEndTarget(g, rel, node, dir) ==
    CASE dir = "in" -> g.ends[rel][1] [] OTHER -> g.ends[rel][2]

OtherEnd(g, rel, node, dir) ==
    CASE dir = "out" -> g.ends[rel][2]
      [] dir = "in" -> g.ends[rel][1]
      [] dir = "both" -> IF g.ends[rel][1] = node THEN g.ends[rel][2] ELSE g.ends[rel][1]

\* candidate_next_node
MayFollow(g, clause, part, rel, st, r) ==
    /\ Visible(g, r)
    /\ clause.mode = "different" => r \notin st.used
    /\ part.mode = "trail" => \A i \in DOMAIN st.rels : st.rels[i] # r
    /\ part.mode = "acyclic" =>
          \A i \in DOMAIN st.nodes : st.nodes[i] # OtherEnd(g, r, st.current, rel.dir)

\* expand_candidate
Follow(g, rel, st, r) ==
    LET row == With(st.row, rel.var, <<"rel", r>>)
        next == OtherEnd(g, r, st.current, rel.dir)
    IN IF /\ BindsTo(st.row, rel.var, <<"rel", r>>)
          /\ rel.type # 0 => g.types[r] = rel.type
          /\ Holds(row, rel.where)
       THEN <<[st EXCEPT !.row = row, !.current = next, !.nodes = Append(@, next),
                         !.rels = Append(@, r), !.used = @ \cup {r}]>>
       ELSE <<>>

\* expand_one
Expand(g, clause, part, rel, st) ==
    FlatMap(LAMBDA r : Follow(g, rel, st, r),
            InOrder({r \in Incident(g, st.current, rel.dir) : MayFollow(g, clause, part, rel, st, r)}))

-----------------------------------------------------------------------------
(* Repetition.  What is repeated is a relationship,                        *)
(* <<"rel", chain, binding of its variable before>>, or a whole fragment,  *)
(* <<"group", group, vars>>.  The frontier holds the states after depth    *)
(* repetitions with what each variable was bound to in each of them.       *)

\* collect_fragment_variables
RECURSIVE Variables(_)
Variables(fragments) ==
    UNION {LET f == fragments[i] IN
           IF f.kind = "group" THEN Variables(f.fragments)
           ELSE {f.start.var} \cup {f.chains[j].rel.var : j \in DOMAIN f.chains}
                              \cup {f.chains[j].end.var : j \in DOMAIN f.chains}
           : i \in DOMAIN fragments} \ {""}

Maximum(clause, bounds) ==
    IF bounds[2] = Unbounded /\ clause.mode # "different" THEN -1 ELSE bounds[2]

\* complete_repeated_state and bind_repeated_relationship_values
CompleteRelationship(g, chain, before, st, collected) ==
    LET value == <<"list", collected>>
    IN IF before # <<>> /\ before # value THEN <<>>
       ELSE Map(LAMBDA s : [s EXCEPT !.row = With(@, chain.rel.var, value)],
                MatchNode(g, chain.end, st, st.current))

\* complete_quantified_state
CompleteGroup(vars, st, collected) ==
    [st EXCEPT !.row = [v \in vars |-> <<"list", collected[v]>>] @@ @]

RECURSIVE Fragments(_, _, _, _, _)

\* advance_repeated_state
AdvanceRelationship(g, clause, part, chain, st, collected) ==
    LET var == chain.rel.var
        bare == [st EXCEPT !.row = Without(@, {var})]
    IN Map(LAMBDA s : <<[s EXCEPT !.row = Without(@, {var})],
                        IF var = "" THEN collected ELSE Append(collected, s.row[var])>>,
           Expand(g, clause, part, chain.rel, bare))

\* advance_quantified_state
AdvanceGroup(g, clause, part, group, vars, st, collected) ==
    LET bare == [st EXCEPT !.row = Without(@, vars)]
    IN Map(LAMBDA s : <<[s EXCEPT !.row = Without(@, vars)],
                        [v \in vars |-> IF v \in DOMAIN s.row THEN Append(collected[v], s.row[v])
                                                              ELSE collected[v]]>>,
           SelectSeq(Fragments(g, clause, part, group.fragments, <<bare>>),
                     LAMBDA s : Holds(s.row, group.where)))

\* walk_frontier
RECURSIVE Walk(_, _, _, _, _, _, _)
Walk(g, clause, part, repeated, bounds, frontier, depth) ==
    LET it == repeated[2] IN
    IF frontier = <<>> \/ depth > bounds[2] THEN <<>>
    ELSE FlatMap(LAMBDA s : CASE depth < bounds[1] -> <<>>
                              [] depth >= bounds[1] /\ repeated[1] = "rel" ->
                                    CompleteRelationship(g, it, repeated[3], s[1], s[2])
                              [] depth >= bounds[1] /\ repeated[1] = "group" ->
                                    <<CompleteGroup(repeated[3], s[1], s[2])>>,
                 frontier)
      \o IF depth = bounds[2] THEN <<>>
         ELSE Walk(g, clause, part, repeated, bounds,
                   FlatMap(LAMBDA s : IF repeated[1] = "rel"
                                      THEN AdvanceRelationship(g, clause, part, it, s[1], s[2])
                                      ELSE AdvanceGroup(g, clause, part, it, repeated[3], s[1], s[2]),
                           frontier),
                   depth + 1)

\* execute_chain and execute_repeated_relationship
Chain(g, clause, part, chain, st) ==
    IF chain.grouped
    THEN Walk(g, clause, part,
              <<"rel", chain, IF chain.rel.var \in DOMAIN st.row THEN st.row[chain.rel.var] ELSE <<>>>>,
              <<chain.bounds[1], Maximum(clause, chain.bounds)>>, <<<<st, <<>>>>>>, 0)
    ELSE FlatMap(LAMBDA s : MatchNode(g, chain.end, s, s.current), Expand(g, clause, part, chain.rel, st))

\* The chains of execute_simple
RECURSIVE Chains(_, _, _, _, _)
Chains(g, clause, part, chains, states) ==
    IF chains = <<>> THEN states
    ELSE Chains(g, clause, part, Tail(chains),
                FlatMap(LAMBDA s : Chain(g, clause, part, Head(chains), s), states))

\* execute_quantified
Quantified(g, clause, part, f, vars, states) ==
    Walk(g, clause, part, <<"group", f, vars>>, <<f.bounds[1], Maximum(clause, f.bounds)>>,
         Map(LAMBDA s : <<s, [v \in vars |-> <<>>]>>, states), 0)

\* execute_simple and execute_quantified
Fragment(g, clause, part, f, states) ==
    IF f.kind = "simple"
    THEN Chains(g, clause, part, f.chains, FlatMap(LAMBDA s : Start(g, f.start, s), states))
    ELSE Quantified(g, clause, part, f, Variables(f.fragments), states)

Fragments(g, clause, part, fragments, states) ==
    IF fragments = <<>> \/ states = <<>> THEN states
    ELSE Fragments(g, clause, part, Tail(fragments), Fragment(g, clause, part, Head(fragments), states))

-----------------------------------------------------------------------------
(* Selectors.                                                              *)

RECURSIVE LexLess(_, _)
LexLess(s, t) ==
    IF s = <<>> THEN t # <<>> ELSE IF t = <<>> THEN FALSE
    ELSE s[1] < t[1] \/ (s[1] = t[1] /\ LexLess(Tail(s), Tail(t)))

\* compare_paths
Shorter(p, q) ==
    \/ Len(p.rels) < Len(q.rels)
    \/ Len(p.rels) = Len(q.rels) /\ LexLess(p.rels, q.rels)

\* sort_paths, a stable sort.
Sorted(paths) ==
    LET Before(i, j) == \/ Shorter(paths[i], paths[j])
                        \/ ~ Shorter(paths[j], paths[i]) /\ i < j
    IN [k \in DOMAIN paths |->
          paths[CHOOSE i \in DOMAIN paths : Cardinality({j \in DOMAIN paths : Before(j, i)}) = k - 1]]

Take(paths, k) == SubSeq(paths, 1, Min({k, Len(paths)}))

\* What a selector keeps of the sorted paths between two nodes.
Kept(selector, paths) ==
    LET Lengths(i) == {Len(paths[j].rels) : j \in 1 .. i} IN
    CASE selector[1] \in {"any", "shortest paths"} -> Take(paths, selector[2])
      [] selector[1] = "any shortest" -> Take(paths, 1)
      [] selector[1] = "all shortest" ->
            SelectSeq(paths, LAMBDA p : Len(p.rels) = Len(paths[1].rels))
      [] selector[1] = "shortest groups" ->
            Take(paths, Cardinality({i \in DOMAIN paths : Cardinality(Lengths(i)) <= selector[2]}))

\* apply_selector; a path without nodes has no ends.
Ends(st) == IF st.nodes = <<>> THEN <<0, 0>> ELSE <<st.nodes[1], st.nodes[Len(st.nodes)]>>

Select(selector, states) ==
    LET partitions == {Ends(states[i]) : i \in DOMAIN states}
        Between(e) == SelectSeq(states, LAMBDA st : Ends(st) = e)
        RECURSIVE Each(_)
        Each(rest) == IF rest = {} THEN <<>>
                      ELSE LET e == CHOOSE e \in rest : \A f \in rest : ~ LexLess(f, e)
                           IN Kept(selector, Sorted(Between(e))) \o Each(rest \ {e})
    IN IF selector[1] = "all" THEN states ELSE Each(partitions)

-----------------------------------------------------------------------------
(* A part and a clause.                                                    *)

\* execute_part with bind_part_paths
Part(g, clause, part, row, used) ==
    LET initial == [row |-> row, used |-> used, current |-> 0, nodes |-> <<>>, rels |-> <<>>]
    IN Select(part.selector,
              Map(LAMBDA s : [s EXCEPT !.row = With(@, part.path, <<"path", s.nodes, s.rels>>)],
                  Fragments(g, clause, part, part.fragments, <<initial>>)))

\* execute_match_parts
RECURSIVE Parts(_, _, _, _)
Parts(g, clause, parts, states) ==
    IF parts = <<>> \/ states = <<>> THEN states
    ELSE Parts(g, clause, Tail(parts),
               FlatMap(LAMBDA s : Part(g, clause, Head(parts), s.row, s.used), states))

\* execute_match for one row: the rows of the clause.
Match(g, clause, row) ==
    Map(LAMBDA s : s.row, Parts(g, clause, clause.parts, <<[row |-> row, used |-> {}]>>))

-----------------------------------------------------------------------------
(* MERGE: a start node and a chain of single relationships, each of one    *)
(* type, depth first.                                                      *)

\* node_matches
MergeNode(g, spec, row, id) ==
    /\ id \in g.visible
    /\ BindsTo(row, spec.var, <<"node", id>>)
    /\ spec.label # 0 => spec.label \in g.labels[id]

\* relationship_is_usable and relationship_binding_matches
MergeUsable(g, rel, st, r) ==
    /\ r \notin st.used /\ Visible(g, r)
    /\ g.types[r] = rel.type
    /\ BindsTo(st.row, rel.var, <<"rel", r>>)

\* match_path_from and match_next_relationship
RECURSIVE MergeFrom(_, _, _, _)
MergeFrom(g, part, k, st) ==
    LET chain == part.fragments[1].chains[k]
        Next(r) == LET end == OtherEnd(g, r, st.current, chain.rel.dir) IN
                   [row |-> With(With(st.row, chain.rel.var, <<"rel", r>>), chain.end.var, <<"node", end>>),
                    used |-> st.used \cup {r}, current |-> end,
                    nodes |-> Append(st.nodes, end), rels |-> Append(st.rels, r)]
    IN IF k > Len(part.fragments[1].chains)
       THEN <<With(st.row, part.path, <<"path", st.nodes, st.rels>>)>>
       ELSE FlatMap(LAMBDA r : MergeFrom(g, part, k + 1, Next(r)),
                    InOrder({r \in Incident(g, st.current, chain.rel.dir) :
                               /\ MergeUsable(g, chain.rel, st, r)
                               /\ MergeNode(g, chain.end, st.row, OtherEnd(g, r, st.current, chain.rel.dir))}))

\* match_pattern
MergeMatch(g, part, row) ==
    LET spec == part.fragments[1].start
        ids == IF spec.var \in DOMAIN row
               THEN IF row[spec.var][1] = "node" THEN <<row[spec.var][2]>> ELSE <<>>
               ELSE Candidates(g, spec)
        State(id) == [row |-> With(row, spec.var, <<"node", id>>), used |-> {}, current |-> id,
                      nodes |-> <<id>>, rels |-> <<>>]
    IN FlatMap(LAMBDA id : MergeFrom(g, part, 1, State(id)),
               SelectSeq(ids, LAMBDA id : MergeNode(g, spec, row, id)))

=============================================================================
