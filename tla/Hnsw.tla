-------------------------------- MODULE Hnsw --------------------------------
(***************************************************************************)
(* The derived HNSW graph of a vector or semantic index: its construction  *)
(* entry by entry, and the query over it, which widens its search until it *)
(* has enough visible hits or gives the graph up for an exact scan.        *)
(* A vector is a point on a line; the nearer, the more similar.            *)
(***************************************************************************)
EXTENDS Integers, Sequences, FiniteSets, FiniteSetsExt, SequencesExt

CONSTANTS
    Owners,          \* the indexed entities, ordered by identity
    Points,          \* their vectors
    Levels,          \* what deterministic_hnsw_level may give
    MaxConnections,  \* hnsw.m
    EfConstruction,  \* hnsw.ef_construction
    Limits           \* the numbers of hits a query asks for

VARIABLES
    point,   \* Owners -> Points
    level,   \* Owners -> Levels: a hash of the identity
    graph,   \* owner -> the neighbours of each of its levels, nearest first
    top,     \* the entry owner; 0 if there is none
    answer   \* the last query

vars == <<point, level, graph, top, answer>>

NoAnswer == [q |-> 0, visible |-> {}, desired |-> 0, hits |-> <<>>, exhaustive |-> FALSE, kind |-> "none"]

Init ==
    /\ point \in [Owners -> Points] /\ level \in [Owners -> Levels]
    /\ graph = [o \in {} |-> <<>>] /\ top = 0
    /\ answer = NoAnswer

Distance(a, b) == IF a < b THEN b - a ELSE a - b

(* VectorQueueItem: by similarity, then the smaller owner.                 *)
Before(q, o, p) ==
    \/ Distance(point[o], q) < Distance(point[p], q)
    \/ Distance(point[o], q) = Distance(point[p], q) /\ o < p

Best(q, S) == CHOOSE o \in S : \A p \in S \ {o} : Before(q, o, p)
Worst(q, S) == CHOOSE o \in S : \A p \in S \ {o} : Before(q, p, o)
Ordered(q, S) ==
    [i \in 1..Cardinality(S) |-> CHOOSE o \in S : Cardinality({p \in S : Before(q, p, o)}) = i - 1]
Take(s, n) == SubSeq(s, 1, IF Len(s) < n THEN Len(s) ELSE n)

-----------------------------------------------------------------------------
(* HnswSearchState::keep                                                   *)
Keep(q, ef, state, o) ==
    LET near == state.nearest \cup {o} IN
    IF Cardinality(state.nearest) < ef \/ Before(q, o, Worst(q, state.nearest))
    THEN [state EXCEPT !.candidates = @ \cup {o},
                       !.nearest = IF Cardinality(near) > ef THEN near \ {Worst(q, near)} ELSE near]
    ELSE state

(* One neighbour of the candidate: visited once, on its level.             *)
Visit(g, q, lvl, ef, state, o) ==
    IF o \in state.visited THEN state
    ELSE LET seen == [state EXCEPT !.visited = @ \cup {o}]
         IN  IF level[o] >= lvl THEN Keep(q, ef, seen, o) ELSE seen

RECURSIVE Explore(_, _, _, _, _)
Explore(g, q, lvl, ef, state) ==
    IF state.candidates = {} THEN state
    ELSE LET c == Best(q, state.candidates) IN
         IF Cardinality(state.nearest) >= ef /\ c # Worst(q, state.nearest) /\ Before(q, Worst(q, state.nearest), c)
         THEN state
         ELSE Explore(g, q, lvl, ef,
                      FoldLeft(LAMBDA s, o : Visit(g, q, lvl, ef, s, o),
                               [state EXCEPT !.candidates = @ \ {c}], g[c][lvl + 1]))

(* hnsw_search_layer, from one entry point.                                *)
Layer(q, end) == [items |-> Ordered(q, end.nearest), visited |-> end.visited]

SearchLayer(g, from, q, lvl, ef) ==
    LET start == IF level[from] >= lvl THEN {from} ELSE {}
    IN  Layer(q, Explore(g, q, lvl, ef, [visited |-> start, candidates |-> start, nearest |-> start]))

(* The next layer is entered at the nearest owner found.                   *)
Nearest(found, from) == IF found = <<>> THEN from ELSE found[1]

(* The descent: the nearest owner of each level above low.                 *)
RECURSIVE Descend(_, _, _, _, _)
Descend(g, from, q, lvl, low) ==
    IF lvl <= low THEN from
    ELSE Descend(g, Nearest(SearchLayer(g, from, q, lvl, 1).items, from), q, lvl - 1, low)

Least(a, b) == IF a < b THEN a ELSE b
Most(a, b) == IF a < b THEN b ELSE a

-----------------------------------------------------------------------------
(* Construction                                                            *)

(* select_hnsw_neighbors_for_new_entry: per level, from the highest.       *)
RECURSIVE Select(_, _, _, _, _)
SelectBelow(o, from, lvl, ef, selected, found) ==
    Select(o, Nearest(found, from), lvl - 1, ef, [selected EXCEPT ![lvl + 1] = Take(found, MaxConnections)])

Select(o, from, lvl, ef, selected) ==
    IF lvl < 0 THEN selected
    ELSE SelectBelow(o, from, lvl, ef, selected, SearchLayer(graph, from, point[o], lvl, ef).items)

(* prune_hnsw_neighbors: twice as many on the ground level.                *)
Prune(neighbours, o, lvl) ==
    Take(Ordered(point[o], ToSet(neighbours)), IF lvl = 0 THEN 2 * MaxConnections ELSE MaxConnections)

(* connect_hnsw_entry: each neighbour links back, as far as it has room.   *)
Linked(g, o) ==
    [p \in DOMAIN g |->
        [i \in DOMAIN g[p] |->
            IF i \in DOMAIN g[o] /\ p \in ToSet(g[o][i])
            THEN Prune(Append(SelectSeq(g[p][i], LAMBDA n : n # o), o), p, i - 1)
            ELSE g[p][i]]]

Connect(o, selected) ==
    graph' = Linked([p \in DOMAIN graph \cup {o} |-> IF p = o THEN selected ELSE graph[p]], o)

(* build_hnsw_graph_with_parameters: the next owner in order.              *)
Insert ==
    LET o     == Min(Owners \ DOMAIN graph)
        empty == [i \in 1..(level[o] + 1) |-> <<>>]
        ef    == Most(1, Least(Most(EfConstruction, MaxConnections), Cardinality(DOMAIN graph)))
    IN  /\ MaxConnections > 1 /\ DOMAIN graph # Owners
        /\ IF graph = <<>>
           THEN graph' = [p \in {o} |-> empty] /\ top' = o
           ELSE /\ Connect(o, Select(o, Descend(graph, top, point[o], level[top], level[o]),
                                     Least(level[o], level[top]), ef, empty))
                /\ top' = IF level[o] > level[top] THEN o ELSE top
        /\ UNCHANGED <<point, level, answer>>

(* connect_single_neighbor_hnsw_layers: a ring on every level.             *)
BuildRing ==
    LET on(i) == {o \in Owners : level[o] >= i}
        next(o, i) == LET later == {p \in on(i) : p > o} IN IF later = {} THEN Min(on(i)) ELSE Min(later)
        highest == {o \in Owners : \A p \in Owners : level[p] <= level[o]}
    IN  /\ MaxConnections = 1 /\ graph = <<>>
        /\ graph' = [o \in Owners |-> [i \in 1..(level[o] + 1) |->
                        IF Cardinality(on(i - 1)) > 1 THEN <<next(o, i - 1)>> ELSE <<>>]]
        /\ top' = Min(highest)
        /\ UNCHANGED <<point, level, answer>>

-----------------------------------------------------------------------------
(* The query                                                               *)

(* The search saw every entry.                                             *)
Exhaustive(ef, visited) == ef >= Cardinality(DOMAIN graph) /\ Cardinality(visited) = Cardinality(DOMAIN graph)

(* search_managed_vector_cache and search_vector_cache: widen, or give up. *)
RECURSIVE Widen(_, _, _, _)
HitsOf(q, visible, desired, ef, hits, all) ==
    IF Len(hits) >= desired \/ all
    THEN [q |-> q, visible |-> visible, desired |-> desired, hits |-> hits, exhaustive |-> all, kind |-> "cached"]
    ELSE IF ef = Cardinality(DOMAIN graph)
    THEN [q |-> q, visible |-> visible, desired |-> desired, hits |-> <<>>, exhaustive |-> FALSE, kind |-> "given up"]
    ELSE Widen(q, visible, desired, Least(Cardinality(DOMAIN graph), Most(2 * ef, ef + 1)))

LayerHits(q, visible, desired, ef, layer) ==
    HitsOf(q, visible, desired, ef, SelectSeq(layer.items, LAMBDA o : o \in visible), Exhaustive(ef, layer.visited))

Widen(q, visible, desired, ef) ==
    LayerHits(q, visible, desired, ef,
              SearchLayer(graph, Descend(graph, top, q, level[top], 0), q, 0, Most(1, ef)))

Query(q, visible, limit) ==
    LET desired == Least(Most(limit, 1), Cardinality(DOMAIN graph))
    IN  /\ DOMAIN graph = Owners /\ answer = NoAnswer
        /\ answer' = Widen(q, visible, desired, desired)
        /\ UNCHANGED <<point, level, graph, top>>

Next == Insert \/ BuildRing \/ \E q \in Points, visible \in SUBSET Owners, limit \in Limits : Query(q, visible, limit)

Spec == Init /\ [][Next]_vars

-----------------------------------------------------------------------------
(* Properties                                                              *)

(* What vector_cache_links_valid demands of a graph that is read back: a   *)
(* link leads to another entry that reaches that level; and the degree of  *)
(* an entry is bounded, which hnsw_workspace_bytes relies on.              *)
LinksAreValid ==
    /\ graph # <<>> => top \in DOMAIN graph /\ \A o \in DOMAIN graph : level[o] <= level[top]
    /\ \A o \in DOMAIN graph : \A i \in DOMAIN graph[o] :
           /\ \A p \in ToSet(graph[o][i]) : p \in DOMAIN graph \ {o} /\ level[p] >= i - 1
           /\ IsInjective(graph[o][i])
           /\ Len(graph[o][i]) <= IF i = 1 THEN 2 * MaxConnections ELSE MaxConnections

(* An answer from the graph has as many visible hits as were asked for, or *)
(* all there are, in order; one that is called exhaustive is the exact one.*)
AnswerIsComplete ==
    answer.kind = "cached" =>
        /\ ToSet(answer.hits) \subseteq answer.visible
        /\ answer.hits = Ordered(answer.q, ToSet(answer.hits))
        /\ Len(answer.hits) >= Least(answer.desired, Cardinality(answer.visible))
        /\ answer.exhaustive => answer.hits = Ordered(answer.q, answer.visible)
=============================================================================
