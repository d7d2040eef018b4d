------------------------------ MODULE Mutation ------------------------------
(***************************************************************************)
(* The mutation engine (query/mutation/execute.rs and its submodules): the *)
(* updating clauses of one write query, run row by row on a staged         *)
(* Snapshot over the base Commit.                                          *)
(*                                                                         *)
(* A graph maps slots to values: a Node, a label of a Node, a Relationship *)
(* and a property of either are one slot each, absent slots are not in its *)
(* domain.  Every change goes to the staged graph and to a delta that      *)
(* remembers for each slot what it was and what it is.  Rows bind          *)
(* variables to Nodes and Relationships.                                   *)
(***************************************************************************)
EXTENDS Naturals, FiniteSets, Sequences, SequencesExt

CONSTANTS
  Bases,       \* the graphs the base Commit may have
  Programs,    \* the sequences of clauses a query may have
  Views,       \* Graph Views: [required, excluded]: sets of labels
  Policies,    \* access policies: [create, delete, labels, props]: BOOLEANs
  MaxNode,     \* bound on Node ids
  MaxRel       \* bound on Relationship ids

None == <<>>
Null == <<"null", 0>>
Present == <<1>>

Value(g, k) == IF k \in DOMAIN g THEN g[k] ELSE None
Put(g, k, v) ==
  IF v = None THEN [x \in DOMAIN g \ {k} |-> g[x]]
  ELSE [x \in DOMAIN g \cup {k} |-> IF x = k THEN v ELSE g[x]]

NodesOf(g) == {n \in 1..MaxNode : <<"node", n>> \in DOMAIN g}
LabelsOf(g, n) == {k[3] : k \in {j \in DOMAIN g : j[1] = "label" /\ j[2] = n}}
RelsOf(g) == {r \in 1..MaxRel : <<"rel", r>> \in DOMAIN g}
Ends(g, r) == {g[<<"rel", r>>][1], g[<<"rel", r>>][2]}
Incident(g, n) == {r \in RelsOf(g) : n \in Ends(g, r)}
Exists(g, b) == b \in DOMAIN g
Prop(b) == <<"prop", b[1], b[2]>>

VARIABLES
  base,      \* the graph of the base Commit
  view,      \* the query's Graph View
  policy,    \* its access policy
  program,   \* the clauses still to run
  clause,    \* the clause that runs, or Idle
  input,     \* the staged graph when the clause began
  staged,    \* the graph with all changes so far
  delta,     \* slot -> [before, current]
  touched,   \* the Nodes and Relationships the clause changed
  todo,      \* the rows of the clause still to run
  rows,      \* the rows it has given
  outcome    \* [status, why, layer, counters]
vars == <<base, view, policy, program, clause, input, staged, delta, touched, todo, rows, outcome>>
fixed == <<base, view, policy>>

Idle == [kind |-> "idle"]
Running == [status |-> "running"]

--------------------------------------------------------------------------
(* Graph Views and the staged state.  st threads what a row changes:       *)
(* [staged, delta, touched, row, err].                                     *)

\* visible_node and visible_relationship.
VisibleNode(g, n) ==
  /\ n \in NodesOf(g)
  /\ view.required \subseteq LabelsOf(g, n)
  /\ view.excluded \cap LabelsOf(g, n) = {}
Visible(g, b) ==
  /\ Exists(g, b)
  /\ IF b[1] = "node" THEN VisibleNode(g, b[2]) ELSE \A n \in Ends(g, b[2]) : VisibleNode(g, n)
FullGraph == view.required = {} /\ view.excluded = {}

Fail(st, why) == [st EXCEPT !.err = why]
Then(st, Step(_)) == IF st.err # "" THEN st ELSE Step(st)

\* DeltaBuilder::set_node, set_label, set_relationship and set_property.
Slots(d, k, v) ==
  [x \in DOMAIN d \cup {k} |->
     IF x # k THEN d[x]
     ELSE [before |-> IF k \in DOMAIN d THEN d[k].before ELSE Value(base, k), current |-> v]]

\* MutationContext::set_*: the delta and the staged Snapshot change together.
SetSlot(st, k, v) ==
  [st EXCEPT !.delta = Slots(@, k, v), !.staged = Put(@, k, v)]

Touch(st, b) == IF FullGraph THEN st ELSE [st EXCEPT !.touched = @ \cup {b}]

\* require_visible_owner: what the clause began with must be in the view there,
\* what it made itself need only be there.
OwnerIsVisible(st, b) ==
  IF Exists(input, b) THEN Visible(input, b) ELSE Exists(st.staged, b)

\* DeltaBuilder::layer and counters: only slots whose value changed.
LayerOf(d) ==
  [k \in {x \in DOMAIN d : d[x].before # d[x].current} |-> d[k].current]
CountersOf(d) ==
  LET changed(kind) == {x \in DOMAIN d : x[1] = kind /\ d[x].before # d[x].current}
      made(kind) == {x \in changed(kind) : d[x].current # None}
  IN [nodesMade |-> Cardinality(made("node")),
      nodesGone |-> Cardinality(changed("node") \ made("node")),
      relsMade |-> Cardinality(made("rel")),
      relsGone |-> Cardinality(changed("rel") \ made("rel")),
      labelsMade |-> Cardinality(made("label")),
      labelsGone |-> Cardinality(changed("label") \ made("label")),
      propsSet |-> Cardinality(made("prop")),
      propsRemoved |-> Cardinality({x \in changed("prop") : d[x].before # None})]

--------------------------------------------------------------------------
(* CREATE                                                                  *)

\* allocate_node_id, allocate_relationship_id: ids are never used twice.
Fresh(d, g, kind, max) ==
  LET used == {k[2] : k \in {x \in DOMAIN d \cup DOMAIN g \cup DOMAIN base : x[1] = kind}}
  IN CHOOSE i \in 1..(max + 1) : i \notin used /\ \A j \in used : j < i

SetProp(st, b, v) ==
  IF ~policy.props THEN Fail(st, "access") ELSE SetSlot(st, Prop(b), v)
SetLabels(st, n, labels, v) ==
  FoldLeft(LAMBDA s, l : SetSlot(s, <<"label", n, l>>, v), st, labels)

\* create_node
CreateNodeAs(n, st, spec) ==
  LET made(s) == Touch(SetSlot(s, <<"node", n>>, Present), <<"node", n>>)
      labelled(s) == IF spec.labels = <<>> THEN s
                     ELSE IF ~policy.labels THEN Fail(s, "access")
                     ELSE SetLabels(s, n, spec.labels, Present)
      filled(s) == IF spec.prop = None THEN s ELSE SetProp(s, <<"node", n>>, spec.prop)
      bound(s) == [s EXCEPT !.row = Put(@, spec.var, <<"node", n>>), !.last = n]
  IN IF ~policy.create THEN Fail(st, "access")
     ELSE Then(Then(Then(made(st), labelled), filled), bound)

CreateNode(st, spec) == CreateNodeAs(Fresh(st.delta, st.staged, "node", MaxNode), st, spec)

\* ensure_node and bound_node: a variable that is bound stands for its Node.
EnsureNode(st, spec) ==
  IF spec.var \notin DOMAIN st.row THEN CreateNode(st, spec)
  ELSE IF st.row[spec.var][1] # "node" THEN Fail(st, "type")
  ELSE IF ~OwnerIsVisible(st, st.row[spec.var]) THEN Fail(st, "view")
  ELSE [st EXCEPT !.last = st.row[spec.var][2]]

\* create_relationship
CreateRelAs(r, st, var, source, target) ==
  IF var \in DOMAIN st.row THEN Fail(st, "semantic")
  ELSE IF ~policy.create THEN Fail(st, "access")
  ELSE [Touch(SetSlot(st, <<"rel", r>>, <<source, target>>), <<"rel", r>>)
          EXCEPT !.row = Put(@, var, <<"rel", r>>)]

CreateRel(st, var, source, target) ==
  CreateRelAs(Fresh(st.delta, st.staged, "rel", MaxRel), st, var, source, target)

\* create_pattern_part: a Node, or two and a Relationship between them.
CreatePart(st, part) ==
  Then(EnsureNode(st, part.from),
       LAMBDA s : IF part.to = None THEN s
                  ELSE Then(EnsureNode(s, part.to), LAMBDA x : CreateRel(x, part.rel, s.last, x.last)))

WithRow(st) == [st |-> st, out |-> <<st.row>>]

--------------------------------------------------------------------------
(* SET and REMOVE.  Expressions read the staged graph.                     *)

Evaluate(st, e) ==
  IF e[1] = "lit" THEN e[2]
  ELSE IF e[2] \notin DOMAIN st.row THEN None ELSE Value(st.staged, Prop(st.row[e[2]]))

\* set_single_property, apply_single_property and remove_property: equal values
\* make no slot.
SetOne(st, b, v) ==
  IF ~policy.props THEN Fail(st, "access")
  ELSE Touch(IF Value(st.staged, Prop(b)) = v THEN st ELSE SetSlot(st, Prop(b), v), b)

\* set_property_map with one key; replace takes away what the map does not name.
SetMap(st, b, v, replace) ==
  LET old == Value(st.staged, Prop(b))
  IN IF v = None /\ (~replace \/ old = None) THEN Touch(st, b)
     ELSE SetOne(st, b, v)

\* mutate_labels: labels that are there, or are not, are left alone.
MutateLabels(st, b, labels, v) ==
  LET now == LabelsOf(st.staged, b[2])
      changed == SelectSeq(labels, LAMBDA l : (l \in now) # (v = Present))
  IN IF b[1] # "node" THEN Fail(st, "type")
     ELSE IF changed # <<>> /\ ~policy.labels THEN Fail(st, "access")
     ELSE Touch(SetLabels(st, b[2], changed, v), b)

\* apply_set_item and apply_remove_item
ApplyItem(st, item) ==
  LET b == st.row[item.var]
  IN IF b = Null THEN st
     ELSE IF item.op \in {"labels", "unlabel"} /\ b[1] # "node" THEN Fail(st, "type")
     ELSE IF ~OwnerIsVisible(st, b) THEN Fail(st, "view")
     ELSE CASE item.op = "prop" -> SetOne(st, b, Evaluate(st, item.value))
            [] item.op = "remove" -> SetOne(st, b, None)
            [] item.op = "map" -> SetMap(st, b, Evaluate(st, item.value), item.replace)
            [] item.op = "labels" -> MutateLabels(st, b, item.labels, Present)
            [] item.op = "unlabel" -> MutateLabels(st, b, item.labels, None)
ApplyItems(st, items) ==
  FoldLeft(LAMBDA s, i : Then(s, LAMBDA x : ApplyItem(x, i)), st, items)

--------------------------------------------------------------------------
(* MERGE                                                                   *)

\* node_matches on the staged graph and the view as it is now.
NodeMatches(g, row, spec, n) ==
  /\ spec.var \in DOMAIN row => row[spec.var] = <<"node", n>>
  /\ VisibleNode(g, n)
  /\ Range(spec.labels) \subseteq LabelsOf(g, n)
  /\ spec.prop # None => Value(g, Prop(<<"node", n>>)) = spec.prop

\* match_pattern: the rows that extend row by a match.
Matches(g, row, part) ==
  IF part.to = None
    THEN {Put(row, part.from.var, <<"node", n>>) : n \in {x \in NodesOf(g) : NodeMatches(g, row, part.from, x)}}
    ELSE {Put(Put(Put(row, part.from.var, <<"node", g[<<"rel", r>>][1]>>),
                  part.to.var, <<"node", g[<<"rel", r>>][2]>>), part.rel, <<"rel", r>>) :
            r \in {x \in RelsOf(g) : /\ NodeMatches(g, row, part.from, g[<<"rel", x>>][1])
                                     /\ NodeMatches(g, row, part.to, g[<<"rel", x>>][2])}}

\* merge_existing: every match runs the items of ON MATCH, in the order found.
MergeExisting(st, matches, items) ==
  FoldLeft(LAMBDA acc, m :
             IF acc.st.err # "" THEN acc
             ELSE [st |-> ApplyItems([acc.st EXCEPT !.row = m], items), out |-> Append(acc.out, m)],
           [st |-> st, out |-> <<>>], SetToSeq(matches))

\* merge_create
MergeCreate(st, part, items) == WithRow(Then(CreatePart(st, part), LAMBDA s : ApplyItems(s, items)))

\* merge_one: rows see what earlier rows of the clause created.
MergeOrCreate(st, c, found) ==
  IF found # {} THEN MergeExisting(st, found, c.onMatch) ELSE MergeCreate(st, c.part, c.onCreate)

MergeOne(st, c) == MergeOrCreate(st, c, Matches(st.staged, st.row, c.part))

--------------------------------------------------------------------------
(* DELETE                                                                  *)

\* delete_relationship
DeleteRel(st, r) ==
  IF ~policy.delete THEN Fail(st, "access")
  ELSE LET bare == IF Exists(st.staged, Prop(<<"rel", r>>)) THEN SetSlot(st, Prop(<<"rel", r>>), None) ELSE st
       IN SetSlot(bare, <<"rel", r>>, None)

\* delete_bound_relationship: what is already gone is skipped.
DeleteBoundRel(st, r) ==
  LET b == <<"rel", r>>
  IN IF Exists(input, b) /\ ~Visible(input, b) THEN Fail(st, "view")
     ELSE IF ~Exists(st.staged, b) THEN st
     ELSE IF ~Exists(input, b) /\ ~Visible(st.staged, b) THEN Fail(st, "view")
     ELSE DeleteRel(st, r)

\* A change of DeleteIncident that ViewIsKept notices.
DeleteIncidentHidden(st, n, detach) ==
  LET incident == Incident(st.staged, n)
  IN IF incident # {} /\ ~detach THEN Fail(st, "connected")
     ELSE FoldLeft(LAMBDA s, r : Then(s, LAMBDA x : DeleteRel(x, r)), st, SetToSeq(incident))

\* delete_incident_relationships
DeleteIncident(st, n, detach) ==
  LET incident == Incident(st.staged, n)
      shown(s, r) == IF Exists(input, <<"rel", r>>) THEN Visible(input, <<"rel", r>>) ELSE Visible(st.staged, <<"rel", r>>)
  IN IF incident # {} /\ ~detach THEN Fail(st, "connected")
     ELSE FoldLeft(LAMBDA s, r : Then(s, LAMBDA x : IF shown(x, r) THEN DeleteRel(x, r) ELSE Fail(x, "view")),
                   st, SetToSeq(incident))

\* delete_node: labels and properties go with it.
DeleteNode(st, n) ==
  LET owned == {k \in DOMAIN st.staged : k[1] = "label" /\ k[2] = n} \cup
               {k \in DOMAIN st.staged : k = Prop(<<"node", n>>)}
  IN IF ~policy.delete THEN Fail(st, "access")
     ELSE SetSlot(FoldLeft(LAMBDA s, k : SetSlot(s, k, None), st, SetToSeq(owned)), <<"node", n>>, None)

\* delete_bound_node
DeleteBoundNode(st, n, detach) ==
  LET b == <<"node", n>>
  IN IF Exists(input, b) /\ ~Visible(input, b) THEN Fail(st, "view")
     ELSE IF ~Exists(input, b) /\ ~Visible(st.staged, b) THEN Fail(st, "view")
     ELSE IF ~Exists(st.staged, b) THEN st
     ELSE Then(DeleteIncident(st, n, detach), LAMBDA s : DeleteNode(s, n))

\* apply_delete: all Relationships of all rows, then all Nodes.
DeleteValues(st, c, kind, bindings) ==
  FoldLeft(LAMBDA s, b :
             Then(s, LAMBDA x : IF b[1] # kind THEN x
                                ELSE IF kind = "rel" THEN DeleteBoundRel(x, b[2])
                                ELSE DeleteBoundNode(x, b[2], c.detach)),
           st, bindings)

\* evaluate_delete_targets: before anything is deleted.
Targets(c, rs) == FlattenSeq([i \in DOMAIN rs |-> [j \in DOMAIN c.vars |-> rs[i][c.vars[j]]]])
ApplyDelete(st, c, rs) ==
  LET targets == Targets(c, rs)
  IN Then(DeleteValues(st, c, "rel", targets), LAMBDA s : DeleteValues(s, c, "node", targets))

--------------------------------------------------------------------------
Init ==
  /\ base \in Bases /\ view \in Views /\ policy \in Policies /\ program \in Programs
  /\ clause = Idle /\ input = base /\ staged = base /\ delta = <<>> /\ touched = {}
  /\ todo = <<>> /\ rows = <<<<>>>> /\ outcome = Running

Busy == outcome = Running /\ clause # Idle
Start0 == [staged |-> staged, delta |-> delta, touched |-> touched, row |-> <<>>, last |-> 0, err |-> ""]
Failed(why) ==
  /\ outcome' = [status |-> "failed", why |-> why, clause |-> clause]
  /\ UNCHANGED <<fixed, program, clause, input, staged, delta, touched, todo, rows>>

\* execute_match_clause_spilled: the visible matches of every row, at once.
Match(c) ==
  LET found(row) == IF c.part.to = None /\ c.part.from.var \in DOMAIN row THEN {row} ELSE Matches(staged, row, c.part)
      of(row) == IF found(row) = {} /\ c.optional
                   THEN {[v \in DOMAIN row \cup {c.part.from.var} |-> IF v \in DOMAIN row THEN row[v] ELSE Null]}
                   ELSE found(row)
  IN /\ rows' = FlattenSeq([i \in DOMAIN rows |-> SetToSeq(of(rows[i]))])
     /\ UNCHANGED <<clause, input, touched, todo>>

\* begin_mutation_clause
Begin(c) ==
  /\ clause' = c /\ input' = staged /\ touched' = {}
  /\ todo' = rows /\ rows' = <<>>

\* execute_clause_spilled and execute_single_clause
NextClause ==
  /\ outcome = Running /\ clause = Idle /\ program # <<>>
  /\ program' = Tail(program)
  /\ IF Head(program).kind = "match" THEN Match(Head(program)) ELSE Begin(Head(program))
  /\ UNCHANGED <<fixed, staged, delta, outcome>>

\* One row of CREATE, SET, REMOVE or MERGE.
RunOne(c, row) ==
  LET st == [Start0 EXCEPT !.row = row]
  IN CASE c.kind = "create" -> WithRow(CreatePart(st, c.part))
       [] c.kind = "set" -> [st |-> ApplyItems(st, c.items), out |-> <<row>>]
       [] c.kind = "merge" -> MergeOne(st, c)

Apply(st) == staged' = st.staged /\ delta' = st.delta /\ touched' = st.touched

\* execute_create_clause_batch, execute_row_mutation_batch, execute_merge_clause_batch
RunRow ==
  /\ Busy /\ clause.kind # "delete" /\ ~clause.each /\ todo # <<>>
  /\ \E r \in {RunOne(clause, Head(todo))} :
       IF r.st.err # "" THEN Failed(r.st.err)
       ELSE /\ Apply(r.st)
            /\ rows' = rows \o r.out /\ todo' = Tail(todo)
            /\ UNCHANGED <<fixed, program, clause, input, outcome>>

\* validate_clause_view: everything the clause changed is still in the view.
ViewKept(g, t) == FullGraph \/ \A b \in t : Exists(g, b) => Visible(g, b)

\* execute_foreach, and CALL of a subquery that returns nothing: the clause begins
\* and ends for each row, and the rows go on as they were.
RunEach ==
  /\ Busy /\ clause.kind # "delete" /\ clause.each /\ todo # <<>>
  /\ \E r \in {RunOne(clause, Head(todo))} :
       IF r.st.err # "" THEN Failed(r.st.err)
       ELSE IF ~ViewKept(r.st.staged, r.st.touched) THEN Failed("view")
       ELSE /\ staged' = r.st.staged /\ delta' = r.st.delta
            /\ input' = r.st.staged /\ touched' = {}
            /\ rows' = Append(rows, Head(todo)) /\ todo' = Tail(todo)
            /\ UNCHANGED <<fixed, program, clause, outcome>>

\* execute_delete_clause: all rows together.
RunDelete ==
  /\ Busy /\ clause.kind = "delete" /\ todo # <<>>
  /\ \E s \in {ApplyDelete(Start0, clause, todo)} :
       IF s.err # "" THEN Failed(s.err)
       ELSE /\ Apply(s)
            /\ rows' = todo /\ todo' = <<>>
            /\ UNCHANGED <<fixed, program, clause, input, outcome>>

\* finish_mutation_clause
EndClause ==
  /\ Busy /\ todo = <<>>
  /\ IF ~ViewKept(staged, touched) THEN Failed("view")
     ELSE /\ clause' = Idle
          /\ UNCHANGED <<fixed, program, input, staged, delta, touched, todo, rows, outcome>>

\* finish_spilled_write, finish_program, finish_transaction_mutation
Finish ==
  /\ outcome = Running /\ clause = Idle /\ program = <<>>
  /\ outcome' = [status |-> "committed", why |-> "", layer |-> LayerOf(delta), counters |-> CountersOf(delta)]
  /\ UNCHANGED <<fixed, program, clause, input, staged, delta, touched, todo, rows>>

\* check_interrupted, a budget that runs out, an expression that fails: between rows.
Interrupt ==
  /\ outcome = Running
  /\ outcome' = [status |-> "failed", why |-> "interrupted"]
  /\ UNCHANGED <<fixed, program, clause, input, staged, delta, touched, todo, rows>>

Done == outcome # Running /\ UNCHANGED vars
Next == NextClause \/ RunRow \/ RunEach \/ RunDelete \/ EndClause \/ Finish \/ Interrupt \/ Done
Spec == Init /\ [][Next]_vars

--------------------------------------------------------------------------

\* The delta is what the staged graph differs by: the Layer that is committed gives
\* the staged graph over the base, and holds no change that changes nothing, so a
\* query that creates and deletes, or sets and resets, writes nothing.
LayerIsNet ==
  LET layer == LayerOf(delta)
  IN /\ staged = [k \in (DOMAIN base \cup {x \in DOMAIN layer : layer[x] # None}) \ {x \in DOMAIN layer : layer[x] = None} |->
                    IF k \in DOMAIN layer THEN layer[k] ELSE base[k]]
     /\ \A k \in DOMAIN layer : layer[k] # Value(base, k)

\* Relationships join Nodes that are there, and labels and properties belong to
\* something that is there, after every row, whatever was deleted before.
StagedIsWhole ==
  \A k \in DOMAIN staged :
    CASE k[1] = "rel" -> \A n \in {staged[k][1], staged[k][2]} : <<"node", n>> \in DOMAIN staged
      [] k[1] = "label" -> <<"node", k[2]>> \in DOMAIN staged
      [] k[1] = "prop" -> <<k[2], k[3]>> \in DOMAIN staged
      [] OTHER -> TRUE

Committed == outcome.status = "committed"

\* A query that commits has changed nothing outside its Graph View: hidden Nodes
\* keep labels and properties, hidden Relationships are still there, and what it
\* changed or made is still in the view.
ViewIsKept ==
  Committed /\ ~FullGraph =>
    /\ \A n \in NodesOf(base) : ~VisibleNode(base, n) =>
         \A k \in DOMAIN base \cup DOMAIN staged :
           (k = <<"node", n>> \/ k = Prop(<<"node", n>>) \/ (k[1] = "label" /\ k[2] = n)) => Value(base, k) = Value(staged, k)
    /\ \A r \in RelsOf(base) : ~Visible(base, <<"rel", r>>) => r \in RelsOf(staged)
    /\ \A n \in NodesOf(staged) : n \notin NodesOf(base) => VisibleNode(staged, n)

\* A query that commits has done only what its access policy allows; deleting a
\* Node takes its labels and properties whatever the policy says of those.
PolicyIsKept ==
  Committed =>
    /\ ~policy.create => NodesOf(staged) \subseteq NodesOf(base) /\ RelsOf(staged) \subseteq RelsOf(base)
    /\ ~policy.delete => NodesOf(base) \subseteq NodesOf(staged) /\ RelsOf(base) \subseteq RelsOf(staged)
    /\ ~policy.labels => \A n \in NodesOf(staged) : LabelsOf(staged, n) = IF n \in NodesOf(base) THEN LabelsOf(base, n) ELSE {}
    /\ ~policy.props => \A k \in DOMAIN staged : k[1] = "prop" => Value(base, k) = staged[k]

\* The counters of the outcome are the difference between the two graphs.
CountersAreTrue ==
  Committed =>
    /\ outcome.counters.nodesMade = Cardinality(NodesOf(staged) \ NodesOf(base))
    /\ outcome.counters.nodesGone = Cardinality(NodesOf(base) \ NodesOf(staged))
    /\ outcome.counters.relsMade = Cardinality(RelsOf(staged) \ RelsOf(base))
    /\ outcome.counters.relsGone = Cardinality(RelsOf(base) \ RelsOf(staged))

\* A MERGE of one Node with constant properties and no SET creates at most one
\* Node, however many rows it runs for.
MergeCreatesOnce ==
  Busy /\ clause.kind = "merge" /\ clause.part.to = None /\ clause.onCreate = <<>> =>
    Cardinality(NodesOf(staged) \ NodesOf(input)) <= 1 \/ ~ViewKept(staged, touched)

\* DELETE does not depend on the order of rows and targets: it removes exactly the
\* targets, and with DETACH what is attached to them; it fails because a Node is
\* connected only when a Relationship that is not a target holds it.
DeleteIsExact ==
  /\ Busy /\ clause.kind = "delete" /\ todo = <<>> =>
       LET gone == {b \in Range(Targets(clause, rows)) : b # Null}
           nodes == {b[2] : b \in {x \in gone : x[1] = "node"}}
           rels == {b[2] : b \in {x \in gone : x[1] = "rel"}} \cup
                   (IF clause.detach THEN {r \in RelsOf(input) : Ends(input, r) \cap nodes # {}} ELSE {})
       IN NodesOf(staged) = NodesOf(input) \ nodes /\ RelsOf(staged) = RelsOf(input) \ rels
  /\ outcome.status = "failed" /\ outcome.why = "connected" =>
       LET gone == {b \in Range(Targets(clause, todo)) : b # Null}
       IN \E b \in gone : b[1] = "node" /\ \E r \in Incident(input, b[2]) : <<"rel", r>> \notin gone

=============================================================================
