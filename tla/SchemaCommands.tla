--------------------------- MODULE SchemaCommands ---------------------------
(***************************************************************************)
(* The schema commands of query/schema/command.rs on the versioned schema  *)
(* of a branch, the specification that SHOW CURRENT GRAPH TYPE prints, and *)
(* the merge of two branches' schemas slot by slot (merge/state.rs).       *)
(*                                                                         *)
(* A schema has Graph Node Types by label, Graph Relationship Types by     *)
(* type, constraints and indexes by name.  An automatic name is a hash of  *)
(* the definition, so the definition itself stands for it; a name that the *)
(* user gives is <<"given", n>>.  A graph element's constraints have the   *)
(* element as their origin, and the element's target is its name.          *)
(*                                                                         *)
(* The graph is empty, so that no definition fails for the data: what a    *)
(* constraint asks of the data is the business of Store and of             *)
(* ThreeWayMerge.  Configuration, additional properties and the labels of  *)
(* a search index are part of the index's kind.                            *)
(***************************************************************************)
EXTENDS Naturals, Sequences, FiniteSets, TLC

CONSTANTS
    Statements,     \* ALTER CURRENT GRAPH TYPE: [op, entries]
    Definitions,    \* of standalone constraints: [target, props, kind]
    IndexShapes,    \* of indexes: [kind, target, props]
    Names,          \* names that users give
    Branches,
    MaxCommands,    \* commands that change a schema
    MaxMerges

Seqs == INSTANCE SequencesExt
Fns == INSTANCE Functions

VARIABLES
    heads,          \* heads[b]: the schema at the head of branch b
    base,           \* the schema at the merge base of the branches
    commands,       \* how many commands changed a schema
    merges          \* how many merges were made

vars == <<heads, base, commands, merges>>

None == <<"none">>
Given(n) == <<"given", n>>
Empty == <<>>
EmptySchema == [nodes |-> Empty, rels |-> Empty, constraints |-> Empty, indexes |-> Empty]

\* QueryResult<SchemaState>
Done(s) == [ok |-> TRUE, schema |-> s]
Failed == [ok |-> FALSE]

Put(f, x, v) == (x :> v) @@ f
Without(f, X) == Fns!Restrict(f, DOMAIN f \ X)

\* A sequence of fallible steps, up to the first that fails.
InOrder(Step(_, _), steps, s) ==
    Seqs!FoldLeft(LAMBDA r, e : IF r.ok THEN Step(r.schema, e) ELSE r, Done(s), steps)

-----------------------------------------------------------------------------
(* Definitions.                                                            *)

IsKeyOrUnique(c) == c.kind \in {<<"key">>, <<"unique">>}

\* backing_index and owning_constraint
BackingIndex(name, c) == [kind |-> "range", target |-> c.target, props |-> c.props, owner |-> name]

\* has_equivalent_index, among the indexes named in N
HasEquivalentIndex(s, N, index) ==
    \E n \in N : [s.indexes[n] EXCEPT !.owner = None] = [index EXCEPT !.owner = None]

\* find_equivalent_constraint_name; the first in the order of the names
\* where there are several, which only a merge brings about.
EquivalentConstraints(s, c) == {n \in DOMAIN s.constraints : s.constraints[n] = c}

\* parse_constraint_definition: the constraint has no origin.
Standalone(d) == [target |-> d.target, props |-> d.props, kind |-> d.kind, origin |-> None]
AutomaticName(d) == <<"constraint", d.target, d.props, d.kind>>

\* type_constraint and key_or_unique_constraint: name and definition.
Dependent(target, props, kind) ==
    <<<<"graph", target, props, kind>>,
      [target |-> target, props |-> props, kind |-> kind, origin |-> target]>>

\* The constraints of an element, in the order of parse_graph_properties
\* and parse_graph_require_constraints; keys is a sequence of [props, kind].
ElementConstraints(e) ==
    LET properties == Seqs!SetToSeq(DOMAIN e.definition.props)
    IN  [i \in 1..Len(properties) |->
            Dependent(e.target, <<properties[i]>>, <<"type", e.definition.props[properties[i]]>>)]
        \o [i \in 1..Len(e.keys) |-> Dependent(e.target, e.keys[i].props, e.keys[i].kind)]

-----------------------------------------------------------------------------
(* ALTER CURRENT GRAPH TYPE.                                               *)

IsElement(e) == e.target[1] \in {"node", "rel"}
Elements(s, target) == IF target[1] = "node" THEN s.nodes ELSE s.rels
HasElement(s, target) == target[2] \in DOMAIN Elements(s, target)
PutElement(s, e) ==
    IF e.target[1] = "node" THEN [s EXCEPT !.nodes = Put(@, e.target[2], e.definition)]
    ELSE [s EXCEPT !.rels = Put(@, e.target[2], e.definition)]
RemoveElement(s, target) ==
    IF target[1] = "node" THEN [s EXCEPT !.nodes = Without(@, {target[2]})]
    ELSE [s EXCEPT !.rels = Without(@, {target[2]})]

\* Labels or endpoints without anything declared: the form that DROP uses.
IsBare(e) ==
    /\ e.definition.props = Empty
    /\ IF e.target[1] = "node" THEN e.definition.implied = {}
       ELSE e.definition.source = None /\ e.definition.to = None

\* validate_graph_entries_for_operation
EntryFits(op, e) ==
    op # "drop" => /\ IsElement(e) => ~ IsBare(e)
                   /\ e.target[1] # "name"

\* insert_constraint
InsertConstraint(s, name, c, rejectExisting) ==
    IF \/ rejectExisting /\ (name \in DOMAIN s.constraints \/ EquivalentConstraints(s, c) # {})
       \/ name \in DOMAIN s.constraints /\ s.constraints[name] # c
    THEN Failed
    ELSE Done([s EXCEPT !.constraints = Put(@, name, c)])

InsertConstraints(s, list, rejectExisting) ==
    InOrder(LAMBDA t, nc : InsertConstraint(t, nc[1], nc[2], rejectExisting), list, s)

\* insert_graph_entry, as SET and ADD use it
InsertEntry(s, e) ==
    IF ~ IsElement(e) THEN InsertConstraint(s, e.name, e.definition, TRUE)
    ELSE IF HasElement(s, e.target) THEN Failed
    ELSE InsertConstraints(PutElement(s, e), ElementConstraints(e), TRUE)

DependentsOf(s, target) ==
    {n \in DOMAIN s.constraints : /\ s.constraints[n].origin = target
                                  /\ ~ IsKeyOrUnique(s.constraints[n])}

(* Mutant: ALTER forgets the constraints of the definition it replaces.    *)
RemoveDependentsNot(s, target) == s

(* remove_origin_dependent_constraints.                                    *)
RemoveDependents(s, target) ==
    [s EXCEPT !.constraints = Without(@, DependentsOf(s, target))]

\* alter_graph_entry and validate_graph_alter_entry
AlterEntry(s, e) ==
    IF ~ IsElement(e) \/ ~ HasElement(s, e.target) \/ Len(e.keys) > 0 THEN Failed
    ELSE InsertConstraints(PutElement(RemoveDependents(s, e.target), e), ElementConstraints(e), FALSE)

(* detach_origin_constraints: keys stay, without an origin.                *)
Detach(s, target) ==
    LET kept == RemoveDependents(s, target).constraints
    IN  [s EXCEPT !.constraints =
            [n \in DOMAIN kept |->
                IF kept[n].origin = target THEN [kept[n] EXCEPT !.origin = None] ELSE kept[n]]]

\* graph_node_type_is_referenced
IsReferenced(s, target) ==
    /\ target[1] = "node"
    /\ \E r \in DOMAIN s.rels : \/ s.rels[r].source = <<target[2], TRUE>>
                                \/ s.rels[r].to = <<target[2], TRUE>>

\* drop_graph_node_type, drop_graph_relationship_type
DropElement(s, e) ==
    IF \/ ~ HasElement(s, e.target)
       \/ ~ IsBare(e) /\ Elements(s, e.target)[e.target[2]] # e.definition
       \/ IsReferenced(s, e.target)
    THEN Failed
    ELSE Done(Detach(RemoveElement(s, e.target), e.target))

\* drop_named_constraint
DropNamed(s, name) ==
    IF \/ name \notin DOMAIN s.constraints
       \/ s.constraints[name].origin # None /\ ~ IsKeyOrUnique(s.constraints[name])
    THEN Failed
    ELSE Done([s EXCEPT !.constraints = Without(@, {name})])

\* drop_graph_entry
DropEntry(s, e) ==
    CASE IsElement(e) -> DropElement(s, e)
      [] e.target[1] = "name" -> DropNamed(s, e.name)
      [] OTHER -> IF EquivalentConstraints(s, e.definition) = {} THEN Failed
                  ELSE DropNamed(s, CHOOSE n \in EquivalentConstraints(s, e.definition) : TRUE)

\* apply_graph_type
GraphType(s, statement) ==
    IF \E i \in DOMAIN statement.entries : ~ EntryFits(statement.op, statement.entries[i])
    THEN Failed
    ELSE CASE statement.op = "set" ->
                InOrder(InsertEntry, statement.entries,
                        [s EXCEPT !.nodes = Empty, !.rels = Empty, !.constraints = Empty])
           [] statement.op = "add" -> InOrder(InsertEntry, statement.entries, s)
           [] statement.op = "alter" -> InOrder(AlterEntry, statement.entries, s)
           [] statement.op = "drop" -> InOrder(DropEntry, statement.entries, s)

-----------------------------------------------------------------------------
(* CREATE and DROP of constraints and indexes.                             *)

(* apply_create_constraint.                                                *)
CreateConstraint(s, name, d, ifNotExists) ==
    LET c == Standalone(d)
        exists == name \in DOMAIN s.constraints \/ EquivalentConstraints(s, c) # {}
    IN  CASE ifNotExists /\ exists -> Done(s)
          [] exists -> Failed
          [] name \in DOMAIN s.indexes /\ s.indexes[name].owner # name -> Failed
          [] IsKeyOrUnique(c) /\ HasEquivalentIndex(s, DOMAIN s.indexes, BackingIndex(name, c)) -> Failed
          [] OTHER -> Done([s EXCEPT !.constraints = Put(@, name, c)])

\* apply_drop_constraint
DropConstraint(s, name, ifExists) ==
    IF name \notin DOMAIN s.constraints /\ ifExists THEN Done(s) ELSE DropNamed(s, name)

Unowned(s) == {n \in DOMAIN s.indexes : s.indexes[n].owner = None}

\* insert_index_definition
CreateIndex(s, name, shape, ifNotExists) ==
    LET index == [kind |-> shape.kind, target |-> shape.target, props |-> shape.props, owner |-> None]
    IN  CASE name \in DOMAIN s.constraints -> Failed
          [] ifNotExists /\ (name \in DOMAIN s.indexes \/ HasEquivalentIndex(s, Unowned(s), index)) -> Done(s)
          [] name \in DOMAIN s.indexes -> Failed
          [] HasEquivalentIndex(s, DOMAIN s.indexes, index) -> Failed
          [] OTHER -> Done([s EXCEPT !.indexes = Put(@, name, index)])

\* apply_drop_index
DropIndex(s, name, ifExists) ==
    CASE name \notin DOMAIN s.indexes -> IF ifExists THEN Done(s) ELSE Failed
      [] s.indexes[name].owner # None -> Failed
      [] OTHER -> Done([s EXCEPT !.indexes = Without(@, {name})])

-----------------------------------------------------------------------------
(* What every command ends with.                                           *)

(* refresh_backing_indexes: owned indexes follow from the constraints.     *)
RefreshBackingIndexes(s) ==
    LET owners == {n \in DOMAIN s.constraints : IsKeyOrUnique(s.constraints[n])}
    IN  IF owners \cap Unowned(s) # {} THEN Failed
        ELSE Done([s EXCEPT !.indexes =
                [n \in owners |-> BackingIndex(n, s.constraints[n])] @@ Fns!Restrict(@, Unowned(s))])

(* validate_graph_type_state.                                              *)
EndpointsResolve(s) ==
    \A r \in DOMAIN s.rels : \A end \in {s.rels[r].source, s.rels[r].to} :
        end # None /\ end[2] => end[1] \in DOMAIN s.nodes
ImpliedAreNotIdentifying(s) ==
    \A l \in DOMAIN s.nodes : s.nodes[l].implied \cap DOMAIN s.nodes = {}

\* validate_constraint_state
OneTypePerProperty(s) ==
    \A m, n \in DOMAIN s.constraints :
        LET c == s.constraints[m]  d == s.constraints[n]
        IN  c.kind[1] = "type" /\ d.kind[1] = "type" /\ c.target = d.target /\ c.props = d.props
            => c.kind = d.kind
ElementsOwnTheirRules(s) ==
    \A n \in DOMAIN s.constraints :
        s.constraints[n].origin = None /\ ~ IsKeyOrUnique(s.constraints[n])
        => ~ HasElement(s, s.constraints[n].target)

\* validate_index_state, validate_index_definition
NoTwinIndexes(s) ==
    \A n \in DOMAIN s.indexes : ~ HasEquivalentIndex(s, DOMAIN s.indexes \ {n}, s.indexes[n])
NamesAreShared(s) ==
    \A n \in DOMAIN s.indexes :
        IF s.indexes[n].owner = None THEN n \notin DOMAIN s.constraints
        ELSE s.indexes[n].owner = n /\ n \in DOMAIN s.constraints

\* validate_schema_state
ValidState(s) ==
    /\ EndpointsResolve(s) /\ ImpliedAreNotIdentifying(s)
    /\ OneTypePerProperty(s) /\ ElementsOwnTheirRules(s)
    /\ NoTwinIndexes(s) /\ NamesAreShared(s)

(* prepare_schema after the command itself.                                *)
Prepared(result) ==
    IF ~ result.ok THEN Failed
    ELSE LET refreshed == RefreshBackingIndexes(result.schema)
         IN  IF refreshed.ok /\ ValidState(refreshed.schema) THEN refreshed ELSE Failed

-----------------------------------------------------------------------------
(* The commands of a schema.                                               *)

\* Names that can be written: the ones in use and the ones users give.
Writable(s) == {Given(n) : n \in Names} \cup DOMAIN s.constraints \cup DOMAIN s.indexes

Altered(s) == {Prepared(GraphType(s, statement)) : statement \in Statements}
ConstraintsCreated(s, ifNotExists) ==
    {Prepared(CreateConstraint(s, n, d, ifNotExists)) : n \in {Given(m) : m \in Names}, d \in Definitions}
    \cup {Prepared(CreateConstraint(s, AutomaticName(d), d, ifNotExists)) : d \in Definitions}
ConstraintsDropped(s, ifExists) == {Prepared(DropConstraint(s, n, ifExists)) : n \in Writable(s)}
IndexesCreated(s, ifNotExists) ==
    {Prepared(CreateIndex(s, n, shape, ifNotExists)) : n \in {Given(m) : m \in Names}, shape \in IndexShapes}
    \cup {Prepared(CreateIndex(s, <<"index", shape.kind, shape.target, shape.props>>, shape, ifNotExists)) :
             shape \in IndexShapes}
IndexesDropped(s, ifExists) == {Prepared(DropIndex(s, n, ifExists)) : n \in Writable(s)}

Init ==
    /\ heads = [b \in Branches |-> EmptySchema]
    /\ base = EmptySchema /\ commands = 0 /\ merges = 0

\* execute_schema: a refused command and one without effect leave the schema.
Execute(b, results) ==
    /\ commands < MaxCommands
    /\ \E r \in results :
        /\ r.ok /\ r.schema # heads[b]
        /\ heads' = [heads EXCEPT ![b] = r.schema]
    /\ commands' = commands + 1
    /\ UNCHANGED <<base, merges>>

AlterGraphType(b) == Execute(b, Altered(heads[b]))
CreateConstraintOn(b) == \E ine \in BOOLEAN : Execute(b, ConstraintsCreated(heads[b], ine))
DropConstraintOn(b) == \E ie \in BOOLEAN : Execute(b, ConstraintsDropped(heads[b], ie))
CreateIndexOn(b) == \E ine \in BOOLEAN : Execute(b, IndexesCreated(heads[b], ine))
DropIndexOn(b) == \E ie \in BOOLEAN : Execute(b, IndexesDropped(heads[b], ie))

-----------------------------------------------------------------------------
(* Merging the schemas of two branches.                                    *)

Parts == {"nodes", "rels", "constraints", "indexes"}
SlotsOf(s) == UNION {{<<part, x>> : x \in DOMAIN s[part]} : part \in Parts}
At(s, slot) == IF slot[2] \in DOMAIN s[slot[1]] THEN <<s[slot[1]][slot[2]]>> ELSE <<>>

\* direct_slot_decision, and a resolution of ours or theirs in a conflict
Conflicts(ancestor, ours, theirs) ==
    {slot \in SlotsOf(ancestor) \cup SlotsOf(ours) \cup SlotsOf(theirs) :
        /\ At(ours, slot) # At(theirs, slot)
        /\ At(ours, slot) # At(ancestor, slot) /\ At(theirs, slot) # At(ancestor, slot)}
Selected(ancestor, ours, theirs, theirsWins, slot) ==
    IF slot \in theirsWins \/ At(ours, slot) = At(ancestor, slot) THEN At(theirs, slot) ELSE At(ours, slot)

(* merge_slots and set_schema_slot: the schema's objects one by one.       *)
MergedSchema(ancestor, ours, theirs, theirsWins) ==
    LET Value(part, x) == Selected(ancestor, ours, theirs, theirsWins, <<part, x>>)
        Kept(part) == {x \in DOMAIN ours[part] \cup DOMAIN theirs[part] : Value(part, x) # <<>>}
    IN  [part \in Parts |-> [x \in Kept(part) |-> Value(part, x)[1]]]

\* A session on branch b, finalized with the conflicts resolved.
Merge(b, from) ==
    /\ merges < MaxMerges /\ b # from
    /\ heads[from] # base
    /\ \E theirsWins \in SUBSET Conflicts(base, heads[b], heads[from]) :
        heads' = [heads EXCEPT ![b] = MergedSchema(base, heads[b], heads[from], theirsWins)]
    /\ base' = heads[from]
    /\ merges' = merges + 1
    /\ UNCHANGED commands

Next ==
    \/ \E b \in Branches : \/ AlterGraphType(b)
                           \/ CreateConstraintOn(b) \/ DropConstraintOn(b)
                           \/ CreateIndexOn(b) \/ DropIndexOn(b)
    \/ \E b, from \in Branches : Merge(b, from)

Spec == Init /\ [][Next]_vars

-----------------------------------------------------------------------------
(* SHOW CURRENT GRAPH TYPE.                                                *)

NodeEntry(l, definition) == [target |-> <<"node", l>>, definition |-> definition, keys |-> <<>>]
RelEntry(r, definition) == [target |-> <<"rel", r>>, definition |-> definition, keys |-> <<>>]
ConstraintEntry(n, d) == [target |-> <<"constraint">>, name |-> n, definition |-> Standalone(d)]

(* The constraints of the specification: standalone ones, and all keys.    *)
Shown(s) ==
    {n \in DOMAIN s.constraints : s.constraints[n].origin = None \/ IsKeyOrUnique(s.constraints[n])}

\* graph_type_specification, read back as the entries of a statement
Specification(s) ==
    Seqs!SetToSeq({NodeEntry(l, s.nodes[l]) : l \in DOMAIN s.nodes})
    \o Seqs!SetToSeq({RelEntry(r, s.rels[r]) : r \in DOMAIN s.rels})
    \o Seqs!SetToSeq({ConstraintEntry(n, s.constraints[n]) : n \in Shown(s)})

-----------------------------------------------------------------------------
(* Properties.                                                             *)

(* The declared properties of a graph element and the type constraints     *)
(* that have the element as origin say the same, whatever the sequence of  *)
(* SET, ADD, ALTER and DROP: a rule that is shown is enforced, and no rule *)
(* of an element that is gone or was altered is left behind.               *)
GraphTypeIsEnforced ==
    \A b \in Branches :
        LET s == heads[b]
            Declared(target, properties) ==
                {<<target, <<p>>, <<"type", properties[p]>>>> : p \in DOMAIN properties}
            enforced == {n \in DOMAIN s.constraints :
                            s.constraints[n].origin # None /\ ~ IsKeyOrUnique(s.constraints[n])}
        IN  {<<s.constraints[n].origin, s.constraints[n].props, s.constraints[n].kind>> : n \in enforced}
            = UNION ({Declared(<<"node", l>>, s.nodes[l].props) : l \in DOMAIN s.nodes}
                     \cup {Declared(<<"rel", r>>, s.rels[r].props) : r \in DOMAIN s.rels})

(* A KEY or UNIQUE constraint outlives the ALTER and the DROP of the graph *)
(* element that brought it, and so does its backing index: only SET and a  *)
(* drop of the constraint itself remove it.                                *)
KeysOutliveElements ==
    \A b \in Branches : \A statement \in Statements :
        LET s == heads[b]
            r == Prepared(GraphType(s, statement))
            keys == {n \in DOMAIN s.constraints : IsKeyOrUnique(s.constraints[n])}
        IN  /\ r.ok /\ statement.op # "set"
            /\ \A i \in DOMAIN statement.entries : IsElement(statement.entries[i])
            => \A n \in keys : /\ n \in DOMAIN r.schema.constraints
                               /\ n \in DOMAIN r.schema.indexes
                               /\ r.schema.indexes[n].owner = n

(* CREATE CONSTRAINT ... IF NOT EXISTS never redefines: what was there is  *)
(* there afterwards, indexes included, together with a constraint of the   *)
(* name or of the definition asked for; and the command can be repeated.   *)
IfNotExistsKeepsWhatExists ==
    \A b \in Branches, d \in Definitions, m \in Names :
        LET s == heads[b]
            Again(t) == Prepared(CreateConstraint(t, Given(m), d, TRUE))
            once == Again(s)
        IN  once.ok =>
                /\ \A n \in DOMAIN s.constraints : /\ n \in DOMAIN once.schema.constraints
                                                    /\ once.schema.constraints[n] = s.constraints[n]
                /\ Unowned(s) \subseteq DOMAIN once.schema.indexes
                /\ \/ Given(m) \in DOMAIN once.schema.constraints
                   \/ EquivalentConstraints(once.schema, Standalone(d)) # {}
                /\ Again(once.schema) = once

(* What SHOW CURRENT GRAPH TYPE prints can be used with SET again: the     *)
(* statement is accepted and leaves the same elements, the same indexes    *)
(* and the same constraints, but for the origin of keys.                   *)
ShownCanBeSet ==
    \A b \in Branches :
        LET s == heads[b]
            r == Prepared(GraphType(s, [op |-> "set", entries |-> Specification(s)]))
            Ownerless(t) == [n \in DOMAIN t.constraints |->
                                IF IsKeyOrUnique(t.constraints[n])
                                THEN [t.constraints[n] EXCEPT !.origin = None] ELSE t.constraints[n]]
        IN  /\ r.ok
            /\ r.schema.nodes = s.nodes /\ r.schema.rels = s.rels /\ r.schema.indexes = s.indexes
            /\ Ownerless(r.schema) = Ownerless(s)

=============================================================================
