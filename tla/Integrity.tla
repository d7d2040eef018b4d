----------------------------- MODULE Integrity -----------------------------
(***************************************************************************)
(* lithograph_integrity_check over the stored rows.                        *)
(*                                                                         *)
(* VersionStore identifies a commit, a Layer and a Schema with its         *)
(* contents; here they are rows whose columns can disagree with the hash   *)
(* they are filed under.  Stored lays a database out as rows.  A Damage    *)
(* step then changes, drops or adds one row behind the engine's back, and  *)
(* the check is asked about the result.                                    *)
(*                                                                         *)
(* A hash is injective, so the id of a commit is the record it was hashed  *)
(* from, and Meaning(id), the Snapshot that was committed, is a function   *)
(* of the id alone.                                                        *)
(***************************************************************************)
EXTENDS VersionStore

CONSTANTS
    Number,         \* Number[s]: the NodeId (or RelationshipId) in slot s
    Key,            \* Key[s]: the dictionary id in slot s, 0 when it has none
    MaxDamage       \* bound on the Damage steps

VARIABLES
    indexes,        \* the persistent index generations: [anchor, definition]
    tables,         \* the rows
    damage          \* how many rows were damaged

Seqs == INSTANCE SequencesExt
Sets == INSTANCE FiniteSetsExt

intVars == <<db, indexes, tables, damage>>

-----------------------------------------------------------------------------
(* The rows of a database.  Layer ids are even, so that an id can lie      *)
(* below, between or above the stored ones, as after a collection.         *)

LayerId == 1..(2 * MaxCommits + 1)
MaxKey == Sets!Max({Key[s] : s \in Slot} \cup {0})
MaxNumber == Sets!Max({Number[s] : s \in Slot})

Optional(parents, i) == IF i \in DOMAIN parents THEN <<parents[i]>> ELSE <<>>

Generation(g, snapshot) ==
    LET entries == {s \in Slot : snapshot[g.anchor][s] # Absent}
    IN  [anchor |-> g.anchor, hash |-> g.definition, blob |-> g.definition,
         complete |-> TRUE, count |-> Cardinality(entries), entries |-> entries]

Stored(D, G) ==
    LET ids      == Seqs!SetToSeq(D.layers)
        idOf     == [l \in D.layers |-> 2 * (CHOOSE i \in DOMAIN ids : ids[i] = l)]
        layerAt  == [id \in {idOf[l] : l \in D.layers} |-> ids[id \div 2]]
        snapshot == Resolve(D)
    IN  [layers      |-> layerAt,
         deltas      |-> [id \in LayerId |-> IF id \in DOMAIN layerAt THEN layerAt[id]
                                             ELSE EmptyLayer],
         schemas     |-> [s \in D.schemas |-> s],
         commits     |-> [c \in D.commits |->
                             [parent1 |-> Optional(c.parents, 1), parent2 |-> Optional(c.parents, 2),
                              layer |-> idOf[c.layer], schema |-> c.schema, stamp |-> c.stamp]],
         branches    |-> D.branches,
         tags        |-> D.tags,
         sessions    |-> D.sessions,
         data        |-> [c \in D.data |-> "valid json"],
         headers     |-> DOMAIN D.checkpoints,
         cp          |-> [c \in D.commits |-> IF c \in DOMAIN D.checkpoints THEN D.checkpoints[c]
                                              ELSE EmptyGraph],
         keys        |-> 1..MaxKey,
         nextKey     |-> MaxKey + 1,
         nextId      |-> MaxNumber + 1,
         generations |-> [g \in G |-> Generation(g, snapshot)]]

-----------------------------------------------------------------------------
(* Reading the rows.                                                       *)

ParentColumns(row) == <<row.parent1, row.parent2>>
ParentsOf(row) == {p[1] : p \in {q \in {row.parent1, row.parent2} : q # <<>>}}

(* The first-parent walk from c, cut off when it has gone round a cycle:   *)
(* the sequence of commits it visits, the last one possibly missing.       *)
Further(T, walk) ==
    LET last == walk[Len(walk)]
    IN  IF last \in DOMAIN T.commits /\ T.commits[last].parent1 # <<>>
        THEN Append(walk, T.commits[last].parent1[1])
        ELSE walk

Walk(T, c) ==
    LET limit == Cardinality(DOMAIN T.commits) + 1
        walk[n \in 0..limit] == IF n = 0 THEN <<c>> ELSE Further(T, walk[n - 1])
    IN  walk[limit]

Loops(T, c) == Len(Walk(T, c)) > Cardinality(DOMAIN T.commits) + 1

(* resolve_lineage: down to the nearest checkpoint header or past the      *)
(* root; a missing commit or Layer row, a cycle and a Layer without rows   *)
(* under another hash than the empty Layer's are errors.                   *)
LineageOk(T, row) ==
    /\ row.layer \in DOMAIN T.layers
    /\ T.deltas[row.layer] = EmptyLayer => T.layers[row.layer] = EmptyLayer

ResolvePath(T, path, stops) ==
    LET base == IF stops = {} THEN EmptyGraph ELSE T.cp[path[Sets!Min(stops)]]
        over == IF stops = {} THEN path ELSE SubSeq(path, 1, Sets!Min(stops) - 1)
        ok == /\ stops = {} => Len(path) <= Cardinality(DOMAIN T.commits) + 1
              /\ \A i \in DOMAIN path :
                     (stops = {} \/ i <= Sets!Min(stops)) =>
                         path[i] \in DOMAIN T.commits /\ T.commits[path[i]].layer \in DOMAIN T.layers
              /\ \A i \in DOMAIN over : LineageOk(T, T.commits[path[i]])
    IN  IF ~ ok THEN [ok |-> FALSE, graph |-> EmptyGraph]
        ELSE [ok |-> TRUE, graph |-> Seqs!FoldRight(LAMBDA d, g : Apply(g, T.deltas[T.commits[d].layer]), over, base)]

ResolveStops(T, path) == ResolvePath(T, path, {i \in DOMAIN path : path[i] \in T.headers})

ResolveRows(T, c) == ResolveStops(T, Walk(T, c))

-----------------------------------------------------------------------------
(* integrity_history.rs                                                    *)

Codes(code, condition) == IF condition THEN {code} ELSE {}

LayerIssues(T) ==
    Codes("history.layer_hash_mismatch", \E id \in DOMAIN T.layers : T.deltas[id] # T.layers[id])

SchemaIssues(T) ==
    Codes("history.schema_hash_mismatch", \E h \in DOMAIN T.schemas : T.schemas[h] # h)

(* Exactly one commit has neither parent.                                  *)
RootIssues(T) ==
    Codes("history.root_count",
          Cardinality({c \in DOMAIN T.commits : ParentColumns(T.commits[c]) = <<<<>>, <<>>>>}) # 1)

ReferenceIssues(T) ==
    LET rows == {T.commits[c] : c \in DOMAIN T.commits}
    IN  UNION {Codes("history.parent_shape", \E r \in rows : r.parent1 = <<>> /\ r.parent2 # <<>>),
               Codes("history.dangling_parent",
                     \E r \in rows : ~ ParentsOf(r) \subseteq DOMAIN T.commits),
               Codes("history.dangling_layer", \E r \in rows : r.layer \notin DOMAIN T.layers),
               Codes("history.dangling_schema", \E r \in rows : r.schema \notin DOMAIN T.schemas)}

(* commit_hash of the columns; the Layer enters by the hash of its row.    *)
Hashed(T, row) ==
    [parents |-> row.parent1 \o row.parent2, layer |-> T.layers[row.layer],
     schema |-> row.schema, stamp |-> row.stamp]

HashIssues(T) ==
    Codes("history.commit_hash_mismatch",
          \E c \in DOMAIN T.commits :
              /\ T.commits[c].layer \in DOMAIN T.layers
              /\ Hashed(T, T.commits[c]) # c)

(* check_commit_dag: Kahn's algorithm over the parents that exist.  A      *)
(* commit is ready when the last of them was visited.                      *)
Visited(T) ==
    LET known(c) == ParentsOf(T.commits[c]) \cap DOMAIN T.commits
        visited[n \in 0..Cardinality(DOMAIN T.commits)] ==
            IF n = 0 THEN {}
            ELSE {c \in DOMAIN T.commits : known(c) \subseteq visited[n - 1]}
    IN  visited[Cardinality(DOMAIN T.commits)]

DagIssues(T) == Codes("history.commit_cycle", Visited(T) # DOMAIN T.commits)

(* first_orphan_reference: a value below the first valid id, between two   *)
(* neighbours or above the last.                                           *)
HasOrphan(valid, column) ==
    IF valid = <<>> THEN column # {}
    ELSE \/ \E v \in column : v < valid[1]
         \/ \E v \in column, i \in 1..(Len(valid) - 1) : valid[i] < v /\ v < valid[i + 1]
         \/ \E v \in column : v > valid[Len(valid)]

(* check_orphan_rows: delta rows without their Layer and cp_ rows without  *)
(* their checkpoint.                                                       *)
OrphanIssues(T) ==
    Codes("history.orphan_rows",
          \/ HasOrphan(Seqs!SetToSortSeq(DOMAIN T.layers, <),
                       {id \in DOMAIN T.deltas : T.deltas[id] # EmptyLayer})
          \/ {c \in DOMAIN T.cp : T.cp[c] # EmptyGraph} \ T.headers # {})

HistoryIssues(T) ==
    UNION {LayerIssues(T), SchemaIssues(T), RootIssues(T), ReferenceIssues(T), HashIssues(T),
           DagIssues(T), OrphanIssues(T)}

-----------------------------------------------------------------------------
(* integrity_graph.rs                                                      *)

RefIssues(T) ==
    LET missing(c) == c \notin DOMAIN T.commits
    IN  UNION {Codes("refs.missing_main", Main \notin DOMAIN T.branches),
               Codes("refs.dangling_branch", \E b \in DOMAIN T.branches : missing(T.branches[b])),
               Codes("refs.dangling_tag", \E t \in DOMAIN T.tags : missing(T.tags[t])),
               Codes("refs.dangling_merge_session",
                     \E s \in DOMAIN T.sessions :
                         missing(T.sessions[s].ours) \/ missing(T.sessions[s].theirs)),
               Codes("refs.dangling_commit_data", \E c \in DOMAIN T.data : missing(c))}

(* The slots that a row of a stored Layer mentions.                        *)
Mentioned(T) == {s \in Slot : \E id \in DOMAIN T.layers : T.deltas[id][s] # Keep}
MaxOf(S) == Sets!Max(S \cup {0})

(* check_sequences: next_id exceeds every id in use.                       *)
SequenceIssues(T) ==
    Codes("identity.sequence_regressed",
          \/ T.nextId <= MaxOf({Number[s] : s \in Mentioned(T)})
          \/ T.nextKey <= MaxOf(T.keys))

(* check_dictionary_refs: count, min and max of the ids.                   *)
DictionaryIssues(T) ==
    UNION {Codes("dictionary.id_gap",
                 T.keys # {} /\ (Sets!Min(T.keys) # 1 \/ Cardinality(T.keys) # MaxOf(T.keys))),
           Codes("dictionary.dangling_id", MaxOf({Key[s] : s \in Mentioned(T)}) > MaxOf(T.keys))}

(* checkpoint_match_sql: for each slot the row of the smallest depth of    *)
(* the recursive lineage; missing rows drop out of the joins.              *)
ExpectedAlong(T, path) ==
    LET row(i)   == T.deltas[T.commits[path[i]].layer]
        depth(s) == {i \in DOMAIN path : path[i] \in DOMAIN T.commits /\ row(i)[s] # Keep}
    IN  [s \in Slot |-> IF depth(s) = {} THEN Absent ELSE row(Sets!Min(depth(s)))[s]]

Expected(T, c) == ExpectedAlong(T, Walk(T, c))

(* Mutant: only one of the two EXCEPTs is asked; surplus rows pass.        *)
CheckpointIssuesMissingOnly(T) ==
    UNION {Codes("checkpoint.dangling_commit", ~ T.headers \subseteq DOMAIN T.commits),
           Codes("checkpoint.snapshot_mismatch",
                 \E c \in T.headers \cap DOMAIN T.commits : \E s \in Slot :
                     Expected(T, c)[s] # Absent /\ T.cp[c][s] # Expected(T, c)[s])}

CheckpointIssues(T) ==
    UNION {Codes("checkpoint.dangling_commit", ~ T.headers \subseteq DOMAIN T.commits),
           Codes("checkpoint.snapshot_mismatch",
                 \E c \in T.headers \cap DOMAIN T.commits : T.cp[c] # Expected(T, c))}

(* validate_checkpoint_graph or validate_snapshot, commit by commit.       *)
SnapshotIssues(T) ==
    LET sound(resolved) == resolved.ok /\ WellFormed(resolved.graph)
    IN  Codes("graph.snapshot_invalid",
              \E c \in DOMAIN T.commits :
                  ~ IF c \in T.headers THEN WellFormed(T.cp[c]) ELSE sound(ResolveRows(T, c)))

GraphIssues(T) ==
    UNION {RefIssues(T), SequenceIssues(T), DictionaryIssues(T), CheckpointIssues(T),
           SnapshotIssues(T)}

(* WITH RECURSIVE ... UNION ALL counts depths, so its rows never repeat:   *)
(* on a cycle of first parents it has no last row.                         *)
CheckEnds(T) == \A c \in T.headers \cap DOMAIN T.commits : ~ Loops(T, c)

-----------------------------------------------------------------------------
(* integrity.rs                                                            *)

(* validate_generation_identity and validate_generation_counts.            *)
GenerationIssues(T) ==
    LET rows == {T.generations[g] : g \in DOMAIN T.generations}
        here(g) == g.anchor \in DOMAIN T.commits
    IN  UNION {Codes("index_generation.missing_anchor", \E g \in rows : ~ here(g)),
               Codes("index_generation.definition_hash", \E g \in rows : g.hash # g.blob),
               Codes("index_generation.definition_anchor_mismatch",
                     \E g \in rows : here(g) /\ g.blob \notin T.schemas[T.commits[g.anchor].schema]),
               Codes("index_generation.incomplete", \E g \in rows : ~ g.complete),
               Codes("index_generation.entry_count", \E g \in rows : g.count # Cardinality(g.entries))}

(* integrity_check: the derived index rows are looked at only when the     *)
(* canonical rows are sound.                                               *)
ReportOn(T, canonical) == IF canonical = {} THEN GenerationIssues(T) ELSE canonical

IntegrityCheck(T) == ReportOn(T, HistoryIssues(T) \cup GraphIssues(T))

-----------------------------------------------------------------------------
(* The engine at work: every step of VersionStore, and the index           *)
(* generations of the commits it keeps.                                    *)

Operate ==
    /\ damage = 0
    /\ Next
    /\ indexes' = {g \in indexes : g.anchor \in db'.commits}
    /\ tables' = Stored(db', indexes')
    /\ UNCHANGED damage

(* A generation is built at a commit whose Schema defines the index.       *)
BuildIndex(c, definition) ==
    /\ damage = 0
    /\ definition \in c.schema
    /\ indexes' = indexes \cup {[anchor |-> c, definition |-> definition]}
    /\ tables' = Stored(db, indexes')
    /\ UNCHANGED <<db, damage>>

-----------------------------------------------------------------------------
(* Damage: one row, or one column of it, behind the engine's back.         *)

Damage(T) ==
    /\ damage < MaxDamage
    /\ T # tables
    /\ tables' = T
    /\ damage' = damage + 1
    /\ UNCHANGED <<db, indexes>>

LoseRow(table) ==
    \E k \in DOMAIN tables[table] : Damage([tables EXCEPT ![table] = Drop(@, k)])

ChangeColumn(column, values) ==
    \E c \in DOMAIN tables.commits, v \in values :
        Damage([tables EXCEPT !.commits[c] = [@ EXCEPT ![column] = v]])

ChangeParent ==
    LET parents == {<<>>} \cup {<<c>> : c \in db.commits}
    IN  ChangeColumn("parent1", parents) \/ ChangeColumn("parent2", parents)

ChangeContents ==
    \/ ChangeColumn("layer", LayerId)
    \/ ChangeColumn("schema", Schema)
    \/ ChangeColumn("stamp", Stamp)

(* A delta row, of a stored Layer or of none, appears, changes or goes.    *)
ChangeDelta ==
    \E id \in LayerId, s \in Slot, v \in Value \cup {Absent, Keep} :
        Damage([tables EXCEPT !.deltas[id][s] = v])

ChangeHash ==
    \E id \in DOMAIN tables.layers, l \in db.layers \cup {tables.deltas[i] : i \in LayerId} :
        Damage([tables EXCEPT !.layers[id] = l])

ChangeBlob ==
    \E h \in DOMAIN tables.schemas, blob \in Schema : Damage([tables EXCEPT !.schemas[h] = blob])

ChangeCheckpoint ==
    \/ \E c \in DOMAIN tables.cp, s \in Slot, v \in Value \cup {Absent} :
           Damage([tables EXCEPT !.cp[c][s] = v])
    \/ \E c \in DOMAIN tables.cp :
           \/ Damage([tables EXCEPT !.headers = @ \cup {c}])
           \/ Damage([tables EXCEPT !.headers = @ \ {c}])

ChangeIdentity ==
    \/ \E k \in tables.keys : Damage([tables EXCEPT !.keys = @ \ {k}])
    \/ \E n \in 1..MaxNumber : Damage([tables EXCEPT !.nextId = n])
    \/ \E n \in 1..(MaxKey + 1) : Damage([tables EXCEPT !.nextKey = n])

ChangeData ==
    \E c \in DOMAIN tables.data : Damage([tables EXCEPT !.data[c] = "damaged"])

ChangeGeneration ==
    \E g \in DOMAIN tables.generations :
        \/ \E d \in SchemaObject : Damage([tables EXCEPT !.generations[g].blob = d])
        \/ \E c \in db.commits : Damage([tables EXCEPT !.generations[g].anchor = c])
        \/ \E s \in tables.generations[g].entries :
               Damage([tables EXCEPT !.generations[g].entries = @ \ {s}])
        \/ Damage([tables EXCEPT !.generations[g].complete = FALSE])

DamageRow ==
    \/ \E table \in {"layers", "schemas", "commits", "branches", "tags", "sessions"} : LoseRow(table)
    \/ ChangeParent
    \/ ChangeContents
    \/ ChangeDelta
    \/ ChangeHash
    \/ ChangeBlob
    \/ ChangeCheckpoint
    \/ ChangeIdentity
    \/ ChangeData
    \/ ChangeGeneration

IntInit ==
    /\ Init
    /\ indexes = {}
    /\ tables = Stored(InitialDB, {})
    /\ damage = 0

IntNext ==
    \/ Operate
    \/ \E c \in db.commits, definition \in SchemaObject : BuildIndex(c, definition)
    \/ DamageRow

IntSpec == IntInit /\ [][IntNext]_intVars

-----------------------------------------------------------------------------
(* Properties                                                              *)

(* No false alarm: whatever sequence of writes, merges, resets, schema     *)
(* changes, checkpoints, index builds and collections led to it, the check *)
(* ends and finds nothing wrong with a database nobody damaged.            *)
NoFalseAlarm == damage = 0 => CheckEnds(tables) /\ IntegrityCheck(tables) = {}

(* The Snapshot committed under an id.                                     *)
Meaning(D) == Replay(D)

(* A clean check is worth something: after any damage it does not report,  *)
(* every reference finds its commit and every commit still resolves to the *)
(* Snapshot and the Schema it was committed with.                          *)
CleanMeansIntact ==
    CheckEnds(tables) /\ IntegrityCheck(tables) = {} =>
        /\ Main \in DOMAIN tables.branches
        /\ \A b \in DOMAIN tables.branches : tables.branches[b] \in DOMAIN tables.commits
        /\ \A t \in DOMAIN tables.tags : tables.tags[t] \in DOMAIN tables.commits
        /\ \A s \in DOMAIN tables.sessions :
               {tables.sessions[s].ours, tables.sessions[s].theirs} \subseteq DOMAIN tables.commits
        /\ \A c \in DOMAIN tables.commits :
               /\ ResolveRows(tables, c) = [ok |-> TRUE, graph |-> Meaning(db)[c]]
               /\ tables.schemas[tables.commits[c].schema] = c.schema

(* Kahn's algorithm, run with dangling and repeated parents, reports a     *)
(* cycle exactly when some set of commits has no oldest member.            *)
CyclesFound ==
    (DagIssues(tables) # {}) <=>
        \E S \in SUBSET DOMAIN tables.commits :
            S # {} /\ \A c \in S : ParentsOf(tables.commits[c]) \cap S # {}

(* A clean check means that every index generation is complete, belongs to *)
(* a stored commit and is of an index which the Schema of that commit      *)
(* defines.                                                                *)
CleanMeansAnchored ==
    CheckEnds(tables) /\ IntegrityCheck(tables) = {} =>
        \A g \in DOMAIN tables.generations :
            LET row == tables.generations[g]
            IN  /\ row.complete
                /\ row.anchor \in DOMAIN tables.commits
                /\ row.blob \in row.anchor.schema

=============================================================================
