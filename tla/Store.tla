------------------------------- MODULE Store -------------------------------
(***************************************************************************)
(* The tables of a Lithograph database as one value D, and the storage     *)
(* functions of lithograph-core/src/storage as operators on it.  VersionStore *)
(* applies them to the durable database, ExplicitTx also to the            *)
(* uncommitted contents of an open SQLite transaction.                     *)
(*                                                                         *)
(* D.commits      _lithograph_commits, a set of commit records             *)
(* D.layers       _lithograph_layers with its delta rows                   *)
(* D.schemas      _lithograph_schema_objects                               *)
(* D.branches     _lithograph_branches, from names to commits              *)
(* D.tags         _lithograph_tags                                         *)
(* D.sessions     _lithograph_merge_sessions                               *)
(* D.data         the commits with a _lithograph_commit_data row           *)
(* D.checkpoints  _lithograph_checkpoints, from commits to their cp_ rows  *)
(*                                                                         *)
(* A commit's id is the hash of its parents, Layer, Schema and metadata;   *)
(* the hash is taken to be injective, so the record is its own id and two  *)
(* commits with the same contents are one row.  stamp stands for the       *)
(* metadata (author, message, committed_at).                               *)
(***************************************************************************)
EXTENDS GraphLayers, Integers, Sequences

CONSTANTS
    Branch,         \* branch names
    Main,           \* the branch initialize_root creates
    Tag,            \* tag names
    Session,        \* merge session ids
    SchemaObject,   \* constraints and graph types a schema may define
    Conforms,       \* Conforms[o]: the Snapshots that satisfy o
    Stamp,          \* commit metadata
    RootStamp       \* CommitMetadata::root()

ASSUME NamesAssumption == Main \in Branch /\ RootStamp \in Stamp
ASSUME ConformsAssumption == Conforms \in [SchemaObject -> SUBSET Graph]

Schema == SUBSET SchemaObject
RootSchema == {}

(* Validation of a Snapshot against a schema (schema/validate.rs).         *)
Satisfies(g, schema) == \A o \in schema : g \in Conforms[o]

-----------------------------------------------------------------------------
(* Partial functions: a table with a primary key.                          *)

Put(f, k, v) == [x \in DOMAIN f \cup {k} |-> IF x = k THEN v ELSE f[x]]
Drop(f, k) == [x \in DOMAIN f \ {k} |-> f[x]]
Only(f, S) == [x \in DOMAIN f \cap S |-> f[x]]

-----------------------------------------------------------------------------
(* Commits and the database initialize_root leaves.                        *)

NewCommit(parents, layer, schema, stamp) ==
    [parents |-> parents, layer |-> layer, schema |-> schema, stamp |-> stamp]

Root == NewCommit(<<>>, EmptyLayer, RootSchema, RootStamp)

InitialDB ==
    [commits     |-> {Root},
     layers      |-> {EmptyLayer},
     schemas     |-> {RootSchema},
     branches    |-> [b \in {Main} |-> Root],
     tags        |-> [t \in {} |-> Root],
     sessions    |-> [s \in {} |-> Root],
     data        |-> {},
     checkpoints |-> [c \in {} |-> EmptyGraph]]

Parents(c) == {c.parents[i] : i \in DOMAIN c.parents}

-----------------------------------------------------------------------------
(* Reading a version.                                                      *)

(* Mutant: the Layer of the commit right above a checkpoint is skipped.    *)
ResolveSkippingLayer(D) ==
    LET snapshot[c \in D.commits] ==
            IF c \in DOMAIN D.checkpoints THEN D.checkpoints[c]
            ELSE IF c.parents = <<>> THEN Apply(EmptyGraph, c.layer)
            ELSE IF c.parents[1] \in DOMAIN D.checkpoints THEN D.checkpoints[c.parents[1]]
            ELSE Apply(snapshot[c.parents[1]], c.layer)
    IN  snapshot

(* Snapshot::resolve: resolve_lineage walks first parents to the nearest   *)
(* checkpoint, or past the root, and the Layers above it are applied       *)
(* oldest first.                                                           *)
Resolve(D) ==
    LET snapshot[c \in D.commits] ==
            IF c \in DOMAIN D.checkpoints THEN D.checkpoints[c]
            ELSE IF c.parents = <<>> THEN Apply(EmptyGraph, c.layer)
            ELSE Apply(snapshot[c.parents[1]], c.layer)
    IN  snapshot

(* create_checkpoint: replays every Layer from the root, and never starts  *)
(* from an older checkpoint.                                               *)
Replay(D) ==
    LET replay[c \in D.commits] ==
            IF c.parents = <<>> THEN Apply(EmptyGraph, c.layer)
            ELSE Apply(replay[c.parents[1]], c.layer)
    IN  replay

(* The first-parent lineage of each commit, the commit included.           *)
Lineage(D) ==
    LET lineage[c \in D.commits] ==
            {c} \cup IF c.parents = <<>> THEN {} ELSE lineage[c.parents[1]]
    IN  lineage

(* reachable_commits: the least set that holds the roots and, with a       *)
(* commit, its parents.                                                    *)
ClosedUnderParents(D, S) == \A c \in S : Parents(c) \cap D.commits \subseteq S

Reachable(D, roots) ==
    LET closed == {S \in SUBSET D.commits : roots \subseteq S /\ ClosedUnderParents(D, S)}
    IN  {c \in D.commits : \A S \in closed : c \in S}

(* touched_layer_between_commits for a first-parent descendant of base; a  *)
(* walk that ends at a root instead is refused, and nobody asks for it.    *)
Touched(D, base) ==
    LET touched[c \in D.commits] ==
            IF c = base THEN EmptyLayer
            ELSE IF c.parents = <<>> THEN c.layer
            ELSE OrInsert(c.layer, touched[c.parents[1]])
    IN  touched

(* layer_between_commits.                                                  *)
LayerBetweenCommits(D, base, descendant) ==
    Normalize(Resolve(D)[base], Touched(D, base)[descendant])

-----------------------------------------------------------------------------
(* storage/commit.rs                                                       *)

(* The validation a write query makes before it commits: the Snapshot it   *)
(* produces satisfies the schema of its base commit.                       *)
ValidWrite(D, head, layer) == Satisfies(Apply(Resolve(D)[head], layer), head.schema)

(* The validation a schema command makes: only the objects that are new    *)
(* are checked against the data.                                           *)
ValidSchemaChange(D, head, schema) == Satisfies(Resolve(D)[head], schema \ head.schema)

(* commit_change_inner up to the first write; parents[1] is the expected  *)
(* head.  An empty Layer is not validated.                                 *)
CanCommit(D, b, parents, layer, schema) ==
    /\ b \in DOMAIN D.branches
    /\ D.branches[b] = parents[1]
    /\ \A i \in DOMAIN parents : parents[i] \in D.commits
    /\ schema \in D.schemas
    /\ layer # EmptyLayer => ValidLayer(Resolve(D)[parents[1]], layer)

(* commit_change_inner: persist_layer, INSERT OR IGNORE of the commit and  *)
(* the compare-and-move of the branch.                                     *)
CommitChange(D, b, parents, layer, schema, stamp) ==
    LET commit == NewCommit(parents, layer, schema, stamp)
    IN  [D EXCEPT !.layers = @ \cup {layer},
                  !.commits = @ \cup {commit},
                  !.branches = Put(@, b, commit)]

(* persist_schema_blob: INSERT OR IGNORE.                                  *)
PersistSchema(D, schema) == [D EXCEPT !.schemas = @ \cup {schema}]

-----------------------------------------------------------------------------
(* storage/version/refs.rs                                                 *)

MoveBranch(D, b, target) == [D EXCEPT !.branches = Put(@, b, target)]

(* move_branch_ref with an expected head.                                  *)
CanMoveBranch(D, b, expected, target) ==
    /\ target \in D.commits
    /\ b \in DOMAIN D.branches
    /\ D.branches[b] = expected

-----------------------------------------------------------------------------
(* storage/version/history.rs: the staged chain of an explicit transaction *)

(* staged_chain: the first parents of head down to, not including, base.   *)
StagedChain(D, base, head) == Lineage(D)[head] \ Lineage(D)[base]

(* discard_uncommitted_chain: delete_staged_commits with their sidecars,   *)
(* then the Layers and Schemas of the chain that no commit uses any more.  *)
DiscardChain(D, chain) ==
    LET kept == D.commits \ chain
        unusedLayers == {c.layer : c \in chain} \ {c.layer : c \in kept}
        unusedSchemas == {c.schema : c \in chain} \ {c.schema : c \in kept}
    IN  [D EXCEPT !.commits = kept,
                  !.layers = @ \ unusedLayers,
                  !.schemas = @ \ unusedSchemas,
                  !.data = @ \ chain,
                  !.checkpoints = Only(@, kept)]

-----------------------------------------------------------------------------
(* storage/version/gc.rs                                                   *)

(* Mutant: open merge sessions are not roots.                              *)
GcRootsWithoutSessions(D) ==
    {D.branches[b] : b \in DOMAIN D.branches} \cup {D.tags[t] : t \in DOMAIN D.tags}

(* list_branches, list_tags and merge_session_roots.                       *)
GcRoots(D) ==
    {D.branches[b] : b \in DOMAIN D.branches}
        \cup {D.tags[t] : t \in DOMAIN D.tags}
        \cup {D.sessions[s].ours : s \in DOMAIN D.sessions}
        \cup {D.sessions[s].theirs : s \in DOMAIN D.sessions}

(* Mutant: Layers are not swept.                                           *)
CollectGarbageKeepingLayers(D) ==
    LET live == Reachable(D, GcRoots(D))
    IN  [D EXCEPT !.commits = live,
                  !.schemas = {s \in @ : \E c \in live : c.schema = s},
                  !.data = @ \cap live,
                  !.checkpoints = Only(@, live)]

(* Mutant: only branches are roots.                                        *)
CollectGarbageFromBranches(D) ==
    LET live == Reachable(D, {D.branches[b] : b \in DOMAIN D.branches})
    IN  [D EXCEPT !.commits = live, !.layers = {c.layer : c \in live},
                  !.schemas = {c.schema : c \in live},
                  !.data = @ \cap live, !.checkpoints = Only(@, live)]

(* collect_garbage returns early when every commit is reachable and leaves *)
(* the Layer and Schema tables unswept then.                               *)
CollectGarbage(D) ==
    LET live == Reachable(D, GcRoots(D))
    IN  IF live = D.commits THEN D
        ELSE [D EXCEPT !.commits = live,
                       !.layers = {l \in @ : \E c \in live : c.layer = l},
                       !.schemas = {s \in @ : \E c \in live : c.schema = s},
                       !.data = @ \cap live,
                       !.checkpoints = Only(@, live)]

-----------------------------------------------------------------------------
(* What every database must satisfy.                                       *)

IsDatabase(D) ==
    D = [commits |-> D.commits, layers |-> D.layers, schemas |-> D.schemas,
         branches |-> D.branches, tags |-> D.tags, sessions |-> D.sessions,
         data |-> D.data, checkpoints |-> D.checkpoints]

IsCommit(c) ==
    /\ c = NewCommit(c.parents, c.layer, c.schema, c.stamp)
    /\ DOMAIN c.parents \in {{}, {1}, {1, 2}}
    /\ c.schema \in Schema /\ c.stamp \in Stamp

IsSession(session) ==
    /\ session = [target |-> session.target, ours |-> session.ours,
                  theirs |-> session.theirs, revision |-> session.revision]
    /\ session.target \in Branch /\ session.revision \in Nat \ {0}

TablesTyped(D) ==
    /\ IsDatabase(D)
    /\ \A c \in D.commits : IsCommit(c)
    /\ D.schemas \subseteq Schema
    /\ DOMAIN D.branches \subseteq Branch
    /\ DOMAIN D.tags \subseteq Tag
    /\ DOMAIN D.sessions \subseteq Session
    /\ \A s \in DOMAIN D.sessions : IsSession(D.sessions[s])

BranchesResolve(D) ==
    /\ Main \in DOMAIN D.branches
    /\ \A b \in DOMAIN D.branches : D.branches[b] \in D.commits
TagsResolve(D) == \A t \in DOMAIN D.tags : D.tags[t] \in D.commits
SessionsResolve(D) ==
    \A s \in DOMAIN D.sessions : {D.sessions[s].ours, D.sessions[s].theirs} \subseteq D.commits
HistoryComplete(D) ==
    \A c \in D.commits : Parents(c) \subseteq D.commits /\ c.layer \in D.layers /\ c.schema \in D.schemas
SidecarsResolve(D) == D.data \subseteq D.commits /\ DOMAIN D.checkpoints \subseteq D.commits
NoOrphanRows(D) ==
    /\ \A l \in D.layers : \E c \in D.commits : c.layer = l
    /\ \A s \in D.schemas : \E c \in D.commits : c.schema = s

ReferencesResolve(D) ==
    /\ BranchesResolve(D)
    /\ TagsResolve(D)
    /\ SessionsResolve(D)
    /\ HistoryComplete(D)
    /\ SidecarsResolve(D)

=============================================================================
