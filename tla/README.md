# A TLA+ model of Lithograph

Lithograph is a SQLite extension that adds a Cypher graph database with versions
to an ordinary SQLite file. Every write is a commit; commits form a history with
branches, tags, merges, squashes, reverts, rebases and garbage collection. A host
application reaches it through SQL functions (`lithograph()`,
`lithograph_rows()`, `lithograph_tx_begin/commit/abort()`, `lithograph_init()`).

This directory holds TLA+ modules translated from its source, TLC configurations
that check them on small instances, and TLAPS proofs. Paths are relative to the
repository root; `core/` stands for `crates/lithograph-core/src/` and `ext/` for
`crates/lithograph-extension/src/`. `PROJECT.json` maps every definition to the
lines it models, lists the hazards with the properties that watch them, and
names a mutant for every property of every run. A helper that stands for part of a
function which another definition is mapped to has no entry of its own.

## 1. The system

| Part | State | Operations | What is hard |
|---|---|---|---|
| Layers (`core/storage/layer.rs`, `snapshot_overlay.rs`, `version/state.rs`) | a Layer: the touched slots of a graph with their new values | apply, merge of several, normalise, diff | a slot touched twice, or set back to its base value |
| Snapshots (`core/storage/snapshot*.rs`, `checkpoint.rs`) | a checkpoint, an overlay of Layers, a cache | resolve, page, stream, prefetch, validate a candidate | reads through a checkpoint must equal a replay; clones share an overlay that goes on changing |
| Commits and references (`core/storage/commit.rs`, `version/*.rs`) | tables of commits, Layers, schemas, branches, tags, commit data, checkpoints | commit, move and delete references, gc, discard a staged chain | compare-and-move against other writers; no foreign keys |
| Version procedures (`core/query/version`) | the connection's active branch | branch, tag, commit, reset, revert, squash, rebase, patch, log, gc | several storage calls in one savepoint; paged results over a moving history |
| Merges (`core/query/version/merge*`) | sessions with a revision and resolutions | start, resolve, finalize, abort | versions pinned at the start; two phases with the writer lock in between |
| Explicit transactions (`ext/transaction.rs`) | branch, base and mutated flag of a connection | begin, commit, abort, fail closed, quarantine | staged commits are rows of an open SQLite transaction, squashed at the end |
| Executions (`ext/execution.rs`, `rows.rs`, `scalar.rs`) | per cursor: pinned head, savepoint, guards | filter, next, summary, close, interrupt | the host stops, closes or interleaves cursors at any point |
| Schema (`core/query/schema`) | graph types, constraints, indexes of each commit | schema commands, SHOW, merging | dependents, automatic names, merging object by object |
| Indexes (`core/query/schema/index*`, `semantic_index*`, FTS5) | generations, bindings, caches, HNSW graphs | build, extend, bind, evict, seek | staleness against the commit a generation is anchored at |
| Queries (`core/query`) | one execution | match, project, sort, mutate | several executors for one language must agree |
| `CALL IN TRANSACTIONS`, `LOAD CSV` (`core/query/transaction.rs`, `ingestion`) | pending rows, batches | read, run, retry, skip | a failure after earlier batches were committed |
| Memory (`core/query/resources.rs`, `spill.rs`) | an atomic counter, leases, runs on disk | reserve, hand over, spill, merge | workers share the counter |
| Embeddings (`lithograph-openai-compatible`) | HTTP client, cache file of several processes | embed, retry, cancel, trim | late answers; other processes with other limits |
| Initialization (`ext/lib.rs`) | the file | init, migrate, check | races and crashes between formats |

How they interact. A query is *prepared*: the extension takes its guards, parses
and pins the head of its branch. A read works on the Snapshot of that commit. A
write opens a SAVEPOINT at its first row, computes a Layer on the pinned commit,
validates it and calls `commit_layer_with_schema`, which compares the branch with
the pinned head and moves it. A version procedure calls the same storage
functions. Outside a transaction the savepoint is SQLite's transaction and
`RELEASE` commits it. In an explicit transaction each write leaves a *staged*
commit on the branch; `lithograph_tx_commit` computes the net Layer from the
staged chain, moves the branch back, deletes the chain and makes one commit on
the base. Other connections see only what is durable, and SQLite lets one of
them write at a time.

What makes it correct, for the part everything else depends on: references
resolve whatever gc collects; a commit reads the same as long as it exists, as a
graph in which every label, property and relationship has its owners and which
satisfies its schema; a commit replaces only the head it was made on; an explicit
transaction is all or nothing, and one commit.

## 2. Modules

`MCVersionStore`, `MCExplicitTx`, `MCVersions`, `MCEngine` and `MCQueries` are the
modules TLC runs. The last three instantiate many components: each *part* is one
instance of one component on the shared variables `x1, x2, ...`, and `part` is
fixed by the initial state, so a run explores the disjoint union of its parts.
Their comments state every property; what a run checks is the conjunction of
those that one piece of code, or one promise, stands behind. `MCVersions` takes
what its instances are about (graphs of slots, indexes, analyzers, clauses) as
CONSTANTS with named assumptions, and has theorems about all of them;
`MCEngine` and `MCQueries` fix theirs in definitions.

### The version store

| Module | Models | Depends on |
|---|---|---|
| `GraphLayers` | slots, Layers, Snapshots and the operators on them | |
| `Store` | all tables as one value `D`, the functions of `core/storage` as operators | `GraphLayers` |
| `VersionStore` | the durable database: a variable `db`, one action per operation, a rebase included | `Store` |
| `ExplicitTx` | one connection with cursors and an explicit transaction, the rest of the world beside it; implements `VersionStore` | `Store`, `VersionStore` |
| `StoreProofs`, `VersionStoreProofs`, `ExplicitTxProofs` | theorems | |
| `History` | the commit graph: common ancestors, rebase sequences, the paged log | |
| `ActiveBranch` | the TEMP row that says what a connection has checked out | |
| `ThreeWayMerge`, `MergeResolution` | slot decisions, conflicts, virtual bases, and theorems; a user resolving them | |
| `MergeSessionSpec`, `MergeSession` | what merge sessions promise; the two-phase procedures on several connections, and theorems | |
| `Rebase` | one call of rebase commit by commit: conflicts, failures, cancellation, the next call | `ThreeWayMerge` |

**GraphLayers.** The code keeps nodes, labels, relationships and properties in
four maps. They differ only in what they depend on, so the model has one set
`Slot` and `Owners[s]`, the slots that must be visible while `s` is. A Layer maps
every slot to a value, to `Absent` (`DeltaOp::Remove`) or to `Keep` (no row).
`ValidLayer` is `validate_layer_invariants_checked`, which looks only at the slots
of the Layer and their dependents; `WellFormed` is what it should guarantee for
the whole graph.

**Store, VersionStore.** A commit's id is a hash of its contents. The model takes
the hash to be injective and uses the contents themselves: a commit is the record
of its parents, Layer, schema and `stamp`, which stands for author, message and
time. Two commits with equal contents are therefore one row, as in the code
(`INSERT OR IGNORE`). Every action of `VersionStore` is one SQLite transaction
with all the storage calls of its procedure. The head a mutation was prepared at
is *any* commit of the store: another connection may have moved the branch since,
and the compare-and-move decides.

**ExplicitTx.** `db` is durable, `work` is what the connection sees. They differ
only while the connection holds SQLite's write transaction (`open`). `tx` is
`ExplicitTransactionState`, and `cursors` holds the phase of each execution:
`reading` (prepared, holds a `MainReadGuard`), `pending` (a prepared write, holds
the `SideEffectGuard`) and `active` (the savepoint is open, the write has run, the
summary is to come). `Open` is xFilter, `StartWrite` the first xNext of a write,
the `Complete` actions the summary, the `Cancel` actions xClose or an error,
`Interrupt` the recovery in `ext/interrupt_cleanup.rs`; a failed rollback
quarantines; `Reconnect` is a crash, or a closed connection, at any moment;
`Elsewhere` is any other connection.

**MergeSession.** A procedure runs in the savepoint of its cursor, a deferred
SQLite transaction: its first read pins a snapshot, its first write asks for the
writer lock and is refused (BUSY) when another holds it or the snapshot is no
longer the latest. `MergeSessionSpec` is the same four operations as single steps.

### The engine

| Module | Models | Part of `MCEngine`, or of `MCVersions` (V) |
|---|---|---|
| `SchemaCommands` | schema commands on a versioned schema, SHOW, merging schemas | `commands`, `merged` |
| `PropertyTypes` | property type expressions and their normal form | `types` |
| `Initialization` | `lithograph_init` racing, failing and crashing over any file | V: `opening` |
| `Integrity` | `lithograph_integrity_check` over sound and damaged databases | `damaged`, `damagedIndex`, `damagedRefs` |
| `SnapshotRead` | paged and streamed reads of a checkpoint and an overlay | `snapshot` |
| `IndexGenerations` | generations, bindings, eviction, scans; and theorems | V: `generations`, `redefined`, `scanned` |
| `Hnsw`, `SemanticQuery` | the vector graph; semantic queries with their cache | `flat`, `layered`, `ring`, `semantic` |
| `FullTextCache` | FTS5 cache tables and the analyzer override | V: `fulltext` |
| `Mutation` | the clauses of a writing query over staged rows | `updating` |
| `InTransactions`, `CsvBatches`, `CsvRows` | batches with retries, and theorems; `LOAD CSV` into batches; the CSV reader | V: `batched`; `retrying`, `loading`, `csv` |
| `SortSpill`, `Leases` | the external sort; memory leases on several threads | `sorting`, `memory` |
| `ProviderClient`, `ProviderCache` | the embedding client; its cache file | `client`, `vectors` |

| Module | Models | Part of `MCQueries` |
|---|---|---|
| `PathMatching` | MATCH and MERGE patterns in the general executor | `paths` |
| `MatchCursor` | the streamed pipeline of MATCH clauses | `cursors` |
| `ReadRouting` | which executor answers a read, and what is lowered for it | `routing` |
| `ProgramStream` | the materialising and the streaming program executor | `streams` |
| `IndexSeek` | predicates answered from an index | `seeks` |
| `CypherValues` | order, equality, DISTINCT of values (relations in `MCQueries`) | `relations` |
| `CanonicalValues`, `JsonValues` | canonical bytes and columns; JSON rows | `encoded`, `json` |
| `Expressions` | evaluation of expressions | `evaluated` |
| `Calendar` | dates, truncation, adding months | `dates` |

Throughout, data is reduced to what the properties tell apart: a property value
is a model value that is compared, a message or text a number, the 64-bit
integers a small range with the same ends and the same float neighbours. Control
is kept: the order of the calls, the early returns, what an error leaves behind.

## 3. Runs

| Run | Explores | Checks |
|---|---|---|
| `refs` | 2 branches, a tag, a session, a sidecar, 3 commits of one node under every version operation | no reference dangles, no row is orphaned, no reachable commit is collected |
| `merge` | 2 branches, a session of 2 revisions, 4 commits | a finalize keeps both sides; a published head continues, equals or wholly replays the head it replaces |
| `content` | a node, its property, a constraint, 4 commits, a checkpoint | every commit reads as a valid Snapshot of its schema, the same for ever |
| `tx` | 2 explicit transactions, 2 cursors, a schema object, another connection, crashes | the connection's state agrees with SQLite's; staged work can always be published, as one commit; the version store is implemented |
| `history` | parts `log`, `bases`, `branch`, `session`, `opening` | the paged log, merge bases, the active branch, merge sessions against their specification; initialization is safe and keeps the database's identity; and that all of these calls end |
| `merging` | parts `relationship`, `constraint`, `crisscross`, `rebase`, `replay` | ready merges are valid, lose nothing silently, favour no side and can always be resolved; rebase is all or nothing and ends |
| `storage` | parts `commands`, `merged`, `types`, `damaged*`, `snapshot`, `flat`, `layered`, `ring`, `semantic` | schemas mean what was declared; the integrity check is exact; reads agree with the Snapshot; semantic search finds what its graph and its snapshot have |
| `index` | parts `generations`, `redefined`, `scanned`, `fulltext`, `batched` | an index or cache answers as its snapshot would; a query that commits in batches writes each row once and reports truly |
| `writes` | parts `updating`, `retrying`, `csv`, `loading`, `sorting`, `memory`, `client`, `vectors` | a writing query does what it says; CSV, memory and embeddings keep their promises; retried batches, sorts and requests end |
| `queries` | the parts of `MCQueries` | paths against their definition, pipelines and seeks against the executor, encodings and expressions against reference definitions |
| `tx_fail_closed` | as `tx`, one cursor | violated: see below |
| `merge_delete_modify` | part `relationship` | violated: see below |

Every property of a passing run has a mutant, a plausible bug in one mapped
definition, for which TLC finds it violated. Deadlock is checked in `refs`,
`merge`, `content` and `tx`; in the other runs many parts are one computation
that ends (a rebase, a sort, an answered question), which is why they turn the
check off, and the liveness properties say what must not stop.

**Bounds.** `MaxCommits` bounds the commit table: three commits give a root, a
commit on each branch and a collection of any of them; four give a merge commit
on top of a divergence, a squash across commits and a revert that is not of the
head. Garbage collection removes commits, so behaviours are not limited to that
many in time. A rebase adds a commit for each one it replays, so `MaxRewritten`
bounds the table after it: six, in `merge`, is a replay of two commits in a table of
four. From a state of at most `MaxCommits` commits every step is taken and checked,
that rebase too; the CONSTRAINT `WithinBounds` only stops TLC from going on from a
larger state. `MaxRevision` 2 lets a session move on under a client that holds
revision 1; `MaxTx` 2 with two cursors is a cursor that outlives its transaction;
`MaxSidecars` bounds commit data and checkpoints together. `History` takes every
acyclic graph of five commits (four with a log), which has the criss-cross and
the diamond over a criss-cross. Merges have at most five slots: two owners, a
dependent of one and of both, and a property of that. Engine parts have two
connections, threads, processes or batches, and page sizes and limits at which a
page ends before, at and after its last row. The theorems of section 4 hold
without any of these bounds.

**Fairness.** None for the version store and explicit transactions: a cursor may
be left unread for ever, and the code has no background work. `FinalizeSucceeds`
says as a safety property what liveness would say of `tx_commit`. Elsewhere weak
fairness is put on the steps of a call that is running (a log reader, a session
procedure, `lithograph_init`, a batch, a sort, a provider request) because such
a call is a loop in a thread that the host or the operating system schedules; and
on the answer of the network or its timeout, which the client's deadline
guarantees. What the environment may do (write, cancel, crash, answer wrongly)
is never fair.

### The two violated runs

`tx_fail_closed`: a write cursor is opened in an explicit transaction and not
stepped; another call fails on its arguments, which rolls the transaction back;
the cursor is then stepped. Its SAVEPOINT is now outermost, so the summary's
RELEASE makes the write durable, and only then does the execution notice that its
transaction is gone. `docs/design/storage.md:337` says that such a failure rolls
everything back and that nothing can go on executing.

`merge_delete_modify`: one side only deletes a relationship, the other only adds a
property to it; both of its end nodes stay. `node_delete_modify_conflict`
(`merge.rs:665`) looks at deleted nodes, and each slot was changed by one side only,
so both changes are taken and no conflict is reported; the candidate then fails
validation, and there is no conflict to resolve. (Where an end node is deleted
too, the conflict is reported at the node.) `docs/design/versioning.md:254` says "delete-vs-modify ->
conflict".

### Other divergences met while modelling

The modules follow the code. Where a document, comment or test of the repository
says otherwise, the properties leave the case out and these notes record it. Most
were counterexamples of a property stated as the document has it.

* An execution refused because a write cursor is open returns before the code that
  fails the explicit transaction closed (`ext/execution.rs:23`); `interfaces.md:211`
  says any execution failure in a transaction ends it.
* Commits are content-addressed and `committed_at` is the system clock
  (`ext/transaction.rs:416`). With a repeated microsecond a staged commit is the
  same row as a commit another branch holds, and `tx_commit` deletes it. This is
  why the theorems about `ExplicitTx` assume `Monotonic`.
* Answering at once a conflict at a relationship and the one at its deleted end
  makes the first unknown, and rebase refuses the call
  (`core/query/version/operations.rs:755`).
* A schema command in an explicit transaction publishes the new index's generation
  at a staged commit; discarding the chain leaves it (`version/history.rs:239`).
* A merge decides schema objects one by one (`merge/state.rs:267`): a constraint and
  an index may get one name, two types of a property may both stay, and after some
  merges no single index can be dropped (`schema/command.rs:1190`).
* `ANY<ANY NOT NULL>` in a union with a nullable member is shown as a union that
  SET refuses (`schema/show.rs:893`).
* Records that end in a lone CR: all but the first of each physical line are lost
  (`ingestion/csv_rows.rs:107`).
* The second query of a semantic index without any text fails with an internal
  error (`managed_semantic.rs:387`).
* A dropped duplicate returns before the headroom of the producer is tested
  (`query/spill.rs:471`).
* Values of two families compare by the rank of their families
  (`core/cypher/value.rs:422`), although the comment above promises an error.
* A standalone group with zero repetitions matches a path without a node, and a
  group rebinds an imported variable (`completeness/path.rs:638`, `:778`).
* The streamed pipeline lets two patterns share a relationship through one variable
  (`stream/match_pipeline.rs:768`).
* `MATCH (n) FINISH`, `LIMIT 1 + 1` and `MATCH (n {})` are sent to a reader that
  refuses them (`query/plan.rs:799`, `:1230`, `:1064`).
* A `CALL` over no rows, a nested unit `CALL`, and `linenumber()` after a streamed
  `ORDER BY` (`completeness/execute/call.rs:13`, `:235`, `stream/program.rs:792`).
* Seeks that differ from a scan: an empty suffix, a NaN bound, an infinite radius,
  errors of conjuncts that a seek skips (`schema/index/cache.rs:491`, `:520`, `:906`,
  `schema/index.rs:223`).
* The integrity check accepts commit data that is no JSON and does not end on a
  cycle of first parents (`integrity_graph.rs:142`, `:438`).
* A file with reserved objects but no metadata table counts as not initialized
  (`ext/lib.rs:900`).
* `date.truncate('year', d, {week: w})` can leave the year, and dates of the years
  -999 to -1 have no text that can be read back (`functions/instant.rs:1099`,
  `core/cypher/temporal.rs:441`).

## 4. Proofs

The theorems hold for any slots, values, owner relation, schema, names and bounds
that satisfy the assumptions of the modules: owners are slots, `Absent` and `Keep`
are not values, `Main` is a branch, a constraint is a set of Snapshots, bounds are
naturals, stamps of `ExplicitTx` are naturals. Nothing else is assumed about the
graph. Further hypotheses are named where they are needed: `Monotonic` for explicit
transactions, and the assumptions on the constants of `MCVersions`, which TLC
evaluates in its runs.

**Algebra of Layers** (`StoreProofs`). Incremental validation is sound and complete
for `WellFormed`; merging touched slots newest first equals replaying; normalising
a Layer and diffing two Snapshots give the same canonical Layer; and
`layer_between_commits`, which only looks at the slots touched between a commit
and a first-parent ancestor, gives exactly the difference of their Snapshots
(`NetLayerIsDifference`). Together they are why `tx_commit`, squash and revert may
trust a Layer they rebuild from rows.

**References** (`VersionStoreProofs`). No invariant is inductive alone: gc keeps
references valid because its roots resolve and the set it keeps is closed under
parents; a new commit has its schema row because `CanCommit` looked for it; the
early return of `collect_garbage` is right only because no operation leaves an
orphan. `Sound` is their conjunction with the shapes of the tables. Every action
either *extends* the database (adds one commit, or repoints references and
sidecars at existing ones), is gc, or is a rebase (`NextExtends`), which is a chain
of such extensions (`RebaseReplays`). Because a rebase merges what commits read as,
`Sound` is only inductive together with `Readable`, below. The live set is the least
set with the roots that is closed under parents, so it holds every root and parent
of a member, and all that a reference reaches.

**Contents** (`VersionStoreProofs`). `SnapshotsValid` and `SnapshotsImmutable` need
what a commit reads as. Snapshots are computed by recursion over first parents
from the nearest checkpoint, and induction over that recursion is out of the
provers' reach, so the invariant `Readable` carries the result instead: the replay
`Replay(D)` satisfies the recursion equation on the commits of `D`, agrees with
every checkpoint, and gives well-formed Snapshots that satisfy their schemas.
`Truthful`, which is `Sound` with `Readable`, is the inductive invariant on which
all these theorems rest: a new commit extends the replay at one point, by a Layer
that validation accepted; gc restricts it to a set closed under first parents; a
checkpoint stores a value of it. Whatever the checkpoints, `Resolve` equals
`Replay`, hence immutability. `MergeKeepsBothSides` holds because the versions of a
session are commits that finalize makes parents of the new head.

**No lost update** (`VersionStoreProofs`). A head that was never published before is
a child of the head it replaces, by the compare-and-move; holds the same graph and
schema after a squash, by `NetLayerIsDifference`; or ends the replay of a rebase:
`onto` is on its first-parent chain, above it there is one commit for each commit of
the old chain above the boundary (the highest commit of the old chain in the
history of `onto`), and if the boundary and `onto` hold the same version, so do the
old head and the new. `Rebased` is a function defined by recursion over first
parents: `RebaseRecursion` shows that its equation has a solution. `RebasedReplants`
takes the lowest commit of which the claim would fail; `RebaseReplays` shows that
it does not: one more replayed commit is one more level on top of `onto`, and a
merge in which one side changed nothing takes the other.

**Explicit transactions** (`ExplicitTxProofs`). `Coherent` is the inductive
invariant of the connection's flags: an active transaction holds SQLite's
transaction, the open cursors are those of the latest one, at most one of them
writes, a savepoint is nested or the outermost, and an unmutated transaction has
staged at most what its open write can still take back. It gives
`ConnectionAlwaysConsistent` with no hypothesis.

`Stored` adds the databases. `db`, `work` and every savepoint are `Kept` (truthful,
with no stamp later than the clock), and `work` is `db` plus a chain of staged
commits that starts at the transaction's base and that nothing else refers to
(`ChainStaged`): its commits are not in `db`, the branch points at its end, every
other row is as in `db`. Inductive, because while the chain exists only this
connection writes. A new staged commit is new (`WriteReady`) because its stamp is
later than every other, which is where `Monotonic` is needed: without it the
commit can be a row of `db`, and the statement is false (section 3). From it:

* `FinalizeAlwaysSucceeds`: the net Layer of the chain is the difference between
  base and end, so validation accepts it, and discarding the chain takes nothing
  else along;
* `RefinesVersionStore`: `Spec` implements `VersionStore!Spec` with `db` for `db`.
  `tx_commit` is a patch applied to the base, the completion of a plain write is
  that write or schema command, `Elsewhere` is a step of the version store, and all
  else stutters;
* `OneCommitPerTransaction`.

TLC checked `Coherent /\ Stored` on the instance of the run `tx` before it was
proved.

**Merge sessions** (`MergeSession`). `Serial` says that a cursor whose snapshot is
still the latest holds a plan for exactly what is on disk, that only the holder of
the writer lock has an open transaction, that its transaction is one outcome of one
operation (`Outcome`), and that every state of a session that was read lies behind
its present one. So every step either leaves the file alone or is a step of
`MergeSessionSpec` (`SessionsAreAtomic`): a retry, a cancelled cursor or a crash
between the phases commits nothing twice and nothing half. `RevisionsAreNames`
follows: a revision never names two sets of resolutions. Hypothesis `Distinct`: the
marks for no connection and no session are none of the values they are told from.

**Three-way merges** (`ThreeWayMerge`). Theorems about one merge of any graph of
slots, values and constraints that is `Shaped` (a label has its node, a relationship
its ends, a choice is not a value) and whose constraints are `Local` (they look at
the properties they are about and at the graph without other properties).
`Mergeable` is what sessions and rebases call a merge with. Validation applies the
resolutions of violated constraints round by round until none is left; the model
has the least set that the rounds reach, so the proofs need no induction.
`ReadyIsVersion` is what lets finalize commit a ready candidate without another
look, and `SparseIsFull` why the shortcut for merges of properties only may leave
most validation out. `EscapeIsReady` constructs the resolutions that make a stuck
session ready; its one exception is the second violated run.

**Index generations** (`IndexGenerations`). A binding corrects a generation by the
slots touched on the first-parent chain between its commit and the snapshot. The
invariant `Exact` has the parts that make this right: commits are numbered after
their parents and agree with them off the slots they touched (`Linked`), so two
snapshots agree off what was touched between them (`UntouchedAgree`); a generation
whose anchor still exists has the entries of that commit, and numbers are not
reused (`Anchored`); bindings are exact (`Bound`); the commit a cursor reads is kept
(`Scanning`). `BindingsAlwaysExact` needs no hypothesis, also where indexes are
created in explicit transactions; `AnchorsAlwaysExist` excludes these, where it is
false (section 3). A scan reads page by page, and other connections drop
and rebuild generations in between: `Paging` says that the owners given so far are
those of the snapshot up to the cursor's key, once each, in the order of the kind of
scan the cursor is bound to (`ScansAreExact`; owners and values are numbers,
`Numbered`).

**Batches** (`InTransactions`). `InOrder` is `Shape` and `Settled`: the rows before
the current batch are reported in order, and those reported committed are exactly
those in the commits of the branch. It gives `RowsWrittenOnce`, `ReportsAreTrue` and
`BatchesCommitOnTheirBase`. `InMode` adds that batches start at multiples of their
size and what became of the first one that failed; `ModesAreKept` follows.
Hypothesis `Parameters`: clauses are clauses and a batch has a row.

**Versions** (`MCVersions`). These theorems state the properties the runs `history`,
`merging` and `index` check, for every value of the constants: any graphs, numbers
of connections, branches, sessions, commits, owners, analyzers, rows, calls. Assumptions:
graphs are `Shaped` and, where constraints are validated, `Local`; index owners and
the owners in full-text tables are numbers; the analyzer of an index is an
analyzer; `Parameters`; bounds are positive; no connection is called `nobody` or
`none`.

* `ReadyMergesAreValid`, `MergesAreFaithful`, `MergesAreResolvable`: from
  `MergesTyped` (whatever a user resolves, the parts stay `Mergeable`, and the
  virtual base of a criss-cross is one that knows no value it should not) and the
  theorems of `ThreeWayMerge`.
* `RevisionsNameResolutions`, `SessionsKeepThePromise`: from `MergeSession`.
* `QueriesHitWhatTheyRead`: `CheckoutTyped` says what a prepared query remembers of
  the branch it read.
* `BasesAreAlwaysRight`: commits are numbered after their parents
  (`BasesNumbered`), so the graph is acyclic, and the marking algorithm of
  `best_common_ancestors` gives the maximal common ancestors of every acyclic graph
  (`BestAreMaximal`; also `AncestorIsOnlyBase`, `AncestorsTransitive`). Where a
  textbook would use induction on commits the proof takes a least counterexample
  (`LeastNumber`), which first-order provers can do.
* `RebasesAreAtomic`: `RebaseSound` says that the branch is as before or wholly
  replayed, and that the commits a running call has written so far end in the
  sources' word so far on every slot nobody was asked about (`ReplayKeepsTheWord`).
* `IndexesAreExact`: `IndexesSound`, which is `Exact`, `Paging` and, outside explicit
  transactions, `AnchorsExist`.
* `FullTextIsAlwaysRight`: `Stacked` of `FullTextCache`. Only the innermost of the
  nested calls can be anywhere but at its search; a table that is searched is
  ready, one being filled has no mark and lacks exactly what is left; and the
  analyzer in force on a table, as well as the one each call remembers, is that of
  the last call below which put its own there (`InForce`). The delicate steps are
  `Install`, which pushes on that stack, and every way to leave a call, which pops
  exactly what that call pushed (`TextLeaveKeeps`), errors included.
* `BatchesAreAlwaysKept`: `InMode` and `BatchesCommitOnTheirBase`.
* `OpeningIsAlwaysSafe`, `IdentitiesAreKept`: `Opened` of `Initialization`. A file is
  *settled* if the whole integrity check accepts it in the current format.
  `AllOrNothing` is not inductive: nothing in it says what an invocation that is half
  way has made of its copy. `Stage` says it, for each of the thirteen stages, relative to
  the file at the SAVEPOINT (which tables were added and were not there before, that
  id and commits are the old ones); a transaction that read a settled file leaves it
  alone; only the writer's copy differs from what it read, and nobody commits before
  it. So the one step that changes the file changes an unsettled one into a settled
  one that follows it (`OpeningKept`), which is both theorems. They hold for any
  number of connections and calls over each of the sixteen kinds of file in `Files`.

TLC finds no violation of `Stacked` on the instance of the run `index`, nor of
`Opened` on that of the part `opening`. The lemmas about `Initialization` and
`FullTextCache` stand in `MCVersions` before the other instances are declared: the
provers look through every definition above a lemma, and need half the time so.

**What only TLC checks.** Liveness (`HistoryCallsEnd`, `RebaseEnds`, `WritesEnd`,
part of `SemanticSearchIsRight`): fairness is out of the provers'
reach. What a recursive definition computes for every input (the paged log and the
rebase sequence in `WalksAreExact`, path matching, sorts, expressions, values,
calendar, encodings): needs induction over data, and a module that declares
RECURSIVE operators can hold no theorem. `ResolutionsStayKnown` is part of
`RebaseEnds`, which is a liveness property. The properties of `MCEngine` and `MCQueries`: conjunctions over instances of several components, checked for one
instance each, in two modules that reach RECURSIVE operators.

## 5. Not modelled

Parsing and scope checking; aggregation; most scalar functions; time zones; SQLite
itself and FTS5's tokenizers; the wire format and configuration of providers; how
access policies are parsed; execution budgets; transactions the host itself began
with `BEGIN` beside an explicit transaction; hash collisions; test support.
`PROJECT.json` has the list by component with the reasons.

## 6. Plan

1. `Leases`: its invariant is first-order but for the sum over threads of the
   shared counter.
2. That conflict ids survive what an earlier call of a rebase committed
   (`ResolutionsStayKnown`), for every graph.
3. The walks of `History`, restated as least sets instead of recursive functions,
   as `Ancestors` is, so that the provers can reason about them.
4. A transaction the host began with `BEGIN`, in `ExplicitTx`.
