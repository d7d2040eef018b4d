---------------------------- MODULE VersionStore ----------------------------
(***************************************************************************)
(* The durable database under the version operations of Lithograph.  Every *)
(* action is one SQLite transaction: a query or version procedure executed *)
(* in autocommit mode, with all the storage calls it makes.  That includes *)
(* a rebase, one step that moves the branch and commits once for each      *)
(* commit it replays; its conflicts and repeated calls are module Rebase.  *)
(*                                                                         *)
(* A mutation receives the head its query was prepared at (pinned_head in  *)
(* query/version); other connections may have moved or deleted the branch  *)
(* since, so the head is any commit and the compare-and-move decides.      *)
(***************************************************************************)
EXTENDS Store, FiniteSets

CONSTANTS
    MaxCommits,     \* bound on the rows of the commit table
    MaxRewritten,   \* the same after a rebase, which doubles the commits it replays
    MaxRevision,    \* bound on a merge session's revision
    MaxSidecars     \* bound on the commit data rows and checkpoints

ASSUME BoundsAssumption == {MaxCommits, MaxRewritten, MaxRevision, MaxSidecars} \subseteq Nat

VARIABLE db

-----------------------------------------------------------------------------
(* Actions that add a commit.                                              *)

HasRoom(D) ==
    /\ Cardinality(D.commits) <= MaxCommits
    /\ Cardinality(D.data) + Cardinality(DOMAIN D.checkpoints) <= MaxSidecars

(* persist_schema_blob, then commit_layer_with_schema.                     *)
Publish(D, b, parents, layer, schema, stamp) ==
    LET persisted == PersistSchema(D, schema)
    IN  /\ CanCommit(persisted, b, parents, layer, schema)
        /\ db' = CommitChange(persisted, b, parents, layer, schema, stamp)
        /\ HasRoom(db')

(* A write query.                                                          *)
WriteQuery(b, head, layer, stamp) ==
    /\ head \in db.commits
    /\ ValidWrite(db, head, layer)
    /\ Publish(db, b, <<head>>, layer, head.schema, stamp)

(* A schema command.                                                       *)
SchemaCommand(b, head, schema, stamp) ==
    /\ head \in db.commits
    /\ ValidSchemaChange(db, head, schema)
    /\ Publish(db, b, <<head>>, EmptyLayer, schema, stamp)

(* lithograph.commit.create: an empty commit, with data if any is given.   *)
CommitCreate(b, head, withData, stamp) ==
    LET commit == NewCommit(<<head>>, EmptyLayer, head.schema, stamp)
        D      == CommitChange(db, b, <<head>>, EmptyLayer, head.schema, stamp)
    IN  /\ head \in db.commits
        /\ CanCommit(db, b, <<head>>, EmptyLayer, head.schema)
        /\ db' = IF withData THEN [D EXCEPT !.data = @ \cup {commit}] ELSE D
        /\ HasRoom(db')

(* validate_candidate: the whole candidate Snapshot, its owners and its    *)
(* schema.                                                                 *)
ValidCandidate(g, schema) == WellFormed(g) /\ Satisfies(g, schema)

(* lithograph.patch.apply: the client's patch may change graph and schema. *)
PatchApply(b, head, after, schema, stamp) ==
    /\ head \in db.commits
    /\ ValidCandidate(after, schema)
    /\ Publish(db, b, <<head>>, LayerBetween(Resolve(db)[head], after), schema, stamp)

(* apply_patch_to_state with the patch diff_commits(from, to): each        *)
(* operation finds its "before" in the state, which takes its "after".     *)
PatchMatches(g, schema, fromGraph, toGraph, fromSchema, toSchema) ==
    /\ \A s \in Slot : fromGraph[s] # toGraph[s] => g[s] = fromGraph[s]
    /\ fromSchema \ toSchema \subseteq schema
    /\ (toSchema \ fromSchema) \cap schema = {}

Patched(g, fromGraph, toGraph) ==
    [s \in Slot |-> IF fromGraph[s] # toGraph[s] THEN toGraph[s] ELSE g[s]]

PatchedSchema(schema, fromSchema, toSchema) ==
    (schema \ (fromSchema \ toSchema)) \cup (toSchema \ fromSchema)

(* lithograph.revert: the inverse of a commit against one of its parents,  *)
(* applied to the head.  A root commit has no parent to revert to.         *)
Revert(b, head, commit, parent, stamp) ==
    LET snapshot == Resolve(db)
        after    == Patched(snapshot[head], snapshot[commit], snapshot[parent])
        schema   == PatchedSchema(head.schema, commit.schema, parent.schema)
    IN  /\ {head, commit} \subseteq db.commits
        /\ parent \in Parents(commit)
        /\ PatchMatches(snapshot[head], head.schema, snapshot[commit], snapshot[parent],
                        commit.schema, parent.schema)
        /\ ValidCandidate(after, schema)
        /\ Publish(db, b, <<head>>, LayerBetween(snapshot[head], after), schema, stamp)

(* lithograph.squash: the branch moves back to since, then one commit      *)
(* carries the whole difference.                                           *)
Squash(b, head, since, stamp) ==
    LET snapshot == Resolve(db)
        layer    == LayerBetween(snapshot[since], snapshot[head])
    IN  /\ head \in db.commits
        /\ CanMoveBranch(db, b, head, since)
        /\ since \in Reachable(db, {head}) \ {head}
        /\ ValidCandidate(snapshot[head], head.schema)
        /\ Publish(MoveBranch(db, b, since), b, <<since>>, layer, head.schema, stamp)

VersionAt(D, c) == [graph |-> Resolve(D)[c], schema |-> c.schema]

(* three_way_from_base: a side that changed nothing takes what the other   *)
(* one has; when both changed something the caller's resolutions decide.   *)
Merges(base, ours, theirs, candidate) ==
    /\ ours = base => candidate = theirs
    /\ theirs = base => candidate = ours
    /\ ValidCandidate(candidate.graph, candidate.schema)

(* replay_rebase_commit and apply_rebase_candidate: the databases that the *)
(* replay of source on the head of b can leave.                            *)
Replayed(D, b, source) ==
    LET head         == D.branches[b]
        ours         == VersionAt(D, head)
        Candidates   == {v \in [graph : Graph, schema : Schema] :
                            Merges(VersionAt(D, source.parents[1]), ours, VersionAt(D, source), v)}
        LayerTo(v)   == LayerBetween(ours.graph, v.graph)
        Persisted(v) == PersistSchema(D, v.schema)
    IN  {CommitChange(Persisted(v), b, <<head>>, LayerTo(v), v.schema, stamp) :
            v \in {w \in Candidates : CanCommit(Persisted(w), b, <<head>>, LayerTo(w), w.schema)},
            stamp \in Stamp}

(* Mutant: the oldest commit above the history of onto is not replayed.    *)
RebasedWithoutOldest(D, b, head, onto) ==
    LET history == Reachable(D, {onto})
        rebased[c \in D.commits] ==
            IF c \in history \/ c.parents = <<>> \/ c.parents[1] \in history
            THEN {MoveBranch(D, b, onto)}
            ELSE UNION {Replayed(E, b, c) : E \in rebased[c.parents[1]]}
    IN  rebased[head]

(* rebase: the branch moves to onto, then the commits on its first-parent  *)
(* chain that the history of onto lacks are replayed, oldest first; there  *)
(* is none when the head is in that history (finish_up_to_date_rebase),    *)
(* and a chain that never meets it is refused.                             *)
Rebased(D, b, head, onto) ==
    LET history == Reachable(D, {onto})
        rebased[c \in D.commits] ==
            IF c \in history THEN {MoveBranch(D, b, onto)}
            ELSE IF c.parents = <<>> THEN {}
            ELSE UNION {Replayed(E, b, c) : E \in rebased[c.parents[1]]}
    IN  rebased[head]

(* lithograph.rebase, in one savepoint: an unresolved conflict or a        *)
(* failure rolls back all of it, whose calls and answers Rebase models.    *)
RebaseBranch(b, head, onto) ==
    /\ CanMoveBranch(db, b, head, onto)
    /\ db' \in Rebased(db, b, head, onto)
    /\ Cardinality(db'.commits) <= MaxRewritten

-----------------------------------------------------------------------------
(* Actions on references and sidecars.                                     *)

CreateBranch(b, from) ==
    /\ b \notin DOMAIN db.branches
    /\ from \in db.commits
    /\ db' = MoveBranch(db, b, from)

(* branch_delete; the connection's own active branch is refused too, which *)
(* is the business of the connection.                                      *)
DeleteBranch(b) ==
    /\ b # Main
    /\ b \in DOMAIN db.branches
    /\ db' = [db EXCEPT !.branches = Drop(@, b)]

(* lithograph.reset.                                                       *)
ResetBranch(b, head, target) ==
    /\ CanMoveBranch(db, b, head, target)
    /\ db' = MoveBranch(db, b, target)

CreateTag(t, target) ==
    /\ t \notin DOMAIN db.tags
    /\ target \in db.commits
    /\ db' = [db EXCEPT !.tags = Put(@, t, target)]

MoveTag(t, target) ==
    /\ t \in DOMAIN db.tags
    /\ target \in db.commits
    /\ db' = [db EXCEPT !.tags = Put(@, t, target)]

DeleteTag(t) ==
    /\ t \in DOMAIN db.tags
    /\ db' = [db EXCEPT !.tags = Drop(@, t)]

SetCommitData(c) ==
    /\ c \in db.commits
    /\ db' = [db EXCEPT !.data = @ \cup {c}]
    /\ HasRoom(db')

ClearCommitData(c) ==
    /\ c \in db.commits
    /\ db' = [db EXCEPT !.data = @ \ {c}]

CreateCheckpoint(c) ==
    /\ c \in db.commits \ DOMAIN db.checkpoints
    /\ db' = [db EXCEPT !.checkpoints = Put(@, c, Replay(db)[c])]
    /\ HasRoom(db')

DeleteCheckpoint(c) ==
    /\ c \in DOMAIN db.checkpoints
    /\ db' = [db EXCEPT !.checkpoints = Drop(@, c)]

Gc == db' = CollectGarbage(db)

-----------------------------------------------------------------------------
(* Merge sessions (storage/version/session.rs, query/version/merge).       *)

(* lithograph.merge.start: ours is the head the query was prepared at.  It *)
(* is compared with the branch only when the caller gave expectedHead.     *)
MergeStart(s, b, ours, theirs, expectHead) ==
    /\ s \notin DOMAIN db.sessions
    /\ {ours, theirs} \subseteq db.commits
    /\ expectHead => b \in DOMAIN db.branches /\ db.branches[b] = ours
    /\ db' = [db EXCEPT !.sessions = Put(@, s, [target |-> b, ours |-> ours,
                                                theirs |-> theirs, revision |-> 1])]

AtRevision(s, revision) == s \in DOMAIN db.sessions /\ db.sessions[s].revision = revision

(* lithograph.merge.resolve that changes a resolution.                     *)
MergeResolve(s, revision) ==
    /\ AtRevision(s, revision)
    /\ revision < MaxRevision
    /\ db' = [db EXCEPT !.sessions = Put(@, s, [db.sessions[s] EXCEPT !.revision = @ + 1])]

CloseSession(D, s) == [D EXCEPT !.sessions = Drop(@, s)]

(* Mutant: the target branch may have moved since merge.start.             *)
CanFinalizeAnyHead(s, revision) ==
    /\ AtRevision(s, revision)
    /\ db.sessions[s].target \in DOMAIN db.branches

(* ensure_finalize_branch_head.                                            *)
CanFinalize(s, revision) ==
    /\ AtRevision(s, revision)
    /\ db.sessions[s].target \in DOMAIN db.branches
    /\ db.branches[db.sessions[s].target] = db.sessions[s].ours

(* lithograph.merge.finalize, one action for each FinalizeAction.          *)
FinalizeUpToDate(s, revision) ==
    /\ CanFinalize(s, revision)
    /\ db.sessions[s].theirs \in Reachable(db, {db.sessions[s].ours})
    /\ db' = CloseSession(db, s)

FinalizeFastForward(s, revision) ==
    LET session == db.sessions[s]
    IN  /\ CanFinalize(s, revision)
        /\ session.theirs \notin Reachable(db, {session.ours})
        /\ session.ours \in Reachable(db, {session.theirs})
        /\ db' = CloseSession(MoveBranch(db, session.target, session.theirs), s)

(* after and schema are what the three-way merge and its resolutions give, *)
(* a candidate without conflicts; any valid one is allowed here.           *)
FinalizeMerge(s, revision, after, schema, stamp) ==
    LET session == db.sessions[s]
        layer   == LayerBetween(Resolve(db)[session.ours], after)
    IN  /\ CanFinalize(s, revision)
        /\ session.theirs \notin Reachable(db, {session.ours})
        /\ session.ours \notin Reachable(db, {session.theirs})
        /\ ValidCandidate(after, schema)
        /\ Publish(CloseSession(db, s), session.target, <<session.ours, session.theirs>>,
                   layer, schema, stamp)

MergeAbort(s, revision) ==
    /\ AtRevision(s, revision)
    /\ db' = CloseSession(db, s)

-----------------------------------------------------------------------------

AddCommit ==
    \E b \in Branch, head \in db.commits, stamp \in Stamp :
        \/ \E layer \in Layer : WriteQuery(b, head, layer, stamp)
        \/ \E schema \in Schema : SchemaCommand(b, head, schema, stamp)
        \/ \E withData \in BOOLEAN : CommitCreate(b, head, withData, stamp)
        \/ \E after \in Graph, schema \in Schema : PatchApply(b, head, after, schema, stamp)
        \/ \E commit \in db.commits : \E parent \in Parents(commit) :
               Revert(b, head, commit, parent, stamp)
        \/ \E since \in db.commits : Squash(b, head, since, stamp)

Rebase == \E b \in Branch, head, onto \in db.commits : RebaseBranch(b, head, onto)

ChangeRefs ==
    \/ \E b \in Branch, c \in db.commits : CreateBranch(b, c)
    \/ \E b \in Branch : DeleteBranch(b)
    \/ \E b \in Branch, head, c \in db.commits : ResetBranch(b, head, c)
    \/ \E t \in Tag, c \in db.commits : CreateTag(t, c)
    \/ \E t \in Tag, c \in db.commits : MoveTag(t, c)
    \/ \E t \in Tag : DeleteTag(t)

ChangeSidecars ==
    \E c \in db.commits :
        \/ SetCommitData(c)
        \/ ClearCommitData(c)
        \/ CreateCheckpoint(c)
        \/ DeleteCheckpoint(c)

Merge ==
    \/ \E s \in Session, b \in Branch, ours, theirs \in db.commits, expectHead \in BOOLEAN :
           MergeStart(s, b, ours, theirs, expectHead)
    \/ \E s \in DOMAIN db.sessions, revision \in 1..MaxRevision :
           \/ MergeResolve(s, revision)
           \/ FinalizeUpToDate(s, revision)
           \/ FinalizeFastForward(s, revision)
           \/ \E after \in Graph, schema \in Schema, stamp \in Stamp :
                  FinalizeMerge(s, revision, after, schema, stamp)
           \/ MergeAbort(s, revision)

Init == db = InitialDB

Next == ChangeRefs \/ ChangeSidecars \/ Merge \/ Gc \/ AddCommit \/ Rebase

Spec == Init /\ [][Next]_db

-----------------------------------------------------------------------------
(* Properties                                                              *)

(* Every table holds rows of its declared columns.                         *)
TypeOK == TablesTyped(db)

(* No version operation, gc included, leaves a branch, tag, merge session, *)
(* commit or sidecar row that points at a deleted row.                     *)
NothingDangles == ReferencesResolve(db)

(* Every stored Layer and Schema is used by a commit.  collect_garbage     *)
(* relies on it: it returns before sweeping those tables when no commit is *)
(* unreachable.                                                            *)
NothingOrphaned == NoOrphanRows(db)

(* Whatever sequence of writes, schema changes, reverts, squashes, merges, *)
(* checkpoints and collections led to it, every commit resolves to a       *)
(* Snapshot whose labels, properties and relationships have their owners   *)
(* and which satisfies the schema of that commit; and reading it through   *)
(* checkpoints (Snapshot::resolve) gives what replaying every Layer from   *)
(* the root gives.                                                         *)
SnapshotsValid ==
    /\ Resolve(db) = Replay(db)
    /\ \A c \in db.commits :
          /\ c.layer \in Layer
          /\ Resolve(db)[c] \in Graph
          /\ ValidCandidate(Resolve(db)[c], c.schema)

(* History a reference can reach is kept: no step, garbage collection      *)
(* included, removes a commit that a branch, tag or merge session reaches. *)
PublishedHistoryKept ==
    [][\A c \in Reachable(db, GcRoots(db)) : c \in db'.commits]_db

(* A commit is immutable: as long as it exists it resolves to the same     *)
(* Snapshot, whatever checkpoints come and go and whatever is collected    *)
(* around it.                                                              *)
KeepsSnapshots == \A c \in db.commits \cap db'.commits : Resolve(db')[c] = Resolve(db)[c]
SnapshotsImmutable == [][KeepsSnapshots]_db

(* How far a commit is above its root.                                     *)
Depth(D) ==
    LET depth[c \in D.commits] == IF c.parents = <<>> THEN 0 ELSE depth[c.parents[1]] + 1
    IN  depth

(* Where a first-parent chain leaves the history of onto.                  *)
IsBoundary(D, head, onto, c) ==
    LET shared == Lineage(D)[head] \cap Reachable(D, {onto})
    IN  c \in shared /\ \A d \in shared : Depth(D)[d] <= Depth(D)[c]

(* The chain of old above the boundary was replayed on onto: there is one  *)
(* commit for each of its commits, and nothing of it is lost when the      *)
(* boundary and onto hold the same version.                                *)
ReplaysOnto(old, new, onto, boundary) ==
    /\ IsBoundary(db, old, onto, boundary)
    /\ onto \in Lineage(db')[new]
    /\ Depth(db')[new] - Depth(db')[onto] = Depth(db)[old] - Depth(db)[boundary]
    /\ VersionAt(db, onto) = VersionAt(db, boundary) => VersionAt(db', new) = VersionAt(db, old)

(* No lost update: a head that was never published before is a child of    *)
(* the head it replaces, has the same Snapshot and schema after a squash,  *)
(* or ends the replay of the whole chain it replaces after a rebase.       *)
KeepsUpdates ==
    \A b \in DOMAIN db.branches \cap DOMAIN db'.branches :
        LET old == db.branches[b]
            new == db'.branches[b]
        IN  new \notin db.commits =>
               \/ old \in Parents(new)
               \/ VersionAt(db', new) = VersionAt(db, old)
               \/ \E onto, boundary \in db.commits : ReplaysOnto(old, new, onto, boundary)
NoLostUpdate == [][KeepsUpdates]_db

(* A merge session that closes and moves its target branch leaves both     *)
(* merged versions in the history of the branch.                           *)
KeepsBothSides ==
    \A s \in DOMAIN db.sessions \ DOMAIN db'.sessions :
        LET session == db.sessions[s]
            b       == session.target
        IN  b \in DOMAIN db.branches /\ db'.branches[b] # db.branches[b] =>
               /\ db.branches[b] = session.ours
               /\ {session.ours, session.theirs} \subseteq Reachable(db', {db'.branches[b]})
MergeKeepsBothSides == [][KeepsBothSides]_db

=============================================================================
