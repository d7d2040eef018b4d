---------------------------- MODULE StoreProofs ----------------------------
(***************************************************************************)
(* Facts about the tables of a database and the storage operators on them, *)
(* whoever applies them: the durable database of VersionStore, or the      *)
(* contents of an open transaction in ExplicitTx.  They hold for every     *)
(* slot set, value set, owner relation, schema and set of names.           *)
(*                                                                         *)
(* Sound says that the tables have their shape, that no reference dangles  *)
(* and that no Layer or Schema row is unused.  Readable says that every    *)
(* commit resolves, through any checkpoints, to the valid Snapshot that    *)
(* replaying its first-parent Layers gives.                                *)
(***************************************************************************)
EXTENDS Store, TLAPS

-----------------------------------------------------------------------------
(* Layers.                                                                 *)

(* Applying a Layer to a Snapshot gives a Snapshot (Overlay::apply).       *)
THEOREM ApplyType ==
    ASSUME NEW g \in Graph, NEW l \in Layer
    PROVE  Apply(g, l) \in Graph
  BY DEF Apply, Graph, Layer

(* Incremental validation is sound: a commit that passes                   *)
(* validate_layer_invariants_checked, which only looks at the slots of the *)
(* candidate Layer, never turns a well-formed Snapshot into one with a     *)
(* label, property or relationship whose owner is missing.                 *)
THEOREM ValidationSound ==
    ASSUME NEW g \in Graph, NEW l \in Layer, WellFormed(g), ValidLayer(g, l)
    PROVE  WellFormed(Apply(g, l))
<1> SUFFICES ASSUME NEW s \in Slot, Apply(g, l)[s] # Absent, NEW o \in Owners[s]
             PROVE  Apply(g, l)[o] # Absent
    BY DEF WellFormed
<1>0. o \in Slot
    BY OwnersAssumption
<1>1. CASE l[s] \in Value
    BY <1>1 DEF ValidLayer, AddsHaveOwners
<1>2. CASE l[s] = Absent
    BY <1>2, MarkersAssumption DEF Apply
<1>3. CASE l[s] = Keep
  <2>1. g[s] # Absent /\ g[o] # Absent
      BY <1>3, <1>0, MarkersAssumption DEF Apply, WellFormed
  <2>2. l[o] # Absent
      BY <2>1, <1>3, <1>0, MarkersAssumption
         DEF ValidLayer, RemovesHaveNoDependents, SurvivesLayer
  <2> QED
      BY <2>1, <2>2, <1>0 DEF Apply
<1> QED
    BY <1>1, <1>2, <1>3 DEF Layer

(* Incremental validation is also complete: it never refuses a Layer whose *)
(* result is a well-formed Snapshot, so the net Layer of an explicit       *)
(* transaction always passes it when the staged head is well-formed.       *)
THEOREM ValidationComplete ==
    ASSUME NEW g \in Graph, NEW l \in Layer, WellFormed(Apply(g, l))
    PROVE  ValidLayer(g, l)
<1>1. AddsHaveOwners(g, l)
    BY MarkersAssumption DEF AddsHaveOwners, WellFormed, Apply
<1>2. RemovesHaveNoDependents(g, l)
  <2> SUFFICES ASSUME NEW s \in Slot, l[s] = Absent, NEW d \in Slot, s \in Owners[d],
                      SurvivesLayer(g, l, d)
               PROVE  FALSE
      BY DEF RemovesHaveNoDependents
  <2>1. Apply(g, l)[d] # Absent
      BY MarkersAssumption DEF SurvivesLayer, Apply
  <2>2. Apply(g, l)[s] # Absent
      BY <2>1 DEF WellFormed
  <2> QED
      BY <2>2, MarkersAssumption DEF Apply
<1> QED
    BY <1>1, <1>2 DEF ValidLayer

(* Merging two Layers newest-first, as touched_layer_between_commits does, *)
(* has the effect of applying the older and then the newer.                *)
THEOREM OrInsertReplays ==
    ASSUME NEW g \in Graph, NEW newer \in Layer, NEW older \in Layer
    PROVE  /\ OrInsert(newer, older) \in Layer
           /\ Apply(g, OrInsert(newer, older)) = Apply(Apply(g, older), newer)
  BY DEF OrInsert, Apply, Layer, Graph

(* normalize_touched_layer does not change what the Layer does to its      *)
(* base, and leaves no row that is a no-op on it.                          *)
THEOREM NormalizeExact ==
    ASSUME NEW g \in Graph, NEW l \in Layer
    PROVE  /\ Normalize(g, l) \in Layer
           /\ Apply(g, Normalize(g, l)) = Apply(g, l)
           /\ \A s \in Slot : Normalize(g, l)[s] # Keep => Normalize(g, l)[s] # g[s]
  BY DEF Normalize, Apply, Layer, Graph

(* The two ways the code has to find the Layer between two Snapshots agree: *)
(* normalising the touched slots of the Layers in between                   *)
(* (layer_between_commits) and comparing the materialised Snapshots         *)
(* (layer_between) give the same canonical Layer, so the same content hash. *)
THEOREM NormalizeIsLayerBetween ==
    ASSUME NEW g \in Graph, NEW l \in Layer
    PROVE  Normalize(g, l) = LayerBetween(g, Apply(g, l))
<1> SUFFICES ASSUME NEW s \in Slot
             PROVE  Normalize(g, l)[s] = LayerBetween(g, Apply(g, l))[s]
    BY DEF Normalize, LayerBetween
<1> QED
    BY MarkersAssumption DEF Normalize, LayerBetween, Apply, Layer, Graph

-----------------------------------------------------------------------------
(* The inductive invariant.                                                *)

Sound(D) == TablesTyped(D) /\ ReferencesResolve(D) /\ NoOrphanRows(D)

(* A change from D to E that leaves a sound database and deletes no commit. *)
Extends(D, E) == Sound(E) /\ D.commits \subseteq E.commits

-----------------------------------------------------------------------------
(* The two kinds of change.                                                *)

(* What commit_change_inner does to the tables.                            *)
Commits(D, E, b, parents, layer, schema, stamp) ==
    LET commit == NewCommit(parents, layer, schema, stamp)
    IN  /\ IsDatabase(E)
        /\ E.commits = D.commits \cup {commit}
        /\ E.layers = D.layers \cup {layer}
        /\ E.schemas = D.schemas \cup {schema}
        /\ E.branches = Put(D.branches, b, commit)
        /\ E.tags = D.tags
        /\ E.sessions = D.sessions
        /\ E.data \subseteq D.data \cup {commit}
        /\ E.checkpoints = D.checkpoints

LEMMA CommitsSound ==
    ASSUME NEW D, NEW E, NEW b \in Branch, NEW parents, NEW layer,
           NEW schema \in Schema, NEW stamp \in Stamp,
           Sound(D),
           DOMAIN parents \in {{1}, {1, 2}},
           \A i \in DOMAIN parents : parents[i] \in D.commits,
           Commits(D, E, b, parents, layer, schema, stamp)
    PROVE  Extends(D, E)
<1> DEFINE commit == NewCommit(parents, layer, schema, stamp)
<1>1. /\ IsDatabase(E)
      /\ E.commits = D.commits \cup {commit}
      /\ E.layers = D.layers \cup {layer}
      /\ E.schemas = D.schemas \cup {schema}
      /\ E.branches = Put(D.branches, b, commit)
      /\ E.tags = D.tags
      /\ E.sessions = D.sessions
      /\ E.data \subseteq D.data \cup {commit}
      /\ E.checkpoints = D.checkpoints
  BY DEF Commits
<1>2. /\ commit.parents = parents
      /\ commit.layer = layer
      /\ commit.schema = schema
      /\ commit.stamp = stamp
  BY DEF NewCommit
<1>3. IsCommit(commit)
  <2>1. commit = NewCommit(commit.parents, commit.layer, commit.schema, commit.stamp)
    BY <1>2
  <2> HIDE DEF commit
  <2> QED
    BY <1>2, <2>1 DEF IsCommit
<1> HIDE DEF commit
<1>4. Parents(commit) \subseteq D.commits
  <2>1. Parents(commit) = {parents[i] : i \in DOMAIN parents}
    BY <1>2 DEF Parents
  <2> QED
    BY <2>1
<1>a. /\ DOMAIN E.branches = DOMAIN D.branches \cup {b}
      /\ \A x \in DOMAIN E.branches : E.branches[x] = IF x = b THEN commit ELSE D.branches[x]
  BY <1>1 DEF Put
<1>5. TablesTyped(E)
  BY <1>1, <1>3, <1>a DEF TablesTyped, Sound
<1>6. BranchesResolve(E)
  BY <1>1, <1>a DEF Sound, ReferencesResolve, BranchesResolve
<1>7. TagsResolve(E) /\ SessionsResolve(E) /\ SidecarsResolve(E)
  BY <1>1 DEF Sound, ReferencesResolve, TagsResolve, SessionsResolve, SidecarsResolve
<1>8. HistoryComplete(E)
  BY <1>1, <1>2, <1>4 DEF Sound, ReferencesResolve, HistoryComplete
<1>9. NoOrphanRows(E)
  BY <1>1, <1>2 DEF Sound, NoOrphanRows
<1> QED
  BY <1>1, <1>5, <1>6, <1>7, <1>8, <1>9 DEF Extends, Sound, ReferencesResolve

(* A change of references and sidecars.                                    *)
Repoints(D, E) ==
    /\ IsDatabase(E)
    /\ E.commits = D.commits
    /\ E.layers = D.layers
    /\ E.schemas = D.schemas
    /\ DOMAIN E.branches \subseteq Branch
    /\ BranchesResolve(E)
    /\ DOMAIN E.tags \subseteq Tag
    /\ TagsResolve(E)
    /\ DOMAIN E.sessions \subseteq Session
    /\ \A s \in DOMAIN E.sessions : IsSession(E.sessions[s])
    /\ SessionsResolve(E)
    /\ SidecarsResolve(E)

LEMMA RepointsSound ==
    ASSUME NEW D, NEW E, Sound(D), Repoints(D, E)
    PROVE  Extends(D, E)
<1>1. TablesTyped(E)
  BY DEF Sound, Repoints, TablesTyped
<1>2. HistoryComplete(E)
  BY DEF Sound, Repoints, ReferencesResolve, HistoryComplete
<1>3. NoOrphanRows(E)
  BY DEF Sound, Repoints, NoOrphanRows
<1> QED
  BY <1>1, <1>2, <1>3 DEF Extends, Sound, Repoints, ReferencesResolve

-----------------------------------------------------------------------------
(* The storage operators as changes of one of the two kinds.               *)

LEMMA ParentLists ==
    ASSUME NEW c, NEW d
    PROVE  DOMAIN <<c>> = {1} /\ DOMAIN <<c, d>> = {1, 2}
  OBVIOUS

LEMMA PersistSchemaFields ==
    ASSUME NEW D, IsDatabase(D), NEW schema
    PROVE  LET P == PersistSchema(D, schema)
           IN  /\ IsDatabase(P)
               /\ P.schemas = D.schemas \cup {schema}
               /\ P.commits = D.commits /\ P.layers = D.layers
               /\ P.branches = D.branches /\ P.tags = D.tags /\ P.sessions = D.sessions
               /\ P.data = D.data /\ P.checkpoints = D.checkpoints
<1> DEFINE P == PersistSchema(D, schema)
<1>1. IsDatabase(P)
  BY DEF PersistSchema, IsDatabase
<1>2. /\ P.schemas = D.schemas \cup {schema}
      /\ P.commits = D.commits /\ P.layers = D.layers
      /\ P.branches = D.branches /\ P.tags = D.tags /\ P.sessions = D.sessions
      /\ P.data = D.data /\ P.checkpoints = D.checkpoints
  BY DEF PersistSchema, IsDatabase
<1> QED
  BY <1>1, <1>2

LEMMA CommitUpdateTyped ==
    ASSUME NEW D, IsDatabase(D), NEW l, NEW c, NEW r,
           NEW E, E = [D EXCEPT !.layers = l, !.commits = c, !.branches = r]
    PROVE  IsDatabase(E)
  BY DEF IsDatabase

LEMMA CommitChangeFields ==
    ASSUME NEW D, IsDatabase(D), NEW b, NEW parents, NEW layer, NEW schema, NEW stamp
    PROVE  LET E == CommitChange(D, b, parents, layer, schema, stamp)
               commit == NewCommit(parents, layer, schema, stamp)
           IN  /\ IsDatabase(E)
               /\ E.commits = D.commits \cup {commit}
               /\ E.layers = D.layers \cup {layer}
               /\ E.branches = Put(D.branches, b, commit)
               /\ E.schemas = D.schemas /\ E.tags = D.tags /\ E.sessions = D.sessions
               /\ E.data = D.data /\ E.checkpoints = D.checkpoints
<1> DEFINE E == CommitChange(D, b, parents, layer, schema, stamp)
           commit == NewCommit(parents, layer, schema, stamp)
<1>1. IsDatabase(E)
  BY CommitUpdateTyped DEF CommitChange
<1>2. /\ E.commits = D.commits \cup {commit}
      /\ E.layers = D.layers \cup {layer}
      /\ E.branches = Put(D.branches, b, commit)
      /\ E.schemas = D.schemas /\ E.tags = D.tags /\ E.sessions = D.sessions
      /\ E.data = D.data /\ E.checkpoints = D.checkpoints
  BY DEF CommitChange, IsDatabase
<1> QED
  BY <1>1, <1>2

(* persist_schema_blob, then commit_change_inner.                          *)
LEMMA PublishSound ==
    ASSUME NEW D, Sound(D), NEW b \in Branch, NEW parents, NEW layer,
           NEW schema \in Schema, NEW stamp \in Stamp,
           DOMAIN parents \in {{1}, {1, 2}},
           CanCommit(PersistSchema(D, schema), b, parents, layer, schema)
    PROVE  Extends(D, CommitChange(PersistSchema(D, schema), b, parents, layer, schema, stamp))
<1> DEFINE P == PersistSchema(D, schema)
           E == CommitChange(P, b, parents, layer, schema, stamp)
           commit == NewCommit(parents, layer, schema, stamp)
<1>1. IsDatabase(D)
  BY DEF Sound, TablesTyped
<1>2. /\ IsDatabase(P)
      /\ P.schemas = D.schemas \cup {schema}
      /\ P.commits = D.commits /\ P.layers = D.layers
      /\ P.branches = D.branches /\ P.tags = D.tags /\ P.sessions = D.sessions
      /\ P.data = D.data /\ P.checkpoints = D.checkpoints
  BY <1>1, PersistSchemaFields
<1>3. CanCommit(P, b, parents, layer, schema)
  OBVIOUS
<1> SUFFICES Extends(D, E)
  OBVIOUS
<1> HIDE DEF P
<1>4. /\ IsDatabase(E)
      /\ E.commits = P.commits \cup {commit}
      /\ E.layers = P.layers \cup {layer}
      /\ E.branches = Put(P.branches, b, commit)
      /\ E.schemas = P.schemas /\ E.tags = P.tags /\ E.sessions = P.sessions
      /\ E.data = P.data /\ E.checkpoints = P.checkpoints
  BY <1>2, CommitChangeFields
<1> HIDE DEF E
<1>5. Commits(D, E, b, parents, layer, schema, stamp)
  BY <1>2, <1>4 DEF Commits
<1>6. \A i \in DOMAIN parents : parents[i] \in D.commits
  BY <1>2, <1>3 DEF CanCommit
<1> QED
  BY <1>5, <1>6, CommitsSound

(* A new value for one of the reference or sidecar tables.                 *)

(* Branches that include main and point at commits.                        *)
LEMMA BranchesSound ==
    ASSUME NEW D, Sound(D), NEW branches,
           DOMAIN branches \subseteq Branch, Main \in DOMAIN branches,
           \A b \in DOMAIN branches : branches[b] \in D.commits
    PROVE  Extends(D, [D EXCEPT !.branches = branches])
<1> DEFINE E == [D EXCEPT !.branches = branches]
<1>1. IsDatabase(D)
  BY DEF Sound, TablesTyped
<1>2. IsDatabase(E)
  BY <1>1 DEF IsDatabase
<1>3. /\ E.branches = branches
      /\ E.commits = D.commits /\ E.layers = D.layers /\ E.schemas = D.schemas /\ E.tags = D.tags
      /\ E.sessions = D.sessions /\ E.data = D.data /\ E.checkpoints = D.checkpoints
  BY <1>1 DEF IsDatabase
<1> SUFFICES Extends(D, E)
  OBVIOUS
<1> HIDE DEF E
<1>4. BranchesResolve(E) /\ TagsResolve(E) /\ SessionsResolve(E) /\ SidecarsResolve(E)
  BY <1>3 DEF Sound, ReferencesResolve, BranchesResolve, TagsResolve, SessionsResolve,
              SidecarsResolve
<1>5. Repoints(D, E)
  BY <1>2, <1>3, <1>4 DEF Repoints, Sound, TablesTyped
<1> QED
  BY <1>5, RepointsSound

(* Tags that point at commits.                                             *)
LEMMA TagsSound ==
    ASSUME NEW D, Sound(D), NEW tags,
           DOMAIN tags \subseteq Tag,
           \A t \in DOMAIN tags : tags[t] \in D.commits
    PROVE  Extends(D, [D EXCEPT !.tags = tags])
<1> DEFINE E == [D EXCEPT !.tags = tags]
<1>1. IsDatabase(D)
  BY DEF Sound, TablesTyped
<1>2. IsDatabase(E)
  BY <1>1 DEF IsDatabase
<1>3. /\ E.tags = tags
      /\ E.commits = D.commits /\ E.layers = D.layers /\ E.schemas = D.schemas /\ E.branches = D.branches
      /\ E.sessions = D.sessions /\ E.data = D.data /\ E.checkpoints = D.checkpoints
  BY <1>1 DEF IsDatabase
<1> SUFFICES Extends(D, E)
  OBVIOUS
<1> HIDE DEF E
<1>4. BranchesResolve(E) /\ TagsResolve(E) /\ SessionsResolve(E) /\ SidecarsResolve(E)
  BY <1>3 DEF Sound, ReferencesResolve, BranchesResolve, TagsResolve, SessionsResolve,
              SidecarsResolve
<1>5. Repoints(D, E)
  BY <1>2, <1>3, <1>4 DEF Repoints, Sound, TablesTyped
<1> QED
  BY <1>5, RepointsSound

(* Merge sessions that point at commits.                                   *)
LEMMA SessionsSound ==
    ASSUME NEW D, Sound(D), NEW sessions,
           DOMAIN sessions \subseteq Session,
           \A s \in DOMAIN sessions :
               /\ IsSession(sessions[s])
               /\ {sessions[s].ours, sessions[s].theirs} \subseteq D.commits
    PROVE  Extends(D, [D EXCEPT !.sessions = sessions])
<1> DEFINE E == [D EXCEPT !.sessions = sessions]
<1>1. IsDatabase(D)
  BY DEF Sound, TablesTyped
<1>2. IsDatabase(E)
  BY <1>1 DEF IsDatabase
<1>3. /\ E.sessions = sessions
      /\ E.commits = D.commits /\ E.layers = D.layers /\ E.schemas = D.schemas /\ E.branches = D.branches
      /\ E.tags = D.tags /\ E.data = D.data /\ E.checkpoints = D.checkpoints
  BY <1>1 DEF IsDatabase
<1> SUFFICES Extends(D, E)
  OBVIOUS
<1> HIDE DEF E
<1>4. BranchesResolve(E) /\ TagsResolve(E) /\ SessionsResolve(E) /\ SidecarsResolve(E)
  BY <1>3 DEF Sound, ReferencesResolve, BranchesResolve, TagsResolve, SessionsResolve,
              SidecarsResolve
<1>5. Repoints(D, E)
  BY <1>2, <1>3, <1>4 DEF Repoints, Sound, TablesTyped
<1> QED
  BY <1>5, RepointsSound

(* Commit data rows of commits.                                            *)
LEMMA DataSound ==
    ASSUME NEW D, Sound(D), NEW data,
           data \subseteq D.commits
    PROVE  Extends(D, [D EXCEPT !.data = data])
<1> DEFINE E == [D EXCEPT !.data = data]
<1>1. IsDatabase(D)
  BY DEF Sound, TablesTyped
<1>2. IsDatabase(E)
  BY <1>1 DEF IsDatabase
<1>3. /\ E.data = data
      /\ E.commits = D.commits /\ E.layers = D.layers /\ E.schemas = D.schemas /\ E.branches = D.branches
      /\ E.tags = D.tags /\ E.sessions = D.sessions /\ E.checkpoints = D.checkpoints
  BY <1>1 DEF IsDatabase
<1> SUFFICES Extends(D, E)
  OBVIOUS
<1> HIDE DEF E
<1>4. BranchesResolve(E) /\ TagsResolve(E) /\ SessionsResolve(E) /\ SidecarsResolve(E)
  BY <1>3 DEF Sound, ReferencesResolve, BranchesResolve, TagsResolve, SessionsResolve,
              SidecarsResolve
<1>5. Repoints(D, E)
  BY <1>2, <1>3, <1>4 DEF Repoints, Sound, TablesTyped
<1> QED
  BY <1>5, RepointsSound

(* Checkpoints of commits.                                                 *)
LEMMA CheckpointsSound ==
    ASSUME NEW D, Sound(D), NEW checkpoints,
           DOMAIN checkpoints \subseteq D.commits
    PROVE  Extends(D, [D EXCEPT !.checkpoints = checkpoints])
<1> DEFINE E == [D EXCEPT !.checkpoints = checkpoints]
<1>1. IsDatabase(D)
  BY DEF Sound, TablesTyped
<1>2. IsDatabase(E)
  BY <1>1 DEF IsDatabase
<1>3. /\ E.checkpoints = checkpoints
      /\ E.commits = D.commits /\ E.layers = D.layers /\ E.schemas = D.schemas /\ E.branches = D.branches
      /\ E.tags = D.tags /\ E.sessions = D.sessions /\ E.data = D.data
  BY <1>1 DEF IsDatabase
<1> SUFFICES Extends(D, E)
  OBVIOUS
<1> HIDE DEF E
<1>4. BranchesResolve(E) /\ TagsResolve(E) /\ SessionsResolve(E) /\ SidecarsResolve(E)
  BY <1>3 DEF Sound, ReferencesResolve, BranchesResolve, TagsResolve, SessionsResolve,
              SidecarsResolve
<1>5. Repoints(D, E)
  BY <1>2, <1>3, <1>4 DEF Repoints, Sound, TablesTyped
<1> QED
  BY <1>5, RepointsSound

LEMMA MoveBranchSound ==
    ASSUME NEW D, Sound(D), NEW b \in Branch, NEW target \in D.commits
    PROVE  Extends(D, MoveBranch(D, b, target))
<1> DEFINE branches == Put(D.branches, b, target)
<1>1. /\ DOMAIN branches = DOMAIN D.branches \cup {b}
      /\ \A x \in DOMAIN branches : branches[x] = IF x = b THEN target ELSE D.branches[x]
  BY DEF Put
<1> HIDE DEF branches
<1>2. Extends(D, [D EXCEPT !.branches = branches])
  BY <1>1, BranchesSound DEF Sound, TablesTyped, ReferencesResolve, BranchesResolve
<1> QED
  BY <1>2 DEF MoveBranch, branches

-----------------------------------------------------------------------------
(* Garbage collection.                                                     *)

(* reachable_commits holds its roots and is closed under parents.          *)
LEMMA ReachableFacts ==
    ASSUME NEW D, HistoryComplete(D), NEW roots, roots \subseteq D.commits
    PROVE  /\ Reachable(D, roots) \subseteq D.commits
           /\ roots \subseteq Reachable(D, roots)
           /\ \A c \in Reachable(D, roots) : Parents(c) \subseteq Reachable(D, roots)
<1> DEFINE closed == {S \in SUBSET D.commits : roots \subseteq S /\ ClosedUnderParents(D, S)}
<1>1. Reachable(D, roots) = {c \in D.commits : \A S \in closed : c \in S}
  BY DEF Reachable
<1>2. roots \subseteq Reachable(D, roots)
  BY <1>1
<1>3. ASSUME NEW c \in Reachable(D, roots), NEW p \in Parents(c)
      PROVE  p \in Reachable(D, roots)
  <2>1. p \in D.commits
    BY <1>1 DEF HistoryComplete
  <2>2. ASSUME NEW S \in closed
        PROVE  p \in S
    BY <1>1, <2>1 DEF ClosedUnderParents
  <2> QED
    BY <1>1, <2>1, <2>2
<1> QED
  BY <1>1, <1>2, <1>3

LEMMA GcRootsResolve ==
    ASSUME NEW D, ReferencesResolve(D)
    PROVE  GcRoots(D) \subseteq D.commits
  BY DEF GcRoots, ReferencesResolve, BranchesResolve, TagsResolve, SessionsResolve

LEMMA SweepTyped ==
    ASSUME NEW D, IsDatabase(D), NEW c, NEW l, NEW s, NEW d, NEW k,
           NEW E, E = [D EXCEPT !.commits = c, !.layers = l, !.schemas = s, !.data = d,
                                !.checkpoints = k]
    PROVE  IsDatabase(E)
  BY DEF IsDatabase

(* collect_garbage keeps every reference and leaves no unused row: the     *)
(* roots it starts from are all the references there are.                  *)
LEMMA CollectGarbageSound ==
    ASSUME NEW D, Sound(D)
    PROVE  Sound(CollectGarbage(D))
<1> DEFINE live == Reachable(D, GcRoots(D))
           E == [D EXCEPT !.commits = live,
                          !.layers = {l \in @ : \E c \in live : c.layer = l},
                          !.schemas = {s \in @ : \E c \in live : c.schema = s},
                          !.data = @ \cap live,
                          !.checkpoints = Only(@, live)]
<1>1. CASE live = D.commits
  BY <1>1 DEF CollectGarbage
<1>2. CASE live # D.commits
  <2>1. /\ live \subseteq D.commits
        /\ GcRoots(D) \subseteq live
        /\ \A c \in live : Parents(c) \subseteq live
    BY ReachableFacts, GcRootsResolve DEF Sound, ReferencesResolve
  <2> HIDE DEF live
  <2>2. IsDatabase(D)
    BY DEF Sound, TablesTyped
  <2>3. IsDatabase(E)
    BY <2>2, SweepTyped
  <2>4. /\ E.commits = live
        /\ E.layers = {l \in D.layers : \E c \in live : c.layer = l}
        /\ E.schemas = {s \in D.schemas : \E c \in live : c.schema = s}
        /\ E.data = D.data \cap live
        /\ E.checkpoints = Only(D.checkpoints, live)
        /\ E.branches = D.branches /\ E.tags = D.tags /\ E.sessions = D.sessions
    BY <2>2 DEF IsDatabase
  <2> SUFFICES Sound(E)
    BY <1>2 DEF CollectGarbage, live
  <2> HIDE DEF E
  <2>5. TablesTyped(E)
    BY <2>1, <2>3, <2>4 DEF Sound, TablesTyped
  <2>6. BranchesResolve(E) /\ TagsResolve(E) /\ SessionsResolve(E)
    BY <2>1, <2>4 DEF GcRoots, Sound, ReferencesResolve, BranchesResolve, TagsResolve,
                      SessionsResolve
  <2>7. HistoryComplete(E)
    BY <2>1, <2>4 DEF Sound, ReferencesResolve, HistoryComplete
  <2>8. SidecarsResolve(E)
    <3>1. DOMAIN E.checkpoints = DOMAIN D.checkpoints \cap live
      BY <2>4 DEF Only
    <3> QED
      BY <2>4, <3>1 DEF SidecarsResolve
  <2>9. NoOrphanRows(E)
    BY <2>4 DEF NoOrphanRows
  <2> QED
    BY <2>5, <2>6, <2>7, <2>8, <2>9 DEF Sound, ReferencesResolve
<1> QED
  BY <1>1, <1>2

(* It deletes nothing its roots reach.                                     *)
LEMMA CollectGarbageKeeps ==
    ASSUME NEW D, Sound(D)
    PROVE  Reachable(D, GcRoots(D)) \subseteq CollectGarbage(D).commits
<1> DEFINE live == Reachable(D, GcRoots(D))
<1>1. IsDatabase(D)
  BY DEF Sound, TablesTyped
<1> HIDE DEF live
<1>2. CASE live # D.commits
  <2>1. CollectGarbage(D).commits = live
    BY <1>1, <1>2 DEF CollectGarbage, IsDatabase, live
  <2> QED
    BY <2>1 DEF live
<1>3. CASE live = D.commits
  BY <1>3 DEF CollectGarbage, live
<1> QED
  BY <1>2, <1>3

-----------------------------------------------------------------------------
(* Reading a version.                                                      *)

(* layer_between finds a Layer that leads from one Snapshot to the other.  *)
THEOREM LayerBetweenExact ==
    ASSUME NEW g \in Graph, NEW h \in Graph
    PROVE  LayerBetween(g, h) \in Layer /\ Apply(g, LayerBetween(g, h)) = h
<1>1. \A s \in Slot : g[s] \in Value \cup {Absent} /\ h[s] \in Value \cup {Absent}
  BY DEF Graph
<1>2. LayerBetween(g, h) \in Layer
  BY <1>1 DEF LayerBetween, Layer
<1>3. ASSUME NEW s \in Slot
      PROVE  Apply(g, LayerBetween(g, h))[s] = h[s]
  <2>1. /\ LayerBetween(g, h)[s] = IF h[s] = g[s] THEN Keep ELSE h[s]
        /\ h[s] # Keep
    BY <1>1, MarkersAssumption DEF LayerBetween
  <2>2. Apply(g, LayerBetween(g, h))[s]
            = IF LayerBetween(g, h)[s] = Keep THEN g[s] ELSE LayerBetween(g, h)[s]
    BY DEF Apply
  <2> QED
    BY <2>1, <2>2
<1>4. Apply(g, LayerBetween(g, h)) = [s \in Slot |-> h[s]]
  BY <1>3 DEF Apply
<1> QED
  BY <1>2, <1>4 DEF Graph

LEMMA EmptyLayerKeeps ==
    /\ EmptyLayer \in Layer /\ EmptyGraph \in Graph
    /\ \A g \in Graph : Apply(g, EmptyLayer) = g
<1>1. EmptyLayer \in Layer /\ EmptyGraph \in Graph
  BY DEF EmptyLayer, EmptyGraph, Layer, Graph
<1>2. ASSUME NEW g \in Graph
      PROVE  Apply(g, EmptyLayer) = g
  <2>1. Apply(g, EmptyLayer) = [s \in Slot |-> g[s]]
    BY DEF Apply, EmptyLayer
  <2> QED
    BY <2>1 DEF Graph
<1> QED
  BY <1>1, <1>2

(* The equations that create_checkpoint and resolve_lineage follow.        *)
ReplayStep(f, c) ==
    IF c.parents = <<>> THEN Apply(EmptyGraph, c.layer) ELSE Apply(f[c.parents[1]], c.layer)
ResolveStep(D, f, c) ==
    IF c \in DOMAIN D.checkpoints THEN D.checkpoints[c] ELSE ReplayStep(f, c)
Replays(D, f) == f = [c \in D.commits |-> ReplayStep(f, c)]
Resolves(D, f) == f = [c \in D.commits |-> ResolveStep(D, f, c)]

(* First parents are stored, and the chains of them end at a root.         *)
Chained(D) ==
    \A c \in D.commits : c.parents # <<>> => 1 \in DOMAIN c.parents /\ c.parents[1] \in D.commits
Grounded(D) ==
    \A T \in SUBSET D.commits :
        T # {} => \E c \in T : c.parents = <<>> \/ c.parents[1] \notin T

(* The rows of a checkpoint are what a replay gives.                       *)
Faithful(D) == \A c \in DOMAIN D.checkpoints : D.checkpoints[c] = Replay(D)[c]

Valid(g, schema) == g \in Graph /\ WellFormed(g) /\ Satisfies(g, schema)
Contents(D) == \A c \in D.commits : c.layer \in Layer /\ Valid(Replay(D)[c], c.schema)

Readable(D) ==
    /\ Chained(D)
    /\ Grounded(D)
    /\ Replays(D, Replay(D))
    /\ Faithful(D)
    /\ Contents(D)

LEMMA ReplayChosen ==
    ASSUME NEW D
    PROVE  Replay(D) = CHOOSE f : Replays(D, f)
  BY DEF Replay, Replays, ReplayStep

LEMMA ResolveChosen ==
    ASSUME NEW D
    PROVE  Resolve(D) = CHOOSE f : Resolves(D, f)
  BY DEF Resolve, Resolves, ResolveStep, ReplayStep

(* The equations have at most one solution: the first commit of a lineage  *)
(* on which two solutions differ would have no reason to.                  *)
LEMMA ReplayUnique ==
    ASSUME NEW D, Chained(D), Grounded(D), NEW f, NEW g, Replays(D, f), Replays(D, g)
    PROVE  f = g
<1> DEFINE T == {c \in D.commits : f[c] # g[c]}
<1>1. /\ f = [c \in D.commits |-> ReplayStep(f, c)]
      /\ g = [c \in D.commits |-> ReplayStep(g, c)]
  BY DEF Replays
<1>2. ASSUME T # {}
      PROVE  FALSE
  <2>1. PICK c \in T : c.parents = <<>> \/ c.parents[1] \notin T
    BY <1>2 DEF Grounded
  <2>2. c \in D.commits /\ f[c] = ReplayStep(f, c) /\ g[c] = ReplayStep(g, c)
    BY <1>1
  <2>3. c.parents # <<>> => f[c.parents[1]] = g[c.parents[1]]
    BY <2>1, <2>2 DEF Chained
  <2> QED
    BY <2>1, <2>2, <2>3 DEF ReplayStep
<1>3. \A c \in D.commits : f[c] = g[c]
  BY <1>2
<1> HIDE DEF T
<1>4. f = [c \in D.commits |-> f[c]] /\ g = [c \in D.commits |-> g[c]]
  BY <1>1
<1> QED
  BY <1>3, <1>4

LEMMA ResolveUnique ==
    ASSUME NEW D, Chained(D), Grounded(D), NEW f, NEW g, Resolves(D, f), Resolves(D, g)
    PROVE  f = g
<1> DEFINE T == {c \in D.commits : f[c] # g[c]}
<1>1. /\ f = [c \in D.commits |-> ResolveStep(D, f, c)]
      /\ g = [c \in D.commits |-> ResolveStep(D, g, c)]
  BY DEF Resolves
<1>2. ASSUME T # {}
      PROVE  FALSE
  <2>1. PICK c \in T : c.parents = <<>> \/ c.parents[1] \notin T
    BY <1>2 DEF Grounded
  <2>2. c \in D.commits /\ f[c] = ResolveStep(D, f, c) /\ g[c] = ResolveStep(D, g, c)
    BY <1>1
  <2>3. c.parents # <<>> => f[c.parents[1]] = g[c.parents[1]]
    BY <2>1, <2>2 DEF Chained
  <2> QED
    BY <2>1, <2>2, <2>3 DEF ReplayStep, ResolveStep
<1>3. \A c \in D.commits : f[c] = g[c]
  BY <1>2
<1> HIDE DEF T
<1>4. f = [c \in D.commits |-> f[c]] /\ g = [c \in D.commits |-> g[c]]
  BY <1>1
<1> QED
  BY <1>3, <1>4

(* A solution of the equations is what create_checkpoint computes.         *)
LEMMA ReplayIs ==
    ASSUME NEW D, Chained(D), Grounded(D), NEW f, Replays(D, f)
    PROVE  Replay(D) = f
<1>1. Replays(D, CHOOSE h : Replays(D, h))
  OBVIOUS
<1> QED
  BY <1>1, ReplayChosen, ReplayUnique

(* Snapshot::resolve, which stops at the nearest checkpoint, gives what a  *)
(* replay from the root gives as long as the checkpoints hold that.        *)
LEMMA ResolveIsReplay ==
    ASSUME NEW D, Chained(D), Grounded(D), Replays(D, Replay(D)), Faithful(D)
    PROVE  Resolve(D) = Replay(D)
<1> DEFINE r == Replay(D)
<1>1. r = [c \in D.commits |-> ReplayStep(r, c)]
  BY DEF Replays
<1>2. \A c \in DOMAIN D.checkpoints : D.checkpoints[c] = r[c]
  BY DEF Faithful
<1> HIDE DEF r
<1>3. \A c \in D.commits : ReplayStep(r, c) = ResolveStep(D, r, c)
  BY <1>1, <1>2 DEF ResolveStep
<1>4. r = [c \in D.commits |-> ResolveStep(D, r, c)]
  BY <1>1, <1>3
<1>5. Resolves(D, r)
  BY <1>4 DEF Resolves
<1>6. Resolves(D, CHOOSE h : Resolves(D, h))
  BY <1>5
<1> QED
  BY <1>5, <1>6, ResolveChosen, ResolveUnique DEF r

(* What is read depends on the commits and the checkpoints only.           *)
LEMMA SameReading ==
    ASSUME NEW D, NEW E, E.commits = D.commits
    PROVE  /\ Replay(E) = Replay(D)
           /\ E.checkpoints = D.checkpoints => Resolve(E) = Resolve(D)
           /\ \A roots : Reachable(E, roots) = Reachable(D, roots)
<1>1. Replay(E) = Replay(D)
  BY DEF Replay
<1>2. E.checkpoints = D.checkpoints => Resolve(E) = Resolve(D)
  BY DEF Resolve
<1>3. \A roots : Reachable(E, roots) = Reachable(D, roots)
  BY DEF Reachable, ClosedUnderParents
<1> QED
  BY <1>1, <1>2, <1>3

(* A change of references and sidecars keeps what is read, as long as the  *)
(* checkpoints hold what a replay gives.                                   *)
LEMMA RedecorateReadable ==
    ASSUME NEW D, Readable(D), NEW E, E.commits = D.commits,
           \A c \in DOMAIN E.checkpoints : E.checkpoints[c] = Replay(D)[c]
    PROVE  Readable(E) /\ Replay(E) = Replay(D)
<1>1. Replay(E) = Replay(D)
  BY SameReading
<1>2. Chained(E) /\ Grounded(E) /\ Replays(E, Replay(E))
  BY <1>1 DEF Readable, Chained, Grounded, Replays
<1>3. Faithful(E)
  BY <1>1 DEF Faithful
<1>4. Contents(E)
  BY <1>1 DEF Readable, Contents
<1> QED
  BY <1>1, <1>2, <1>3, <1>4 DEF Readable

(* E holds one commit more than D: a child of parents[1] whose Snapshot is *)
(* valid for its schema.                                                   *)
Appends(D, E, parents, layer, schema, stamp) ==
    /\ parents # <<>> /\ 1 \in DOMAIN parents /\ parents[1] \in D.commits
    /\ layer \in Layer
    /\ Valid(Apply(Replay(D)[parents[1]], layer), schema)
    /\ E.commits = D.commits \cup {NewCommit(parents, layer, schema, stamp)}
    /\ E.checkpoints = D.checkpoints

(* The new commit resolves to its Layer over the Snapshot of its first     *)
(* parent, every other one to what it did.                                 *)
LEMMA AppendReadable ==
    ASSUME NEW D, Readable(D), DOMAIN D.checkpoints \subseteq D.commits,
           NEW E, NEW parents, NEW layer, NEW schema, NEW stamp,
           Appends(D, E, parents, layer, schema, stamp)
    PROVE  /\ Readable(E)
           /\ \A c \in D.commits : Replay(E)[c] = Replay(D)[c]
           /\ Replay(E)[NewCommit(parents, layer, schema, stamp)]
                  = Apply(Replay(D)[parents[1]], layer)
<1> DEFINE commit == NewCommit(parents, layer, schema, stamp)
           r == Replay(D)
           f == [c \in E.commits |-> IF c \in D.commits THEN r[c] ELSE Apply(r[parents[1]], layer)]
<1>1. /\ commit.parents = parents /\ commit.layer = layer
      /\ commit.schema = schema
  BY DEF NewCommit
<1>2. /\ E.commits = D.commits \cup {commit} /\ E.checkpoints = D.checkpoints
      /\ parents # <<>> /\ 1 \in DOMAIN parents /\ parents[1] \in D.commits
      /\ layer \in Layer /\ Valid(Apply(r[parents[1]], layer), schema)
  BY DEF Appends
<1>3. Chained(D) /\ Grounded(D) /\ Replays(D, r) /\ Faithful(D) /\ Contents(D)
  BY DEF Readable
<1>4. \A c \in D.commits : r[c] = ReplayStep(r, c)
  <2>1. r = [c \in D.commits |-> ReplayStep(r, c)]
    BY <1>3 DEF Replays
  <2> HIDE DEF r
  <2> QED
    BY <2>1
<1> HIDE DEF commit, r
<1>5. Chained(E)
  BY <1>1, <1>2, <1>3 DEF Chained
<1>6. Grounded(E)
  <2> SUFFICES ASSUME NEW T \in SUBSET E.commits, T # {}
               PROVE  \E c \in T : c.parents = <<>> \/ c.parents[1] \notin T
    BY DEF Grounded
  <2>1. CASE T \cap D.commits = {}
    <3>1. commit \in T /\ commit.parents[1] \notin T
      BY <1>1, <1>2, <2>1
    <3> QED
      BY <3>1
  <2>2. CASE T \cap D.commits # {} /\ commit \in D.commits
    BY <1>2, <1>3, <2>2 DEF Grounded
  <2>3. CASE T \cap D.commits # {} /\ commit \notin D.commits
    <3>1. PICK c \in T \cap D.commits : c.parents = <<>> \/ c.parents[1] \notin T \cap D.commits
      BY <1>3, <2>3 DEF Grounded
    <3>2. c.parents # <<>> => c.parents[1] \in D.commits
      BY <1>3 DEF Chained
    <3> QED
      BY <3>1, <3>2
  <2> QED
    BY <2>1, <2>2, <2>3
<1>7. /\ \A c \in D.commits : c \in E.commits /\ f[c] = r[c]
      /\ commit \in E.commits
      /\ commit \notin D.commits => f[commit] = Apply(r[parents[1]], layer)
  BY <1>2
<1>8. f[commit] = Apply(r[parents[1]], layer)
  <2>1. CASE commit \in D.commits
    BY <1>1, <1>2, <1>4, <1>7, <2>1 DEF ReplayStep
  <2> QED
    BY <1>7, <2>1
<1>9. f = [c \in E.commits |-> f[c]]
  OBVIOUS
<1> HIDE DEF f
<1>10. \A c \in E.commits : f[c] = ReplayStep(f, c)
  <2>1. ASSUME NEW c \in D.commits
        PROVE  f[c] = ReplayStep(f, c)
    <3>1. f[c] = ReplayStep(r, c)
      BY <1>4, <1>7
    <3>2. c.parents # <<>> => f[c.parents[1]] = r[c.parents[1]]
      BY <1>3, <1>7 DEF Chained
    <3> QED
      BY <3>1, <3>2 DEF ReplayStep
  <2>2. f[commit] = ReplayStep(f, commit)
    BY <1>1, <1>2, <1>7, <1>8 DEF ReplayStep
  <2> QED
    BY <1>2, <2>1, <2>2
<1>11. Replays(E, f)
  BY <1>9, <1>10 DEF Replays
<1>12. Replay(E) = f
  BY <1>5, <1>6, <1>11, ReplayIs
<1>13. Faithful(E)
  BY <1>2, <1>3, <1>7, <1>12 DEF Faithful, r
<1>14. Contents(E)
  <2>1. \A c \in D.commits : c.layer \in Layer /\ Valid(f[c], c.schema)
    BY <1>3, <1>7 DEF Contents, r
  <2>2. commit.layer \in Layer /\ Valid(f[commit], commit.schema)
    BY <1>1, <1>2, <1>8
  <2> QED
    BY <1>2, <1>12, <2>1, <2>2 DEF Contents
<1> QED
  BY <1>5, <1>6, <1>7, <1>8, <1>11, <1>12, <1>13, <1>14 DEF Readable, r, commit

(* E keeps some of the commits of D, with their parents, and some of the   *)
(* checkpoints: they read as before.                                       *)
LEMMA RestrictReadable ==
    ASSUME NEW D, Readable(D), NEW E, E.commits \subseteq D.commits,
           \A c \in E.commits : Parents(c) \subseteq E.commits,
           \A c \in DOMAIN E.checkpoints :
               c \in DOMAIN D.checkpoints \cap E.commits /\ E.checkpoints[c] = D.checkpoints[c]
    PROVE  Readable(E) /\ \A c \in E.commits : Replay(E)[c] = Replay(D)[c]
<1> DEFINE r == Replay(D)
           f == [c \in E.commits |-> r[c]]
<1>1. Chained(D) /\ Grounded(D) /\ Replays(D, r) /\ Faithful(D) /\ Contents(D)
  BY DEF Readable
<1>2. \A c \in D.commits : r[c] = ReplayStep(r, c)
  <2>1. r = [c \in D.commits |-> ReplayStep(r, c)]
    BY <1>1 DEF Replays
  <2> HIDE DEF r
  <2> QED
    BY <2>1
<1> HIDE DEF r
<1>3. Chained(E)
  <2> SUFFICES ASSUME NEW c \in E.commits, c.parents # <<>>
               PROVE  1 \in DOMAIN c.parents /\ c.parents[1] \in E.commits
    BY DEF Chained
  <2>1. 1 \in DOMAIN c.parents
    BY <1>1 DEF Chained
  <2> QED
    BY <2>1 DEF Parents
<1>4. Grounded(E)
  BY <1>1 DEF Grounded
<1>5. f = [c \in E.commits |-> f[c]] /\ \A c \in E.commits : f[c] = r[c]
  OBVIOUS
<1> HIDE DEF f
<1>6. ASSUME NEW c \in E.commits
      PROVE  f[c] = ReplayStep(f, c)
  <2>1. f[c] = ReplayStep(r, c)
    BY <1>2, <1>5
  <2>2. c.parents # <<>> => f[c.parents[1]] = r[c.parents[1]]
    BY <1>3, <1>5 DEF Chained
  <2> QED
    BY <2>1, <2>2 DEF ReplayStep
<1>7. Replays(E, f)
  BY <1>5, <1>6 DEF Replays
<1>8. Replay(E) = f
  BY <1>3, <1>4, <1>7, ReplayIs
<1>9. Faithful(E)
  BY <1>1, <1>5, <1>8 DEF Faithful, r
<1>10. Contents(E)
  BY <1>1, <1>5, <1>8 DEF Contents, r
<1> QED
  BY <1>3, <1>4, <1>5, <1>7, <1>8, <1>9, <1>10 DEF Readable, r

(* The database that initialize_root leaves.                               *)
LEMMA InitialSound == Sound(InitialDB)
<1> DEFINE D == InitialDB
<1>1. IsDatabase(D)
  BY DEF InitialDB, IsDatabase
<1>2. /\ D.commits = {Root} /\ D.layers = {EmptyLayer} /\ D.schemas = {RootSchema}
      /\ D.branches = [b \in {Main} |-> Root]
      /\ D.tags = [t \in {} |-> Root] /\ D.sessions = [s \in {} |-> Root]
      /\ D.data = {} /\ D.checkpoints = [c \in {} |-> EmptyGraph]
  BY DEF InitialDB
<1>3. /\ Root.parents = <<>> /\ Root.layer = EmptyLayer
      /\ Root.schema = RootSchema /\ Root.stamp = RootStamp
  BY DEF Root, NewCommit
<1>4. IsCommit(Root)
  <2>1. Root = NewCommit(Root.parents, Root.layer, Root.schema, Root.stamp)
    BY <1>3 DEF Root
  <2>2. DOMAIN Root.parents = {}
    BY <1>3
  <2>3. Root.schema \in Schema /\ Root.stamp \in Stamp
    BY <1>3, NamesAssumption DEF Schema, RootSchema
  <2> QED
    BY <2>1, <2>2, <2>3 DEF IsCommit
<1>5. Parents(Root) = {}
  BY <1>3 DEF Parents
<1> SUFFICES Sound(D)
  OBVIOUS
<1> HIDE DEF D
<1>6. TablesTyped(D)
  BY <1>1, <1>2, <1>4, NamesAssumption DEF TablesTyped, Schema, RootSchema
<1>7. ReferencesResolve(D)
  BY <1>2, <1>3, <1>5 DEF ReferencesResolve, BranchesResolve, TagsResolve, SessionsResolve,
                          HistoryComplete, SidecarsResolve
<1>8. NoOrphanRows(D)
  BY <1>2, <1>3 DEF NoOrphanRows
<1> QED
  BY <1>6, <1>7, <1>8 DEF Sound

(* Only the root, which is empty.                                          *)
LEMMA InitialReadable == Readable(InitialDB)
<1> DEFINE D == InitialDB
           f == [c \in D.commits |-> EmptyGraph]
<1>1. /\ D.commits = {Root} /\ D.checkpoints = [c \in {} |-> EmptyGraph]
      /\ Root.parents = <<>> /\ Root.layer = EmptyLayer /\ Root.schema = {}
  BY DEF InitialDB, Root, NewCommit, RootSchema
<1>2. EmptyGraph \in Graph /\ EmptyLayer \in Layer /\ Apply(EmptyGraph, EmptyLayer) = EmptyGraph
  BY EmptyLayerKeeps
<1> HIDE DEF D
<1>3. Chained(D) /\ Grounded(D)
  BY <1>1 DEF Chained, Grounded
<1>4. \A c \in D.commits : f[c] = ReplayStep(f, c)
  BY <1>1, <1>2 DEF ReplayStep
<1>5. f = [c \in D.commits |-> ReplayStep(f, c)]
  BY <1>4
<1> HIDE DEF f
<1>6. Replays(D, f)
  BY <1>5 DEF Replays
<1>7. Replay(D) = f
  BY <1>3, <1>6, ReplayIs
<1>8. f[Root] = EmptyGraph
  BY <1>1 DEF f
<1>9. Valid(EmptyGraph, {})
  BY <1>2 DEF Valid, WellFormed, EmptyGraph, Satisfies
<1>10. Faithful(D) /\ Contents(D)
  BY <1>1, <1>2, <1>7, <1>8, <1>9 DEF Faithful, Contents
<1> QED
  BY <1>3, <1>6, <1>7, <1>10 DEF Readable, D

(* collect_garbage keeps the commits it leaves readable, as they were.     *)
LEMMA CollectGarbageReadable ==
    ASSUME NEW D, Sound(D), Readable(D)
    PROVE  /\ Readable(CollectGarbage(D))
           /\ CollectGarbage(D).commits \subseteq D.commits
           /\ \A c \in CollectGarbage(D).commits : Replay(CollectGarbage(D))[c] = Replay(D)[c]
<1> DEFINE live == Reachable(D, GcRoots(D))
           E == CollectGarbage(D)
<1>1. IsDatabase(D)
  BY DEF Sound, TablesTyped
<1>2. CASE live = D.commits
  BY <1>2 DEF CollectGarbage
<1>3. CASE live # D.commits
  <2>1. /\ live \subseteq D.commits
        /\ \A c \in live : Parents(c) \subseteq live
    BY ReachableFacts, GcRootsResolve DEF Sound, ReferencesResolve
  <2>2. /\ E.commits = live
        /\ E.checkpoints = Only(D.checkpoints, live)
    BY <1>1, <1>3 DEF CollectGarbage, IsDatabase
  <2> HIDE DEF live, E
  <2>3. \A c \in DOMAIN E.checkpoints :
            c \in DOMAIN D.checkpoints \cap E.commits /\ E.checkpoints[c] = D.checkpoints[c]
    BY <2>2 DEF Only
  <2>4. Readable(E) /\ \A c \in E.commits : Replay(E)[c] = Replay(D)[c]
    BY <2>1, <2>2, <2>3, RestrictReadable
  <2> QED
    BY <2>1, <2>2, <2>4 DEF E
<1> QED
  BY <1>2, <1>3

LEMMA ReadableFacts ==
    ASSUME NEW D, Readable(D)
    PROVE  /\ Resolve(D) = Replay(D)
           /\ \A c \in D.commits : Replay(D)[c] \in Graph
  BY ResolveIsReplay DEF Readable, Contents, Valid

(* A Layer that commit_change_inner accepts leads from a valid Snapshot to *)
(* a well-formed one, the empty Layer, which it does not look at, too.     *)
LEMMA CandidateValid ==
    ASSUME NEW D, Readable(D), NEW head \in D.commits, NEW layer \in Layer, NEW schema,
           layer # EmptyLayer => ValidLayer(Replay(D)[head], layer),
           Satisfies(Apply(Replay(D)[head], layer), schema)
    PROVE  Valid(Apply(Replay(D)[head], layer), schema)
<1> DEFINE g == Replay(D)[head]
<1>1. g \in Graph /\ WellFormed(g)
  BY DEF Readable, Contents, Valid
<1> HIDE DEF g
<1>2. Apply(g, layer) \in Graph
  BY <1>1, ApplyType
<1>3. WellFormed(Apply(g, layer))
  BY <1>1, EmptyLayerKeeps, ValidationSound DEF g
<1> QED
  BY <1>2, <1>3 DEF Valid, g

(* The tables after persist_schema_blob and commit_change_inner.           *)
LEMMA PublishFields ==
    ASSUME NEW D, IsDatabase(D), NEW b, NEW parents, NEW layer, NEW schema, NEW stamp
    PROVE  LET E == CommitChange(PersistSchema(D, schema), b, parents, layer, schema, stamp)
               commit == NewCommit(parents, layer, schema, stamp)
           IN  /\ IsDatabase(E)
               /\ E.commits = D.commits \cup {commit}
               /\ E.branches = Put(D.branches, b, commit)
               /\ E.sessions = D.sessions
               /\ E.checkpoints = D.checkpoints
  BY PersistSchemaFields, CommitChangeFields

LEMMA PublishAppends ==
    ASSUME NEW D, IsDatabase(D), Readable(D), NEW b, NEW parents, NEW layer \in Layer,
           NEW schema, NEW stamp, parents # <<>>, 1 \in DOMAIN parents,
           CanCommit(PersistSchema(D, schema), b, parents, layer, schema),
           Satisfies(Apply(Replay(D)[parents[1]], layer), schema)
    PROVE  /\ Appends(D, CommitChange(PersistSchema(D, schema), b, parents, layer, schema, stamp),
                      parents, layer, schema, stamp)
           /\ b \in DOMAIN D.branches /\ D.branches[b] = parents[1]
<1> DEFINE P == PersistSchema(D, schema)
           E == CommitChange(P, b, parents, layer, schema, stamp)
<1>1. P.commits = D.commits /\ P.checkpoints = D.checkpoints /\ P.branches = D.branches
  BY PersistSchemaFields
<1>2. Resolve(P) = Replay(D)
  BY <1>1, SameReading, ReadableFacts
<1>3. /\ E.commits = D.commits \cup {NewCommit(parents, layer, schema, stamp)}
      /\ E.checkpoints = D.checkpoints
  BY PublishFields
<1>4. CanCommit(P, b, parents, layer, schema)
  OBVIOUS
<1> SUFFICES /\ Appends(D, E, parents, layer, schema, stamp)
             /\ b \in DOMAIN D.branches /\ D.branches[b] = parents[1]
  OBVIOUS
<1> HIDE DEF P, E
<1>5. /\ parents[1] \in D.commits
      /\ b \in DOMAIN D.branches /\ D.branches[b] = parents[1]
      /\ layer # EmptyLayer => ValidLayer(Replay(D)[parents[1]], layer)
  BY <1>1, <1>2, <1>4 DEF CanCommit
<1>6. Valid(Apply(Replay(D)[parents[1]], layer), schema)
  BY <1>5, CandidateValid
<1> QED
  BY <1>3, <1>5, <1>6 DEF Appends

-----------------------------------------------------------------------------
(* Walking first parents.                                                  *)

(* The results, of a sort V, of a walk: init[c] at a root, and elsewhere   *)
(* step[c] of the result of the first parent.                              *)
WalkTyped(D, V, init, step) ==
    init \in [D.commits -> V] /\ step \in [D.commits -> [V -> V]]
Walks(D, V, init, step, f) ==
    /\ f \in [D.commits -> V]
    /\ \A c \in D.commits :
          f[c] = IF c.parents = <<>> THEN init[c] ELSE step[c][f[c.parents[1]]]

(* A walk that starts at a root and takes one step for each commit gives a *)
(* result for every commit: the commits with a result are closed under     *)
(* first parents, and the first one without would have one too.            *)
LEMMA ParentRecursion ==
    ASSUME NEW D, Chained(D), Grounded(D), NEW V, NEW init, NEW step,
           WalkTyped(D, V, init, step)
    PROVE  \E f : Walks(D, V, init, step, f)
<1> USE DEF WalkTyped
<1> DEFINE Walk(f, c) == IF c.parents = <<>> THEN init[c] ELSE step[c][f[c.parents[1]]]
           Solves(A, f) == \A c \in A : /\ c.parents # <<>> => c.parents[1] \in A
                                        /\ f[c] = Walk(f, c)
           Solved(c, v) == \E A \in SUBSET D.commits, f \in [D.commits -> V] :
                              Solves(A, f) /\ c \in A /\ f[c] = v
           U == {c \in D.commits : \E v : Solved(c, v)}
           h == [c \in D.commits |-> IF c \in U THEN CHOOSE v : Solved(c, v) ELSE init[c]]
<1>1. ASSUME NEW A \in SUBSET D.commits, NEW B \in SUBSET D.commits, NEW f, NEW g,
             Solves(A, f), Solves(B, g), NEW c \in A \cap B
      PROVE  f[c] = g[c]
  <2> DEFINE T == {x \in A \cap B : f[x] # g[x]}
  <2>1. ASSUME T # {}
        PROVE  FALSE
    <3>1. PICK x \in T : x.parents = <<>> \/ x.parents[1] \notin T
      BY <2>1 DEF Grounded
    <3>2. x.parents # <<>> => f[x.parents[1]] = g[x.parents[1]]
      BY <1>1, <3>1
    <3>3. f[x] = Walk(f, x) /\ g[x] = Walk(g, x)
      BY <1>1
    <3> QED
      BY <3>1, <3>2, <3>3
  <2> QED
    BY <2>1
<1>2. ASSUME NEW A \in SUBSET D.commits, NEW f \in [D.commits -> V], Solves(A, f), NEW c \in A
      PROVE  c \in U /\ h[c] = f[c]
  <2>1. Solved(c, f[c])
    BY <1>2
  <2>2. c \in U
    BY <2>1
  <2>3. Solved(c, h[c])
    BY <2>1, <2>2
  <2>4. PICK B \in SUBSET D.commits, g \in [D.commits -> V] : Solves(B, g) /\ c \in B /\ g[c] = h[c]
    BY <2>3
  <2> HIDE DEF Solves, Solved, h, U
  <2>5. g[c] = f[c]
    BY <1>1, <1>2, <2>4
  <2> QED
    BY <2>2, <2>4, <2>5
<1>3. ASSUME NEW c \in U
      PROVE  /\ c.parents # <<>> => c.parents[1] \in U
             /\ h[c] = Walk(h, c) /\ h[c] \in V
  <2>1. PICK A \in SUBSET D.commits, f \in [D.commits -> V] : Solves(A, f) /\ c \in A
    BY DEF Solved
  <2> HIDE DEF h, U
  <2>2. \A x \in A : x \in U /\ h[x] = f[x]
    <3> HIDE DEF Solves
    <3> QED
      BY <1>2, <2>1
  <2>3. /\ c.parents # <<>> => c.parents[1] \in A
        /\ f[c] = Walk(f, c)
    BY <2>1
  <2> HIDE DEF h, U, Solves, Solved
  <2> QED
    BY <2>1, <2>2, <2>3
<1>4. h = [c \in D.commits |-> h[c]] /\ \A c \in D.commits \ U : h[c] \in V
  BY DEF h
<1>5. U \subseteq D.commits
  OBVIOUS
<1> HIDE DEF h, U
<1>6. h \in [D.commits -> V]
  BY <1>3, <1>4
<1>7. ASSUME D.commits \ U # {}
      PROVE  FALSE
  <2>1. PICK c \in D.commits \ U : c.parents = <<>> \/ c.parents[1] \notin D.commits \ U
    BY <1>7 DEF Grounded
  <2>2. c.parents # <<>> => c.parents[1] \in U
    BY <2>1 DEF Chained
  <2> DEFINE g == [x \in D.commits |-> IF x = c THEN Walk(h, c) ELSE h[x]]
             A == U \cup {c}
  <2>3. Walk(h, c) \in V
    <3>1. c \in D.commits /\ init[c] \in V /\ step[c] \in [V -> V]
      BY <2>1
    <3>2. c.parents # <<>> => h[c.parents[1]] \in V
      BY <1>3, <2>2
    <3> QED
      BY <3>1, <3>2
  <2>4. g \in [D.commits -> V]
    BY <1>6, <2>3
  <2>5. g[c] = Walk(h, c) /\ \A x \in U : g[x] = h[x]
    BY <1>5, <2>1
  <2> HIDE DEF g
  <2>6. ASSUME NEW x \in A
        PROVE  /\ x.parents # <<>> => x.parents[1] \in A
               /\ g[x] = Walk(g, x)
    <3>1. x.parents # <<>> => x.parents[1] \in U
      BY <1>3, <2>2
    <3>2. g[x] = Walk(h, x)
      BY <1>3, <2>5
    <3> QED
      BY <2>5, <3>1, <3>2
  <2>7. Solves(A, g)
    BY <2>6
  <2>8. A \in SUBSET D.commits /\ c \in A
    BY <1>5, <2>1
  <2> HIDE DEF Solves, A
  <2>9. Solved(c, g[c])
    BY <2>4, <2>7, <2>8
  <2> QED
    BY <2>1, <2>9 DEF U
<1> QED
  BY <1>3, <1>5, <1>6, <1>7 DEF Walks

(* The first-parent lineage of every commit.                               *)
LEMMA LineageSteps ==
    ASSUME NEW D, Chained(D), Grounded(D), NEW c \in D.commits
    PROVE  /\ Lineage(D)[c] = {c} \cup IF c.parents = <<>> THEN {} ELSE Lineage(D)[c.parents[1]]
           /\ Lineage(D)[c] \subseteq D.commits
           /\ c \in Lineage(D)[c]
<1> DEFINE init == [x \in D.commits |-> {x}]
           step == [x \in D.commits |-> [S \in SUBSET D.commits |-> {x} \cup S]]
           Steps(f) == f = [x \in D.commits |->
                              {x} \cup IF x.parents = <<>> THEN {} ELSE f[x.parents[1]]]
<1>0. WalkTyped(D, SUBSET D.commits, init, step)
  BY DEF WalkTyped
<1>1. /\ \A x \in D.commits : init[x] = {x}
      /\ \A x \in D.commits, S \in SUBSET D.commits : step[x][S] = {x} \cup S
  OBVIOUS
<1> HIDE DEF init, step
<1>2. PICK f : Walks(D, SUBSET D.commits, init, step, f)
  BY <1>0, ParentRecursion
<1>3. \A x \in D.commits :
          f[x] = {x} \cup IF x.parents = <<>> THEN {} ELSE f[x.parents[1]]
  <2> SUFFICES ASSUME NEW x \in D.commits
               PROVE  f[x] = {x} \cup IF x.parents = <<>> THEN {} ELSE f[x.parents[1]]
    OBVIOUS
  <2>1. x.parents # <<>> => f[x.parents[1]] \in SUBSET D.commits
    BY <1>2 DEF Chained, Walks
  <2>2. x.parents # <<>> => step[x][f[x.parents[1]]] = {x} \cup f[x.parents[1]]
    BY <1>1, <2>1
  <2>3. init[x] = {x}
    BY <1>1
  <2> QED
    BY <1>2, <2>2, <2>3 DEF Walks
<1>4. Steps(f)
  BY <1>2, <1>3 DEF Walks
<1>5. Steps(CHOOSE g : Steps(g))
  BY <1>4
<1>6. Lineage(D) = CHOOSE g : Steps(g)
  BY DEF Lineage
<1> DEFINE l == Lineage(D)
<1>7. l = [x \in D.commits |-> {x} \cup IF x.parents = <<>> THEN {} ELSE l[x.parents[1]]]
  BY <1>5, <1>6
<1>8. ASSUME NEW g, g = [x \in D.commits |-> {x} \cup IF x.parents = <<>> THEN {} ELSE g[x.parents[1]]]
      PROVE  \A x \in D.commits : g[x] \subseteq D.commits
  <2> DEFINE T == {x \in D.commits : ~ (g[x] \subseteq D.commits)}
  <2>1. ASSUME T # {}
        PROVE  FALSE
    <3>1. PICK x \in T : x.parents = <<>> \/ x.parents[1] \notin T
      BY <2>1 DEF Grounded
    <3>2. x.parents # <<>> => g[x.parents[1]] \subseteq D.commits
      BY <3>1 DEF Chained
    <3>3. g[x] = {x} \cup IF x.parents = <<>> THEN {} ELSE g[x.parents[1]]
      BY <1>8
    <3> QED
      BY <3>1, <3>2, <3>3
  <2> QED
    BY <2>1
<1> HIDE DEF l
<1>9. l[c] \subseteq D.commits
  BY <1>7, <1>8
<1>10. l[c] = {c} \cup IF c.parents = <<>> THEN {} ELSE l[c.parents[1]]
  BY <1>7
<1> QED
  BY <1>9, <1>10 DEF l

(* It is the same in every database with the commit.                       *)
LEMMA LineageKept ==
    ASSUME NEW D, Chained(D), Grounded(D), NEW E, Chained(E), Grounded(E),
           D.commits \subseteq E.commits, NEW c \in D.commits
    PROVE  Lineage(E)[c] = Lineage(D)[c]
<1> DEFINE T == {x \in D.commits : Lineage(E)[x] # Lineage(D)[x]}
<1>1. ASSUME T # {}
      PROVE  FALSE
  <2>1. PICK x \in T : x.parents = <<>> \/ x.parents[1] \notin T
    BY <1>1 DEF Grounded
  <2>2. x.parents # <<>> => Lineage(E)[x.parents[1]] = Lineage(D)[x.parents[1]]
    BY <2>1 DEF Chained
  <2>3. /\ Lineage(E)[x] = {x} \cup IF x.parents = <<>> THEN {} ELSE Lineage(E)[x.parents[1]]
        /\ Lineage(D)[x] = {x} \cup IF x.parents = <<>> THEN {} ELSE Lineage(D)[x.parents[1]]
    BY LineageSteps
  <2> QED
    BY <2>1, <2>2, <2>3
<1> QED
  BY <1>1

(* What touched_layer_between_commits collects, commit by commit.          *)
LEMMA TouchedSteps ==
    ASSUME NEW D, Readable(D), NEW base, NEW c \in D.commits
    PROVE  /\ Touched(D, base)[c] \in Layer
           /\ Touched(D, base)[c] = IF c = base THEN EmptyLayer
                                    ELSE IF c.parents = <<>> THEN c.layer
                                    ELSE OrInsert(c.layer, Touched(D, base)[c.parents[1]])
<1> DEFINE init == [x \in D.commits |-> IF x = base THEN EmptyLayer ELSE x.layer]
           step == [x \in D.commits |-> [l \in Layer |->
                      IF x = base THEN EmptyLayer ELSE OrInsert(x.layer, l)]]
           Step(f, x) == IF x = base THEN EmptyLayer
                         ELSE IF x.parents = <<>> THEN x.layer
                         ELSE OrInsert(x.layer, f[x.parents[1]])
           Steps(f) == f = [x \in D.commits |-> Step(f, x)]
<1>a. /\ EmptyLayer \in Layer /\ \A x \in D.commits : x.layer \in Layer
      /\ \A l, m \in Layer : OrInsert(l, m) \in Layer
  <2>1. \A l, m \in Layer : OrInsert(l, m) \in Layer
    BY DEF OrInsert, Layer
  <2> QED
    BY <2>1, EmptyLayerKeeps DEF Readable, Contents
<1>b. Chained(D) /\ Grounded(D)
  BY DEF Readable
<1>0. WalkTyped(D, Layer, init, step)
  BY <1>a DEF WalkTyped
<1>1. /\ \A x \in D.commits : init[x] = IF x = base THEN EmptyLayer ELSE x.layer
      /\ \A x \in D.commits, l \in Layer :
            step[x][l] = IF x = base THEN EmptyLayer ELSE OrInsert(x.layer, l)
  BY <1>a
<1> HIDE DEF init, step
<1>2. PICK f : Walks(D, Layer, init, step, f)
  BY <1>0, <1>b, ParentRecursion
<1>3. \A x \in D.commits : f[x] = Step(f, x)
  <2> SUFFICES ASSUME NEW x \in D.commits
               PROVE  f[x] = Step(f, x)
    OBVIOUS
  <2>1. x.parents # <<>> => f[x.parents[1]] \in Layer
    BY <1>2, <1>b DEF Chained, Walks
  <2>2. x.parents # <<>> => step[x][f[x.parents[1]]]
                              = IF x = base THEN EmptyLayer ELSE OrInsert(x.layer, f[x.parents[1]])
    BY <1>1, <2>1
  <2>3. init[x] = IF x = base THEN EmptyLayer ELSE x.layer
    BY <1>1
  <2> QED
    BY <1>2, <2>2, <2>3 DEF Walks
<1>4. Steps(f)
  BY <1>2, <1>3 DEF Walks
<1>5. Steps(CHOOSE g : Steps(g))
  BY <1>4
<1>6. Touched(D, base) = CHOOSE g : Steps(g)
  BY DEF Touched
<1> DEFINE t == Touched(D, base)
<1>7. Steps(t)
  BY <1>5, <1>6
<1> HIDE DEF t
<1>8. \A x \in D.commits : t[x] = Step(t, x)
  BY <1>7
<1>9. \A x \in D.commits : t[x] \in Layer
  <2> DEFINE T == {x \in D.commits : t[x] \notin Layer}
  <2>1. ASSUME T # {}
        PROVE  FALSE
    <3>1. PICK x \in T : x.parents = <<>> \/ x.parents[1] \notin T
      BY <1>b, <2>1 DEF Grounded
    <3>2. x.parents # <<>> => t[x.parents[1]] \in Layer
      BY <1>b, <3>1 DEF Chained
    <3> QED
      BY <1>a, <1>8, <3>1, <3>2
  <2> QED
    BY <2>1
<1> QED
  BY <1>8, <1>9 DEF t

(* layer_between_commits, which reads only the rows of the Layers between  *)
(* a commit and a first-parent ancestor, gives the difference of their     *)
(* Snapshots: the net Layer of an explicit transaction is what a commit    *)
(* of the staged head on the base would hold.                              *)
THEOREM NetLayerIsDifference ==
    ASSUME NEW D, Readable(D), NEW base \in D.commits, NEW c \in D.commits,
           base \in Lineage(D)[c]
    PROVE  LayerBetweenCommits(D, base, c) = LayerBetween(Resolve(D)[base], Resolve(D)[c])
<1> DEFINE r == Replay(D)
           t == Touched(D, base)
           g == r[base]
           T == {x \in D.commits : base \in Lineage(D)[x] /\ Apply(g, t[x]) # r[x]}
<1>1. Chained(D) /\ Grounded(D) /\ Resolve(D) = r
  BY ReadableFacts DEF Readable
<1>2. \A x \in D.commits : x.layer \in Layer /\ r[x] \in Graph
  BY DEF Readable, Contents, Valid
<1>3. \A x \in D.commits : r[x] = ReplayStep(r, x)
  <2>1. r = [x \in D.commits |-> ReplayStep(r, x)]
    BY DEF Readable, Replays
  <2> HIDE DEF r
  <2> QED
    BY <2>1
<1>4. \A x \in D.commits : /\ t[x] \in Layer
                           /\ t[x] = IF x = base THEN EmptyLayer
                                     ELSE IF x.parents = <<>> THEN x.layer
                                     ELSE OrInsert(x.layer, t[x.parents[1]])
  BY TouchedSteps
<1> HIDE DEF r, t
<1>5. ASSUME T # {}
      PROVE  FALSE
  <2>1. PICK x \in T : x.parents = <<>> \/ x.parents[1] \notin T
    BY <1>1, <1>5 DEF Grounded
  <2>2. Lineage(D)[x] = {x} \cup IF x.parents = <<>> THEN {} ELSE Lineage(D)[x.parents[1]]
    BY <1>1, LineageSteps
  <2>3. x # base
    BY <1>2, <1>4, <2>1, EmptyLayerKeeps
  <2>4. x.parents # <<>> /\ base \in Lineage(D)[x.parents[1]]
    BY <2>1, <2>2, <2>3
  <2>5. x.parents[1] \in D.commits
    BY <1>1, <2>1, <2>4 DEF Chained
  <2>6. Apply(g, t[x.parents[1]]) = r[x.parents[1]]
    BY <2>1, <2>4, <2>5
  <2>7. t[x] = OrInsert(x.layer, t[x.parents[1]]) /\ r[x] = Apply(r[x.parents[1]], x.layer)
    BY <1>3, <1>4, <2>1, <2>3, <2>4 DEF ReplayStep
  <2>8. Apply(g, t[x]) = r[x]
    BY <1>2, <1>4, <2>1, <2>5, <2>6, <2>7, OrInsertReplays
  <2> QED
    BY <2>1, <2>8
<1>6. Apply(g, t[c]) = r[c]
  BY <1>5
<1>7. Normalize(g, t[c]) = LayerBetween(g, r[c])
  BY <1>2, <1>4, <1>6, NormalizeIsLayerBetween
<1> QED
  BY <1>1, <1>7 DEF LayerBetweenCommits, t

=============================================================================
