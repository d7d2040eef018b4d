-------------------------- MODULE ExplicitTxProofs --------------------------
(***************************************************************************)
(* Theorems about ExplicitTx, for any graph, schema, names, cursors and    *)
(* bounds: the connection's state agrees with SQLite's, every explicit     *)
(* transaction that staged anything can be published, publishing it is one *)
(* commit on its base, and seen from outside every step is one step of the *)
(* version store or none.                                                  *)
(*                                                                         *)
(* Coherent is the inductive invariant of the connection's guards and      *)
(* flags.  Stored adds the databases: the durable one, the one the         *)
(* connection sees and the savepoints are Kept (sound and readable), and   *)
(* the second is the first with a chain of staged commits on the base of   *)
(* the explicit transaction.  The theorems that need Stored assume that    *)
(* the clock repeats no timestamp: with the same one, a staged commit can  *)
(* be the very commit that another branch already holds.                   *)
(***************************************************************************)
EXTENDS ExplicitTx, StoreProofs, FiniteSetTheorems

-----------------------------------------------------------------------------
(* The state of the connection.                                            *)

Phase == {"closed", "reading", "pending", "active"}

StateTyped ==
    /\ open \in BOOLEAN
    /\ tx.active \in BOOLEAN
    /\ tx.active => tx = [active |-> TRUE, branch |-> tx.branch, base |-> tx.base,
                          mutated |-> tx.mutated, id |-> tx.id]
    /\ cursors = [k \in Cursor |-> cursors[k]]
    /\ \A k \in Cursor :
          /\ cursors[k].phase \in Phase
          /\ cursors[k].phase = "active" => cursors[k].nested \in BOOLEAN

(* ACTIVE_SIDE_EFFECTS holds at most one write.                            *)
Writing(k) == cursors[k].phase \in {"pending", "active"}
OneWriter == \A j, k \in Cursor : Writing(j) /\ Writing(k) => j = k

(* Only the latest explicit transaction is ever active, and every cursor   *)
(* that is open then was opened in it.                                     *)
CursorsOfLatest ==
    tx.active => /\ tx.id = begun
                 /\ \A k \in Cursor : IsOpen(k) => cursors[k].explicit /\ cursors[k].id = begun

(* The savepoint of a write that runs is inside SQLite's transaction, or   *)
(* began it and then holds the durable contents.                           *)
SavepointsKnown ==
    \A k \in Cursor : cursors[k].phase = "active" =>
        /\ tx.active => cursors[k].nested
        /\ ~ cursors[k].nested /\ open => cursors[k].saved = db

(* What an unmutated transaction has staged is what its open write can     *)
(* still take back.                                                        *)
NothingStaged ==
    tx.active /\ ~ tx.mutated /\ ~ quarantined =>
        /\ \A k \in Cursor : cursors[k].phase = "active" => cursors[k].saved = db
        /\ (\A k \in Cursor : cursors[k].phase # "active") => work = db

Coherent ==
    /\ StateTyped
    /\ OneWriter
    /\ TxHoldsTransaction
    /\ CursorsOfLatest
    /\ SavepointsKnown
    /\ NothingStaged

LEMMA InitCoherent == Init => Coherent
<1> SUFFICES ASSUME Init PROVE Coherent
  OBVIOUS
<1>1. /\ work = db /\ open = FALSE /\ tx.active = FALSE
      /\ cursors = [k \in Cursor |-> cursors[k]]
      /\ \A k \in Cursor : cursors[k].phase = "closed"
  BY DEF Init, NoTx, Closed
<1> QED
  BY <1>1 DEF Coherent, StateTyped, OneWriter, TxHoldsTransaction, CursorsOfLatest,
              SavepointsKnown, NothingStaged, Writing, Phase

LEMMA NextCoherent ==
    ASSUME Coherent, [Next]_vars
    PROVE  Coherent'
<1> USE DEF Coherent, StateTyped, OneWriter, TxHoldsTransaction, CursorsOfLatest,
            SavepointsKnown, NothingStaged, NoTx, Closed, IsOpen, Writing, Phase
<1>1. ASSUME NEW b \in Branch, TxBegin(b)
      PROVE  Coherent'
  BY <1>1 DEF TxBegin, CanBegin, SideEffectActive, ReaderActive
<1>2. CASE TxBeginFails
  BY <1>2 DEF TxBeginFails, CanBegin, SideEffectActive, ReaderActive
<1>3. CASE RefuseNested
  BY <1>3 DEF RefuseNested
<1>4. CASE FailToPrepare
  <2>1. CASE tx' = NoTx /\ work' = db /\ open' = FALSE /\ quarantined' = quarantined
    BY <1>4, <2>1 DEF FailToPrepare
  <2>2. CASE open /\ quarantined' = TRUE /\ open' = open /\ tx' = NoTx
    BY <1>4, <2>2 DEF FailToPrepare
  <2>3. CASE open /\ quarantined' = TRUE /\ open' = open /\ tx' = tx
    BY <1>4, <2>3 DEF FailToPrepare
  <2> QED
    BY <1>4, <2>1, <2>2, <2>3 DEF FailToPrepare, RollbackTx
<1>5. ASSUME NEW stamp \in Stamp, TxCommit(stamp)
      PROVE  Coherent'
  BY <1>5 DEF TxCommit, CanEnd, SideEffectActive, ReaderActive
<1>6. CASE TxCommitRead
  BY <1>6 DEF TxCommitRead, CanEnd, SideEffectActive, ReaderActive
<1>7. CASE TxAbort
  <2>1. CASE tx' = NoTx /\ work' = db /\ open' = FALSE /\ quarantined' = quarantined
    BY <1>7, <2>1 DEF TxAbort, CanEnd
  <2>2. CASE open /\ quarantined' = TRUE /\ open' = open /\ tx' = NoTx
    BY <1>7, <2>2 DEF TxAbort, CanEnd
  <2>3. CASE open /\ quarantined' = TRUE /\ open' = open /\ tx' = tx
    BY <1>7, <2>3 DEF TxAbort, CanEnd
  <2> QED
    BY <1>7, <2>1, <2>2, <2>3 DEF TxAbort, RollbackTx
<1>8. ASSUME NEW k \in Cursor, NEW b \in Branch, NEW isWrite \in BOOLEAN, Open(k, b, isWrite)
      PROVE  Coherent'
  BY <1>8 DEF Open, SideEffectActive, ReaderActive
<1>9. ASSUME NEW k \in Cursor, NEW layer, NEW schema, NEW stamp, StartWrite(k, layer, schema, stamp)
      PROVE  Coherent'
  BY <1>9 DEF StartWrite
<1>10. ASSUME NEW k \in Cursor, CompleteRead(k)
      PROVE  Coherent'
  BY <1>10 DEF CompleteRead
<1>11. ASSUME NEW k \in Cursor, CompleteStaged(k)
      PROVE  Coherent'
  BY <1>11 DEF CompleteStaged
<1>12. ASSUME NEW k \in Cursor, CompleteDurable(k)
      PROVE  Coherent'
  BY <1>12 DEF CompleteDurable
<1>13. ASSUME NEW k \in Cursor, CompleteStale(k)
      PROVE  Coherent'
  BY <1>13 DEF CompleteStale
<1>14. ASSUME NEW k \in Cursor, NEW withError \in BOOLEAN, CancelExplicit(k, withError)
      PROVE  Coherent'
  <2>1. CASE tx' = NoTx /\ work' = db /\ open' = FALSE /\ quarantined' = quarantined
    BY <1>14, <2>1 DEF CancelExplicit
  <2>2. CASE open /\ quarantined' = TRUE /\ open' = open /\ tx' = NoTx
    BY <1>14, <2>2 DEF CancelExplicit
  <2>3. CASE open /\ quarantined' = TRUE /\ open' = open /\ tx' = tx
    BY <1>14, <2>3 DEF CancelExplicit
  <2> QED
    BY <1>14, <2>1, <2>2, <2>3 DEF CancelExplicit, RollbackTx
<1>15. ASSUME NEW k \in Cursor, NEW withError \in BOOLEAN, CancelPlain(k, withError)
      PROVE  Coherent'
  BY <1>15 DEF CancelPlain
<1>16. ASSUME NEW k \in Cursor, Interrupt(k)
      PROVE  Coherent'
  <2>1. CASE tx' = NoTx /\ work' = db /\ open' = FALSE /\ quarantined' = quarantined
    BY <1>16, <2>1 DEF Interrupt
  <2>2. CASE open /\ quarantined' = TRUE /\ open' = open /\ tx' = NoTx
    BY <1>16, <2>2 DEF Interrupt
  <2>3. CASE open /\ quarantined' = TRUE /\ open' = open /\ tx' = tx
    BY <1>16, <2>3 DEF Interrupt
  <2> QED
    BY <1>16, <2>1, <2>2, <2>3 DEF Interrupt
<1>17. CASE Reconnect
  BY <1>17 DEF Reconnect
<1>18. CASE Elsewhere
  BY <1>18 DEF Elsewhere
<1>19. CASE UNCHANGED vars
  BY <1>19 DEF vars
<1> HIDE DEF Coherent, StateTyped, OneWriter, TxHoldsTransaction, CursorsOfLatest,
             SavepointsKnown, NothingStaged, NoTx, Closed, IsOpen, Writing, Phase
<1>20. CASE Transact
  BY <1>1, <1>2, <1>3, <1>4, <1>5, <1>6, <1>7, <1>20 DEF Transact
<1>21. CASE Execute
  BY <1>8, <1>9, <1>10, <1>11, <1>12, <1>13, <1>14, <1>15, <1>16, <1>21 DEF Execute
<1> QED
  BY <1>17, <1>18, <1>19, <1>20, <1>21 DEF Next

(* The explicit transaction of the connection, SQLite's transaction, what  *)
(* is staged and the open cursors agree at every moment, whatever fails,   *)
(* is interrupted or crashes and whatever timestamps repeat.               *)
THEOREM ConnectionAlwaysConsistent == Spec => []ConnectionIsConsistent
<1>1. Coherent => ConnectionIsConsistent
  BY DEF Coherent, StateTyped, ConnectionIsConsistent, CursorsBelongToTx, CursorsOfLatest,
         UnmutatedMeansUntouched, NothingStaged
<1> QED
  BY <1>1, InitCoherent, NextCoherent, PTL DEF Spec

-----------------------------------------------------------------------------
(* The version store that the connection works on.                         *)

(* The operators of the Store of VS are those of this module.              *)
LEMMA SameLayers ==
    /\ VS!Graph = Graph /\ VS!Layer = Layer
    /\ VS!EmptyGraph = EmptyGraph /\ VS!EmptyLayer = EmptyLayer
    /\ \A g, l : VS!Apply(g, l) = Apply(g, l)
    /\ \A g, h : VS!LayerBetween(g, h) = LayerBetween(g, h)
    /\ \A g, l : VS!ValidLayer(g, l) <=> ValidLayer(g, l)
    /\ \A g : VS!WellFormed(g) <=> WellFormed(g)
<1>1. VS!Graph = Graph /\ VS!Layer = Layer
  BY DEF VS!Graph, Graph, VS!Layer, Layer
<1>2. VS!EmptyGraph = EmptyGraph /\ VS!EmptyLayer = EmptyLayer
  BY DEF VS!EmptyGraph, EmptyGraph, VS!EmptyLayer, EmptyLayer
<1>3. \A g, l : VS!Apply(g, l) = Apply(g, l)
  BY DEF VS!Apply, Apply
<1>4. \A g, h : VS!LayerBetween(g, h) = LayerBetween(g, h)
  BY DEF VS!LayerBetween, LayerBetween
<1>5. \A g, l : VS!ValidLayer(g, l) <=> ValidLayer(g, l)
  BY <1>3 DEF VS!ValidLayer, ValidLayer, VS!AddsHaveOwners, AddsHaveOwners,
              VS!RemovesHaveNoDependents, RemovesHaveNoDependents, VS!SurvivesLayer, SurvivesLayer
<1>6. \A g : VS!WellFormed(g) <=> WellFormed(g)
  BY DEF VS!WellFormed, WellFormed
<1> QED
  BY <1>1, <1>2, <1>3, <1>4, <1>5, <1>6

LEMMA SameStore ==
    /\ VS!Schema = Schema /\ VS!InitialDB = InitialDB
    /\ \A D : VS!Resolve(D) = Resolve(D)
    /\ \A D, s : VS!PersistSchema(D, s) = PersistSchema(D, s)
    /\ \A D, b, p, l, s : VS!CanCommit(D, b, p, l, s) <=> CanCommit(D, b, p, l, s)
    /\ \A D, b, p, l, s, t : VS!CommitChange(D, b, p, l, s, t) = CommitChange(D, b, p, l, s, t)
    /\ \A g, s : VS!Satisfies(g, s) <=> Satisfies(g, s)
    /\ \A D, h, l : VS!ValidWrite(D, h, l) <=> ValidWrite(D, h, l)
    /\ \A D, h, s : VS!ValidSchemaChange(D, h, s) <=> ValidSchemaChange(D, h, s)
<1>1. VS!Schema = Schema
  BY DEF VS!Schema, Schema
<1>2. VS!InitialDB = InitialDB
  BY DEF VS!InitialDB, InitialDB, VS!Root, Root, VS!NewCommit, NewCommit, VS!EmptyLayer,
         EmptyLayer, VS!RootSchema, RootSchema, VS!EmptyGraph, EmptyGraph
<1>3. \A D : VS!Resolve(D) = Resolve(D)
  BY DEF VS!Resolve, Resolve, VS!Apply, Apply, VS!EmptyGraph, EmptyGraph
<1>4. \A D, s : VS!PersistSchema(D, s) = PersistSchema(D, s)
  BY DEF VS!PersistSchema, PersistSchema
<1>5. \A D, b, p, l, s : VS!CanCommit(D, b, p, l, s) <=> CanCommit(D, b, p, l, s)
  BY <1>3, SameLayers DEF VS!CanCommit, CanCommit
<1>6. \A D, b, p, l, s, t : VS!CommitChange(D, b, p, l, s, t) = CommitChange(D, b, p, l, s, t)
  BY DEF VS!CommitChange, CommitChange, VS!NewCommit, NewCommit, VS!Put, Put
<1>7. \A g, s : VS!Satisfies(g, s) <=> Satisfies(g, s)
  BY DEF VS!Satisfies, Satisfies
<1>8. \A D, h, l : VS!ValidWrite(D, h, l) <=> ValidWrite(D, h, l)
  BY <1>3, <1>7, SameLayers DEF VS!ValidWrite, ValidWrite
<1>9. \A D, h, s : VS!ValidSchemaChange(D, h, s) <=> ValidSchemaChange(D, h, s)
  BY <1>3, <1>7 DEF VS!ValidSchemaChange, ValidSchemaChange
<1> QED
  BY <1>1, <1>2, <1>3, <1>4, <1>5, <1>6, <1>7, <1>8, <1>9

LEMMA SameCollectGarbage == \A D : VS!CollectGarbage(D) = CollectGarbage(D)
<1>1. \A D : VS!GcRoots(D) = GcRoots(D)
  BY DEF VS!GcRoots, GcRoots
<1>2. \A D, S : VS!Reachable(D, S) = Reachable(D, S)
  BY DEF VS!Reachable, Reachable, VS!ClosedUnderParents, ClosedUnderParents, VS!Parents, Parents
<1>3. \A f, S : VS!Only(f, S) = Only(f, S)
  BY DEF VS!Only, Only
<1> QED
  BY <1>1, <1>2, <1>3 DEF VS!CollectGarbage, CollectGarbage

-----------------------------------------------------------------------------
(* What the databases of this model hold.                                  *)

(* A database that is sound and readable, without sidecars, with no commit *)
(* of a later timestamp than now.                                          *)
Kept(D, now) ==
    /\ Sound(D) /\ Readable(D)
    /\ D.data = {} /\ D.checkpoints = [c \in {} |-> EmptyGraph]
    /\ D.branches = [b \in DOMAIN D.branches |-> D.branches[b]]
    /\ IsFiniteSet(D.commits)
    /\ \A c \in D.commits : c.stamp <= now

(* W is D with one commit more, on the head of b.                          *)
Adds(D, W, b, commit) ==
    /\ b \in DOMAIN D.branches /\ commit.parents = <<D.branches[b]>>
    /\ commit \notin D.commits
    /\ W.commits = D.commits \cup {commit}
    /\ W.layers = D.layers \cup {commit.layer}
    /\ W.schemas = D.schemas \cup {commit.schema}
    /\ W.branches = Put(D.branches, b, commit)
    /\ W.tags = D.tags /\ W.sessions = D.sessions
    /\ W.data = D.data /\ W.checkpoints = D.checkpoints

(* The write query or schema command of an execution, on D.                *)
Writes(D, W, b, head, layer, schema, stamp) ==
    /\ b \in Branch /\ head \in D.commits /\ layer \in Layer /\ schema \in Schema /\ stamp \in Stamp
    /\ \/ schema = head.schema /\ ValidWrite(D, head, layer)
       \/ layer = EmptyLayer /\ ValidSchemaChange(D, head, schema)
    /\ CanCommit(PersistSchema(D, schema), b, <<head>>, layer, schema)
    /\ W = CommitChange(PersistSchema(D, schema), b, <<head>>, layer, schema, stamp)

(* commit_change_inner with a Layer whose result satisfies the schema.     *)
LEMMA CommitKept ==
    ASSUME NEW D, NEW now \in Nat, Kept(D, now), NEW b \in Branch, NEW head, NEW layer \in Layer,
           NEW schema \in Schema, now + 1 \in Stamp,
           CanCommit(PersistSchema(D, schema), b, <<head>>, layer, schema),
           Satisfies(Apply(Replay(D)[head], layer), schema)
    PROVE  LET W == CommitChange(PersistSchema(D, schema), b, <<head>>, layer, schema, now + 1)
               commit == NewCommit(<<head>>, layer, schema, now + 1)
           IN  /\ Kept(W, now + 1)
               /\ Adds(D, W, b, commit)
               /\ D.branches[b] = head /\ head \in D.commits
               /\ \A c \in D.commits : Replay(W)[c] = Replay(D)[c]
               /\ Replay(W)[commit] = Apply(Replay(D)[head], layer)
<1> DEFINE P == PersistSchema(D, schema)
           W == CommitChange(P, b, <<head>>, layer, schema, now + 1)
           commit == NewCommit(<<head>>, layer, schema, now + 1)
<1>a. /\ Sound(D) /\ Readable(D) /\ IsDatabase(D)
      /\ \A c \in D.commits : c.stamp \in Nat /\ c.stamp <= now
  BY ClockAssumption DEF Kept, Sound, TablesTyped, IsCommit
<1>b. DOMAIN D.checkpoints \subseteq D.commits
  BY <1>a DEF Sound, ReferencesResolve, SidecarsResolve
<1>c. <<head>> # <<>> /\ 1 \in DOMAIN <<head>> /\ <<head>>[1] = head /\ DOMAIN <<head>> = {1}
  OBVIOUS
<1>1. Sound(W)
  BY <1>a, <1>c, PublishSound DEF Extends
<1>2. /\ IsDatabase(P)
      /\ P.schemas = D.schemas \cup {schema}
      /\ P.commits = D.commits /\ P.layers = D.layers
      /\ P.branches = D.branches /\ P.tags = D.tags /\ P.sessions = D.sessions
      /\ P.data = D.data /\ P.checkpoints = D.checkpoints
  BY <1>a, PersistSchemaFields
<1>3. /\ Appends(D, W, <<head>>, layer, schema, now + 1)
      /\ b \in DOMAIN D.branches /\ D.branches[b] = head
  <2> DEFINE parents == <<head>>
  <2>1. /\ parents # <<>> /\ 1 \in DOMAIN parents /\ parents[1] = head
        /\ CanCommit(PersistSchema(D, schema), b, parents, layer, schema)
        /\ Satisfies(Apply(Replay(D)[parents[1]], layer), schema)
    BY <1>c
  <2> HIDE DEF parents
  <2>2. /\ Appends(D, CommitChange(PersistSchema(D, schema), b, parents, layer, schema, now + 1),
                   parents, layer, schema, now + 1)
        /\ b \in DOMAIN D.branches /\ D.branches[b] = parents[1]
    BY <1>a, <2>1, PublishAppends
  <2> QED
    BY <2>1, <2>2 DEF parents
<1> SUFFICES /\ Kept(W, now + 1)
             /\ Adds(D, W, b, commit)
             /\ D.branches[b] = head /\ head \in D.commits
             /\ \A c \in D.commits : Replay(W)[c] = Replay(D)[c]
             /\ Replay(W)[commit] = Apply(Replay(D)[head], layer)
  OBVIOUS
<1> HIDE DEF P
<1>4. /\ W.commits = P.commits \cup {commit}
      /\ W.layers = P.layers \cup {layer}
      /\ W.branches = Put(P.branches, b, commit)
      /\ W.schemas = P.schemas /\ W.tags = P.tags /\ W.sessions = P.sessions
      /\ W.data = P.data /\ W.checkpoints = P.checkpoints
  BY <1>2, CommitChangeFields
<1> HIDE DEF W
<1>5. /\ Readable(W)
      /\ \A c \in D.commits : Replay(W)[c] = Replay(D)[c]
      /\ Replay(W)[commit] = Apply(Replay(D)[head], layer)
  BY <1>a, <1>b, <1>c, <1>3, AppendReadable
<1>6. /\ commit.parents = <<head>> /\ commit.layer = layer
      /\ commit.schema = schema /\ commit.stamp = now + 1
  BY DEF NewCommit
<1> HIDE DEF commit
<1>7. commit \notin D.commits
  BY <1>a, <1>6
<1>8. head \in D.commits
  BY <1>3, <1>c DEF Appends
<1>9. Adds(D, W, b, commit)
  BY <1>2, <1>3, <1>4, <1>6, <1>7 DEF Adds
<1>10. IsFiniteSet(W.commits)
  <2>1. IsFiniteSet(D.commits)
    BY DEF Kept
  <2>2. W.commits = D.commits \cup {commit}
    BY <1>2, <1>4
  <2> QED
    BY <2>1, <2>2, FS_AddElement
<1>11. W.branches = [x \in DOMAIN W.branches |-> W.branches[x]]
  BY <1>4 DEF Put
<1>12. \A c \in W.commits : c.stamp <= now + 1
  BY <1>a, <1>2, <1>4, <1>6
<1>13. W.data = {} /\ W.checkpoints = [c \in {} |-> EmptyGraph]
  BY <1>2, <1>4 DEF Kept
<1> QED
  BY <1>1, <1>3, <1>5, <1>8, <1>9, <1>10, <1>11, <1>12, <1>13 DEF Kept

LEMMA WriteKept ==
    ASSUME NEW D, NEW now \in Nat, Kept(D, now), NEW W, NEW b, NEW head, NEW layer, NEW schema,
           Writes(D, W, b, head, layer, schema, now + 1)
    PROVE  /\ Kept(W, now + 1)
           /\ \E commit : Adds(D, W, b, commit)
           /\ D.branches[b] = head
<1>1. /\ b \in Branch /\ head \in D.commits /\ layer \in Layer /\ schema \in Schema
      /\ now + 1 \in Stamp
      /\ CanCommit(PersistSchema(D, schema), b, <<head>>, layer, schema)
      /\ W = CommitChange(PersistSchema(D, schema), b, <<head>>, layer, schema, now + 1)
      /\ \/ schema = head.schema /\ ValidWrite(D, head, layer)
         \/ layer = EmptyLayer /\ ValidSchemaChange(D, head, schema)
  BY DEF Writes
<1>2. /\ Resolve(D) = Replay(D) /\ Replay(D)[head] \in Graph
      /\ Satisfies(Replay(D)[head], head.schema)
  BY <1>1, ReadableFacts DEF Kept, Readable, Contents, Valid
<1>3. Satisfies(Apply(Replay(D)[head], layer), schema)
  <2>1. CASE schema = head.schema /\ ValidWrite(D, head, layer)
    BY <1>2, <2>1 DEF ValidWrite
  <2>2. CASE layer = EmptyLayer /\ ValidSchemaChange(D, head, schema)
    <3>1. Apply(Replay(D)[head], layer) = Replay(D)[head]
      BY <1>2, <2>2, EmptyLayerKeeps
    <3> QED
      BY <1>2, <2>2, <3>1 DEF ValidSchemaChange, Satisfies
  <2> QED
    BY <1>1, <2>1, <2>2
<1> QED
  BY <1>1, <1>3, CommitKept

(* What other connections do.                                              *)
LEMMA RefsKept ==
    ASSUME NEW D, NEW now, Kept(D, now), NEW E, Extends(D, E),
           E.commits = D.commits, E.data = D.data, E.checkpoints = D.checkpoints,
           E.branches = [b \in DOMAIN E.branches |-> E.branches[b]]
    PROVE  Kept(E, now)
<1>1. \A c \in DOMAIN E.checkpoints : E.checkpoints[c] = Replay(D)[c]
  BY DEF Kept
<1>2. Readable(E)
  BY <1>1, RedecorateReadable DEF Kept
<1> QED
  BY <1>2 DEF Kept, Extends

LEMMA CollectGarbageKept ==
    ASSUME NEW D, NEW now, Kept(D, now)
    PROVE  Kept(CollectGarbage(D), now)
<1> DEFINE E == CollectGarbage(D)
           live == Reachable(D, GcRoots(D))
<1>1. Sound(E) /\ Readable(E) /\ E.commits \subseteq D.commits
  BY CollectGarbageSound, CollectGarbageReadable DEF Kept
<1>2. E.branches = D.branches /\ E.data \subseteq D.data
      /\ (E.checkpoints = D.checkpoints \/ E.checkpoints = Only(D.checkpoints, live))
  <2>1. IsDatabase(D)
    BY DEF Kept, Sound, TablesTyped
  <2> HIDE DEF live
  <2> QED
    BY <2>1 DEF CollectGarbage, IsDatabase, live
<1>3. Only(D.checkpoints, live) = [c \in {} |-> EmptyGraph]
  <2>1. DOMAIN D.checkpoints = {}
    BY DEF Kept
  <2> QED
    BY <2>1 DEF Only
<1>4. IsFiniteSet(E.commits)
  BY <1>1, FS_Subset DEF Kept
<1> HIDE DEF E, live
<1>5. E.data = {} /\ E.checkpoints = [c \in {} |-> EmptyGraph]
  BY <1>2, <1>3 DEF Kept
<1>6. E.branches = [b \in DOMAIN E.branches |-> E.branches[b]]
  BY <1>2 DEF Kept
<1>7. \A c \in E.commits : c.stamp <= now
  BY <1>1 DEF Kept
<1> QED
  BY <1>1, <1>4, <1>5, <1>6, <1>7 DEF Kept, E

LEMMA ElsewhereKept ==
    ASSUME Monotonic, clock \in Nat, Kept(db, clock), ElsewhereStep
    PROVE  Kept(db', clock')
<1>a. /\ Sound(db) /\ IsDatabase(db)
      /\ \A c \in db.commits : c.schema \in Schema
  BY DEF Kept, Sound, TablesTyped, IsCommit
<1>1. ASSUME NEW b \in Branch, NEW head \in db.commits, NEW stamp \in Stamp, Ticks(stamp),
             clock' = stamp, NEW layer \in Layer, NEW schema \in Schema,
             \/ schema = head.schema /\ VS!WriteQuery(b, head, layer, stamp)
             \/ layer = EmptyLayer /\ VS!SchemaCommand(b, head, schema, stamp)
      PROVE  Kept(db', clock')
  <2>1. stamp = clock + 1
    BY <1>1 DEF Ticks
  <2>2. /\ VS!Publish(db, b, <<head>>, layer, schema, stamp)
        /\ \/ schema = head.schema /\ ValidWrite(db, head, layer)
           \/ layer = EmptyLayer /\ ValidSchemaChange(db, head, schema)
    BY <1>1, SameStore, SameLayers DEF VS!WriteQuery, VS!SchemaCommand
  <2>3. /\ CanCommit(PersistSchema(db, schema), b, <<head>>, layer, schema)
        /\ db' = CommitChange(PersistSchema(db, schema), b, <<head>>, layer, schema, stamp)
    BY <2>2, SameStore DEF VS!Publish
  <2>4. Writes(db, db', b, head, layer, schema, clock + 1)
    BY <1>1, <2>1, <2>2, <2>3 DEF Writes
  <2> QED
    BY <1>1, <2>1, <2>4, WriteKept
<1>2. CASE VS!ChangeRefs /\ UNCHANGED clock
  <2>1. ASSUME NEW b \in Branch, NEW c \in db.commits,
               db' = VS!MoveBranch(db, b, c)
        PROVE  Kept(db', clock)
    <3>1. db' = MoveBranch(db, b, c)
      BY <2>1 DEF VS!MoveBranch, MoveBranch, VS!Put, Put
    <3>2. Extends(db, db')
      BY <1>a, <3>1, MoveBranchSound
    <3>3. /\ db'.commits = db.commits /\ db'.data = db.data /\ db'.checkpoints = db.checkpoints
          /\ db'.branches = Put(db.branches, b, c)
      BY <1>a, <3>1 DEF MoveBranch, IsDatabase
    <3>4. db'.branches = [x \in DOMAIN db'.branches |-> db'.branches[x]]
      BY <3>3 DEF Put
    <3> QED
      BY <3>2, <3>3, <3>4, RefsKept
  <2>2. ASSUME NEW b \in Branch, VS!DeleteBranch(b)
        PROVE  Kept(db', clock)
    <3> DEFINE branches == Drop(db.branches, b)
    <3>1. /\ DOMAIN branches = DOMAIN db.branches \ {b}
          /\ \A x \in DOMAIN branches : branches[x] = db.branches[x]
          /\ branches = [x \in DOMAIN branches |-> branches[x]]
      BY DEF Drop
    <3>2. b # Main /\ db' = [db EXCEPT !.branches = branches]
      BY <2>2 DEF VS!DeleteBranch, VS!Drop, Drop
    <3> HIDE DEF branches
    <3>3. Extends(db, db')
      BY <1>a, <3>1, <3>2, BranchesSound DEF Sound, TablesTyped, ReferencesResolve, BranchesResolve
    <3>4. /\ db'.commits = db.commits /\ db'.data = db.data /\ db'.checkpoints = db.checkpoints
          /\ db'.branches = branches
      BY <1>a, <3>2 DEF IsDatabase
    <3> QED
      BY <3>1, <3>3, <3>4, RefsKept
  <2>3. ASSUME NEW tags, db' = [db EXCEPT !.tags = tags], DOMAIN tags \subseteq Tag,
               \A t \in DOMAIN tags : tags[t] \in db.commits
        PROVE  Kept(db', clock)
    <3>1. Extends(db, db')
      BY <1>a, <2>3, TagsSound
    <3>2. /\ db'.commits = db.commits /\ db'.data = db.data /\ db'.checkpoints = db.checkpoints
          /\ db'.branches = db.branches
      BY <1>a, <2>3 DEF IsDatabase
    <3>3. db'.branches = [x \in DOMAIN db'.branches |-> db'.branches[x]]
      BY <3>2 DEF Kept
    <3> QED
      BY <3>1, <3>2, <3>3, RefsKept
  <2>4. ASSUME NEW t \in Tag, NEW c \in db.commits, VS!CreateTag(t, c) \/ VS!MoveTag(t, c)
        PROVE  Kept(db', clock)
    <3> DEFINE tags == Put(db.tags, t, c)
    <3>1. /\ DOMAIN tags = DOMAIN db.tags \cup {t}
          /\ \A x \in DOMAIN tags : tags[x] = IF x = t THEN c ELSE db.tags[x]
      BY DEF Put
    <3>2. db' = [db EXCEPT !.tags = tags]
      BY <2>4 DEF VS!CreateTag, VS!MoveTag, VS!Put, Put
    <3> HIDE DEF tags
    <3> QED
      BY <1>a, <2>3, <3>1, <3>2 DEF Sound, TablesTyped, ReferencesResolve, TagsResolve
  <2>5. ASSUME NEW t \in Tag, VS!DeleteTag(t)
        PROVE  Kept(db', clock)
    <3> DEFINE tags == Drop(db.tags, t)
    <3>1. /\ DOMAIN tags = DOMAIN db.tags \ {t}
          /\ \A x \in DOMAIN tags : tags[x] = db.tags[x]
      BY DEF Drop
    <3>2. db' = [db EXCEPT !.tags = tags]
      BY <2>5 DEF VS!DeleteTag, VS!Drop, Drop
    <3> HIDE DEF tags
    <3> QED
      BY <1>a, <2>3, <3>1, <3>2 DEF Sound, TablesTyped, ReferencesResolve, TagsResolve
  <2> QED
    BY <1>2, <2>1, <2>2, <2>4, <2>5 DEF VS!ChangeRefs, VS!CreateBranch, VS!ResetBranch
<1>3. CASE VS!Gc /\ UNCHANGED clock
  <2>1. db' = CollectGarbage(db)
    BY <1>3, SameCollectGarbage DEF VS!Gc
  <2> QED
    BY <1>3, <2>1, CollectGarbageKept
<1> QED
  <2>1. ASSUME NEW b \in Branch, NEW head \in db.commits, NEW stamp \in Stamp, Ticks(stamp),
               clock' = stamp,
               \/ \E layer \in Layer : VS!WriteQuery(b, head, layer, stamp)
               \/ \E schema \in Schema : VS!SchemaCommand(b, head, schema, stamp)
        PROVE  Kept(db', clock')
    <3>1. head.schema \in Schema /\ EmptyLayer \in Layer
      BY <1>a, EmptyLayerKeeps
    <3> QED
      BY <1>1, <2>1, <3>1
  <2>2. VS!Layer = Layer /\ VS!Schema = Schema
    BY SameLayers, SameStore
  <2> QED
    BY <1>2, <1>3, <2>1, <2>2 DEF ElsewhereStep

-----------------------------------------------------------------------------
(* What an explicit transaction has staged.                                *)

(* W is D with a chain of commits on the head base of the branch b.        *)
Staged(D, W, b, base) ==
    LET chain == W.commits \ D.commits
    IN  /\ b \in DOMAIN D.branches /\ D.branches[b] = base
        /\ D.commits \subseteq W.commits
        /\ W.layers = D.layers \cup {c.layer : c \in chain}
        /\ W.schemas = D.schemas \cup {c.schema : c \in chain}
        /\ DOMAIN W.branches = DOMAIN D.branches
        /\ \A x \in DOMAIN D.branches \ {b} : W.branches[x] = D.branches[x]
        /\ W.tags = D.tags /\ W.sessions = D.sessions
        /\ W.data = D.data /\ W.checkpoints = D.checkpoints
        /\ Lineage(W)[W.branches[b]] = chain \cup Lineage(D)[base]

LEMMA KeptFacts ==
    ASSUME NEW D, NEW now, Kept(D, now)
    PROVE  /\ Chained(D) /\ Grounded(D) /\ IsDatabase(D)
           /\ \A b \in DOMAIN D.branches : D.branches[b] \in D.commits
           /\ \A c \in D.commits : Parents(c) \subseteq D.commits
           /\ D.layers = {c.layer : c \in D.commits}
           /\ D.schemas = {c.schema : c \in D.commits}
<1>1. Chained(D) /\ Grounded(D) /\ IsDatabase(D)
  BY DEF Kept, Readable, Sound, TablesTyped
<1>2. /\ \A b \in DOMAIN D.branches : D.branches[b] \in D.commits
      /\ \A c \in D.commits : Parents(c) \subseteq D.commits /\ c.layer \in D.layers /\ c.schema \in D.schemas
  BY DEF Kept, Sound, ReferencesResolve, BranchesResolve, HistoryComplete
<1>3. /\ \A l \in D.layers : \E c \in D.commits : c.layer = l
      /\ \A s \in D.schemas : \E c \in D.commits : c.schema = s
  BY DEF Kept, Sound, NoOrphanRows
<1> QED
  BY <1>1, <1>2, <1>3

LEMMA StagedBegins ==
    ASSUME NEW D, NEW now, Kept(D, now), NEW b \in DOMAIN D.branches
    PROVE  Staged(D, D, b, D.branches[b])
  BY DEF Staged

LEMMA StagedGrows ==
    ASSUME NEW D, NEW n1, Kept(D, n1), NEW W, NEW n2, Kept(W, n2), NEW X, NEW n3, Kept(X, n3),
           NEW b, NEW base, Staged(D, W, b, base), NEW commit, Adds(W, X, b, commit)
    PROVE  Staged(D, X, b, base)
<1> DEFINE chain == W.commits \ D.commits
           more == X.commits \ D.commits
           head == W.branches[b]
<1>1. /\ b \in DOMAIN D.branches /\ D.branches[b] = base
      /\ D.commits \subseteq W.commits
      /\ W.layers = D.layers \cup {c.layer : c \in chain}
      /\ W.schemas = D.schemas \cup {c.schema : c \in chain}
      /\ DOMAIN W.branches = DOMAIN D.branches
      /\ \A x \in DOMAIN D.branches \ {b} : W.branches[x] = D.branches[x]
      /\ W.tags = D.tags /\ W.sessions = D.sessions
      /\ W.data = D.data /\ W.checkpoints = D.checkpoints
      /\ Lineage(W)[head] = chain \cup Lineage(D)[base]
  BY DEF Staged
<1>2. /\ commit.parents = <<head>> /\ commit \notin W.commits
      /\ X.commits = W.commits \cup {commit}
      /\ X.layers = W.layers \cup {commit.layer}
      /\ X.schemas = W.schemas \cup {commit.schema}
      /\ X.tags = W.tags /\ X.sessions = W.sessions
      /\ X.data = W.data /\ X.checkpoints = W.checkpoints
  BY DEF Adds
<1>3. /\ DOMAIN X.branches = DOMAIN W.branches
      /\ \A x \in DOMAIN W.branches : X.branches[x] = IF x = b THEN commit ELSE W.branches[x]
  BY DEF Adds, Put
<1>4. more = chain \cup {commit}
  BY <1>1, <1>2
<1>5. Chained(W) /\ Grounded(W) /\ Chained(X) /\ Grounded(X) /\ head \in W.commits
  BY <1>1, KeptFacts
<1>6. Lineage(X)[commit] = more \cup Lineage(D)[base]
  <2>1. Lineage(X)[head] = Lineage(W)[head]
    BY <1>2, <1>5, LineageKept
  <2>2. Lineage(X)[commit] = {commit} \cup Lineage(X)[head]
    <3>1. commit.parents # <<>> /\ commit.parents[1] = head /\ commit \in X.commits
      BY <1>2
    <3> QED
      BY <1>5, <3>1, LineageSteps
  <2> QED
    BY <1>1, <1>4, <2>1, <2>2
<1> HIDE DEF chain, more
<1>7. /\ X.layers = D.layers \cup {c.layer : c \in more}
      /\ X.schemas = D.schemas \cup {c.schema : c \in more}
  BY <1>1, <1>2, <1>4
<1>8. D.commits \subseteq X.commits
  BY <1>1, <1>2
<1> QED
  BY <1>1, <1>2, <1>3, <1>6, <1>7, <1>8 DEF Staged, more

(* finalize_explicit_transaction deletes the staged chain and nothing      *)
(* else, although commits, Layers and Schemas are shared by their hash.    *)
LEMMA StagedUndone ==
    ASSUME NEW D, NEW n1, Kept(D, n1), NEW W, NEW n2, Kept(W, n2), NEW t,
           Staged(D, W, t.branch, t.base)
    PROVE  /\ Unstaged(W, t) = PersistSchema(D, W.branches[t.branch].schema)
           /\ t.base \in Lineage(W)[W.branches[t.branch]]
<1> DEFINE b == t.branch
           base == t.base
           head == W.branches[b]
           chain == W.commits \ D.commits
           M == MoveBranch(W, b, base)
           E == DiscardChain(M, StagedChain(W, base, head))
<1>1. /\ b \in DOMAIN D.branches /\ D.branches[b] = base
      /\ D.commits \subseteq W.commits
      /\ W.layers = D.layers \cup {c.layer : c \in chain}
      /\ W.schemas = D.schemas \cup {c.schema : c \in chain}
      /\ DOMAIN W.branches = DOMAIN D.branches
      /\ \A x \in DOMAIN D.branches \ {b} : W.branches[x] = D.branches[x]
      /\ W.tags = D.tags /\ W.sessions = D.sessions
      /\ W.data = D.data /\ W.checkpoints = D.checkpoints
      /\ Lineage(W)[head] = chain \cup Lineage(D)[base]
  BY DEF Staged
<1>2. /\ Chained(W) /\ Grounded(W) /\ Chained(D) /\ Grounded(D)
      /\ IsDatabase(D) /\ IsDatabase(W) /\ base \in D.commits
      /\ D.layers = {c.layer : c \in D.commits}
      /\ D.schemas = {c.schema : c \in D.commits}
  BY <1>1, KeptFacts
<1>3. Lineage(W)[base] = Lineage(D)[base] /\ Lineage(D)[base] \subseteq D.commits /\ base \in Lineage(D)[base]
  BY <1>1, <1>2, LineageKept, LineageSteps
<1>4. StagedChain(W, base, head) = chain
  BY <1>1, <1>3 DEF StagedChain
<1>5. /\ IsDatabase(M) /\ M.branches = Put(W.branches, b, base)
      /\ M.commits = W.commits /\ M.layers = W.layers /\ M.schemas = W.schemas
      /\ M.tags = W.tags /\ M.sessions = W.sessions /\ M.data = W.data
      /\ M.checkpoints = W.checkpoints
  BY <1>2 DEF MoveBranch, IsDatabase
<1>6. M.branches = D.branches
  <2>1. M.branches = [x \in DOMAIN D.branches |-> D.branches[x]]
    BY <1>1, <1>5 DEF Put
  <2> QED
    BY <2>1 DEF Kept
<1> HIDE DEF M
<1>7. E = [M EXCEPT !.commits = M.commits \ chain,
                    !.layers = M.layers \ ({c.layer : c \in chain} \ {c.layer : c \in M.commits \ chain}),
                    !.schemas = M.schemas \ ({c.schema : c \in chain} \ {c.schema : c \in M.commits \ chain}),
                    !.data = M.data \ chain,
                    !.checkpoints = Only(M.checkpoints, M.commits \ chain)]
  BY <1>4, <1>5 DEF DiscardChain, IsDatabase
<1> DEFINE unusedLayers == {c.layer : c \in chain} \ {c.layer : c \in M.commits \ chain}
           unusedSchemas == {c.schema : c \in chain} \ {c.schema : c \in M.commits \ chain}
<1>8. M.commits \ chain = D.commits
  BY <1>1, <1>5
<1>9. M.layers \ unusedLayers = D.layers
  <2> DEFINE C == {c.layer : c \in chain}
  <2>1. M.layers = D.layers \cup C /\ unusedLayers = C \ D.layers
    BY <1>1, <1>2, <1>5, <1>8
  <2> HIDE DEF C, unusedLayers
  <2> QED
    BY <2>1
<1>10. M.schemas \ unusedSchemas = D.schemas
  <2> DEFINE C == {c.schema : c \in chain}
  <2>1. M.schemas = D.schemas \cup C /\ unusedSchemas = C \ D.schemas
    BY <1>1, <1>2, <1>5, <1>8
  <2> HIDE DEF C, unusedSchemas
  <2> QED
    BY <2>1
<1>11. M.data \ chain = D.data
  BY <1>1, <1>5 DEF Kept
<1>12. Only(M.checkpoints, M.commits \ chain) = D.checkpoints
  <2>1. DOMAIN M.checkpoints = {} /\ D.checkpoints = [c \in {} |-> EmptyGraph]
    BY <1>1, <1>5 DEF Kept
  <2> QED
    BY <2>1 DEF Only
<1>13. E = D
  <2>1. E = [M EXCEPT !.commits = D.commits, !.layers = D.layers, !.schemas = D.schemas,
                      !.data = D.data, !.checkpoints = D.checkpoints]
    BY <1>7, <1>8, <1>9, <1>10, <1>11, <1>12
  <2> HIDE DEF E
  <2> DEFINE c == D.commits  l == D.layers  s == D.schemas  d == D.data  k == D.checkpoints
  <2>2. E = [M EXCEPT !.commits = c, !.layers = l, !.schemas = s, !.data = d, !.checkpoints = k]
    BY <2>1
  <2> HIDE DEF c, l, s, d, k
  <2>3. IsDatabase(E)
    BY <1>5, <2>2, SweepTyped
  <2>4. /\ E.commits = c /\ E.layers = l /\ E.schemas = s /\ E.data = d /\ E.checkpoints = k
        /\ E.branches = M.branches /\ E.tags = M.tags /\ E.sessions = M.sessions
    BY <1>5, <2>2 DEF IsDatabase
  <2>5. /\ E.commits = D.commits /\ E.layers = D.layers /\ E.schemas = D.schemas
        /\ E.data = D.data /\ E.checkpoints = D.checkpoints
        /\ E.branches = D.branches /\ E.tags = D.tags /\ E.sessions = D.sessions
    BY <1>1, <1>5, <1>6, <2>4 DEF c, l, s, d, k
  <2> QED
    BY <1>2, <2>3, <2>5 DEF IsDatabase
<1> HIDE DEF E
<1>14. Unstaged(W, t) = PersistSchema(E, head.schema)
  BY DEF Unstaged, E, M
<1> QED
  BY <1>1, <1>3, <1>13, <1>14

(* What it puts in place of the chain: the net Layer leads from the base   *)
(* to the staged Snapshot, and passes the validation of a commit on the    *)
(* base.                                                                   *)
LEMMA StagedPublishes ==
    ASSUME NEW D, NEW n1, Kept(D, n1), NEW W, NEW n2, Kept(W, n2), NEW t,
           Staged(D, W, t.branch, t.base)
    PROVE  LET head == W.branches[t.branch]
               g    == Replay(D)[t.base]
               h    == Replay(W)[head]
           IN  /\ t.base \in D.commits /\ head \in W.commits
               /\ head.schema \in Schema /\ h \in Graph
               /\ WellFormed(h) /\ Satisfies(h, head.schema)
               /\ NetSchema(W, t) = head.schema
               /\ NetLayer(W, t) = LayerBetween(g, h)
               /\ NetLayer(W, t) \in Layer
               /\ Apply(g, NetLayer(W, t)) = h
               /\ CanCommit(PersistSchema(D, head.schema), t.branch, <<t.base>>,
                            NetLayer(W, t), NetSchema(W, t))
<1> DEFINE b == t.branch
           base == t.base
           head == W.branches[b]
           g == Replay(D)[base]
           h == Replay(W)[head]
           l == NetLayer(W, t)
<1>1. /\ b \in DOMAIN D.branches /\ D.branches[b] = base
      /\ D.commits \subseteq W.commits
      /\ DOMAIN W.branches = DOMAIN D.branches
  BY DEF Staged
<1>2. base \in D.commits /\ head \in W.commits
  BY <1>1, KeptFacts
<1>3. Readable(D) /\ Readable(W)
  BY DEF Kept
<1>4. /\ Resolve(D) = Replay(D) /\ Resolve(W) = Replay(W)
      /\ g \in Graph /\ h \in Graph
  BY <1>2, <1>3, ReadableFacts
<1>5. Replay(W)[base] = g
  <2>1. \A c \in D.commits : Parents(c) \subseteq D.commits
    BY KeptFacts
  <2>2. D.checkpoints = [c \in {} |-> EmptyGraph]
    BY DEF Kept
  <2>3. DOMAIN D.checkpoints = {}
    BY <2>2
  <2> QED
    BY <1>1, <1>2, <1>3, <2>1, <2>3, RestrictReadable
<1>6. base \in Lineage(W)[head]
  BY StagedUndone
<1>7. l = LayerBetween(g, h)
  BY <1>2, <1>3, <1>4, <1>5, <1>6, <1>1, NetLayerIsDifference DEF NetLayer
<1>8. l \in Layer /\ Apply(g, l) = h
  BY <1>4, <1>7, LayerBetweenExact
<1>9. WellFormed(h) /\ Satisfies(h, head.schema)
  BY <1>2, <1>3 DEF Readable, Contents, Valid
<1>10. head.schema \in Schema
  BY <1>2 DEF Kept, Sound, TablesTyped, IsCommit
<1>11. ValidLayer(g, l)
  BY <1>4, <1>8, <1>9, ValidationComplete
<1>12. CanCommit(PersistSchema(D, head.schema), b, <<base>>, l, head.schema)
  <2> DEFINE P == PersistSchema(D, head.schema)
  <2>1. IsDatabase(D)
    BY KeptFacts
  <2>2. /\ P.commits = D.commits /\ P.branches = D.branches /\ P.checkpoints = D.checkpoints
        /\ P.schemas = D.schemas \cup {head.schema}
    BY <2>1, PersistSchemaFields
  <2> HIDE DEF P
  <2>3. Resolve(P) = Resolve(D)
    BY <2>2, SameReading
  <2>4. <<base>>[1] = base /\ DOMAIN <<base>> = {1}
    OBVIOUS
  <2>5. Resolve(P)[base] = g
    BY <1>4, <2>3
  <2> HIDE DEF g, l, head
  <2>6. CanCommit(P, b, <<base>>, l, head.schema)
    BY <1>1, <1>2, <1>11, <2>2, <2>4, <2>5 DEF CanCommit
  <2> QED
    BY <2>6 DEF P
<1>13. NetSchema(W, t) = head.schema
  BY DEF NetSchema
<1> QED
  BY <1>2, <1>4, <1>7, <1>8, <1>9, <1>10, <1>12, <1>13

-----------------------------------------------------------------------------
(* What the connection has stored.                                         *)

Active(k) == cursors[k].phase = "active"

(* Every database that a step can restore or publish is sound, readable    *)
(* and older than the next commit.                                         *)
Recorded ==
    /\ clock \in Nat
    /\ Kept(db, clock) /\ Kept(work, clock)
    /\ \A k \in Cursor : Active(k) => Kept(cursors[k].saved, clock)

(* A write that waits in an explicit transaction is on its branch.         *)
PinsOfTx ==
    tx.active => \A k \in Cursor : cursors[k].phase = "pending" => cursors[k].branch = tx.branch

(* The explicit transaction has staged a chain on its base, and a commit   *)
(* in it when it wrote.                                                    *)
ChainStaged ==
    tx.active /\ ~ quarantined =>
        /\ Staged(db, work, tx.branch, tx.base)
        /\ tx.mutated \/ (\E k \in Cursor : Active(k)) =>
              work.commits # db.commits /\ Cardinality(work.commits) <= MaxCommits

(* What a write outside an explicit transaction is about to commit is the  *)
(* durable database with its own commit.                                   *)
WriteReady ==
    \A k \in Cursor : Active(k) /\ ~ cursors[k].nested /\ open =>
        /\ Cardinality(work.commits) <= MaxCommits
        /\ \E b, head, layer, schema : Writes(db, work, b, head, layer, schema, clock)

Stored == Recorded /\ PinsOfTx /\ ChainStaged /\ WriteReady

LEMMA KeptLater ==
    ASSUME NEW D, NEW now \in Nat, Kept(D, now), NEW later \in Nat, now <= later
    PROVE  Kept(D, later)
<1>1. \A c \in D.commits : c.stamp \in Nat /\ c.stamp <= now
  BY ClockAssumption DEF Kept, Sound, TablesTyped, IsCommit
<1>2. \A c \in D.commits : c.stamp <= later
  BY <1>1
<1> QED
  BY <1>2 DEF Kept

LEMMA InitKept == ASSUME NEW now \in Nat, RootStamp <= now PROVE Kept(InitialDB, now)
<1>1. Sound(InitialDB)
  BY InitialSound
<1>2. Readable(InitialDB)
  BY InitialReadable
<1>3. /\ InitialDB.data = {} /\ InitialDB.checkpoints = [c \in {} |-> EmptyGraph]
      /\ InitialDB.branches = [b \in {Main} |-> Root]
      /\ InitialDB.commits = {Root} /\ Root.stamp = RootStamp
  BY DEF InitialDB, Root, NewCommit
<1>4. IsFiniteSet(InitialDB.commits)
  BY <1>3, FS_Singleton
<1>5. InitialDB.branches = [b \in DOMAIN InitialDB.branches |-> InitialDB.branches[b]]
  BY <1>3
<1> QED
  BY <1>1, <1>2, <1>3, <1>4, <1>5 DEF Kept

LEMMA InitStored == Init => Stored
<1> SUFFICES ASSUME Init PROVE Stored
  OBVIOUS
<1>1. /\ work = db /\ open = FALSE /\ tx.active = FALSE /\ db = InitialDB /\ clock = RootStamp
      /\ \A k \in Cursor : cursors[k].phase = "closed"
  BY DEF Init, NoTx, Closed
<1>2. clock \in Nat /\ RootStamp <= clock
  BY <1>1, NamesAssumption, ClockAssumption
<1>3. Kept(db, clock)
  BY <1>1, <1>2, InitKept
<1> QED
  BY <1>1, <1>2, <1>3 DEF Stored, Recorded, PinsOfTx, ChainStaged, WriteReady, Active

(* A write extends what its explicit transaction has staged or, outside    *)
(* one, prepares what its completion makes durable.                        *)
LEMMA StartWriteStored ==
    ASSUME Monotonic, Coherent, Coherent', Stored,
           NEW k \in Cursor, NEW layer \in Layer, NEW schema \in Schema, NEW stamp \in Stamp,
           StartWrite(k, layer, schema, stamp)
    PROVE  Stored'
<1> DEFINE b == cursors[k].branch
           pin == cursors[k].pin
<1>1. /\ ~ quarantined /\ cursors[k].phase = "pending" /\ stamp = clock + 1
      /\ clock' = stamp /\ open' = TRUE /\ Cardinality(work'.commits) <= MaxCommits
      /\ db' = db /\ tx' = tx /\ quarantined' = quarantined
  BY DEF StartWrite, Ticks
<1>2. clock \in Nat /\ stamp \in Nat
  BY ClockAssumption DEF Stored, Recorded
<1>3. Kept(db, clock) /\ Kept(work, clock)
  BY DEF Stored, Recorded
<1>4. CanCommit(PersistSchema(work, schema), b, <<pin>>, layer, schema)
  BY DEF StartWrite
<1>5. b \in Branch
  <2>1. IsDatabase(work) /\ DOMAIN work.branches \subseteq Branch
    BY <1>3 DEF Kept, Sound, TablesTyped
  <2>2. PersistSchema(work, schema).branches = work.branches
    BY <2>1, PersistSchemaFields
  <2> QED
    BY <1>4, <2>1, <2>2 DEF CanCommit
<1>6. Writes(work, work', b, pin, layer, schema, clock + 1)
  BY <1>1, <1>4, <1>5 DEF StartWrite, Writes
<1>7. /\ Kept(work', clock') /\ work.branches[b] = pin
      /\ \E commit : Adds(work, work', b, commit)
  BY <1>1, <1>2, <1>3, <1>6, WriteKept
<1>8. Kept(db', clock') /\ Kept(work, clock')
  BY <1>1, <1>2, <1>3, KeptLater
<1>9. \A j \in Cursor : cursors'[j] = IF j = k THEN
            [phase |-> "active", explicit |-> cursors[k].explicit, id |-> cursors[k].id,
             saved |-> work, nested |-> open] ELSE cursors[j]
  BY DEF StartWrite, Coherent, StateTyped
<1>10. \A j \in Cursor : Active(j)' => j = k
  BY <1>1, <1>9 DEF Active, Coherent, OneWriter, Writing
<1>11. Recorded'
  BY <1>1, <1>2, <1>7, <1>8, <1>9, <1>10 DEF Recorded, Active
<1>12. PinsOfTx'
  BY <1>1, <1>9 DEF PinsOfTx, Stored
<1>13. ChainStaged'
  <2> SUFFICES ASSUME tx.active
               PROVE  /\ Staged(db, work', tx.branch, tx.base)
                      /\ work'.commits # db.commits
    BY <1>1 DEF ChainStaged
  <2>1. b = tx.branch /\ Staged(db, work, b, tx.base)
    BY <1>1 DEF Stored, PinsOfTx, ChainStaged
  <2>2. PICK commit : Adds(work, work', b, commit)
    BY <1>7
  <2>3. Staged(db, work', tx.branch, tx.base)
    BY <1>3, <1>7, <2>1, <2>2, StagedGrows
  <2>4. commit \in work'.commits /\ commit \notin db.commits
    BY <2>1, <2>2 DEF Staged, Adds
  <2> QED
    BY <2>3, <2>4
<1>14. WriteReady'
  <2> SUFFICES ASSUME ~ open
               PROVE  \E x, h, l, s : Writes(db, work', x, h, l, s, clock + 1)
    BY <1>1, <1>9, <1>10 DEF WriteReady
  <2>1. work = db
    BY DEF Coherent, TxHoldsTransaction
  <2> QED
    BY <1>6, <2>1
<1> QED
  BY <1>11, <1>12, <1>13, <1>14 DEF Stored

(* A commit of the explicit transaction: the durable database with one     *)
(* commit on the base, whose Snapshot is that of the staged head.          *)
LEMMA TxCommitFacts ==
    ASSUME Monotonic, Coherent, Stored, NEW stamp \in Stamp, TxCommit(stamp)
    PROVE  LET head == work.branches[tx.branch]
               h == Replay(work)[head]
               layer == LayerBetween(Replay(db)[tx.base], h)
               commit == NewCommit(<<tx.base>>, layer, head.schema, stamp)
           IN  /\ Kept(db', stamp) /\ stamp = clock + 1
               /\ tx.branch \in Branch /\ tx.base \in db.commits
               /\ db.branches[tx.branch] = tx.base
               /\ head \in work.commits /\ head.schema \in Schema
               /\ h \in Graph /\ WellFormed(h) /\ Satisfies(h, head.schema)
               /\ layer \in Layer
               /\ CanCommit(PersistSchema(db, head.schema), tx.branch, <<tx.base>>, layer, head.schema)
               /\ db' = CommitChange(PersistSchema(db, head.schema), tx.branch, <<tx.base>>,
                                     layer, head.schema, stamp)
               /\ Adds(db, db', tx.branch, commit)
               /\ Replay(db')[commit] = h
               /\ Cardinality(db'.commits) <= MaxCommits
<1> DEFINE b == tx.branch
           base == tx.base
           head == work.branches[b]
           h == Replay(work)[head]
           layer == LayerBetween(Replay(db)[base], h)
           commit == NewCommit(<<base>>, layer, head.schema, stamp)
<1>1. /\ tx.active /\ ~ quarantined /\ tx.mutated /\ stamp = clock + 1
  BY DEF TxCommit, CanEnd, Ticks
<1>2. /\ clock \in Nat /\ Kept(db, clock) /\ Kept(work, clock)
      /\ Staged(db, work, b, base)
      /\ work.commits # db.commits /\ Cardinality(work.commits) <= MaxCommits
  BY <1>1 DEF Stored, Recorded, ChainStaged
<1>3. Unstaged(work, tx) = PersistSchema(db, head.schema)
  BY <1>2, StagedUndone
<1>4. /\ base \in db.commits /\ head \in work.commits
      /\ head.schema \in Schema /\ h \in Graph
      /\ WellFormed(h) /\ Satisfies(h, head.schema)
      /\ NetSchema(work, tx) = head.schema
      /\ NetLayer(work, tx) = layer /\ layer \in Layer
      /\ Apply(Replay(db)[base], layer) = h
      /\ CanCommit(PersistSchema(db, head.schema), b, <<base>>, layer, head.schema)
  BY <1>2, StagedPublishes
<1>5. db' = CommitChange(PersistSchema(db, head.schema), b, <<base>>, layer, head.schema, stamp)
  BY <1>3, <1>4 DEF TxCommit
<1>6. b \in Branch /\ db.branches[b] = base
  BY <1>2 DEF Staged, Kept, Sound, TablesTyped
<1> HIDE DEF b, base, head, h, layer
<1>7. /\ Kept(db', stamp)
      /\ Adds(db, db', b, commit)
      /\ Replay(db')[commit] = Apply(Replay(db)[base], layer)
  BY <1>1, <1>2, <1>4, <1>5, <1>6, CommitKept
<1>8. Cardinality(db'.commits) <= MaxCommits
  <2> HIDE DEF commit
  <2>1. db'.commits = db.commits \cup {commit} /\ commit \notin db.commits
    BY <1>7 DEF Adds
  <2>2. IsFiniteSet(db.commits) /\ IsFiniteSet(work.commits)
    BY <1>2 DEF Kept
  <2>3. Cardinality(db'.commits) = Cardinality(db.commits) + 1
    BY <2>1, <2>2, FS_AddElement
  <2>4. db.commits \subseteq work.commits
    BY <1>2 DEF Staged
  <2>5. Cardinality(db.commits) <= Cardinality(work.commits)
        /\ Cardinality(db.commits) # Cardinality(work.commits)
    BY <1>2, <2>2, <2>4, FS_Subset
  <2>6. Cardinality(db.commits) \in Nat /\ Cardinality(work.commits) \in Nat
    BY <2>2, FS_CardinalityType
  <2> QED
    BY <1>2, <2>3, <2>5, <2>6, BoundsAssumption
<1> QED
  BY <1>1, <1>2, <1>4, <1>5, <1>6, <1>7, <1>8 DEF b, base, head, h, layer

(* A step that closes cursors, ends the explicit transaction or gives up   *)
(* the connection, and goes back to a database it knew.                    *)
LEMMA UndoStored ==
    ASSUME Coherent, Coherent', Stored, UNCHANGED <<db, clock>>,
           \A j \in Cursor : cursors'[j] = cursors[j] \/ cursors'[j] = Closed,
           work' \in {db, work} \cup {cursors[j].saved : j \in {i \in Cursor : Active(i)}},
           ~ tx'.active \/ quarantined',
           tx' = tx \/ tx' = NoTx,
           \A j \in Cursor : Active(j)' /\ open' => open /\ work' = work
    PROVE  Stored'
<1>1. \A j \in Cursor : cursors'[j].phase # "closed" => cursors'[j] = cursors[j]
  BY DEF Closed
<1>2. Kept(work', clock)
  BY DEF Stored, Recorded
<1>3. Recorded'
  BY <1>1, <1>2 DEF Stored, Recorded, Active
<1>4. PinsOfTx'
  BY <1>1 DEF Stored, PinsOfTx, NoTx
<1>5. ChainStaged'
  BY DEF ChainStaged
<1>6. WriteReady'
  BY <1>1 DEF Stored, WriteReady, Active
<1> QED
  BY <1>3, <1>4, <1>5, <1>6 DEF Stored

(* A step that leaves the databases alone.                                 *)
LEMMA SameStored ==
    ASSUME Stored, UNCHANGED <<db, work, open, quarantined, clock>>,
           \A j \in Cursor : Active(j)' => Active(j) /\ cursors'[j] = cursors[j],
           tx'.active => /\ tx.active /\ tx'.branch = tx.branch /\ tx'.base = tx.base
                         /\ tx'.mutated => tx.mutated \/ \E j \in Cursor : Active(j),
           tx'.active => \A j \in Cursor : cursors'[j].phase = "pending" =>
               cursors'[j] = cursors[j] \/ cursors'[j].branch = tx.branch
    PROVE  Stored'
<1>1. Recorded'
  BY DEF Stored, Recorded
<1>2. PinsOfTx'
  BY DEF Stored, PinsOfTx
<1>3. ChainStaged'
  BY DEF Stored, ChainStaged
<1>4. WriteReady'
  BY DEF Stored, WriteReady
<1> QED
  BY <1>1, <1>2, <1>3, <1>4 DEF Stored

LEMMA RollbackStored ==
    ASSUME Coherent, Coherent', Stored, UNCHANGED <<db, clock>>, NEW left, RollbackTx(left), tx.active,
           left \in {work} \cup {cursors[j].saved : j \in {i \in Cursor : Active(i)}},
           \A j \in Cursor : cursors'[j] = cursors[j] \/ cursors'[j] = Closed,
           left = work \/ \A j \in Cursor : ~ Active(j)'
    PROVE  Stored'
<1>1. CASE tx' = NoTx /\ work' = db /\ open' = FALSE
  BY <1>1, UndoStored DEF NoTx
<1>2. CASE open /\ quarantined' = TRUE /\ open' = open /\ tx' \in {NoTx, tx} /\ work' = left
  BY <1>2, UndoStored
<1> QED
  BY <1>1, <1>2 DEF RollbackTx

LEMMA NextStored ==
    ASSUME Monotonic, Coherent, Coherent', Stored, [Next]_vars
    PROVE  Stored'
<1>a. \A k \in Cursor : /\ IsOpen(k) /\ tx.active => cursors[k].explicit
                        /\ Active(k) => IsOpen(k)
  BY DEF Coherent, CursorsOfLatest, IsOpen, Active
<1>b. \A k \in Cursor : \A v : cursors' = [cursors EXCEPT ![k] = v] =>
          cursors'[k] = v /\ \A j \in Cursor \ {k} : cursors'[j] = cursors[j]
  BY DEF Coherent, StateTyped
<1>c. Closed.phase = "closed" /\ NoTx.active = FALSE
  BY DEF Closed, NoTx
<1>d. \A j, k \in Cursor : Active(j) /\ Active(k) => j = k
  BY DEF Coherent, OneWriter, Writing, Active
<1>e. clock \in Nat /\ Kept(db, clock) /\ Kept(work, clock)
  BY DEF Stored, Recorded
<1>1. ASSUME NEW b \in Branch, TxBegin(b)
      PROVE  Stored'
  <2>1. /\ ~ open /\ b \in DOMAIN db.branches /\ tx'.active /\ tx'.branch = b
        /\ tx'.base = db.branches[b] /\ tx'.mutated = FALSE
        /\ UNCHANGED <<db, work, cursors, quarantined, clock>>
        /\ \A k \in Cursor : ~ cursors[k].phase \in {"pending", "active"}
    BY <1>1 DEF TxBegin, CanBegin, SideEffectActive
  <2>2. work = db
    BY <2>1 DEF Coherent, TxHoldsTransaction
  <2>3. Staged(db, work, b, db.branches[b])
    BY <1>e, <2>1, <2>2, StagedBegins
  <2> QED
    BY <2>1, <2>3 DEF Stored, Recorded, PinsOfTx, ChainStaged, WriteReady, Active
<1>2. CASE TxBeginFails
  <2>1. \A k \in Cursor : ~ Active(k)
    BY <1>2 DEF TxBeginFails, CanBegin, SideEffectActive, Active
  <2> QED
    BY <1>2, <2>1, UndoStored DEF TxBeginFails, CanBegin, Active
<1>3. CASE RefuseNested
  BY <1>3, SameStored DEF RefuseNested, Active, Stored, PinsOfTx
<1>4. CASE FailToPrepare
  BY <1>4, RollbackStored DEF FailToPrepare
<1>5. ASSUME NEW stamp \in Stamp, TxCommit(stamp)
      PROVE  Stored'
  <2>1. Kept(db', stamp) /\ work' = db' /\ clock' = stamp /\ stamp = clock + 1 /\ tx' = NoTx
        /\ cursors' = cursors /\ \A k \in Cursor : ~ Active(k)
    BY <1>5, TxCommitFacts DEF TxCommit, CanEnd, SideEffectActive, Active
  <2> QED
    BY <1>c, <1>e, <2>1 DEF Stored, Recorded, PinsOfTx, ChainStaged, WriteReady, Active
<1>6. CASE TxCommitRead
  <2>1. db' = work /\ work' = work /\ clock' = clock /\ tx' = NoTx
        /\ cursors' = cursors /\ \A k \in Cursor : ~ Active(k)
    BY <1>6 DEF TxCommitRead, CanEnd, SideEffectActive, Active
  <2> QED
    BY <1>c, <1>e, <2>1 DEF Stored, Recorded, PinsOfTx, ChainStaged, WriteReady, Active
<1>7. CASE TxAbort
  BY <1>7, RollbackStored DEF TxAbort, CanEnd
<1>8. ASSUME NEW k \in Cursor, NEW b \in Branch, NEW isWrite \in BOOLEAN, Open(k, b, isWrite)
      PROVE  Stored'
  <2> DEFINE v == [phase |-> IF isWrite THEN "pending" ELSE "reading", branch |-> b,
                   pin |-> work.branches[b], explicit |-> tx.active, id |-> begun]
  <2>1. v.phase # "active" /\ v.branch = b
    OBVIOUS
  <2>2. cursors' = [cursors EXCEPT ![k] = v]
    BY <1>8 DEF Open
  <2>3. UNCHANGED <<db, work, open, tx, quarantined, clock>> /\ (tx.active => b = tx.branch)
    BY <1>8 DEF Open
  <2> HIDE DEF v
  <2>4. cursors'[k] = v /\ \A j \in Cursor \ {k} : cursors'[j] = cursors[j]
    BY <1>b, <2>2
  <2> QED
    BY <2>1, <2>3, <2>4, SameStored DEF Active
<1>9. ASSUME NEW k \in Cursor, NEW layer \in Layer, NEW schema \in Schema, NEW stamp \in Stamp,
             StartWrite(k, layer, schema, stamp)
      PROVE  Stored'
  BY <1>9, StartWriteStored
<1>10. ASSUME NEW k \in Cursor, CompleteRead(k)
      PROVE  Stored'
  BY <1>10, <1>b, <1>c, SameStored DEF CompleteRead, Active
<1>11. ASSUME NEW k \in Cursor, CompleteStaged(k)
      PROVE  Stored'
  <2>1. tx'.active = tx.active /\ tx'.branch = tx.branch /\ tx'.base = tx.base
    BY <1>11 DEF CompleteStaged, Coherent, StateTyped
  <2>2. Active(k) /\ UNCHANGED <<db, work, open, quarantined, clock>>
        /\ cursors' = [cursors EXCEPT ![k] = Closed]
    BY <1>11 DEF CompleteStaged, Active
  <2>3. cursors'[k] = Closed /\ \A j \in Cursor \ {k} : cursors'[j] = cursors[j]
    BY <1>b, <2>2
  <2> QED
    BY <1>11, <1>c, <2>1, <2>2, <2>3, SameStored DEF CompleteStaged, Active
<1>12. ASSUME NEW k \in Cursor, CompleteDurable(k)
      PROVE  Stored'
  <2>1. ~ tx.active
    BY <1>12 DEF CompleteDurable, Coherent, SavepointsKnown
  <2>2. /\ Active(k) /\ db' = work /\ work' = work /\ clock' = clock /\ tx' = tx
        /\ cursors' = [cursors EXCEPT ![k] = Closed] /\ open' = FALSE
    BY <1>12 DEF CompleteDurable, Active
  <2>3. cursors'[k] = Closed /\ \A j \in Cursor \ {k} : cursors'[j] = cursors[j]
    BY <1>b, <2>2
  <2> QED
    BY <1>c, <1>e, <2>1, <2>2, <2>3
    DEF Stored, Recorded, PinsOfTx, ChainStaged, WriteReady, Active
<1>13. ASSUME NEW k \in Cursor, CompleteStale(k)
      PROVE  Stored'
  BY <1>13, <1>b, <1>c, SameStored DEF CompleteStale, Active
<1>14. ASSUME NEW k \in Cursor, NEW withError \in BOOLEAN, CancelExplicit(k, withError)
      PROVE  Stored'
  <2>1. /\ UNCHANGED <<db, clock>> /\ tx.active /\ RollbackTx(Unwound(k))
        /\ cursors' = [cursors EXCEPT ![k] = Closed]
    BY <1>14 DEF CancelExplicit
  <2>2. cursors'[k] = Closed /\ \A j \in Cursor \ {k} : cursors'[j] = cursors[j]
    BY <1>b, <2>1
  <2>3. CASE Active(k)
    <3>1. Unwound(k) = cursors[k].saved /\ \A j \in Cursor : ~ Active(j)'
      BY <1>c, <1>d, <2>2, <2>3 DEF Unwound, Active
    <3>2. Unwound(k) \in {cursors[j].saved : j \in {i \in Cursor : Active(i)}}
      BY <2>3, <3>1
    <3> QED
      BY <2>1, <2>2, <3>1, <3>2, RollbackStored
  <2>4. CASE ~ Active(k)
    <3>1. Unwound(k) = work
      BY <2>4 DEF Unwound, Active
    <3> QED
      BY <2>1, <2>2, <3>1, RollbackStored
  <2> QED
    BY <2>3, <2>4
<1>15. ASSUME NEW k \in Cursor, NEW withError \in BOOLEAN, CancelPlain(k, withError)
      PROVE  Stored'
  <2>1. /\ UNCHANGED <<db, clock, tx>> /\ IsOpen(k) /\ cursors' = [cursors EXCEPT ![k] = Closed]
        /\ cursors[k].explicit /\ tx.active => quarantined
    BY <1>15 DEF CancelPlain
  <2>2. cursors'[k] = Closed /\ \A j \in Cursor \ {k} : cursors'[j] = cursors[j]
    BY <1>b, <2>1
  <2>3. ~ tx.active \/ quarantined
    BY <1>a, <2>1
  <2>4. CASE cursors[k].phase # "active" /\ UNCHANGED <<work, open, quarantined>>
    <3>1. \A j \in Cursor : Active(j)' /\ open' => open /\ work' = work
      BY <2>4
    <3> QED
      BY <2>1, <2>2, <2>3, <2>4, <3>1, UndoStored
  <2>5. CASE cursors[k].phase = "active" /\ open /\ work' = cursors[k].saved /\ UNCHANGED quarantined
    <3>1. \A j \in Cursor : ~ Active(j)'
      BY <1>c, <1>d, <2>2, <2>5 DEF Active
    <3>2. work' \in {cursors[j].saved : j \in {i \in Cursor : Active(i)}}
      BY <2>5 DEF Active
    <3> QED
      BY <2>1, <2>2, <2>3, <2>5, <3>1, <3>2, UndoStored
  <2>6. CASE cursors[k].phase = "active" /\ UNCHANGED <<work, open>> /\ (quarantined => quarantined')
    <3>1. \A j \in Cursor : ~ Active(j)'
      BY <1>c, <1>d, <2>2, <2>6 DEF Active
    <3> QED
      BY <2>1, <2>2, <2>3, <2>6, <3>1, UndoStored
  <2> QED
    BY <1>15, <2>4, <2>5, <2>6 DEF CancelPlain
<1>16. ASSUME NEW k \in Cursor, Interrupt(k)
      PROVE  Stored'
  <2>1. UNCHANGED <<db, clock>> /\ cursors' = [cursors EXCEPT ![k] = Closed]
    BY <1>16 DEF Interrupt
  <2>2. cursors'[k] = Closed /\ \A j \in Cursor \ {k} : cursors'[j] = cursors[j]
    BY <1>b, <2>1
  <2>3. CASE work' = db /\ open' = FALSE /\ tx' = NoTx
    BY <1>c, <2>1, <2>2, <2>3, UndoStored
  <2>4. CASE quarantined' = TRUE /\ UNCHANGED <<work, open, tx>>
    BY <2>1, <2>2, <2>4, UndoStored
  <2> QED
    BY <1>16, <2>3, <2>4 DEF Interrupt
<1>17. CASE Reconnect
  BY <1>17, <1>c, UndoStored DEF Reconnect
<1>18. CASE Elsewhere
  <2>1. ElsewhereStep /\ work' = db' /\ ~ open
        /\ UNCHANGED <<open, tx, begun, cursors, quarantined>>
    BY <1>18 DEF Elsewhere
  <2>2. Kept(db', clock')
    BY <1>e, <2>1, ElsewhereKept
  <2>3. clock' \in Nat /\ clock <= clock'
    BY <1>e, <2>1 DEF ElsewhereStep, Ticks
  <2>4. ~ tx.active
    BY <2>1 DEF Coherent, TxHoldsTransaction
  <2>5. \A k \in Cursor : Active(k)' => Kept(cursors'[k].saved, clock')
    BY <1>e, <2>1, <2>3, KeptLater DEF Stored, Recorded, Active
  <2> QED
    BY <2>1, <2>2, <2>3, <2>4, <2>5 DEF Stored, Recorded, PinsOfTx, ChainStaged, WriteReady
<1>19. CASE UNCHANGED vars
  BY <1>19, SameStored DEF vars, Active
<1> QED
  BY <1>1, <1>2, <1>3, <1>4, <1>5, <1>6, <1>7, <1>8, <1>9, <1>10, <1>11, <1>12, <1>13, <1>14,
     <1>15, <1>16, <1>17, <1>18, <1>19 DEF Next, Transact, Execute

(* Both invariants together are inductive.                                 *)
LEMMA StoredInductive == ASSUME Monotonic PROVE Spec => [](Coherent /\ Stored)
<1>1. Init => Coherent /\ Stored
  BY InitCoherent, InitStored
<1>2. Coherent /\ Stored /\ [Next]_vars => (Coherent /\ Stored)'
  BY NextCoherent, NextStored
<1> QED
  BY <1>1, <1>2, PTL DEF Spec

(* lithograph_tx_commit never finds a staged chain that it cannot publish: *)
(* the net Layer of any chain of valid commits passes the validation       *)
(* against the base, and discarding the chain takes nothing else along.    *)
THEOREM FinalizeAlwaysSucceeds == ASSUME Monotonic PROVE Spec => []FinalizeSucceeds
<1>1. Coherent /\ Stored => FinalizeSucceeds
  <2> SUFFICES ASSUME Stored, CanEnd, tx.mutated
               PROVE  /\ tx.base \in Lineage(work)[work.branches[tx.branch]]
                      /\ CanCommit(Unstaged(work, tx), tx.branch, <<tx.base>>,
                                   NetLayer(work, tx), NetSchema(work, tx))
    BY DEF FinalizeSucceeds
  <2>1. Kept(db, clock) /\ Kept(work, clock) /\ Staged(db, work, tx.branch, tx.base)
    BY DEF Stored, Recorded, ChainStaged, CanEnd
  <2>2. /\ Unstaged(work, tx) = PersistSchema(db, work.branches[tx.branch].schema)
        /\ tx.base \in Lineage(work)[work.branches[tx.branch]]
    BY <2>1, StagedUndone
  <2>3. CanCommit(PersistSchema(db, work.branches[tx.branch].schema), tx.branch, <<tx.base>>,
                  NetLayer(work, tx), NetSchema(work, tx))
    BY <2>1, StagedPublishes
  <2> QED
    BY <2>2, <2>3
<1> QED
  BY <1>1, StoredInductive, PTL

-----------------------------------------------------------------------------
(* The refinement.                                                         *)

(* The steps that change the durable database.                             *)
LEMMA NothingOpens ==
    ASSUME Coherent, [Next]_vars
    PROVE  \/ db' = db
           \/ Elsewhere
           \/ \E k \in Cursor : CompleteDurable(k)
           \/ \E stamp \in Stamp : TxCommit(stamp)
<1>1. CASE TxCommitRead
  <2>1. /\ tx.active /\ ~ tx.mutated /\ ~ quarantined /\ db' = work
        /\ \A k \in Cursor : cursors[k].phase # "active"
    BY <1>1 DEF TxCommitRead, CanEnd, SideEffectActive
  <2> QED
    BY <2>1 DEF Coherent, NothingStaged
<1>2. CASE UNCHANGED vars
  BY <1>2 DEF vars
<1>3. CASE Reconnect
  BY <1>3 DEF Reconnect
<1>4. CASE Transact
  BY <1>1, <1>4 DEF Transact, TxBegin, TxBeginFails, RefuseNested, FailToPrepare, TxAbort
<1>5. CASE Execute
  BY <1>5 DEF Execute, Open, StartWrite, CompleteRead, CompleteStaged, CompleteStale,
              CancelExplicit, CancelPlain, Interrupt
<1> QED
  BY <1>2, <1>3, <1>4, <1>5 DEF Next

LEMMA SameCardinality == \A S : VS!Cardinality(S) = Cardinality(S)
  BY DEF VS!Cardinality, Cardinality

LEMMA RoomFromKept ==
    ASSUME NEW D, NEW now, Kept(D, now), Cardinality(D.commits) <= MaxCommits
    PROVE  VS!HasRoom(D)
<1>1. D.data = {} /\ D.checkpoints = [c \in {} |-> EmptyGraph]
  BY DEF Kept
<1>2. DOMAIN D.checkpoints = {}
  BY <1>1
<1>3. Cardinality(D.data) + Cardinality(DOMAIN D.checkpoints) = 0
  BY <1>1, <1>2, FS_EmptySet
<1>4. MaxSidecars \in Nat
  BY BoundsAssumption
<1> QED
  BY <1>3, <1>4, SameCardinality DEF VS!HasRoom

LEMMA TxCommitRefines ==
    ASSUME Monotonic, Coherent, Stored, NEW stamp \in Stamp, TxCommit(stamp)
    PROVE  VS!Next
<1> DEFINE b == tx.branch
           base == tx.base
           head == work.branches[b]
           h == Replay(work)[head]
           layer == LayerBetween(Replay(db)[base], h)
<1>1. /\ Kept(db', stamp) /\ b \in Branch /\ base \in db.commits
      /\ head.schema \in Schema /\ h \in Graph /\ WellFormed(h) /\ Satisfies(h, head.schema)
      /\ CanCommit(PersistSchema(db, head.schema), b, <<base>>, layer, head.schema)
      /\ db' = CommitChange(PersistSchema(db, head.schema), b, <<base>>, layer, head.schema, stamp)
      /\ Cardinality(db'.commits) <= MaxCommits
  BY TxCommitFacts
<1>2. Resolve(db) = Replay(db)
  BY ReadableFacts DEF Stored, Recorded, Kept
<1>3. VS!HasRoom(db')
  BY <1>1, RoomFromKept
<1> HIDE DEF b, base, head, h
<1>4. VS!PatchApply(b, base, h, head.schema, stamp)
  BY <1>1, <1>2, <1>3, SameStore, SameLayers
  DEF VS!PatchApply, VS!ValidCandidate, VS!Publish
<1> QED
  BY <1>1, <1>4, SameStore, SameLayers DEF VS!Next, VS!AddCommit

LEMMA WriteRefines ==
    ASSUME Coherent, Stored, NEW k \in Cursor, CompleteDurable(k)
    PROVE  [VS!Next]_db
<1>1. db' = work /\ Active(k) /\ ~ cursors[k].nested
  BY DEF CompleteDurable, Active
<1>2. CASE ~ open
  BY <1>1, <1>2 DEF Coherent, TxHoldsTransaction
<1>3. CASE open
  <2>1. Cardinality(work.commits) <= MaxCommits
    BY <1>1, <1>3 DEF Stored, WriteReady
  <2>2. PICK b, head, layer, schema : Writes(db, db', b, head, layer, schema, clock)
    BY <1>1, <1>3 DEF Stored, WriteReady
  <2>3. VS!HasRoom(db')
    BY <1>1, <2>1, RoomFromKept DEF Stored, Recorded
  <2>4. /\ b \in Branch /\ head \in db.commits /\ layer \in Layer /\ schema \in Schema
        /\ clock \in Stamp
        /\ CanCommit(PersistSchema(db, schema), b, <<head>>, layer, schema)
        /\ db' = CommitChange(PersistSchema(db, schema), b, <<head>>, layer, schema, clock)
    BY <2>2 DEF Writes
  <2>5. CASE schema = head.schema /\ ValidWrite(db, head, layer)
    <3>1. VS!WriteQuery(b, head, layer, clock)
      BY <2>3, <2>4, <2>5, SameStore DEF VS!WriteQuery, VS!Publish
    <3> QED
      BY <2>4, <3>1, SameLayers DEF VS!Next, VS!AddCommit
  <2>6. CASE layer = EmptyLayer /\ ValidSchemaChange(db, head, schema)
    <3>1. VS!SchemaCommand(b, head, schema, clock)
      BY <2>3, <2>4, <2>6, SameStore, SameLayers DEF VS!SchemaCommand, VS!Publish
    <3> QED
      BY <2>4, <3>1, SameStore DEF VS!Next, VS!AddCommit
  <2> QED
    BY <2>2, <2>5, <2>6 DEF Writes
<1> QED
  BY <1>2, <1>3

LEMMA ElsewhereRefines == ElsewhereStep => VS!Next
  BY SameLayers, SameStore DEF ElsewhereStep, VS!Next, VS!AddCommit

(* A connection with explicit transactions implements the version store:   *)
(* staged commits, rollbacks, savepoints, interrupts and crashes are       *)
(* invisible from outside, a commit of a transaction is a patch applied to *)
(* its base, and every other durable change is a query's own commit.       *)
THEOREM RefinesVersionStore == ASSUME Monotonic PROVE Spec => ImplementsVersionStore
<1>1. Init => VS!Init
  BY SameStore DEF Init, VS!Init
<1>2. Coherent /\ Stored /\ [Next]_vars => [VS!Next]_db
  <2> SUFFICES ASSUME Coherent, Stored, [Next]_vars PROVE [VS!Next]_db
    OBVIOUS
  <2>1. CASE Elsewhere
    BY <2>1, ElsewhereRefines DEF Elsewhere
  <2>2. ASSUME NEW k \in Cursor, CompleteDurable(k) PROVE [VS!Next]_db
    BY <2>2, WriteRefines
  <2>3. ASSUME NEW stamp \in Stamp, TxCommit(stamp) PROVE [VS!Next]_db
    <3>1. VS!Next
      BY <2>3, TxCommitRefines
    <3> QED
      BY <3>1
  <2> QED
    BY <2>1, <2>2, <2>3, NothingOpens
<1> QED
  BY <1>1, <1>2, StoredInductive, PTL DEF Spec, ImplementsVersionStore, VS!Spec

(* While an explicit transaction is active the durable database changes    *)
(* only by its commit, which adds one commit on the base with the Snapshot *)
(* and schema of the staged head and leaves no staged row behind.          *)
THEOREM OneCommitPerTransaction == ASSUME Monotonic PROVE Spec => OneCommitPerTx
<1> DEFINE Allowed ==
      /\ quarantined /\ open => db' = db
      /\ tx.active /\ db' # db =>
         LET staged == work.branches[tx.branch]
             new    == db'.branches[tx.branch]
         IN  /\ tx.mutated /\ ~ tx'.active
             /\ new \notin db.commits
             /\ new.parents = <<tx.base>>
             /\ Resolve(db')[new] = Resolve(work)[staged] /\ new.schema = staged.schema
             /\ db' = [db EXCEPT !.commits = @ \cup {new}, !.layers = @ \cup {new.layer},
                                 !.schemas = @ \cup {new.schema},
                                 !.branches = Put(@, tx.branch, new)]
<1>1. ASSUME Coherent, Stored, NEW stamp \in Stamp, TxCommit(stamp)
      PROVE  Allowed
  <2> DEFINE b == tx.branch
             staged == work.branches[b]
             h == Replay(work)[staged]
             layer == LayerBetween(Replay(db)[tx.base], h)
             commit == NewCommit(<<tx.base>>, layer, staged.schema, stamp)
             new == db'.branches[b]
  <2>1. /\ ~ quarantined /\ tx.active /\ tx.mutated /\ tx' = NoTx
    BY <1>1 DEF TxCommit, CanEnd
  <2>2. /\ Kept(db', stamp) /\ Adds(db, db', b, commit) /\ Replay(db')[commit] = h
        /\ staged \in work.commits
        /\ db' = CommitChange(PersistSchema(db, staged.schema), b, <<tx.base>>, layer,
                              staged.schema, stamp)
        /\ db.branches[b] = tx.base
    BY <1>1, TxCommitFacts
  <2>3. /\ commit.parents = <<tx.base>> /\ commit.layer = layer /\ commit.schema = staged.schema
    BY DEF NewCommit
  <2>4. new = commit
    BY <2>2 DEF Adds, Put
  <2>5. Resolve(db') = Replay(db') /\ Resolve(work) = Replay(work)
    BY <1>1, <2>2, ReadableFacts DEF Stored, Recorded, Kept
  <2>6. db' = [db EXCEPT !.commits = @ \cup {new}, !.layers = @ \cup {new.layer},
                         !.schemas = @ \cup {new.schema}, !.branches = Put(@, b, new)]
    <3>1. IsDatabase(db)
      BY <1>1 DEF Stored, Recorded, Kept, Sound, TablesTyped
    <3>2. IsDatabase(db')
      BY <2>2 DEF Kept, Sound, TablesTyped
    <3> HIDE DEF commit, new, layer
    <3>3. /\ db'.commits = db.commits \cup {new}
          /\ db'.layers = db.layers \cup {new.layer}
          /\ db'.schemas = db.schemas \cup {new.schema}
          /\ db'.branches = Put(db.branches, b, new)
          /\ db'.tags = db.tags /\ db'.sessions = db.sessions
          /\ db'.data = db.data /\ db'.checkpoints = db.checkpoints
      BY <2>2, <2>4 DEF Adds
    <3> QED
      BY <3>1, <3>2, <3>3 DEF IsDatabase
  <2> QED
    <3>1. NoTx.active = FALSE
      BY DEF NoTx
    <3>2. new \notin db.commits
      BY <2>2, <2>4 DEF Adds
    <3> QED
      BY <2>1, <2>2, <2>3, <2>4, <2>5, <2>6, <3>1, <3>2
<1>2. Coherent /\ Stored /\ [Next]_vars => [Allowed]_vars
  <2> SUFFICES ASSUME Coherent, Stored, [Next]_vars PROVE Allowed
    OBVIOUS
  <2>1. CASE db' = db
    BY <2>1
  <2>2. CASE Elsewhere
    BY <2>2 DEF Elsewhere, Coherent, TxHoldsTransaction
  <2>3. ASSUME NEW k \in Cursor, CompleteDurable(k) PROVE Allowed
    BY <2>3 DEF CompleteDurable, Coherent, SavepointsKnown
  <2> QED
    BY <1>1, <2>1, <2>2, <2>3, NothingOpens
<1> QED
  BY <1>2, StoredInductive, PTL DEF Spec, OneCommitPerTx

=============================================================================
