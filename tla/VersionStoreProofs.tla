------------------------- MODULE VersionStoreProofs -------------------------
(***************************************************************************)
(* Theorems about VersionStore: for any graph, schema, names and bounds,   *)
(* no sequence of version operations leaves a dangling reference, an       *)
(* orphaned Layer or Schema row, or a table of the wrong shape, and none   *)
(* deletes a commit that a reference can reach; every commit reads as a    *)
(* valid Snapshot, the same one for as long as it exists; no update is     *)
(* lost and no merge drops one of its sides.                               *)
(*                                                                         *)
(* Truthful, which is Sound with Readable (StoreProofs), is the inductive  *)
(* invariant.  An action adds one commit (Commits, Grows), changes         *)
(* references and sidecars and leaves the commits alone (Repoints,         *)
(* Redecorates), collects garbage, or rebases (Rebases, by induction along *)
(* the chain it replays, which needs the contents of the commits: so Sound *)
(* is not inductive without Readable).                                     *)
(***************************************************************************)
EXTENDS VersionStore, StoreProofs

-----------------------------------------------------------------------------
(* Closing a merge session.                                                *)
LEMMA CloseSessionSound ==
    ASSUME NEW D, Sound(D), NEW s
    PROVE  Extends(D, CloseSession(D, s))
<1> DEFINE sessions == Drop(D.sessions, s)
<1>1. /\ DOMAIN sessions \subseteq DOMAIN D.sessions
      /\ \A x \in DOMAIN sessions : sessions[x] = D.sessions[x]
  BY DEF Drop
<1> HIDE DEF sessions
<1>2. Extends(D, [D EXCEPT !.sessions = sessions])
  BY <1>1, SessionsSound DEF Sound, TablesTyped, ReferencesResolve, SessionsResolve
<1> QED
  BY <1>2 DEF CloseSession, sessions

-----------------------------------------------------------------------------
(* Rebase.                                                                 *)

(* A commit is one level above its first parent.                           *)
LEMMA DepthSteps ==
    ASSUME NEW D, Chained(D), Grounded(D), NEW c \in D.commits
    PROVE  /\ Depth(D)[c] \in Nat
           /\ Depth(D)[c] = IF c.parents = <<>> THEN 0 ELSE Depth(D)[c.parents[1]] + 1
<1> DEFINE init == [x \in D.commits |-> 0]
           step == [x \in D.commits |-> [n \in Nat |-> n + 1]]
           Step(f, x) == IF x.parents = <<>> THEN 0 ELSE f[x.parents[1]] + 1
           Steps(f) == f = [x \in D.commits |-> Step(f, x)]
<1>0. WalkTyped(D, Nat, init, step)
  BY DEF WalkTyped
<1>1. /\ \A x \in D.commits : init[x] = 0
      /\ \A x \in D.commits, n \in Nat : step[x][n] = n + 1
  OBVIOUS
<1> HIDE DEF init, step
<1>2. PICK f : Walks(D, Nat, init, step, f)
  BY <1>0, ParentRecursion
<1>3. \A x \in D.commits : f[x] = Step(f, x)
  <2> SUFFICES ASSUME NEW x \in D.commits
               PROVE  f[x] = Step(f, x)
    OBVIOUS
  <2>1. x.parents # <<>> => f[x.parents[1]] \in Nat
    BY <1>2 DEF Chained, Walks
  <2> QED
    BY <1>1, <1>2, <2>1 DEF Walks
<1>4. Steps(f)
  BY <1>2, <1>3 DEF Walks
<1>5. Steps(CHOOSE g : Steps(g))
  BY <1>4
<1>6. Depth(D) = CHOOSE g : Steps(g)
  BY DEF Depth
<1> DEFINE d == Depth(D)
<1>7. Steps(d)
  BY <1>5, <1>6
<1> HIDE DEF d
<1>8. \A x \in D.commits : d[x] = Step(d, x)
  BY <1>7
<1>9. \A x \in D.commits : d[x] \in Nat
  <2> DEFINE T == {x \in D.commits : d[x] \notin Nat}
  <2>1. ASSUME T # {}
        PROVE  FALSE
    <3>1. PICK x \in T : x.parents = <<>> \/ x.parents[1] \notin T
      BY <2>1 DEF Grounded
    <3>2. x.parents # <<>> => d[x.parents[1]] \in Nat
      BY <3>1 DEF Chained
    <3> QED
      BY <1>8, <3>1, <3>2
  <2> QED
    BY <2>1
<1> QED
  BY <1>8, <1>9 DEF d

(* A commit has the same depth in every database with it.                  *)
LEMMA DepthKept ==
    ASSUME NEW D, Chained(D), Grounded(D), NEW E, Chained(E), Grounded(E),
           D.commits \subseteq E.commits, NEW c \in D.commits
    PROVE  Depth(E)[c] = Depth(D)[c]
<1> DEFINE T == {x \in D.commits : Depth(E)[x] # Depth(D)[x]}
<1>1. ASSUME T # {}
      PROVE  FALSE
  <2>1. PICK x \in T : x.parents = <<>> \/ x.parents[1] \notin T
    BY <1>1 DEF Grounded
  <2>2. x.parents # <<>> => Depth(E)[x.parents[1]] = Depth(D)[x.parents[1]]
    BY <2>1 DEF Chained
  <2>3. /\ Depth(E)[x] = IF x.parents = <<>> THEN 0 ELSE Depth(E)[x.parents[1]] + 1
        /\ Depth(D)[x] = IF x.parents = <<>> THEN 0 ELSE Depth(D)[x.parents[1]] + 1
    BY DepthSteps
  <2> QED
    BY <2>1, <2>2, <2>3
<1> QED
  BY <1>1

(* The lineage of a commit is below it.                                    *)
LEMMA LineageBelow ==
    ASSUME NEW D, Chained(D), Grounded(D), NEW c \in D.commits, NEW d \in Lineage(D)[c]
    PROVE  Depth(D)[d] <= Depth(D)[c]
<1> DEFINE T == {x \in D.commits : \E y \in Lineage(D)[x] : ~ (Depth(D)[y] <= Depth(D)[x])}
<1>1. ASSUME T # {}
      PROVE  FALSE
  <2>1. PICK x \in T : x.parents = <<>> \/ x.parents[1] \notin T
    BY <1>1 DEF Grounded
  <2>2. PICK y \in Lineage(D)[x] : ~ (Depth(D)[y] <= Depth(D)[x])
    BY <2>1
  <2>3. /\ Lineage(D)[x] = {x} \cup IF x.parents = <<>> THEN {} ELSE Lineage(D)[x.parents[1]]
        /\ Depth(D)[x] \in Nat
        /\ Depth(D)[x] = IF x.parents = <<>> THEN 0 ELSE Depth(D)[x.parents[1]] + 1
        /\ Lineage(D)[x] \subseteq D.commits
    BY <2>1, LineageSteps, DepthSteps
  <2>4. Depth(D)[y] \in Nat
    BY <2>2, <2>3, DepthSteps
  <2>5. y # x
    BY <2>2, <2>3
  <2>6. x.parents # <<>> /\ y \in Lineage(D)[x.parents[1]]
    BY <2>2, <2>3, <2>5
  <2>7. x.parents[1] \in D.commits /\ x.parents[1] \notin T
    BY <2>1, <2>6 DEF Chained
  <2>8. Depth(D)[y] <= Depth(D)[x.parents[1]] /\ Depth(D)[x.parents[1]] \in Nat
    BY <2>6, <2>7, DepthSteps
  <2> QED
    BY <2>2, <2>3, <2>4, <2>6, <2>8
<1> QED
  BY <1>1

(* The equation of Rebased, whose solution f[c] holds the databases that a *)
(* rebase of the chain of c can leave.                                     *)
RebaseStep(D, b, onto, f, c) ==
    IF c \in Reachable(D, {onto}) THEN {MoveBranch(D, b, onto)}
    ELSE IF c.parents = <<>> THEN {}
    ELSE UNION {Replayed(E, b, c) : E \in f[c.parents[1]]}
RebaseSteps(D, b, onto, f) == f = [c \in D.commits |-> RebaseStep(D, b, onto, f, c)]

(* The equation has a solution, for the reason ParentRecursion gives.      *)
LEMMA RebaseRecursion ==
    ASSUME NEW D, Chained(D), Grounded(D), NEW b, NEW onto
    PROVE  \E f : RebaseSteps(D, b, onto, f)
<1> DEFINE Walk(f, c) == RebaseStep(D, b, onto, f, c)
           Solves(A, f) == \A c \in A : /\ c.parents # <<>> => c.parents[1] \in A
                                        /\ f[c] = Walk(f, c)
           Solved(c, v) == \E A \in SUBSET D.commits : \E f :
                              Solves(A, f) /\ c \in A /\ f[c] = v
           U == {c \in D.commits : \E v : Solved(c, v)}
           h == [c \in D.commits |-> CHOOSE v : Solved(c, v)]
<1>0. ASSUME NEW f, NEW g, NEW c, c.parents # <<>> => f[c.parents[1]] = g[c.parents[1]]
      PROVE  Walk(f, c) = Walk(g, c)
  BY <1>0 DEF RebaseStep
<1> HIDE DEF Walk
<1>1. ASSUME NEW A \in SUBSET D.commits, NEW B \in SUBSET D.commits, NEW f, NEW g,
             Solves(A, f), Solves(B, g), NEW c \in A \cap B
      PROVE  f[c] = g[c]
  <2> DEFINE T == {x \in A \cap B : f[x] # g[x]}
  <2>1. ASSUME T # {}
        PROVE  FALSE
    <3>1. PICK x \in T : x.parents = <<>> \/ x.parents[1] \notin T
      BY <2>1 DEF Grounded
    <3>2. x.parents # <<>> => f[x.parents[1]] = g[x.parents[1]]
      BY <1>1, <3>1
    <3>3. f[x] = Walk(f, x) /\ g[x] = Walk(g, x)
      BY <1>1
    <3>4. Walk(f, x) = Walk(g, x)
      BY <1>0, <3>2
    <3> QED
      BY <3>1, <3>3, <3>4
  <2> QED
    BY <2>1
<1>2. ASSUME NEW A \in SUBSET D.commits, NEW f, Solves(A, f), NEW c \in A
      PROVE  c \in U /\ h[c] = f[c]
  <2>1. Solved(c, f[c])
    BY <1>2
  <2>2. c \in U
    BY <2>1
  <2>3. Solved(c, h[c])
    <3>1. h[c] = CHOOSE v : Solved(c, v)
      BY <1>2
    <3> HIDE DEF Solved, h
    <3> QED
      BY <2>1, <3>1
  <2>4. PICK B, g : B \in SUBSET D.commits /\ Solves(B, g) /\ c \in B /\ g[c] = h[c]
    BY <2>3
  <2> HIDE DEF Solves, Solved, h, U
  <2>5. g[c] = f[c]
    BY <1>1, <1>2, <2>4
  <2> QED
    BY <2>2, <2>4, <2>5
<1>3. ASSUME NEW c \in U
      PROVE  /\ c.parents # <<>> => c.parents[1] \in U
             /\ h[c] = Walk(h, c)
  <2>1. PICK A, f : A \in SUBSET D.commits /\ Solves(A, f) /\ c \in A
    BY DEF Solved
  <2> HIDE DEF h, U
  <2>2. \A x \in A : x \in U /\ h[x] = f[x]
    <3> HIDE DEF Solves
    <3> QED
      BY <1>2, <2>1
  <2>3. /\ c.parents # <<>> => c.parents[1] \in A
        /\ f[c] = Walk(f, c)
    BY <2>1
  <2> HIDE DEF Solves, Solved
  <2>4. c.parents # <<>> => h[c.parents[1]] = f[c.parents[1]]
    BY <2>2, <2>3
  <2>5. Walk(h, c) = Walk(f, c)
    BY <1>0, <2>4
  <2> QED
    BY <2>1, <2>2, <2>3, <2>5
<1>4. h = [c \in D.commits |-> h[c]]
  <2> HIDE DEF Solved
  <2> QED
    OBVIOUS
<1>5. U \subseteq D.commits
  OBVIOUS
<1> HIDE DEF h, U
<1>6. ASSUME D.commits \ U # {}
      PROVE  FALSE
  <2>1. PICK c \in D.commits \ U : c.parents = <<>> \/ c.parents[1] \notin D.commits \ U
    BY <1>6 DEF Grounded
  <2>2. c.parents # <<>> => c.parents[1] \in U
    BY <2>1 DEF Chained
  <2> DEFINE g == [x \in D.commits |-> IF x = c THEN Walk(h, c) ELSE h[x]]
             A == U \cup {c}
  <2>3. g[c] = Walk(h, c) /\ \A x \in U : g[x] = h[x]
    BY <1>5, <2>1
  <2> HIDE DEF g
  <2>4. ASSUME NEW x \in A
        PROVE  /\ x.parents # <<>> => x.parents[1] \in A
               /\ g[x] = Walk(g, x)
    <3>1. x.parents # <<>> => x.parents[1] \in U
      BY <1>3, <2>2
    <3>2. g[x] = Walk(h, x)
      BY <1>3, <2>3
    <3>3. x.parents # <<>> => g[x.parents[1]] = h[x.parents[1]]
      BY <2>3, <3>1
    <3>4. Walk(g, x) = Walk(h, x)
      BY <1>0, <3>3
    <3> QED
      BY <3>1, <3>2, <3>4
  <2>5. Solves(A, g)
    BY <2>4
  <2>6. A \in SUBSET D.commits /\ c \in A
    BY <1>5, <2>1
  <2> HIDE DEF Solves, A
  <2>7. Solved(c, g[c])
    BY <2>5, <2>6
  <2> QED
    BY <2>1, <2>7 DEF U
<1>7. \A c \in D.commits : h[c] = Walk(h, c)
  BY <1>3, <1>5, <1>6
<1>8. h = [c \in D.commits |-> Walk(h, c)]
  BY <1>4, <1>7
<1> QED
  BY <1>8 DEF RebaseSteps, Walk

LEMMA RebasedSteps ==
    ASSUME NEW D, Chained(D), Grounded(D), NEW b, NEW onto, NEW head
    PROVE  \E f : RebaseSteps(D, b, onto, f) /\ Rebased(D, b, head, onto) = f[head]
<1> DEFINE f == CHOOSE g : RebaseSteps(D, b, onto, g)
<1>1. RebaseSteps(D, b, onto, f)
  BY RebaseRecursion
<1>2. Rebased(D, b, head, onto) = f[head]
  BY DEF Rebased, RebaseSteps, RebaseStep
<1> QED
  BY <1>1, <1>2

(* E is D after the branch b was moved to onto and took the replay of the  *)
(* first-parent chain of c above the history of onto.                      *)
Replants(D, E, b, c, onto, boundary) ==
    /\ IsBoundary(D, c, onto, boundary)
    /\ onto \in Lineage(E)[E.branches[b]]
    /\ Depth(E)[E.branches[b]] - Depth(E)[onto] = Depth(D)[c] - Depth(D)[boundary]
    /\ VersionAt(D, onto) = VersionAt(D, boundary) => VersionAt(E, E.branches[b]) = VersionAt(D, c)

Rebases(D, E, b, c, onto) ==
    /\ Extends(D, E)
    /\ Readable(E)
    /\ \A x \in D.commits : Replay(E)[x] = Replay(D)[x]
    /\ E.branches = Put(D.branches, b, E.branches[b])
    /\ E.sessions = D.sessions
    /\ \E boundary \in D.commits : Replants(D, E, b, c, onto, boundary)

(* The branch moves to onto: c is in its history and the chain is empty.   *)
LEMMA RebaseMoves ==
    ASSUME NEW D, Sound(D), Readable(D), NEW b \in Branch, NEW onto \in D.commits,
           NEW c \in D.commits, c \in Reachable(D, {onto})
    PROVE  Rebases(D, MoveBranch(D, b, onto), b, c, onto)
<1> DEFINE E == MoveBranch(D, b, onto)
<1>a. IsDatabase(D) /\ Chained(D) /\ Grounded(D) /\ Faithful(D)
  BY DEF Sound, TablesTyped, Readable
<1>1. /\ E.commits = D.commits /\ E.checkpoints = D.checkpoints /\ E.sessions = D.sessions
      /\ E.branches = Put(D.branches, b, onto)
  BY <1>a DEF MoveBranch, IsDatabase
<1>2. Extends(D, E)
  BY MoveBranchSound
<1> HIDE DEF E
<1>3. E.branches[b] = onto
  BY <1>1 DEF Put
<1>4. Readable(E) /\ Replay(E) = Replay(D)
  BY <1>1, <1>a, RedecorateReadable DEF Faithful
<1>5. Lineage(E) = Lineage(D) /\ Depth(E) = Depth(D) /\ Resolve(E) = Resolve(D)
  BY <1>1 DEF Lineage, Depth, Resolve
<1>6. IsBoundary(D, c, onto, c)
  BY <1>a, LineageSteps, LineageBelow DEF IsBoundary
<1>7. onto \in Lineage(D)[onto] /\ Depth(D)[onto] \in Nat /\ Depth(D)[c] \in Nat
  BY <1>a, LineageSteps, DepthSteps
<1>8. Depth(D)[onto] - Depth(D)[onto] = Depth(D)[c] - Depth(D)[c]
  BY <1>7
<1>9. VersionAt(E, onto) = VersionAt(D, onto)
  BY <1>5 DEF VersionAt
<1>10. Replants(D, E, b, c, onto, c)
  BY <1>3, <1>5, <1>6, <1>7, <1>8, <1>9 DEF Replants
<1> QED
  BY <1>1, <1>2, <1>3, <1>4, <1>10 DEF Rebases, E

(* One commit of the chain is replayed on the head of b.                   *)
LEMMA RebaseReplays ==
    ASSUME NEW D, Sound(D), Readable(D), NEW b \in Branch, NEW onto \in D.commits,
           NEW c \in D.commits, c \notin Reachable(D, {onto}), c.parents # <<>>,
           NEW E, Rebases(D, E, b, c.parents[1], onto), NEW F \in Replayed(E, b, c)
    PROVE  Rebases(D, F, b, c, onto)
<1> DEFINE p == c.parents[1]
           head == E.branches[b]
           ours == VersionAt(E, head)
           LayerTo(v) == LayerBetween(ours.graph, v.graph)
<1>a. Chained(D) /\ Grounded(D) /\ p \in D.commits
  BY DEF Readable, Chained
<1>b. /\ Sound(E) /\ D.commits \subseteq E.commits /\ Readable(E)
      /\ \A x \in D.commits : Replay(E)[x] = Replay(D)[x]
      /\ E.branches = Put(D.branches, b, head)
      /\ E.sessions = D.sessions
  BY DEF Rebases, Extends
<1>c. PICK boundary \in D.commits : Replants(D, E, b, p, onto, boundary)
  BY DEF Rebases
<1>d. IsDatabase(E) /\ DOMAIN E.checkpoints \subseteq E.commits
  BY <1>b DEF Sound, TablesTyped, ReferencesResolve, SidecarsResolve
<1>e. b \in DOMAIN E.branches /\ head \in E.commits
  <2>1. b \in DOMAIN E.branches
    BY <1>b DEF Put
  <2> QED
    BY <1>b, <2>1 DEF Sound, ReferencesResolve, BranchesResolve
<1>1. PICK v \in [graph : Graph, schema : Schema], stamp \in Stamp :
          /\ Merges(VersionAt(E, p), ours, VersionAt(E, c), v)
          /\ CanCommit(PersistSchema(E, v.schema), b, <<head>>, LayerTo(v), v.schema)
          /\ F = CommitChange(PersistSchema(E, v.schema), b, <<head>>, LayerTo(v), v.schema, stamp)
  BY DEF Replayed
<1> DEFINE layer == LayerTo(v)
           new == NewCommit(<<head>>, layer, v.schema, stamp)
<1>2. v.graph \in Graph /\ v.schema \in Schema
  BY <1>1
<1>3. /\ Resolve(E) = Replay(E)
      /\ \A x \in E.commits : Replay(E)[x] \in Graph
  BY <1>b, ReadableFacts
<1>4. ours.graph = Replay(E)[head]
  BY <1>3 DEF VersionAt
<1>5. layer \in Layer /\ Apply(Replay(E)[head], layer) = v.graph
  BY <1>2, <1>3, <1>4, <1>e, LayerBetweenExact
<1>6. Satisfies(v.graph, v.schema)
  BY <1>1 DEF Merges, ValidCandidate
<1>7. /\ new.parents = <<head>> /\ new.schema = v.schema
      /\ <<head>> # <<>> /\ 1 \in DOMAIN <<head>> /\ <<head>>[1] = head
      /\ DOMAIN <<head>> = {1}
  BY DEF NewCommit
<1> HIDE DEF layer, LayerTo, ours
<1>8. /\ CanCommit(PersistSchema(E, v.schema), b, <<head>>, layer, v.schema)
      /\ F = CommitChange(PersistSchema(E, v.schema), b, <<head>>, layer, v.schema, stamp)
  BY <1>1 DEF layer
<1>9. Extends(E, F)
  BY <1>2, <1>7, <1>8, <1>b, PublishSound
<1>10. Appends(E, F, <<head>>, layer, v.schema, stamp)
  BY <1>5, <1>6, <1>7, <1>8, <1>b, <1>d, PublishAppends
<1>11. /\ F.commits = E.commits \cup {new} /\ F.branches = Put(E.branches, b, new)
       /\ F.sessions = E.sessions
  BY <1>8, <1>d, PublishFields
<1>12. /\ Readable(F)
       /\ \A x \in E.commits : Replay(F)[x] = Replay(E)[x]
       /\ Replay(F)[new] = v.graph
  BY <1>5, <1>7, <1>10, <1>b, <1>d, AppendReadable
<1> HIDE DEF new
<1>13. F.branches[b] = new /\ new \in F.commits /\ F.branches = Put(D.branches, b, new)
  BY <1>11, <1>b DEF Put
<1>14. Extends(D, F)
  BY <1>9, <1>b DEF Extends
<1>15. /\ Chained(E) /\ Grounded(E) /\ Chained(F) /\ Grounded(F)
       /\ E.commits \subseteq F.commits /\ onto \in E.commits
  BY <1>11, <1>12, <1>b DEF Readable
<1>16. onto \in Lineage(F)[new]
  <2>1. Lineage(F)[new] = {new} \cup Lineage(F)[head]
    BY <1>7, <1>13, <1>15, LineageSteps
  <2>2. Lineage(F)[head] = Lineage(E)[head]
    BY <1>15, <1>e, LineageKept
  <2> QED
    BY <1>c, <2>1, <2>2 DEF Replants
<1>17. Depth(F)[new] - Depth(F)[onto] = Depth(D)[c] - Depth(D)[boundary]
  <2>1. Depth(F)[new] = Depth(E)[head] + 1 /\ Depth(F)[onto] = Depth(E)[onto]
    <3>1. Depth(F)[new] = Depth(F)[head] + 1
      BY <1>7, <1>13, <1>15, DepthSteps
    <3>2. Depth(F)[head] = Depth(E)[head] /\ Depth(F)[onto] = Depth(E)[onto]
      BY <1>15, <1>e, DepthKept
    <3> QED
      BY <3>1, <3>2
  <2>2. Depth(D)[c] = Depth(D)[p] + 1
    BY <1>a, DepthSteps
  <2> DEFINE above == Depth(E)[head]
             base  == Depth(E)[onto]
             top   == Depth(D)[p]
             below == Depth(D)[boundary]
  <2>3. above \in Nat /\ base \in Nat /\ top \in Nat /\ below \in Nat
    BY <1>15, <1>a, <1>e, DepthSteps
  <2>4. above - base = top - below
    BY <1>c DEF Replants
  <2>5. Depth(F)[new] = above + 1 /\ Depth(F)[onto] = base /\ Depth(D)[c] = top + 1
    BY <2>1, <2>2
  <2> HIDE DEF above, base, top, below
  <2>6. (above + 1) - base = (top + 1) - below
    BY <2>3, <2>4
  <2> QED
    BY <2>5, <2>6 DEF below
<1>18. IsBoundary(D, c, onto, boundary)
  <2>1. Lineage(D)[c] = {c} \cup Lineage(D)[p]
    BY <1>a, LineageSteps
  <2>2. Lineage(D)[c] \cap Reachable(D, {onto}) = Lineage(D)[p] \cap Reachable(D, {onto})
    BY <2>1
  <2> QED
    BY <1>c, <2>2 DEF Replants, IsBoundary
<1>19. ASSUME VersionAt(D, onto) = VersionAt(D, boundary)
       PROVE  VersionAt(F, new) = VersionAt(D, c)
  <2>1. Resolve(D) = Replay(D) /\ Resolve(F) = Replay(F)
    BY <1>12, ReadableFacts
  <2>2. VersionAt(E, p) = VersionAt(D, p) /\ VersionAt(E, c) = VersionAt(D, c)
    BY <1>3, <1>a, <1>b, <2>1 DEF VersionAt
  <2>3. ours = VersionAt(E, p)
    BY <1>19, <1>c, <2>2 DEF Replants, ours
  <2>4. v = VersionAt(D, c)
    BY <1>1, <2>2, <2>3 DEF Merges
  <2>5. VersionAt(F, new) = [graph |-> v.graph, schema |-> v.schema]
    BY <1>7, <1>12, <2>1 DEF VersionAt
  <2>6. v = [graph |-> v.graph, schema |-> v.schema]
    BY <1>1
  <2> QED
    BY <2>4, <2>5, <2>6
<1>20. Replants(D, F, b, c, onto, boundary)
  BY <1>13, <1>16, <1>17, <1>18, <1>19 DEF Replants
<1>21. \A x \in D.commits : Replay(F)[x] = Replay(D)[x]
  BY <1>12, <1>b
<1> QED
  BY <1>11, <1>12, <1>13, <1>14, <1>20, <1>21, <1>b DEF Rebases

(* Whatever databases a rebase can leave, they hold the whole replay.      *)
LEMMA RebasedReplants ==
    ASSUME NEW D, Sound(D), Readable(D), NEW b \in Branch, NEW onto \in D.commits,
           NEW head \in D.commits, NEW E \in Rebased(D, b, head, onto)
    PROVE  Rebases(D, E, b, head, onto)
<1>a. Chained(D) /\ Grounded(D)
  BY DEF Readable
<1>1. PICK f : RebaseSteps(D, b, onto, f) /\ Rebased(D, b, head, onto) = f[head]
  BY <1>a, RebasedSteps
<1>2. \A c \in D.commits : f[c] = RebaseStep(D, b, onto, f, c)
  BY <1>1 DEF RebaseSteps
<1> DEFINE T == {c \in D.commits : \E F \in f[c] : ~ Rebases(D, F, b, c, onto)}
<1>3. ASSUME T # {}
      PROVE  FALSE
  <2>1. PICK c \in T : c.parents = <<>> \/ c.parents[1] \notin T
    BY <1>3, <1>a DEF Grounded
  <2>2. PICK F \in f[c] : ~ Rebases(D, F, b, c, onto)
    BY <2>1
  <2>3. F \in RebaseStep(D, b, onto, f, c)
    BY <1>2, <2>1, <2>2
  <2>4. c \notin Reachable(D, {onto})
    BY <2>1, <2>2, <2>3, RebaseMoves DEF RebaseStep
  <2>5. c.parents # <<>>
    BY <2>3, <2>4 DEF RebaseStep
  <2>6. PICK G \in f[c.parents[1]] : F \in Replayed(G, b, c)
    BY <2>3, <2>4, <2>5 DEF RebaseStep
  <2>7. c.parents[1] \in D.commits /\ c.parents[1] \notin T
    BY <1>a, <2>1, <2>5 DEF Chained
  <2>8. Rebases(D, G, b, c.parents[1], onto)
    BY <2>6, <2>7
  <2> HIDE DEF T
  <2> QED
    BY <2>1, <2>2, <2>4, <2>5, <2>6, <2>8, RebaseReplays DEF T
<1> QED
  BY <1>1, <1>3

LEMMA RebaseKeeps ==
    ASSUME Sound(db), Readable(db), Rebase
    PROVE  \E b \in Branch, onto \in db.commits :
               b \in DOMAIN db.branches /\ Rebases(db, db', b, db.branches[b], onto)
<1>1. PICK b \in Branch, head \in db.commits, onto \in db.commits : RebaseBranch(b, head, onto)
  BY DEF Rebase
<1>2. b \in DOMAIN db.branches /\ db.branches[b] = head /\ db' \in Rebased(db, b, head, onto)
  BY <1>1 DEF RebaseBranch, CanMoveBranch
<1> QED
  BY <1>2, RebasedReplants

-----------------------------------------------------------------------------
(* The invariant.                                                          *)

LEMMA InitSound == Init => Sound(db)
  BY InitialSound DEF Init

(* Every action but garbage collection and rebase, which RebaseKeeps is    *)
(* about, extends the database.                                            *)
LEMMA NextExtends ==
    ASSUME Sound(db), [Next]_db
    PROVE  Gc \/ Rebase \/ Extends(db, db')
<1>a. IsDatabase(db)
  BY DEF Sound, TablesTyped
<1>b. \A c \in db.commits : c.schema \in Schema
  BY DEF Sound, TablesTyped, IsCommit
<1>1. ASSUME NEW b \in Branch, NEW head \in db.commits, NEW stamp \in Stamp, NEW layer \in Layer,
             WriteQuery(b, head, layer, stamp)
      PROVE  Extends(db, db')
  BY <1>b, <1>1, ParentLists, PublishSound DEF WriteQuery, Publish
<1>2. ASSUME NEW b \in Branch, NEW head \in db.commits, NEW stamp \in Stamp,
             NEW schema \in Schema, SchemaCommand(b, head, schema, stamp)
      PROVE  Extends(db, db')
  BY <1>2, ParentLists, PublishSound DEF SchemaCommand, Publish
<1>3. ASSUME NEW b \in Branch, NEW head \in db.commits, NEW stamp \in Stamp,
             NEW withData \in BOOLEAN, CommitCreate(b, head, withData, stamp)
      PROVE  Extends(db, db')
  <2> DEFINE commit == NewCommit(<<head>>, EmptyLayer, head.schema, stamp)
             D == CommitChange(db, b, <<head>>, EmptyLayer, head.schema, stamp)
             E == [D EXCEPT !.data = @ \cup {commit}]
  <2>1. /\ IsDatabase(D)
        /\ D.commits = db.commits \cup {commit}
        /\ D.layers = db.layers \cup {EmptyLayer}
        /\ D.branches = Put(db.branches, b, commit)
        /\ D.schemas = db.schemas /\ D.tags = db.tags /\ D.sessions = db.sessions
        /\ D.data = db.data /\ D.checkpoints = db.checkpoints
    BY <1>a, CommitChangeFields
  <2>2. \/ db' = D
        \/ db' = E
    BY <1>3 DEF CommitCreate
  <2>3. head.schema \in db.schemas
    BY <1>3 DEF CommitCreate, CanCommit
  <2> HIDE DEF D, commit
  <2>4. IsDatabase(E)
    BY <2>1 DEF IsDatabase
  <2>5. /\ E.commits = D.commits /\ E.layers = D.layers /\ E.schemas = D.schemas
        /\ E.branches = D.branches /\ E.tags = D.tags /\ E.sessions = D.sessions
        /\ E.data = D.data \cup {commit} /\ E.checkpoints = D.checkpoints
    BY <2>1 DEF IsDatabase
  <2> HIDE DEF E
  <2>6. Commits(db, db', b, <<head>>, EmptyLayer, head.schema, stamp)
    BY <2>1, <2>2, <2>3, <2>4, <2>5 DEF Commits, commit
  <2> QED
    BY <1>b, <2>6, ParentLists, CommitsSound
<1>4. ASSUME NEW b \in Branch, NEW head \in db.commits, NEW stamp \in Stamp,
             NEW after \in Graph, NEW schema \in Schema,
             PatchApply(b, head, after, schema, stamp)
      PROVE  Extends(db, db')
  BY <1>4, ParentLists, PublishSound DEF PatchApply, Publish
<1>5. ASSUME NEW b \in Branch, NEW head \in db.commits, NEW stamp \in Stamp,
             NEW commit \in db.commits, NEW parent \in Parents(commit),
             Revert(b, head, commit, parent, stamp)
      PROVE  Extends(db, db')
  <2> DEFINE schema == PatchedSchema(head.schema, commit.schema, parent.schema)
  <2>1. parent \in db.commits
    BY DEF Sound, ReferencesResolve, HistoryComplete
  <2>2. schema \in Schema
    BY <1>b, <2>1 DEF PatchedSchema, Schema
  <2>3. PICK layer : Publish(db, b, <<head>>, layer, schema, stamp)
    BY <1>5 DEF Revert
  <2> HIDE DEF schema
  <2> QED
    BY <2>2, <2>3, ParentLists, PublishSound DEF Publish
<1>6. ASSUME NEW b \in Branch, NEW head \in db.commits, NEW stamp \in Stamp,
             NEW since \in db.commits, Squash(b, head, since, stamp)
      PROVE  Extends(db, db')
  <2>1. Extends(db, MoveBranch(db, b, since))
    BY MoveBranchSound
  <2>2. PICK layer : Publish(MoveBranch(db, b, since), b, <<since>>, layer, head.schema, stamp)
    BY <1>6 DEF Squash
  <2> QED
    BY <1>b, <2>1, <2>2, ParentLists, PublishSound DEF Publish, Extends
<1>7. CASE ChangeRefs
  <2>1. ASSUME NEW b \in Branch, NEW c \in db.commits, CreateBranch(b, c)
        PROVE  Extends(db, db')
    BY <2>1, MoveBranchSound DEF CreateBranch
  <2>2. ASSUME NEW b \in Branch, DeleteBranch(b)
        PROVE  Extends(db, db')
    <3> DEFINE branches == Drop(db.branches, b)
    <3>1. /\ DOMAIN branches = DOMAIN db.branches \ {b}
          /\ \A x \in DOMAIN branches : branches[x] = db.branches[x]
      BY DEF Drop
    <3>2. b # Main /\ db' = [db EXCEPT !.branches = branches]
      BY <2>2 DEF DeleteBranch
    <3> HIDE DEF branches
    <3> QED
      BY <3>1, <3>2, BranchesSound DEF Sound, TablesTyped, ReferencesResolve, BranchesResolve
  <2>3. ASSUME NEW b \in Branch, NEW head, NEW c \in db.commits, ResetBranch(b, head, c)
        PROVE  Extends(db, db')
    BY <2>3, MoveBranchSound DEF ResetBranch
  <2>4. ASSUME NEW t \in Tag, NEW c \in db.commits, CreateTag(t, c) \/ MoveTag(t, c)
        PROVE  Extends(db, db')
    <3> DEFINE tags == Put(db.tags, t, c)
    <3>1. /\ DOMAIN tags = DOMAIN db.tags \cup {t}
          /\ \A x \in DOMAIN tags : tags[x] = IF x = t THEN c ELSE db.tags[x]
      BY DEF Put
    <3>2. db' = [db EXCEPT !.tags = tags]
      BY <2>4 DEF CreateTag, MoveTag
    <3> HIDE DEF tags
    <3> QED
      BY <3>1, <3>2, TagsSound DEF Sound, TablesTyped, ReferencesResolve, TagsResolve
  <2>5. ASSUME NEW t \in Tag, DeleteTag(t)
        PROVE  Extends(db, db')
    <3> DEFINE tags == Drop(db.tags, t)
    <3>1. /\ DOMAIN tags = DOMAIN db.tags \ {t}
          /\ \A x \in DOMAIN tags : tags[x] = db.tags[x]
      BY DEF Drop
    <3>2. db' = [db EXCEPT !.tags = tags]
      BY <2>5 DEF DeleteTag
    <3> HIDE DEF tags
    <3> QED
      BY <3>1, <3>2, TagsSound DEF Sound, TablesTyped, ReferencesResolve, TagsResolve
  <2> QED
    BY <1>7, <2>1, <2>2, <2>3, <2>4, <2>5 DEF ChangeRefs
<1>8. CASE ChangeSidecars
  <2>1. ASSUME NEW c \in db.commits, SetCommitData(c) \/ ClearCommitData(c)
        PROVE  Extends(db, db')
    <3>1. PICK data : data \subseteq db.data \cup {c} /\ db' = [db EXCEPT !.data = data]
      BY <2>1 DEF SetCommitData, ClearCommitData
    <3> QED
      BY <3>1, DataSound DEF Sound, ReferencesResolve, SidecarsResolve
  <2>2. ASSUME NEW c \in db.commits, CreateCheckpoint(c) \/ DeleteCheckpoint(c)
        PROVE  Extends(db, db')
    <3>1. PICK checkpoints : /\ DOMAIN checkpoints \subseteq DOMAIN db.checkpoints \cup {c}
                             /\ db' = [db EXCEPT !.checkpoints = checkpoints]
      <4>1. /\ DOMAIN Put(db.checkpoints, c, Replay(db)[c]) = DOMAIN db.checkpoints \cup {c}
            /\ DOMAIN Drop(db.checkpoints, c) = DOMAIN db.checkpoints \ {c}
        BY DEF Put, Drop
      <4> QED
        BY <2>2, <4>1 DEF CreateCheckpoint, DeleteCheckpoint
    <3> QED
      BY <3>1, CheckpointsSound DEF Sound, ReferencesResolve, SidecarsResolve
  <2> QED
    BY <1>8, <2>1, <2>2 DEF ChangeSidecars
<1>9. CASE Merge
  <2>1. ASSUME NEW s \in Session, NEW b \in Branch, NEW ours \in db.commits,
               NEW theirs \in db.commits, NEW expectHead \in BOOLEAN,
               MergeStart(s, b, ours, theirs, expectHead)
        PROVE  Extends(db, db')
    <3> DEFINE session == [target |-> b, ours |-> ours, theirs |-> theirs, revision |-> 1]
               sessions == Put(db.sessions, s, session)
    <3>1. /\ DOMAIN sessions = DOMAIN db.sessions \cup {s}
          /\ \A x \in DOMAIN sessions : sessions[x] = IF x = s THEN session ELSE db.sessions[x]
      BY DEF Put
    <3>2. IsSession(session) /\ {session.ours, session.theirs} \subseteq db.commits
      BY DEF IsSession
    <3>3. db' = [db EXCEPT !.sessions = sessions]
      BY <2>1 DEF MergeStart
    <3> HIDE DEF sessions, session
    <3> QED
      BY <3>1, <3>2, <3>3, SessionsSound
         DEF Sound, TablesTyped, ReferencesResolve, SessionsResolve
  <2>2. ASSUME NEW s \in DOMAIN db.sessions, NEW revision \in 1..MaxRevision,
               MergeResolve(s, revision)
        PROVE  Extends(db, db')
    <3> DEFINE old == db.sessions[s]
               session == [old EXCEPT !.revision = @ + 1]
               sessions == Put(db.sessions, s, session)
    <3>1. /\ DOMAIN sessions = DOMAIN db.sessions
          /\ \A x \in DOMAIN sessions : sessions[x] = IF x = s THEN session ELSE db.sessions[x]
      BY DEF Put
    <3>2. IsSession(old) /\ {old.ours, old.theirs} \subseteq db.commits
      BY DEF Sound, TablesTyped, ReferencesResolve, SessionsResolve
    <3>3. db' = [db EXCEPT !.sessions = sessions]
      BY <2>2 DEF MergeResolve
    <3> HIDE DEF old
    <3>4. IsSession(session)
      BY <3>2 DEF IsSession
    <3>5. session.ours = old.ours /\ session.theirs = old.theirs
      BY <3>2 DEF IsSession
    <3> HIDE DEF sessions, session
    <3> QED
      BY <3>1, <3>2, <3>3, <3>4, <3>5, SessionsSound
         DEF Sound, TablesTyped, ReferencesResolve, SessionsResolve
  <2>3. ASSUME NEW s \in DOMAIN db.sessions, NEW revision \in 1..MaxRevision,
               FinalizeUpToDate(s, revision) \/ MergeAbort(s, revision)
        PROVE  Extends(db, db')
    BY <2>3, CloseSessionSound DEF FinalizeUpToDate, MergeAbort
  <2>4. ASSUME NEW s \in DOMAIN db.sessions, NEW revision \in 1..MaxRevision,
               FinalizeFastForward(s, revision)
        PROVE  Extends(db, db')
    <3>1. db.sessions[s].target \in Branch /\ db.sessions[s].theirs \in db.commits
      BY DEF Sound, TablesTyped, IsSession, ReferencesResolve, SessionsResolve
    <3>2. Extends(db, MoveBranch(db, db.sessions[s].target, db.sessions[s].theirs))
      BY <3>1, MoveBranchSound
    <3> QED
      BY <2>4, <3>2, CloseSessionSound DEF FinalizeFastForward, Extends
  <2>5. ASSUME NEW s \in DOMAIN db.sessions, NEW revision \in 1..MaxRevision,
               NEW after \in Graph, NEW schema \in Schema, NEW stamp \in Stamp,
               FinalizeMerge(s, revision, after, schema, stamp)
        PROVE  Extends(db, db')
    <3> DEFINE session == db.sessions[s]
    <3>1. Extends(db, CloseSession(db, s))
      BY CloseSessionSound
    <3>2. session.target \in Branch
      BY DEF Sound, TablesTyped, IsSession
    <3>3. PICK layer : Publish(CloseSession(db, s), session.target,
                               <<session.ours, session.theirs>>, layer, schema, stamp)
      BY <2>5 DEF FinalizeMerge
    <3> HIDE DEF session
    <3> QED
      BY <3>1, <3>2, <3>3, ParentLists, PublishSound DEF Publish, Extends
  <2> QED
    BY <1>9, <2>1, <2>2, <2>3, <2>4, <2>5 DEF Merge
<1>10. CASE UNCHANGED db
  BY <1>10 DEF Extends
<1> QED
  BY <1>1, <1>2, <1>3, <1>4, <1>5, <1>6, <1>7, <1>8, <1>9, <1>10 DEF Next, AddCommit

-----------------------------------------------------------------------------
(* What the versions hold.                                                 *)

(* The branch b of D takes one new commit, a child of its head or, after a *)
(* squash, another commit with the head's Snapshot and schema.             *)
Grows(D, E, b, parents, layer, schema, stamp) ==
    /\ Appends(D, E, parents, layer, schema, stamp)
    /\ b \in DOMAIN D.branches
    /\ E.branches = Put(D.branches, b, NewCommit(parents, layer, schema, stamp))
    /\ \/ D.branches[b] = parents[1]
       \/ /\ Replay(D)[D.branches[b]] = Apply(Replay(D)[parents[1]], layer)
          /\ D.branches[b].schema = schema

Redecorates(D, E) ==
    /\ E.commits = D.commits
    /\ \A c \in DOMAIN E.checkpoints : E.checkpoints[c] = Replay(D)[c]

LEMMA FirstParent ==
    ASSUME NEW c, NEW d
    PROVE  /\ <<c>> # <<>> /\ 1 \in DOMAIN <<c>> /\ <<c>>[1] = c
           /\ <<c, d>> # <<>> /\ 1 \in DOMAIN <<c, d>> /\ <<c, d>>[1] = c
  OBVIOUS

(* A step that publishes one commit on top of a head.                      *)
LEMMA PublishGrows ==
    ASSUME NEW D, IsDatabase(D), Readable(D), NEW b, NEW parents, NEW layer \in Layer,
           NEW schema, NEW stamp, parents # <<>>, 1 \in DOMAIN parents,
           Publish(D, b, parents, layer, schema, stamp),
           Satisfies(Apply(Replay(D)[parents[1]], layer), schema)
    PROVE  Grows(D, db', b, parents, layer, schema, stamp)
<1>1. /\ CanCommit(PersistSchema(D, schema), b, parents, layer, schema)
      /\ db' = CommitChange(PersistSchema(D, schema), b, parents, layer, schema, stamp)
  BY DEF Publish
<1>2. /\ Appends(D, db', parents, layer, schema, stamp)
      /\ b \in DOMAIN D.branches /\ D.branches[b] = parents[1]
  BY <1>1, PublishAppends
<1>3. db'.branches = Put(D.branches, b, NewCommit(parents, layer, schema, stamp))
  BY <1>1, PublishFields
<1> QED
  BY <1>2, <1>3 DEF Grows

LEMMA NextReads ==
    ASSUME Sound(db), Readable(db), [Next]_db
    PROVE  \/ Gc
           \/ Rebase
           \/ Redecorates(db, db')
           \/ \E b, parents, layer, schema, stamp : Grows(db, db', b, parents, layer, schema, stamp)
<1> DEFINE r == Replay(db)
           Goal == \/ Redecorates(db, db')
                   \/ \E b, parents, layer, schema, stamp :
                          Grows(db, db', b, parents, layer, schema, stamp)
<1>a. IsDatabase(db)
  BY DEF Sound, TablesTyped
<1>b. /\ Resolve(db) = r
      /\ \A c \in db.commits : r[c] \in Graph /\ WellFormed(r[c]) /\ Satisfies(r[c], c.schema)
  BY ReadableFacts DEF Readable, Contents, Valid
<1>c. \A c \in DOMAIN db.checkpoints : db.checkpoints[c] = r[c]
  BY DEF Readable, Faithful
<1>d. \A g \in Graph : Apply(g, EmptyLayer) = g
  BY EmptyLayerKeeps
<1>e. EmptyLayer \in Layer
  BY EmptyLayerKeeps
<1> HIDE DEF r
<1>1. ASSUME NEW b \in Branch, NEW head \in db.commits, NEW stamp \in Stamp, NEW layer \in Layer,
             WriteQuery(b, head, layer, stamp)
      PROVE  Goal
  <2>1. Publish(db, b, <<head>>, layer, head.schema, stamp)
    BY <1>1 DEF WriteQuery
  <2>2. Satisfies(Apply(r[head], layer), head.schema)
    BY <1>1, <1>b DEF WriteQuery, ValidWrite
  <2>3. Grows(db, db', b, <<head>>, layer, head.schema, stamp)
    BY <1>a, <2>1, <2>2, FirstParent, PublishGrows DEF r
  <2> QED
    BY <2>3
<1>2. ASSUME NEW b \in Branch, NEW head \in db.commits, NEW stamp \in Stamp,
             NEW schema \in Schema, SchemaCommand(b, head, schema, stamp)
      PROVE  Goal
  <2>1. Publish(db, b, <<head>>, EmptyLayer, schema, stamp)
    BY <1>2 DEF SchemaCommand
  <2>2. Satisfies(r[head], schema \ head.schema) /\ Satisfies(r[head], head.schema)
    BY <1>2, <1>b DEF SchemaCommand, ValidSchemaChange
  <2>3. Satisfies(r[head], schema)
    BY <2>2 DEF Satisfies
  <2>4. Satisfies(Apply(r[head], EmptyLayer), schema)
    BY <1>b, <1>d, <2>3
  <2>5. Grows(db, db', b, <<head>>, EmptyLayer, schema, stamp)
    BY <1>a, <1>e, <2>1, <2>4, FirstParent, PublishGrows DEF r
  <2> QED
    BY <2>5
<1>3. ASSUME NEW b \in Branch, NEW head \in db.commits, NEW stamp \in Stamp,
             NEW withData \in BOOLEAN, CommitCreate(b, head, withData, stamp)
      PROVE  Goal
  <2> DEFINE commit == NewCommit(<<head>>, EmptyLayer, head.schema, stamp)
             D == CommitChange(db, b, <<head>>, EmptyLayer, head.schema, stamp)
             E == [D EXCEPT !.data = @ \cup {commit}]
  <2>1. /\ IsDatabase(D)
        /\ D.commits = db.commits \cup {commit}
        /\ D.branches = Put(db.branches, b, commit)
        /\ D.checkpoints = db.checkpoints
    BY <1>a, CommitChangeFields
  <2>2. db' = D \/ db' = E
    BY <1>3 DEF CommitCreate
  <2>3. b \in DOMAIN db.branches /\ db.branches[b] = head
    <3>1. CanCommit(db, b, <<head>>, EmptyLayer, head.schema)
      BY <1>3 DEF CommitCreate
    <3> QED
      BY <3>1, FirstParent DEF CanCommit
  <2> HIDE DEF D, commit
  <2>4. E.commits = D.commits /\ E.branches = D.branches /\ E.checkpoints = D.checkpoints
    BY <2>1 DEF IsDatabase
  <2> HIDE DEF E
  <2>5. /\ db'.commits = db.commits \cup {commit}
        /\ db'.branches = Put(db.branches, b, commit)
        /\ db'.checkpoints = db.checkpoints
    BY <2>1, <2>2, <2>4
  <2>6. Valid(Apply(r[head], EmptyLayer), head.schema)
    BY <1>b, <1>d DEF Valid
  <2>7. Appends(db, db', <<head>>, EmptyLayer, head.schema, stamp)
    BY <1>e, <2>5, <2>6, FirstParent DEF Appends, commit, r
  <2>8. Grows(db, db', b, <<head>>, EmptyLayer, head.schema, stamp)
    BY <2>3, <2>5, <2>7, FirstParent DEF Grows, commit
  <2> QED
    BY <2>8
<1>4. ASSUME NEW b \in Branch, NEW head \in db.commits, NEW stamp \in Stamp,
             NEW after \in Graph, NEW schema \in Schema,
             PatchApply(b, head, after, schema, stamp)
      PROVE  Goal
  <2>1. /\ Publish(db, b, <<head>>, LayerBetween(r[head], after), schema, stamp)
        /\ Satisfies(after, schema)
    BY <1>4, <1>b DEF PatchApply, ValidCandidate
  <2>2. LayerBetween(r[head], after) \in Layer /\ Apply(r[head], LayerBetween(r[head], after)) = after
    BY <1>b, LayerBetweenExact
  <2>3. Grows(db, db', b, <<head>>, LayerBetween(r[head], after), schema, stamp)
    BY <1>a, <2>1, <2>2, FirstParent, PublishGrows DEF r
  <2> QED
    BY <2>3
<1>5. ASSUME NEW b \in Branch, NEW head \in db.commits, NEW stamp \in Stamp,
             NEW commit \in db.commits, NEW parent \in Parents(commit),
             Revert(b, head, commit, parent, stamp)
      PROVE  Goal
  <2> DEFINE after == Patched(r[head], r[commit], r[parent])
             schema == PatchedSchema(head.schema, commit.schema, parent.schema)
  <2>1. parent \in db.commits
    BY DEF Sound, ReferencesResolve, HistoryComplete
  <2>2. after \in Graph
    BY <1>b, <2>1 DEF Patched, Graph
  <2>3. /\ Publish(db, b, <<head>>, LayerBetween(r[head], after), schema, stamp)
        /\ Satisfies(after, schema)
    BY <1>5, <1>b DEF Revert, ValidCandidate
  <2> HIDE DEF after, schema
  <2>4. LayerBetween(r[head], after) \in Layer /\ Apply(r[head], LayerBetween(r[head], after)) = after
    BY <1>b, <2>2, LayerBetweenExact
  <2>5. Grows(db, db', b, <<head>>, LayerBetween(r[head], after), schema, stamp)
    BY <1>a, <2>3, <2>4, FirstParent, PublishGrows DEF r
  <2> QED
    BY <2>5
<1>6. ASSUME NEW b \in Branch, NEW head \in db.commits, NEW stamp \in Stamp,
             NEW since \in db.commits, Squash(b, head, since, stamp)
      PROVE  Goal
  <2> DEFINE D == MoveBranch(db, b, since)
             layer == LayerBetween(r[since], r[head])
  <2>1. /\ Publish(D, b, <<since>>, layer, head.schema, stamp)
        /\ b \in DOMAIN db.branches /\ db.branches[b] = head
    BY <1>6, <1>b DEF Squash, CanMoveBranch
  <2>2. layer \in Layer /\ Apply(r[since], layer) = r[head]
    BY <1>b, LayerBetweenExact
  <2>3. /\ IsDatabase(D) /\ D.commits = db.commits /\ D.checkpoints = db.checkpoints
        /\ D.branches = Put(db.branches, b, since)
    BY <1>a DEF MoveBranch, IsDatabase
  <2> HIDE DEF D, layer
  <2>4. Readable(D) /\ Replay(D) = r
    BY <1>c, <2>3, RedecorateReadable DEF r
  <2>5. Satisfies(Apply(r[since], layer), head.schema)
    BY <1>b, <2>2
  <2>6. Grows(D, db', b, <<since>>, layer, head.schema, stamp)
    BY <2>1, <2>2, <2>3, <2>4, <2>5, FirstParent, PublishGrows
  <2>7. Appends(db, db', <<since>>, layer, head.schema, stamp)
    BY <2>3, <2>4, <2>6 DEF Grows, Appends, r
  <2>8. db'.branches = Put(db.branches, b, NewCommit(<<since>>, layer, head.schema, stamp))
    BY <2>3, <2>6 DEF Grows, Put
  <2>9. Grows(db, db', b, <<since>>, layer, head.schema, stamp)
    BY <2>1, <2>2, <2>7, <2>8, FirstParent DEF Grows, r
  <2> QED
    BY <2>9
<1>7. CASE ChangeRefs
  <2>1. db'.commits = db.commits /\ db'.checkpoints = db.checkpoints
    BY <1>a, <1>7 DEF ChangeRefs, CreateBranch, DeleteBranch, ResetBranch, CreateTag, MoveTag,
                      DeleteTag, MoveBranch, IsDatabase
  <2> QED
    BY <1>c, <2>1 DEF Redecorates, r
<1>8. CASE ChangeSidecars
  <2>1. ASSUME NEW c \in db.commits, SetCommitData(c) \/ ClearCommitData(c)
        PROVE  Goal
    <3>1. db'.commits = db.commits /\ db'.checkpoints = db.checkpoints
      BY <1>a, <2>1 DEF SetCommitData, ClearCommitData, IsDatabase
    <3> QED
      BY <1>c, <3>1 DEF Redecorates, r
  <2>2. ASSUME NEW c \in db.commits, CreateCheckpoint(c)
        PROVE  Goal
    <3>1. db'.commits = db.commits /\ db'.checkpoints = Put(db.checkpoints, c, r[c])
      BY <1>a, <2>2 DEF CreateCheckpoint, IsDatabase, r
    <3> QED
      BY <1>c, <3>1 DEF Redecorates, Put, r
  <2>3. ASSUME NEW c \in db.commits, DeleteCheckpoint(c)
        PROVE  Goal
    <3>1. db'.commits = db.commits /\ db'.checkpoints = Drop(db.checkpoints, c)
      BY <1>a, <2>3 DEF DeleteCheckpoint, IsDatabase
    <3> QED
      BY <1>c, <3>1 DEF Redecorates, Drop, r
  <2> QED
    BY <1>8, <2>1, <2>2, <2>3 DEF ChangeSidecars
<1>9. CASE Merge
  <2>1. ASSUME NEW s, NEW b, NEW ours, NEW theirs, NEW expectHead,
               MergeStart(s, b, ours, theirs, expectHead)
        PROVE  Goal
    <3>1. db'.commits = db.commits /\ db'.checkpoints = db.checkpoints
      BY <1>a, <2>1 DEF MergeStart, IsDatabase
    <3> QED
      BY <1>c, <3>1 DEF Redecorates, r
  <2>2. ASSUME NEW s, NEW revision,
               \/ MergeResolve(s, revision) \/ FinalizeUpToDate(s, revision)
               \/ FinalizeFastForward(s, revision) \/ MergeAbort(s, revision)
        PROVE  Goal
    <3>1. db'.commits = db.commits /\ db'.checkpoints = db.checkpoints
      BY <1>a, <2>2 DEF MergeResolve, FinalizeUpToDate, FinalizeFastForward, MergeAbort,
                        CloseSession, MoveBranch, IsDatabase
    <3> QED
      BY <1>c, <3>1 DEF Redecorates, r
  <2>3. ASSUME NEW s \in DOMAIN db.sessions, NEW revision \in 1..MaxRevision,
               NEW after \in Graph, NEW schema \in Schema, NEW stamp \in Stamp,
               FinalizeMerge(s, revision, after, schema, stamp)
        PROVE  Goal
    <3> DEFINE session == db.sessions[s]
               D == CloseSession(db, s)
               parents == <<session.ours, session.theirs>>
               layer == LayerBetween(r[session.ours], after)
    <3>1. /\ Publish(D, session.target, parents, layer, schema, stamp)
          /\ Satisfies(after, schema)
      BY <2>3, <1>b DEF FinalizeMerge, ValidCandidate
    <3>2. session.ours \in db.commits
      BY DEF Sound, ReferencesResolve, SessionsResolve
    <3>3. layer \in Layer /\ Apply(r[session.ours], layer) = after
      BY <1>b, <3>2, LayerBetweenExact
    <3>4. /\ IsDatabase(D) /\ D.commits = db.commits /\ D.checkpoints = db.checkpoints
          /\ D.branches = db.branches
      BY <1>a DEF CloseSession, IsDatabase
    <3>5. /\ parents # <<>> /\ 1 \in DOMAIN parents /\ parents[1] = session.ours
      OBVIOUS
    <3> HIDE DEF D, layer, session, parents
    <3>6. Readable(D) /\ Replay(D) = r
      BY <1>c, <3>4, RedecorateReadable DEF r
    <3>7. Grows(D, db', session.target, parents, layer, schema, stamp)
      BY <3>1, <3>3, <3>4, <3>5, <3>6, PublishGrows
    <3>8. Grows(db, db', session.target, parents, layer, schema, stamp)
      BY <3>4, <3>6, <3>7 DEF Grows, Appends, r
    <3> QED
      BY <3>8
  <2> QED
    BY <1>9, <2>1, <2>2, <2>3 DEF Merge
<1>10. CASE UNCHANGED db
  BY <1>c, <1>10 DEF Redecorates, r
<1> QED
  BY <1>1, <1>2, <1>3, <1>4, <1>5, <1>6, <1>7, <1>8, <1>9, <1>10 DEF Next, AddCommit

(* The second inductive invariant: what the versions hold.                 *)
Truthful(D) == Sound(D) /\ Readable(D)

(* A step leaves a readable database in which the commits that stay hold   *)
(* what they held.                                                         *)
LEMMA NextReadable ==
    ASSUME Truthful(db), [Next]_db
    PROVE  /\ Readable(db')
           /\ \A c \in db.commits \cap db'.commits : Replay(db')[c] = Replay(db)[c]
<1>1. CASE Gc
  BY <1>1, CollectGarbageReadable DEF Gc, Truthful
<1>2. CASE Rebase
  BY <1>2, RebaseKeeps DEF Rebases, Truthful
<1>3. CASE Redecorates(db, db')
  BY <1>3, RedecorateReadable DEF Redecorates, Truthful
<1>4. ASSUME NEW b, NEW parents, NEW layer, NEW schema, NEW stamp,
             Grows(db, db', b, parents, layer, schema, stamp)
      PROVE  /\ Readable(db')
             /\ \A c \in db.commits \cap db'.commits : Replay(db')[c] = Replay(db)[c]
  <2>1. DOMAIN db.checkpoints \subseteq db.commits
    BY DEF Truthful, Sound, ReferencesResolve, SidecarsResolve
  <2>2. Appends(db, db', parents, layer, schema, stamp)
    BY <1>4 DEF Grows
  <2> QED
    BY <2>1, <2>2, AppendReadable DEF Truthful
<1> QED
  BY <1>1, <1>2, <1>3, <1>4, NextReads DEF Truthful

LEMMA NextKeeps ==
    ASSUME Truthful(db), [Next]_db
    PROVE  Gc \/ Extends(db, db')
  BY NextExtends, RebaseKeeps DEF Rebases, Truthful

LEMMA NextSound ==
    ASSUME Truthful(db), [Next]_db
    PROVE  Sound(db')
  BY NextKeeps, CollectGarbageSound DEF Gc, Extends, Truthful

LEMMA TruthfulInductive == Spec => []Truthful(db)
<1>1. Init => Truthful(db)
  BY InitSound, InitialReadable DEF Init, Truthful
<1>2. Truthful(db) /\ [Next]_db => Truthful(db)'
  BY NextSound, NextReadable DEF Truthful
<1> QED
  BY <1>1, <1>2, PTL DEF Spec

-----------------------------------------------------------------------------
(* The properties.                                                         *)

(* Every version operation leaves tables of the declared shape.            *)
THEOREM TypeCorrect == Spec => []TypeOK
<1>1. Truthful(db) => TypeOK
  BY DEF Truthful, Sound, TypeOK
<1> QED
  BY <1>1, TruthfulInductive, PTL

(* No sequence of commits, merges, ref changes and garbage collections     *)
(* leaves a branch, tag, merge session, parent or sidecar that points at a *)
(* row that is gone.                                                       *)
THEOREM ReferencesAlwaysResolve == Spec => []NothingDangles
<1>1. Truthful(db) => NothingDangles
  BY DEF Truthful, Sound, NothingDangles
<1> QED
  BY <1>1, TruthfulInductive, PTL

(* collect_garbage may skip the Layer and Schema tables when every commit  *)
(* is reachable: they never hold a row no commit uses.                     *)
THEOREM NoRowIsOrphaned == Spec => []NothingOrphaned
<1>1. Truthful(db) => NothingOrphaned
  BY DEF Truthful, Sound, NothingOrphaned
<1> QED
  BY <1>1, TruthfulInductive, PTL

(* No step deletes a commit that a branch, a tag or a merge session can    *)
(* reach, garbage collection included.                                     *)
THEOREM ReachableHistoryKept == Spec => PublishedHistoryKept
<1>1. Truthful(db) /\ [Next]_db =>
        [\A c \in Reachable(db, GcRoots(db)) : c \in db'.commits]_db
  <2> SUFFICES ASSUME Truthful(db), [Next]_db
               PROVE  Reachable(db, GcRoots(db)) \subseteq db'.commits
    OBVIOUS
  <2>1. CASE Gc
    BY <2>1, CollectGarbageKeeps DEF Gc, Truthful
  <2>2. CASE Extends(db, db')
    BY <2>2, ReachableFacts, GcRootsResolve DEF Extends, Truthful, Sound, ReferencesResolve
  <2> QED
    BY <2>1, <2>2, NextKeeps
<1> QED
  BY <1>1, TruthfulInductive, PTL DEF Spec, PublishedHistoryKept

(* Every commit resolves to a well-formed Snapshot that satisfies its      *)
(* schema, and reading through checkpoints gives what a replay from the    *)
(* root gives.                                                             *)
THEOREM SnapshotsAlwaysValid == Spec => []SnapshotsValid
<1>1. Truthful(db) => SnapshotsValid
  BY ReadableFacts DEF Truthful, Readable, Contents, Valid, SnapshotsValid, ValidCandidate
<1> QED
  BY <1>1, TruthfulInductive, PTL

(* A commit resolves to the same Snapshot as long as it exists.            *)
THEOREM CommitsNeverChange == Spec => SnapshotsImmutable
<1>1. Truthful(db) /\ [Next]_db => [KeepsSnapshots]_db
  <2> SUFFICES ASSUME Truthful(db), [Next]_db
               PROVE  KeepsSnapshots
    OBVIOUS
  <2>1. Readable(db) /\ Readable(db')
    BY NextReadable DEF Truthful
  <2>2. Resolve(db) = Replay(db) /\ Resolve(db') = Replay(db')
    BY <2>1, ReadableFacts
  <2> QED
    BY <2>2, NextReadable DEF KeepsSnapshots
<1> QED
  BY <1>1, TruthfulInductive, PTL DEF Spec, SnapshotsImmutable

(* A head that is published on a branch is a child of the head it replaces *)
(* or, after a squash, has its Snapshot and schema, or, after a rebase,    *)
(* ends the replay of the whole chain above the new base.                  *)
THEOREM UpdatesAreNotLost == Spec => NoLostUpdate
<1>1. Truthful(db) /\ [Next]_db => [KeepsUpdates]_db
  <2> SUFFICES ASSUME Truthful(db), [Next]_db,
                      NEW b \in DOMAIN db.branches \cap DOMAIN db'.branches,
                      NEW old, old = db.branches[b],
                      NEW new, new = db'.branches[b], new \notin db.commits
               PROVE  \/ old \in Parents(new)
                      \/ VersionAt(db', new) = VersionAt(db, old)
                      \/ \E onto, boundary \in db.commits : ReplaysOnto(old, new, onto, boundary)
    BY DEF KeepsUpdates
  <2>1. Sound(db) /\ Sound(db') /\ Readable(db) /\ Readable(db')
    BY NextSound, NextReadable DEF Truthful
  <2>2. /\ \A x \in DOMAIN db.branches : db.branches[x] \in db.commits
        /\ \A x \in DOMAIN db'.branches : db'.branches[x] \in db'.commits
        /\ DOMAIN db.checkpoints \subseteq db.commits
    BY <2>1 DEF Sound, ReferencesResolve, BranchesResolve, SidecarsResolve
  <2>3. CASE Gc
    BY <2>1, <2>2, <2>3, CollectGarbageReadable DEF Gc
  <2>4. CASE Redecorates(db, db')
    BY <2>2, <2>4 DEF Redecorates
  <2>5. ASSUME NEW target, NEW parents, NEW layer, NEW schema, NEW stamp,
               Grows(db, db', target, parents, layer, schema, stamp)
        PROVE  old \in Parents(new) \/ VersionAt(db', new) = VersionAt(db, old)
    <3> DEFINE commit == NewCommit(parents, layer, schema, stamp)
    <3>1. /\ Appends(db, db', parents, layer, schema, stamp)
          /\ new = IF b = target THEN commit ELSE old
      BY <2>5 DEF Grows, Put
    <3>2. b = target /\ new = commit
      BY <2>2, <3>1
    <3>3. commit.parents = parents /\ commit.schema = schema
      BY DEF NewCommit
    <3>4. Resolve(db) = Replay(db) /\ Resolve(db') = Replay(db')
      BY <2>1, ReadableFacts
    <3>5. Replay(db')[commit] = Apply(Replay(db)[parents[1]], layer)
      BY <2>1, <2>2, <3>1, AppendReadable
    <3> HIDE DEF commit
    <3>6. CASE old = parents[1]
      <4>1. 1 \in DOMAIN parents
        BY <3>1 DEF Appends
      <4> QED
        BY <3>2, <3>3, <3>6, <4>1 DEF Parents
    <3>7. CASE /\ Replay(db)[old] = Apply(Replay(db)[parents[1]], layer)
               /\ old.schema = schema
      BY <3>2, <3>3, <3>4, <3>5, <3>7 DEF VersionAt
    <3> QED
      BY <2>5, <3>2, <3>6, <3>7 DEF Grows
  <2>6. CASE Rebase
    <3>1. PICK target \in Branch, onto \in db.commits :
              target \in DOMAIN db.branches /\ Rebases(db, db', target, db.branches[target], onto)
      BY <2>1, <2>6, RebaseKeeps
    <3>2. new = IF b = target THEN db'.branches[target] ELSE old
      BY <3>1 DEF Rebases, Put
    <3>3. b = target
      BY <2>2, <3>2
    <3>4. PICK boundary \in db.commits : Replants(db, db', b, old, onto, boundary)
      BY <3>1, <3>3 DEF Rebases
    <3>5. ReplaysOnto(old, new, onto, boundary)
      BY <3>4 DEF Replants, ReplaysOnto
    <3> QED
      BY <3>5
  <2> QED
    BY <2>1, <2>3, <2>4, <2>5, <2>6, NextReads
<1> QED
  BY <1>1, TruthfulInductive, PTL DEF Spec, NoLostUpdate

(* Only finalize and abort close a merge session.                          *)
LEMMA SessionsClose ==
    ASSUME Truthful(db), [Next]_db, NEW s \in DOMAIN db.sessions \ DOMAIN db'.sessions
    PROVE  \E revision \in 1..MaxRevision :
               \/ FinalizeUpToDate(s, revision)
               \/ FinalizeFastForward(s, revision)
               \/ \E after \in Graph, schema \in Schema, stamp \in Stamp :
                      FinalizeMerge(s, revision, after, schema, stamp)
               \/ MergeAbort(s, revision)
<1>a. IsDatabase(db)
  BY DEF Truthful, Sound, TablesTyped
<1>1. ASSUME NEW D, IsDatabase(D), NEW b, NEW parents, NEW layer, NEW schema, NEW stamp,
             Publish(D, b, parents, layer, schema, stamp)
      PROVE  db'.sessions = D.sessions
  BY <1>1, PublishFields DEF Publish
<1>2. CASE AddCommit
  <2>1. ASSUME NEW b, NEW head, NEW withData, NEW stamp, CommitCreate(b, head, withData, stamp)
        PROVE  db'.sessions = db.sessions
    <3> DEFINE D == CommitChange(db, b, <<head>>, EmptyLayer, head.schema, stamp)
    <3>1. IsDatabase(D) /\ D.sessions = db.sessions
      BY <1>a, CommitChangeFields
    <3> HIDE DEF D
    <3>2. \E data : db' = [D EXCEPT !.data = data]
      <4>1. D = [D EXCEPT !.data = D.data]
        BY <3>1 DEF IsDatabase
      <4> QED
        BY <2>1, <4>1 DEF CommitCreate, D
    <3> QED
      BY <3>1, <3>2 DEF IsDatabase
  <2>2. ASSUME NEW b, NEW head, NEW since, NEW stamp, Squash(b, head, since, stamp)
        PROVE  db'.sessions = db.sessions
    <3> DEFINE D == MoveBranch(db, b, since)
    <3>1. IsDatabase(D) /\ D.sessions = db.sessions
      BY <1>a DEF MoveBranch, IsDatabase
    <3> HIDE DEF D
    <3> QED
      BY <1>1, <2>2, <3>1 DEF Squash, D
  <2>3. ASSUME NEW b, NEW head, NEW stamp,
               \/ \E layer : WriteQuery(b, head, layer, stamp)
               \/ \E schema : SchemaCommand(b, head, schema, stamp)
               \/ \E after, schema : PatchApply(b, head, after, schema, stamp)
               \/ \E commit, parent : Revert(b, head, commit, parent, stamp)
        PROVE  db'.sessions = db.sessions
    <3>1. PICK parents, layer, schema : Publish(db, b, parents, layer, schema, stamp)
      BY <2>3 DEF WriteQuery, SchemaCommand, PatchApply, Revert
    <3> QED
      BY <1>a, <1>1, <3>1
  <2> QED
    BY <1>2, <2>1, <2>2, <2>3 DEF AddCommit
<1>3. CASE ChangeRefs \/ ChangeSidecars
  <2>1. db'.sessions = db.sessions
    BY <1>a, <1>3 DEF ChangeRefs, CreateBranch, DeleteBranch, ResetBranch, CreateTag, MoveTag,
                      DeleteTag, MoveBranch, ChangeSidecars, SetCommitData, ClearCommitData,
                      CreateCheckpoint, DeleteCheckpoint, IsDatabase
  <2> QED
    BY <2>1
<1>4. CASE Gc
  <2>1. db'.sessions = db.sessions
    BY <1>a, <1>4 DEF Gc, CollectGarbage, IsDatabase
  <2> QED
    BY <2>1
<1>5. CASE Merge
  <2>1. ASSUME NEW x, NEW b, NEW ours, NEW theirs, NEW expectHead,
               MergeStart(x, b, ours, theirs, expectHead)
        PROVE  FALSE
    BY <1>a, <2>1 DEF MergeStart, IsDatabase, Put
  <2>2. ASSUME NEW x \in DOMAIN db.sessions, NEW revision, MergeResolve(x, revision)
        PROVE  FALSE
    BY <1>a, <2>2 DEF MergeResolve, IsDatabase, Put
  <2>3. ASSUME NEW x, NEW revision,
               FinalizeUpToDate(x, revision) \/ MergeAbort(x, revision)
        PROVE  x = s
    BY <1>a, <2>3 DEF FinalizeUpToDate, MergeAbort, CloseSession, IsDatabase, Drop
  <2>4. ASSUME NEW x, NEW revision, FinalizeFastForward(x, revision)
        PROVE  x = s
    BY <1>a, <2>4 DEF FinalizeFastForward, MoveBranch, CloseSession, IsDatabase, Drop
  <2>5. ASSUME NEW x, NEW revision, NEW after, NEW schema, NEW stamp,
               FinalizeMerge(x, revision, after, schema, stamp)
        PROVE  x = s
    <3> DEFINE D == CloseSession(db, x)
    <3>1. IsDatabase(D) /\ D.sessions = Drop(db.sessions, x)
      BY <1>a DEF CloseSession, IsDatabase
    <3> HIDE DEF D
    <3>2. db'.sessions = D.sessions
      BY <1>1, <2>5, <3>1 DEF FinalizeMerge, D
    <3> QED
      BY <3>1, <3>2 DEF Drop
  <2> QED
    BY <1>5, <2>1, <2>2, <2>3, <2>4, <2>5 DEF Merge
<1>6. CASE Rebase
  BY <1>6, RebaseKeeps DEF Rebases, Truthful
<1> QED
  BY <1>2, <1>3, <1>4, <1>5, <1>6 DEF Next

(* A merge session that closes and moves its branch leaves both merged     *)
(* versions in the history of the branch, fast-forward and merge commit    *)
(* alike.                                                                  *)
THEOREM BothSidesKept == Spec => MergeKeepsBothSides
<1>1. Truthful(db) /\ [Next]_db => [KeepsBothSides]_db
  <2> SUFFICES ASSUME Truthful(db), [Next]_db,
                      NEW s \in DOMAIN db.sessions \ DOMAIN db'.sessions,
                      NEW session, session = db.sessions[s],
                      session.target \in DOMAIN db.branches,
                      db'.branches[session.target] # db.branches[session.target]
               PROVE  /\ db.branches[session.target] = session.ours
                      /\ {session.ours, session.theirs}
                             \subseteq Reachable(db', {db'.branches[session.target]})
    BY DEF KeepsBothSides
  <2>a. IsDatabase(db) /\ HistoryComplete(db) /\ {session.ours, session.theirs} \subseteq db.commits
    BY DEF Truthful, Sound, TablesTyped, ReferencesResolve, SessionsResolve
  <2>b. Sound(db')
    BY NextSound
  <2>1. ASSUME NEW revision, FinalizeUpToDate(s, revision) \/ MergeAbort(s, revision)
        PROVE  FALSE
    BY <2>a, <2>1 DEF FinalizeUpToDate, MergeAbort, CloseSession, IsDatabase
  <2>2. ASSUME NEW revision, FinalizeFastForward(s, revision)
        PROVE  /\ db.branches[session.target] = session.ours
               /\ {session.ours, session.theirs}
                      \subseteq Reachable(db', {db'.branches[session.target]})
    <3>1. /\ db.branches[session.target] = session.ours
          /\ session.ours \in Reachable(db, {session.theirs})
          /\ db' = CloseSession(MoveBranch(db, session.target, session.theirs), s)
      BY <2>2 DEF FinalizeFastForward, CanFinalize
    <3>2. db'.commits = db.commits /\ db'.branches = Put(db.branches, session.target, session.theirs)
      BY <2>a, <3>1 DEF CloseSession, MoveBranch, IsDatabase
    <3>3. db'.branches[session.target] = session.theirs
      BY <3>2 DEF Put
    <3>4. Reachable(db', {session.theirs}) = Reachable(db, {session.theirs})
      BY <3>2, SameReading
    <3>5. session.theirs \in Reachable(db, {session.theirs})
      BY <2>a, ReachableFacts
    <3> QED
      BY <3>1, <3>3, <3>4, <3>5
  <2>3. ASSUME NEW revision, NEW after, NEW schema, NEW stamp,
               FinalizeMerge(s, revision, after, schema, stamp)
        PROVE  /\ db.branches[session.target] = session.ours
               /\ {session.ours, session.theirs}
                      \subseteq Reachable(db', {db'.branches[session.target]})
    <3> DEFINE D == CloseSession(db, s)
               parents == <<session.ours, session.theirs>>
               layer == LayerBetween(Resolve(db)[session.ours], after)
               commit == NewCommit(parents, layer, schema, stamp)
    <3>1. /\ db.branches[session.target] = session.ours
          /\ Publish(D, session.target, parents, layer, schema, stamp)
      BY <2>3 DEF FinalizeMerge, CanFinalize
    <3>2. IsDatabase(D) /\ D.branches = db.branches
      BY <2>a DEF CloseSession, IsDatabase
    <3> HIDE DEF D, layer
    <3>3. /\ db'.commits = D.commits \cup {commit}
          /\ db'.branches = Put(D.branches, session.target, commit)
      BY <3>1, <3>2, PublishFields DEF Publish
    <3>4. Parents(commit) = {session.ours, session.theirs}
      BY DEF Parents, NewCommit
    <3> HIDE DEF commit
    <3>5. db'.branches[session.target] = commit /\ commit \in db'.commits
      BY <3>3 DEF Put
    <3>6. HistoryComplete(db')
      BY <2>b DEF Sound, ReferencesResolve
    <3>7. /\ commit \in Reachable(db', {commit})
          /\ \A c \in Reachable(db', {commit}) : Parents(c) \subseteq Reachable(db', {commit})
      <4> DEFINE E == db'
                 roots == {commit}
      <4>1. HistoryComplete(E) /\ roots \subseteq E.commits
        BY <3>5, <3>6
      <4> HIDE DEF E, roots
      <4>2. /\ roots \subseteq Reachable(E, roots)
            /\ \A c \in Reachable(E, roots) : Parents(c) \subseteq Reachable(E, roots)
        BY <4>1, ReachableFacts
      <4> QED
        BY <4>2 DEF E, roots
    <3> QED
      BY <3>1, <3>4, <3>5, <3>7
  <2> QED
    BY <2>1, <2>2, <2>3, SessionsClose
<1> QED
  BY <1>1, TruthfulInductive, PTL DEF Spec, MergeKeepsBothSides
=============================================================================
